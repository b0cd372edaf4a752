----------------------- MODULE DiagnosticsWriterProofs -----------------------
(***************************************************************************)
(* For every capacity, set of callers and bound: the diagnostics writer    *)
(* shares no slot between its threads, never pops an empty lane, is        *)
(* drained when it says so, and keeps the promise of DiagnosticsLog.       *)
(***************************************************************************)
EXTENDS DiagnosticsWriter, SequenceTheorems, TLAPS

-----------------------------------------------------------------------------
(* A ring is a first-in first-out queue of its capacity: storing a slot    *)
(* changes nothing a reader sees, publishing the write index appends the   *)
(* stored record, publishing the read index removes the oldest one.        *)

\* An index moves on by one and wraps after the last slot.
LEMMA NextIndexWraps ==
    ASSUME NEW c \in Nat \ {0}, NEW i \in Slots(c)
    PROVE  (i + 1) % (c + 1) = IF i = c THEN 0 ELSE i + 1
BY DEF Slots

\* Where the records of a ring are: between the two indexes, never in the slot
\* the producer stores next.
LEMMA RingShape ==
    ASSUME NEW c \in Nat \ {0}, NEW Record, NEW ring \in Rings(c, Record)
    PROVE  /\ ring.capacity = c /\ ring.read \in 0 .. c /\ ring.write \in 0 .. c
           /\ Depth(ring) \in 0 .. c
           /\ Depth(ring) = 0 <=> RingIsEmpty(ring)
           /\ SlotAt(ring, 1) = ring.read
           /\ \A k \in 1 .. Depth(ring) :
                 SlotAt(ring, k) \in 0 .. c /\ SlotAt(ring, k) # ring.write
<1>1. ring.capacity = c /\ ring.read \in 0 .. c /\ ring.write \in 0 .. c
  BY DEF Rings, Slots
<1>2. Depth(ring) \in 0 .. c /\ (Depth(ring) = 0 <=> RingIsEmpty(ring))
  BY <1>1 DEF Depth, RingIsEmpty
<1>3. SlotAt(ring, 1) = ring.read
  BY <1>1 DEF SlotAt
<1>4. ASSUME NEW k \in 1 .. Depth(ring)
      PROVE  SlotAt(ring, k) \in 0 .. c /\ SlotAt(ring, k) # ring.write
  <2>1. CASE ring.write >= ring.read
    BY <1>1, <2>1 DEF SlotAt, Depth
  <2>2. CASE ring.write < ring.read
    BY <1>1, <2>2 DEF SlotAt, Depth
  <2> QED BY <1>1, <2>1, <2>2
<1> QED BY <1>1, <1>2, <1>3, <1>4

LEMMA ContentsType ==
    ASSUME NEW c \in Nat \ {0}, NEW Record, NEW ring \in Rings(c, Record)
    PROVE  /\ Contents(ring) \in Seq(Record)
           /\ Len(Contents(ring)) = Depth(ring)
           /\ Contents(ring) = <<>> <=> RingIsEmpty(ring)
<1>1. \A k \in 1 .. Depth(ring) : ring.slots[SlotAt(ring, k)] \in Record
  BY RingShape DEF Rings, Slots
<1>2. Depth(ring) \in Nat
  BY RingShape
<1>3. Contents(ring) \in Seq(Record) /\ Len(Contents(ring)) = Depth(ring)
  BY <1>1, <1>2 DEF Contents
<1>4. Contents(ring) = <<>> <=> Len(Contents(ring)) = 0
  BY <1>3
<1> QED BY <1>3, <1>4, RingShape

\* A store is invisible until its index is published (TryPush,
\* AsyncDiagnosticsWriter.cpp:360-369).
LEMMA StoreIsInvisible ==
    ASSUME NEW c \in Nat \ {0}, NEW Record, NEW ring \in Rings(c, Record),
           NEW r \in Record
    PROVE  /\ WithSlot(ring, r) \in Rings(c, Record)
           /\ Contents(WithSlot(ring, r)) = Contents(ring)
           /\ WithSlot(ring, r).slots[ring.write] = r
<1> DEFINE new == WithSlot(ring, r)
<1>1. /\ new.capacity = ring.capacity /\ new.read = ring.read /\ new.write = ring.write
      /\ new.slots = [ring.slots EXCEPT ![ring.write] = r]
  BY DEF WithSlot, Rings
<1>6. new \in Rings(c, Record)
  <2>1. new = [ring EXCEPT !.slots = [ring.slots EXCEPT ![ring.write] = r]]
    BY DEF WithSlot, Rings
  <2>2. [ring.slots EXCEPT ![ring.write] = r] \in [Slots(c) -> Record]
    BY DEF Rings
  <2> QED BY <2>1, <2>2 DEF Rings
<1>2. Depth(new) = Depth(ring) /\ \A k \in 1 .. Depth(ring) : SlotAt(new, k) = SlotAt(ring, k)
  BY <1>1 DEF Depth, SlotAt
<1>3. \A k \in 1 .. Depth(ring) : new.slots[SlotAt(new, k)] = ring.slots[SlotAt(ring, k)]
  <2>1. ring.slots \in [0 .. c -> Record]
    BY DEF Rings, Slots
  <2>2. \A i \in 0 .. c : i # ring.write => new.slots[i] = ring.slots[i]
    BY <1>1, <2>1
  <2>3. \A k \in 1 .. Depth(ring) : SlotAt(ring, k) \in 0 .. c /\ SlotAt(ring, k) # ring.write
    BY RingShape
  <2> QED BY <1>2, <2>2, <2>3
<1>4. Contents(new) = Contents(ring)
  BY <1>2, <1>3 DEF Contents
<1>5. new.slots[ring.write] = r
  BY <1>1, RingShape DEF Rings, Slots
<1> QED BY <1>4, <1>5, <1>6

LEMMA PublishAppends ==
    ASSUME NEW c \in Nat \ {0}, NEW Record, NEW ring \in Rings(c, Record),
           ~RingIsFull(ring)
    PROVE  /\ WithPublishedWrite(ring) \in Rings(c, Record)
           /\ Contents(WithPublishedWrite(ring))
                 = Append(Contents(ring), ring.slots[ring.write])
           /\ Depth(WithPublishedWrite(ring)) = Depth(ring) + 1
<1> DEFINE new == WithPublishedWrite(ring)
           D == Depth(ring)
<1>1. ring.capacity = c /\ ring.read \in 0 .. c /\ ring.write \in 0 .. c
  BY RingShape
<1>2. NextIndex(ring, ring.write) = IF ring.write = c THEN 0 ELSE ring.write + 1
  BY <1>1, NextIndexWraps DEF NextIndex, Slots
<1>3. /\ new.capacity = c /\ new.read = ring.read /\ new.slots = ring.slots
      /\ new.write = (IF ring.write = c THEN 0 ELSE ring.write + 1)
      /\ new \in Rings(c, Record)
  BY <1>1, <1>2 DEF WithPublishedWrite, Rings, Slots
<1>4. new.write # ring.read
  BY <1>2, <1>3 DEF RingIsFull
<1>5. Depth(new) = D + 1 /\ D \in Nat
  BY <1>1, <1>3, <1>4 DEF Depth
<1>6. \A k \in 1 .. D : SlotAt(new, k) = SlotAt(ring, k)
  BY <1>1, <1>3 DEF SlotAt
<1>7. SlotAt(new, D + 1) = ring.write
  BY <1>1, <1>3 DEF SlotAt, Depth
<1>8. Contents(new) = [k \in 1 .. D + 1 |-> IF k = D + 1 THEN ring.slots[ring.write]
                                            ELSE Contents(ring)[k]]
  <2>1. Contents(new) = [k \in 1 .. D + 1 |-> ring.slots[SlotAt(new, k)]]
    BY <1>3, <1>5 DEF Contents
  <2>2. \A k \in 1 .. D : Contents(ring)[k] = ring.slots[SlotAt(ring, k)]
    BY DEF Contents
  <2>3. \A k \in 1 .. D + 1 : k = D + 1 \/ k \in 1 .. D
    BY <1>5
  <2>4. \A k \in 1 .. D + 1 : ring.slots[SlotAt(new, k)]
            = IF k = D + 1 THEN ring.slots[ring.write] ELSE Contents(ring)[k]
    BY <1>5, <1>6, <1>7, <2>2, <2>3
  <2> QED BY <2>1, <2>4
<1>9. Contents(ring) \in Seq(Record) /\ Len(Contents(ring)) = D
  BY ContentsType
<1>10. Append(Contents(ring), ring.slots[ring.write])
         = [k \in 1 .. D + 1 |-> IF k = D + 1 THEN ring.slots[ring.write]
                                 ELSE Contents(ring)[k]]
  BY <1>9, <1>5
<1> QED BY <1>3, <1>5, <1>8, <1>10

LEMMA ReleaseTakesHead ==
    ASSUME NEW c \in Nat \ {0}, NEW Record, NEW ring \in Rings(c, Record),
           ~RingIsEmpty(ring)
    PROVE  /\ WithPublishedRead(ring) \in Rings(c, Record)
           /\ Contents(ring) # <<>> /\ Head(Contents(ring)) = SlotToRead(ring)
           /\ Contents(WithPublishedRead(ring)) = Tail(Contents(ring))
<1> DEFINE new == WithPublishedRead(ring)
           D == Depth(ring)
<1>1. /\ ring.capacity = c /\ ring.read \in 0 .. c /\ ring.write \in 0 .. c
      /\ ring.read # ring.write
  BY RingShape DEF RingIsEmpty
<1>2. NextIndex(ring, ring.read) = IF ring.read = c THEN 0 ELSE ring.read + 1
  BY <1>1, NextIndexWraps DEF NextIndex, Slots
<1>3. /\ new.capacity = c /\ new.write = ring.write /\ new.slots = ring.slots
      /\ new.read = (IF ring.read = c THEN 0 ELSE ring.read + 1)
      /\ new \in Rings(c, Record)
  BY <1>1, <1>2 DEF WithPublishedRead, Rings, Slots
<1>4. D \in Nat \ {0} /\ Depth(new) = D - 1
  BY <1>1, <1>3 DEF Depth
<1>5. \A k \in 1 .. D - 1 : SlotAt(new, k) = SlotAt(ring, k + 1)
  <2> SUFFICES ASSUME NEW k \in 1 .. D - 1 PROVE SlotAt(new, k) = SlotAt(ring, k + 1)
    OBVIOUS
  <2>1. CASE ring.read = c
    BY <1>1, <1>3, <2>1 DEF SlotAt, Depth
  <2>2. CASE ring.read < c
    BY <1>1, <1>3, <2>2 DEF SlotAt, Depth
  <2> QED BY <1>1, <2>1, <2>2
<1>6. Contents(ring) \in Seq(Record) /\ Len(Contents(ring)) = D /\ Contents(ring) # <<>>
  BY <1>4, ContentsType
<1>7. Contents(ring)[1] = SlotToRead(ring)
  BY <1>4, RingShape DEF Contents, SlotToRead
<1>8. Contents(new) = [k \in 1 .. D - 1 |-> Contents(ring)[k + 1]]
  <2>1. Contents(new) = [k \in 1 .. D - 1 |-> ring.slots[SlotAt(new, k)]]
    BY <1>3, <1>4 DEF Contents
  <2>2. \A k \in 1 .. D - 1 : k + 1 \in 1 .. D
    BY <1>4
  <2>3. \A k \in 1 .. D - 1 : Contents(ring)[k + 1] = ring.slots[SlotAt(ring, k + 1)]
    BY <2>2 DEF Contents
  <2>4. \A k \in 1 .. D - 1 : ring.slots[SlotAt(new, k)] = Contents(ring)[k + 1]
    BY <1>5, <2>3
  <2> QED BY <2>1, <2>4
<1>9. Contents(new) = Tail(Contents(ring))
  <2>1. /\ Tail(Contents(ring)) \in Seq(Record) /\ Len(Tail(Contents(ring))) = D - 1
        /\ \A k \in 1 .. D - 1 : Tail(Contents(ring))[k] = Contents(ring)[k + 1]
    BY <1>4, <1>6, HeadTailProperties
  <2>2. Contents(new) \in Seq(Record) /\ Len(Contents(new)) = D - 1
    BY <1>3, <1>4, ContentsType
  <2>3. \A k \in 1 .. D - 1 : Contents(new)[k] = Tail(Contents(ring))[k]
    BY <1>8, <2>1
  <2> QED BY <2>1, <2>2, <2>3, SeqEqual
<1>10. Head(Contents(ring)) = SlotToRead(ring)
  BY <1>6, <1>7
<1> QED BY <1>3, <1>6, <1>9, <1>10

\* A new ring has the capacity it was made with and nothing in it.
LEMMA NewRing ==
    ASSUME NEW c \in Nat \ {0}, NEW Record, NEW blank \in Record
    PROVE  /\ EmptyRing(c, blank) \in Rings(c, Record)
           /\ RingIsEmpty(EmptyRing(c, blank))
BY DEF EmptyRing, Rings, RingIsEmpty, Slots

USE WriterAssumption

-----------------------------------------------------------------------------
(* The inductive invariant                                                 *)

LanesAreEmpty ==
    /\ \A l \in QueueLanes : queues[l] = <<>>
    /\ \A l \in RingLanes : RingIsEmpty(rings[l])

\* Who may do what while the writer is open, closing and closed.
PhaseInv ==
    /\ accepting => worker.pc \notin {"None", "Exited"} /\ ~stopRequested
    /\ worker.pc = "Exited" => stopRequested
    /\ worker.pc \in {"None", "Exited"} => LanesAreEmpty /\ mailbox.state # "Queued"
    /\ worker.pc = "None" => mailbox.state = "Idle"
    /\ LoopIs("Storing") \/ LoopIs("Publishing") \/ LoopIs("Counting") => accepting
    /\ LoopIs("Stopping") \/ LoopIs("Joining") => ~accepting /\ worker.pc # "None"

\* What the calls in progress hold.
CallerInv ==
    /\ \A c \in Callers : caller[c].pc = "Arrived"
           => caller[c].lane \in QueueLanes /\ caller[c].record \in Records
    /\ \A c \in OtherCallers : caller[c].pc \in {"Free", "Arrived"}

\* A push in progress has room, and stores before it publishes.
PushInv ==
    LET l == caller[FlightLoop].lane IN
    /\ LoopIs("Storing") \/ LoopIs("Publishing") \/ LoopIs("Counting") => l \in RingLanes
    /\ LoopIs("Storing") \/ LoopIs("Publishing")
           => ~RingIsFull(rings[l]) /\ caller[FlightLoop].record \in Records
    /\ LoopIs("Publishing") => rings[l].slots[rings[l].write] = caller[FlightLoop].record

RingInv == \A l \in RingLanes : Contents(rings[l]) \in Seq(Records)

\* What the worker found when it looked under the mutex is still there.
WorkerInv ==
    /\ worker.pc = "TryTiming"
           => \/ queues["routine"] # <<>>
              \/ ~RingIsEmpty(rings["timing"]) \/ ~RingIsEmpty(rings["evidence"])
    /\ worker.pc = "TryEvidence"
           => queues["routine"] # <<>> \/ ~RingIsEmpty(rings["evidence"])
    /\ worker.pc = "TryRoutine" => queues["routine"] # <<>>
    /\ worker.pc \in {"Copying", "Releasing"}
           => worker.lane \in RingLanes /\ ~RingIsEmpty(rings[worker.lane])
    /\ worker.pc = "Releasing" => worker.record = SlotToRead(rings[worker.lane])
    /\ worker.pc = "Processing" => worker.record \in Records
    /\ recordInFlight <=> worker.pc \in {"Processing", "Settling", "Reading"}

MailboxInv ==
    /\ worker.pc = "Reading" <=> mailbox.state = "Working"
    /\ mailbox.state # "Idle" => mailbox.of \in Questions

\* A record published in a ring is counted by the flight loop's next step.
Uncounted(l) == IF LoopIs("Counting") /\ caller[FlightLoop].lane = l THEN 1 ELSE 0

CountInv == \A l \in Lanes :
    counts[l].submitted + Uncounted(l)
        = counts[l].written + counts[l].failed + Len(Pending[l])

Inv == TypeOK /\ PhaseInv /\ CallerInv /\ PushInv /\ RingInv /\ WorkerInv
          /\ MailboxInv /\ CountInv

-----------------------------------------------------------------------------
(* What is pending, and how a step changes it                              *)

LEMMA HeadThenTail ==
    ASSUME NEW S, NEW s \in Seq(S), s # <<>>
    PROVE  Head(s) \in S /\ Tail(s) \in Seq(S) /\ <<Head(s)>> \o Tail(s) = s
<1>1. /\ Head(s) \in S /\ Tail(s) \in Seq(S) /\ Len(Tail(s)) = Len(s) - 1
      /\ \A i \in 1 .. Len(Tail(s)) : Tail(s)[i] = s[i + 1]
  BY HeadTailProperties
<1>2. Len(s) \in Nat \ {0} /\ Head(s) = s[1]
  BY LenProperties, EmptySeq
<1>3. <<Head(s)>> \in Seq(S) /\ Len(<<Head(s)>>) = 1 /\ <<Head(s)>>[1] = Head(s)
  BY <1>1
<1>4. /\ <<Head(s)>> \o Tail(s) \in Seq(S) /\ Len(<<Head(s)>> \o Tail(s)) = Len(s)
      /\ \A i \in 1 .. Len(s) : (<<Head(s)>> \o Tail(s))[i] = s[i]
  BY <1>1, <1>2, <1>3, ConcatProperties
<1> QED BY <1>1, <1>4, SeqEqual

LEMMA AppendToRest ==
    ASSUME NEW S, NEW h \in Seq(S), NEW s \in Seq(S), NEW r \in S
    PROVE  h \o Append(s, r) = Append(h \o s, r)
<1>1. Append(s, r) = s \o <<r>> /\ <<r>> \in Seq(S)
  BY AppendIsConcat
<1>2. h \o s \in Seq(S) /\ Append(h \o s, r) = (h \o s) \o <<r>>
  BY ConcatProperties, AppendIsConcat
<1> QED BY <1>1, <1>2, ConcatAssociative

LEMMA PendingType ==
    ASSUME Inv, NEW l \in Lanes
    PROVE  Held(l) \in Seq(Records) /\ Queued(l) \in Seq(Records)
<1>1. Held(l) \in Seq(Records)
  <2>1. worker.pc = "Processing" => worker.record \in Records
    BY DEF Inv, WorkerInv
  <2>2. <<>> \in Seq(Records)
    BY EmptySeq
  <2>3. CASE worker.pc = "Processing" /\ worker.lane = l
    BY <2>1, <2>3 DEF Held
  <2>4. CASE ~(worker.pc = "Processing" /\ worker.lane = l)
    BY <2>2, <2>4 DEF Held
  <2> QED BY <2>3, <2>4
<1>2. ASSUME l \in QueueLanes PROVE Queued(l) \in Seq(Records)
  <2>1. queues[l] \in Seq(Records)
    BY <1>2 DEF Inv, TypeOK
  <2> QED BY <1>2, <2>1 DEF Queued
<1>3. ASSUME l \in RingLanes PROVE Queued(l) \in Seq(Records)
  <2>1. l \notin QueueLanes
    BY <1>3 DEF QueueLanes, RingLanes
  <2>2. Contents(rings[l]) \in Seq(Records)
    BY <1>3 DEF Inv, RingInv
  <2> QED BY <2>1, <2>2 DEF Queued
<1> QED BY <1>1, <1>2, <1>3 DEF Lanes

\* A lane gets one more record.
LEMMA PendingGrows ==
    ASSUME Inv, worker' = worker, NEW l \in Lanes, NEW r \in Records,
           Queued(l)' = Append(Queued(l), r),
           \A k \in Lanes \ {l} : Queued(k)' = Queued(k)
    PROVE  /\ Pending' = [Pending EXCEPT ![l] = Append(Pending[l], r)]
           /\ Len(Pending'[l]) = Len(Pending[l]) + 1
           /\ \A k \in Lanes \ {l} : Pending'[k] = Pending[k]
<1>1. \A k \in Lanes : Held(k)' = Held(k)
  BY DEF Held
<1>2. Held(l) \o Append(Queued(l), r) = Append(Held(l) \o Queued(l), r)
  BY PendingType, AppendToRest
<1>3. Pending[l] = Held(l) \o Queued(l) /\ Pending'[l] = Append(Pending[l], r)
  BY <1>1, <1>2 DEF Pending
<1>4. \A k \in Lanes \ {l} : Pending'[k] = Pending[k]
  BY <1>1 DEF Pending
<1>5. Pending' = [Pending EXCEPT ![l] = Append(Pending[l], r)]
  BY <1>3, <1>4 DEF Pending
<1>6. Pending[l] \in Seq(Records)
  BY <1>3, PendingType, ConcatProperties
<1> QED BY <1>3, <1>4, <1>5, <1>6, AppendProperties

\* The worker takes the oldest record of a lane: it stays pending.
LEMMA PendingMoves ==
    ASSUME Inv, worker.pc # "Processing", NEW l \in Lanes, Queued(l) # <<>>,
           worker'.pc = "Processing", worker'.lane = l,
           worker'.record = Head(Queued(l)),
           Queued(l)' = Tail(Queued(l)),
           \A k \in Lanes \ {l} : Queued(k)' = Queued(k)
    PROVE  Pending' = Pending
<1>1. \A k \in Lanes : Held(k) = <<>>
  BY DEF Held
<1>2. Held(l)' = <<Head(Queued(l))>> /\ \A k \in Lanes \ {l} : Held(k)' = <<>>
  BY DEF Held
<1>3. Held(l)' \o Queued(l)' = Queued(l) /\ Queued(l) = Held(l) \o Queued(l)
  BY <1>1, <1>2, PendingType, HeadThenTail, ConcatEmptySeq
<1> QED BY <1>1, <1>2, <1>3 DEF Pending

\* The record the worker holds is the oldest one pending in its lane.
LEMMA PendingShrinks ==
    ASSUME Inv, worker.pc = "Processing", worker'.pc # "Processing",
           \A k \in Lanes : Queued(k)' = Queued(k)
    PROVE  /\ worker.lane \in Lanes /\ worker.record \in Records
           /\ Pending[worker.lane] # <<>>
           /\ Head(Pending[worker.lane]) = worker.record
           /\ Pending' = [Pending EXCEPT ![worker.lane] = Tail(Pending[worker.lane])]
           /\ Len(Pending[worker.lane]) = Len(Pending'[worker.lane]) + 1
           /\ \A k \in Lanes \ {worker.lane} : Pending'[k] = Pending[k]
<1> DEFINE l == worker.lane
<1>1. l \in Lanes /\ worker.record \in Records
  BY DEF Inv, TypeOK, WorkerInv
<1>2. Held(l) = <<worker.record>> /\ \A k \in Lanes \ {l} : Held(k) = <<>>
  BY DEF Held
<1>3. \A k \in Lanes : Held(k)' = <<>>
  BY DEF Held
<1>4. Queued(l) \in Seq(Records)
  BY <1>1, PendingType
<1>5. Pending[l] = <<worker.record>> \o Queued(l) /\ Pending'[l] = Queued(l)
  BY <1>1, <1>2, <1>3, <1>4, ConcatEmptySeq DEF Pending
<1>6. /\ Pending[l] \in Seq(Records) /\ Len(Pending[l]) = Len(Queued(l)) + 1
      /\ Pending[l][1] = worker.record
      /\ \A i \in 1 .. Len(Queued(l)) : Pending[l][i + 1] = Queued(l)[i]
  BY <1>1, <1>4, <1>5, ConcatProperties, LenProperties
<1>7. Pending[l] # <<>> /\ Head(Pending[l]) = worker.record
  BY <1>4, <1>6, LenProperties, EmptySeq
<1>8. Tail(Pending[l]) = Queued(l)
  <2>1. /\ Tail(Pending[l]) \in Seq(Records)
        /\ Len(Tail(Pending[l])) = Len(Pending[l]) - 1
        /\ \A i \in 1 .. Len(Tail(Pending[l])) : Tail(Pending[l])[i] = Pending[l][i + 1]
    BY <1>6, <1>7, HeadTailProperties
  <2>2. Len(Queued(l)) \in Nat
    BY <1>4, LenProperties
  <2>3. Len(Tail(Pending[l])) = Len(Queued(l))
    BY <1>6, <2>1, <2>2
  <2>4. \A i \in 1 .. Len(Tail(Pending[l])) : Tail(Pending[l])[i] = Queued(l)[i]
    BY <1>6, <2>1, <2>3
  <2> QED BY <1>4, <2>1, <2>3, <2>4, SeqEqual
<1>9. \A k \in Lanes \ {l} : Pending'[k] = Pending[k]
  BY <1>2, <1>3 DEF Pending
<1>10. Pending' = [Pending EXCEPT ![l] = Tail(Pending[l])]
  BY <1>1, <1>5, <1>8, <1>9 DEF Pending
<1> QED BY <1>1, <1>5, <1>6, <1>7, <1>9, <1>10

LEMMA PendingStays ==
    ASSUME \A l \in Lanes : Queued(l)' = Queued(l),
           \/ worker.pc # "Processing" /\ worker'.pc # "Processing"
           \/ worker' = worker
    PROVE  Pending' = Pending
BY DEF Pending, Held

LEMMA PendingLength ==
    ASSUME Inv, NEW l \in Lanes
    PROVE  Pending[l] \in Seq(Records) /\ Len(Pending[l]) \in Nat
BY PendingType, ConcatProperties, LenProperties DEF Pending

LEMMA RingsAreTyped ==
    ASSUME TypeOK, NEW l \in RingLanes, NEW ring \in Rings(Capacity[l], Numbers)
    PROVE  [rings EXCEPT ![l] = ring] \in [RingLanes -> AnyRing]
BY DEF TypeOK, AnyRing

LEMMA BothGrow ==
    ASSUME NEW s \in Nat, NEW u \in Nat, NEW w \in Nat, NEW f \in Nat, NEW n \in Nat,
           s + u = w + f + n
    PROVE  /\ s + 1 + u = w + f + (n + 1)
           /\ u = 0 => s + 1 = w + f + (n + 1)
OBVIOUS

LEMMA ReleaseMakesRoom ==
    ASSUME NEW c \in Nat \ {0}, NEW ring \in Rings(c, Numbers),
           ~RingIsEmpty(ring), ~RingIsFull(ring)
    PROVE  ~RingIsFull(WithPublishedRead(ring))
<1>1. /\ ring.capacity = c /\ ring.read \in 0 .. c /\ ring.write \in 0 .. c
      /\ ring.read # ring.write
  BY RingShape DEF RingIsEmpty
<1>2. /\ NextIndex(ring, ring.read) = (IF ring.read = c THEN 0 ELSE ring.read + 1)
      /\ NextIndex(ring, ring.write) = (IF ring.write = c THEN 0 ELSE ring.write + 1)
  BY <1>1, NextIndexWraps DEF NextIndex, Slots
<1>3. /\ WithPublishedRead(ring).read = NextIndex(ring, ring.read)
      /\ NextIndex(WithPublishedRead(ring), WithPublishedRead(ring).write)
            = NextIndex(ring, ring.write)
  BY DEF WithPublishedRead, NextIndex, Rings
<1> QED BY <1>1, <1>2, <1>3 DEF RingIsFull

LEMMA EmptyRingsType ==
    /\ EmptyRings \in [RingLanes -> AnyRing]
    /\ \A l \in RingLanes :
          /\ EmptyRings[l] \in Rings(Capacity[l], Numbers)
          /\ RingIsEmpty(EmptyRings[l]) /\ Contents(EmptyRings[l]) = <<>>
<1>1. ASSUME NEW l \in RingLanes
      PROVE  /\ EmptyRings[l] \in Rings(Capacity[l], Numbers)
             /\ RingIsEmpty(EmptyRings[l]) /\ Contents(EmptyRings[l]) = <<>>
  <2>1. Capacity[l] \in Nat \ {0} /\ Blank \in Numbers
    BY DEF Lanes, Numbers
  <2>2. EmptyRings[l] = EmptyRing(Capacity[l], Blank)
    BY DEF EmptyRings
  <2> QED BY <2>1, <2>2, NewRing, ContentsType
<1> QED BY <1>1 DEF EmptyRings, AnyRing

LEMMA EmptyMeansNoContents ==
    ASSUME Inv, NEW l \in RingLanes
    PROVE  RingIsEmpty(rings[l]) <=> Contents(rings[l]) = <<>>
<1>1. Capacity[l] \in Nat \ {0} /\ rings[l] \in Rings(Capacity[l], Numbers)
  BY DEF Inv, TypeOK, Lanes
<1> QED BY <1>1, ContentsType

LEMMA CountsStand ==
    ASSUME CountInv, counts' = counts, Pending' = Pending,
           \A l \in Lanes : Uncounted(l)' = Uncounted(l)
    PROVE  CountInv'
BY DEF CountInv

-----------------------------------------------------------------------------
(* Values of the right type                                                *)

LEMMA NextNumber ==
    ASSUME NEW l \in Lanes, offered[l] \in Nat, offered[l] < MaxRecords[l]
    PROVE  offered[l] + 1 \in Records
<1>1. MaxRecords[l] \in Nat
  OBVIOUS
<1>2. offered[l] + 1 \in 1 .. MaxRecords[l]
  BY <1>1
<1> QED BY <1>2 DEF Records

LEMMA CountedOnce ==
    ASSUME TypeOK, NEW l \in Lanes, NEW what \in {"submitted", "written", "failed"}
    PROVE  /\ Counted(l, what) \in [Lanes -> [submitted : Nat, written : Nat, failed : Nat]]
           /\ Counted(l, what)[l] = [counts[l] EXCEPT ![what] = @ + 1]
           /\ \A k \in Lanes \ {l} : Counted(l, what)[k] = counts[k]
<1>1. counts \in [Lanes -> [submitted : Nat, written : Nat, failed : Nat]]
  BY DEF TypeOK
<1>2. [counts[l] EXCEPT ![what] = @ + 1] \in [submitted : Nat, written : Nat, failed : Nat]
  <2>1. CASE what = "submitted"
    BY <1>1, <2>1
  <2>2. CASE what = "written"
    BY <1>1, <2>2
  <2>3. CASE what = "failed"
    BY <1>1, <2>3
  <2> QED BY <2>1, <2>2, <2>3
<1>3. Counted(l, what) = [counts EXCEPT ![l] = [counts[l] EXCEPT ![what] = @ + 1]]
  BY <1>1 DEF Counted
<1> QED BY <1>1, <1>2, <1>3

LEMMA OneMoreOffered ==
    ASSUME TypeOK, NEW l \in Lanes, offered[l] < MaxRecords[l],
           offered' = [offered EXCEPT ![l] = @ + 1]
    PROVE  offered' \in [Lanes -> Nat] /\ \A k \in Lanes : offered'[k] <= MaxRecords[k]
<1>1. /\ offered \in [Lanes -> Nat] /\ \A k \in Lanes : offered[k] <= MaxRecords[k]
      /\ offered' = [offered EXCEPT ![l] = offered[l] + 1] /\ MaxRecords[l] \in Nat
  BY DEF TypeOK
<1>2. offered[l] + 1 <= MaxRecords[l] /\ offered[l] + 1 \in Nat
  BY <1>1
<1> QED BY <1>1, <1>2

LEMMA HandType ==
    ASSUME NEW pc \in WorkerPcs
    PROVE  EmptyHanded(pc) \in [pc : WorkerPcs, lane : Lanes, record : Numbers]
BY DEF EmptyHanded, Lanes, QueueLanes, Numbers, Blank

LEMMA RestType == AtRest \in [pc : LoopPcs, lane : Lanes, record : Numbers]
BY DEF AtRest, LoopPcs, Lanes, QueueLanes, Numbers, Blank

-----------------------------------------------------------------------------
(* Every action keeps the invariant                                        *)

LEMMA OfferStep ==
    ASSUME Inv, NEW c \in Callers, NEW l \in QueueLanes, Offer(c, l)
    PROVE  Inv'
<1>1. TypeOK'
  <2>1. offered[l] + 1 \in Records /\ l \in Lanes
    BY NextNumber DEF Inv, TypeOK, Offer, Lanes
  <2>2. caller' \in [Callers -> [pc : LoopPcs, lane : Lanes, record : Numbers]]
    BY <2>1 DEF Inv, TypeOK, Offer, LoopPcs, Numbers
  <2>3. offered' \in [Lanes -> Nat] /\ \A k \in Lanes : offered'[k] <= MaxRecords[k]
    BY <2>1, OneMoreOffered DEF Inv, Offer
  <2> QED BY <2>2, <2>3 DEF Inv, TypeOK, Offer
<1>2. PhaseInv'
  BY DEF Inv, PhaseInv, LanesAreEmpty, LoopIs, TypeOK, Callers, LoopPcs, WorkerPcs,
     LockHolders, Offer, AtRest
<1>3. CallerInv'
  <2>1. offered[l] + 1 \in Records
    BY NextNumber DEF Inv, TypeOK, Offer, Lanes
  <2> QED BY <2>1 DEF Inv, CallerInv, TypeOK, Callers, Offer
<1>4. PushInv'
  BY DEF Inv, PushInv, LoopIs, TypeOK, Callers, LoopPcs, FlightLoop, Lanes, Offer,
     AtRest
<1>5. RingInv'
  BY DEF Inv, RingInv, Offer, AtRest
<1>6. WorkerInv'
  BY DEF Inv, WorkerInv, TypeOK, WorkerPcs, LockHolders, Offer, AtRest
<1>7. MailboxInv'
  BY DEF Inv, MailboxInv, TypeOK, WorkerPcs, LockHolders, Questions, Offer, AtRest
<1>8. CountInv'
  BY DEF Inv, CountInv, Uncounted, Pending, Held, Queued, LoopIs, TypeOK, Callers,
     Lanes, FlightLoop, Offer, AtRest
<1> QED BY <1>1, <1>2, <1>3, <1>4, <1>5, <1>6, <1>7, <1>8 DEF Inv

LEMMA EnqueueStep ==
    ASSUME Inv, NEW c \in Callers, Enqueue(c)
    PROVE  Inv'
<1>0. PICK l \in QueueLanes, r \in Records :
          /\ l = caller[c].lane /\ r = caller[c].record /\ l \in Lanes
          /\ c = FlightLoop => ~LoopIs("Counting") /\ ~LoopIs("Counting")'
  BY DEF Inv, CallerInv, Enqueue, Lanes, LoopIs, AtRest, TypeOK
<1>a. /\ Admissible(l) => /\ queues' = [queues EXCEPT ![l] = Append(queues[l], r)]
                         /\ counts' = Counted(l, "submitted")
      /\ ~Admissible(l) => UNCHANGED <<queues, counts>>
  BY <1>0 DEF Enqueue
<1>1. TypeOK'
  <2>1. caller' \in [Callers -> [pc : LoopPcs, lane : Lanes, record : Numbers]]
    BY RestType DEF Inv, TypeOK, Enqueue
  <2>2. counts' \in [Lanes -> [submitted : Nat, written : Nat, failed : Nat]]
    <3>1. CASE Admissible(l)
      <4>1. Counted(l, "submitted") \in [Lanes -> [submitted : Nat, written : Nat, failed : Nat]]
        BY <1>0, CountedOnce DEF Inv
      <4> QED BY <1>a, <3>1, <4>1
    <3>2. CASE ~Admissible(l)
      BY <1>a, <3>2 DEF Inv, TypeOK
    <3> QED BY <3>1, <3>2
  <2>3. /\ queues' \in [QueueLanes -> Seq(Records)]
        /\ \A k \in QueueLanes : Len(queues'[k]) <= Capacity[k]
    <3>1. CASE Admissible(l)
      <4>1. /\ queues[l] \in Seq(Records) /\ Len(queues[l]) < Capacity[l]
            /\ queues' = [queues EXCEPT ![l] = Append(queues[l], r)]
            /\ Capacity[l] \in Nat
        BY <1>0, <1>a, <3>1 DEF Inv, TypeOK, Admissible, Lanes
      <4>2. /\ Append(queues[l], r) \in Seq(Records)
            /\ Len(Append(queues[l], r)) <= Capacity[l]
        BY <1>0, <4>1
      <4> QED BY <1>0, <4>1, <4>2 DEF Inv, TypeOK
    <3>2. CASE ~Admissible(l)
      BY <1>a, <3>2 DEF Inv, TypeOK
    <3> QED BY <3>1, <3>2
  <2> QED BY <2>1, <2>2, <2>3 DEF Inv, TypeOK, Enqueue
<1>2. PhaseInv'
  <2>1. CASE Admissible(l)
    <3>1. accepting /\ accepting' = accepting /\ worker' = worker
          /\ stopRequested' = stopRequested
      BY <2>1 DEF Enqueue, Admissible
    <3>2. caller'[FlightLoop] = AtRest \/ caller'[FlightLoop] = caller[FlightLoop]
      BY DEF Inv, TypeOK, Enqueue, Callers
    <3>3. /\ LoopIs("Stopping")' => LoopIs("Stopping")
          /\ LoopIs("Joining")' => LoopIs("Joining")
      BY <3>2 DEF LoopIs, AtRest
    <3> QED BY <3>1, <3>3 DEF Inv, PhaseInv
  <2>2. CASE ~Admissible(l)
    BY <1>a, <2>2 DEF Inv, PhaseInv, LanesAreEmpty, LoopIs, TypeOK, Enqueue, AtRest
  <2> QED BY <2>1, <2>2
<1>3. CallerInv'
  BY DEF Inv, CallerInv, TypeOK, Callers, LoopPcs, FlightLoop, Enqueue, AtRest,
     MutexIsFree
<1>4. PushInv'
  BY DEF Inv, PushInv, LoopIs, TypeOK, Callers, LoopPcs, FlightLoop, Lanes,
     Enqueue, AtRest, MutexIsFree
<1>5. RingInv'
  BY DEF Inv, RingInv, Enqueue, AtRest, MutexIsFree
<1>6. WorkerInv'
  <2>1. queues["routine"] # <<>> => queues'["routine"] # <<>>
    <3>1. CASE Admissible(l)
      <4>1. /\ "routine" \in QueueLanes /\ queues[l] \in Seq(Records)
            /\ queues' = [queues EXCEPT ![l] = Append(queues[l], r)]
        BY <1>0, <1>a, <3>1 DEF Inv, TypeOK, QueueLanes
      <4>2. Append(queues[l], r) # <<>>
        <5>1. queues[l] \in Seq(Records) /\ r \in Records
          BY <4>1
        <5> QED BY <5>1, AppendProperties
      <4>3. queues'["routine"]
               = IF l = "routine" THEN Append(queues[l], r) ELSE queues["routine"]
        BY <1>0, <4>1 DEF Inv, TypeOK
      <4> QED BY <4>2, <4>3
    <3>2. CASE ~Admissible(l)
      BY <1>a, <3>2
    <3> QED BY <3>1, <3>2
  <2> QED BY <2>1 DEF Inv, WorkerInv, Enqueue
<1>7. MailboxInv'
  BY DEF Inv, MailboxInv, TypeOK, WorkerPcs, LockHolders, Questions, Enqueue,
     AtRest, MutexIsFree
<1>8. CountInv'
  <2>1. \A k \in Lanes : Uncounted(k)' = Uncounted(k)
    BY <1>0 DEF Uncounted, LoopIs, Enqueue, Inv, TypeOK, Callers
  <2>2. CASE Admissible(l)
    <3>1. \A k \in Lanes \ {l} : Queued(k)' = Queued(k)
      BY <1>0, <1>a, <2>2 DEF Queued, Enqueue, Inv, TypeOK
    <3>2. Queued(l)' = Append(Queued(l), r)
      BY <1>0, <1>a, <2>2 DEF Queued, Enqueue, Inv, TypeOK
    <3>3. /\ Len(Pending'[l]) = Len(Pending[l]) + 1
          /\ \A k \in Lanes \ {l} : Pending'[k] = Pending[k]
      BY <1>0, <3>1, <3>2, PendingGrows DEF Enqueue
    <3>4. /\ counts'[l].submitted = counts[l].submitted + 1
          /\ counts'[l].written = counts[l].written /\ counts'[l].failed = counts[l].failed
          /\ \A k \in Lanes \ {l} : counts'[k] = counts[k]
      <4>1. counts' = [counts EXCEPT ![l].submitted = @ + 1]
        BY <1>a, <2>2 DEF Counted
      <4> QED BY <4>1, <1>0 DEF Inv, TypeOK
    <3>5. \A k \in Lanes :
             /\ counts[k].submitted \in Nat /\ Uncounted(k) \in Nat
             /\ counts[k].submitted + Uncounted(k)
                    = counts[k].written + counts[k].failed + Len(Pending[k])
      BY DEF Inv, CountInv, TypeOK, Uncounted
    <3>6. counts[l].written \in Nat /\ counts[l].failed \in Nat /\ Len(Pending[l]) \in Nat
      BY <1>0, PendingLength DEF Inv, TypeOK
    <3>7. counts'[l].submitted + Uncounted(l)
             = counts'[l].written + counts'[l].failed + Len(Pending'[l])
      <4>1. /\ counts[l].submitted \in Nat /\ Uncounted(l) \in Nat
            /\ counts[l].submitted + Uncounted(l)
                  = counts[l].written + counts[l].failed + Len(Pending[l])
        BY <1>0, <3>5
      <4>2. counts[l].submitted + 1 + Uncounted(l)
               = counts[l].written + counts[l].failed + (Len(Pending[l]) + 1)
        <5>1. PICK s \in Nat, u \in Nat, w \in Nat, f \in Nat, n \in Nat :
                 /\ s = counts[l].submitted /\ u = Uncounted(l)
                 /\ w = counts[l].written /\ f = counts[l].failed /\ n = Len(Pending[l])
          BY <3>6, <4>1, Zenon
        <5>2. s + u = w + f + n
          BY <4>1, <5>1, Zenon
        <5>3. s + 1 + u = w + f + (n + 1)
          BY <5>2
        <5> QED BY <5>1, <5>3, Zenon
      <4> QED BY <3>3, <3>4, <4>2
    <3>8. \A k \in Lanes \ {l} : counts'[k].submitted + Uncounted(k)
             = counts'[k].written + counts'[k].failed + Len(Pending'[k])
      BY <3>3, <3>4, <3>5
    <3> QED BY <2>1, <3>7, <3>8 DEF CountInv
  <2>3. CASE ~Admissible(l)
    <3>1. Pending' = Pending
      BY <1>a, <2>3, PendingStays DEF Queued, Enqueue
    <3> QED BY <1>a, <2>1, <2>3, <3>1, CountsStand DEF Inv
  <2> QED BY <2>2, <2>3
<1> QED BY <1>1, <1>2, <1>3, <1>4, <1>5, <1>6, <1>7, <1>8 DEF Inv

LEMMA ContendStep ==
    ASSUME Inv, NEW c \in Callers, Contend(c)
    PROVE  Inv'
<1>1. TypeOK'
  BY RestType DEF Inv, TypeOK, Contend
<1>2. PhaseInv'
  BY DEF Inv, PhaseInv, LanesAreEmpty, LoopIs, TypeOK, Callers, LoopPcs, WorkerPcs,
     LockHolders, Contend, AtRest
<1>3. CallerInv'
  BY DEF Inv, CallerInv, TypeOK, Callers, LoopPcs, FlightLoop, Contend, AtRest
<1>4. PushInv'
  BY DEF Inv, PushInv, LoopIs, TypeOK, Callers, LoopPcs, FlightLoop, Lanes,
     Contend, AtRest
<1>5. RingInv'
  BY DEF Inv, RingInv, Contend, AtRest
<1>6. WorkerInv'
  BY DEF Inv, WorkerInv, TypeOK, WorkerPcs, LockHolders, Contend, AtRest
<1>7. MailboxInv'
  BY DEF Inv, MailboxInv, TypeOK, WorkerPcs, LockHolders, Questions, Contend, AtRest
<1>8. CountInv'
  BY DEF Inv, CountInv, Uncounted, Pending, Held, Queued, LoopIs, TypeOK, Callers,
     Lanes, FlightLoop, Contend, AtRest
<1> QED BY <1>1, <1>2, <1>3, <1>4, <1>5, <1>6, <1>7, <1>8 DEF Inv

LEMMA BeginPushStep ==
    ASSUME Inv, NEW l \in RingLanes, BeginPush(l)
    PROVE  Inv'
<1>1. TypeOK'
  <2>1. l \in Lanes /\ offered[l] + 1 \in Records
    BY NextNumber DEF Inv, TypeOK, BeginPush, Lanes
  <2>2. caller' \in [Callers -> [pc : LoopPcs, lane : Lanes, record : Numbers]]
    BY <2>1 DEF Inv, TypeOK, BeginPush, LoopPcs, Numbers
  <2>3. offered' \in [Lanes -> Nat] /\ \A k \in Lanes : offered'[k] <= MaxRecords[k]
    BY <2>1, OneMoreOffered DEF Inv, BeginPush
  <2> QED BY <2>2, <2>3 DEF Inv, TypeOK, BeginPush
<1>2. PhaseInv'
  BY DEF Inv, PhaseInv, LanesAreEmpty, LoopIs, TypeOK, Callers, LoopPcs, WorkerPcs,
     LockHolders, BeginPush
<1>3. CallerInv'
  BY DEF Inv, CallerInv, TypeOK, Callers, LoopPcs, FlightLoop, BeginPush
<1>4. PushInv'
  <2>1. l \in Lanes /\ offered[l] + 1 \in Records
    BY NextNumber DEF Inv, TypeOK, BeginPush, Lanes
  <2> QED BY <2>1 DEF Inv, PushInv, LoopIs, TypeOK, Callers, BeginPush
<1>5. RingInv'
  BY DEF Inv, RingInv, BeginPush
<1>6. WorkerInv'
  BY DEF Inv, WorkerInv, TypeOK, WorkerPcs, LockHolders, BeginPush
<1>7. MailboxInv'
  BY DEF Inv, MailboxInv, TypeOK, WorkerPcs, LockHolders, Questions, BeginPush
<1>8. CountInv'
  BY DEF Inv, CountInv, Uncounted, Pending, Held, Queued, LoopIs, TypeOK, Callers,
     Lanes, FlightLoop, BeginPush
<1> QED BY <1>1, <1>2, <1>3, <1>4, <1>5, <1>6, <1>7, <1>8 DEF Inv

LEMMA StoreSlotStep ==
    ASSUME Inv, StoreSlot
    PROVE  Inv'
<1>0. PICK l \in RingLanes, r \in Records :
          /\ l = caller[FlightLoop].lane /\ r = caller[FlightLoop].record
          /\ l \in Lanes /\ l \notin QueueLanes /\ r \in Numbers
          /\ Capacity[l] \in Nat \ {0} /\ rings[l] \in Rings(Capacity[l], Numbers)
          /\ ~RingIsFull(rings[l])
          /\ FlightLoop \in Callers /\ accepting
  BY DEF Inv, PushInv, PhaseInv, TypeOK, StoreSlot, LoopIs, Lanes, RingLanes,
     QueueLanes, Callers, Numbers
<1> DEFINE ring == rings[l]
<1>a. LET new == WithSlot(ring, r) IN
      /\ rings' = [rings EXCEPT ![l] = new] /\ rings'[l] = new
      /\ new \in Rings(Capacity[l], Numbers)
      /\ Contents(new) = Contents(ring) /\ new.write = ring.write /\ new.read = ring.read
      /\ new.slots[ring.write] = r
      /\ RingIsEmpty(new) <=> RingIsEmpty(ring)
      /\ RingIsFull(new) <=> RingIsFull(ring)
  <2>1. WithSlot(ring, r).write = ring.write
        /\ WithSlot(ring, r).read = ring.read
        /\ WithSlot(ring, r).capacity = ring.capacity
    BY <1>0 DEF WithSlot, Rings
  <2>2. rings' = [rings EXCEPT ![l] = WithSlot(ring, r)]
        /\ rings'[l] = WithSlot(ring, r)
    BY <1>0 DEF StoreSlot, Inv, TypeOK
  <2> QED BY <1>0, <2>1, <2>2, StoreIsInvisible DEF RingIsEmpty, RingIsFull,
     NextIndex
<1>b. \A k \in RingLanes : k # l => rings'[k] = rings[k]
  BY <1>a DEF Inv, TypeOK
<1>1. TypeOK'
  <2>1. caller' \in [Callers -> [pc : LoopPcs, lane : Lanes, record : Numbers]]
    BY DEF Inv, TypeOK, StoreSlot, LoopPcs
  <2>2. \A k \in RingLanes : rings'[k] \in Rings(Capacity[k], Numbers)
    BY <1>a, <1>b DEF Inv, TypeOK
  <2>3. rings' \in [RingLanes -> AnyRing]
    BY <1>0, <1>a, RingsAreTyped DEF Inv, TypeOK
  <2> QED BY <2>1, <2>2, <2>3 DEF Inv, TypeOK, StoreSlot
<1>2. PhaseInv'
  <2>1. LanesAreEmpty => LanesAreEmpty'
    BY <1>0, <1>a, <1>b DEF LanesAreEmpty, StoreSlot
  <2> QED BY <1>0, <2>1 DEF Inv, PhaseInv, LoopIs, TypeOK, StoreSlot
<1>3. CallerInv'
  BY DEF Inv, CallerInv, TypeOK, Callers, LoopPcs, FlightLoop, StoreSlot
<1>4. PushInv'
  <2>1. /\ caller'[FlightLoop].pc = "Publishing" /\ caller'[FlightLoop].lane = l
        /\ caller'[FlightLoop].record = r
    BY <1>0 DEF Inv, TypeOK, StoreSlot
  <2> QED BY <1>0, <1>a, <2>1 DEF PushInv, LoopIs
<1>5. RingInv'
  BY <1>a, <1>b DEF Inv, RingInv
<1>6. WorkerInv'
  <2>1. \A k \in RingLanes :
           /\ RingIsEmpty(rings'[k]) <=> RingIsEmpty(rings[k])
           /\ ~RingIsEmpty(rings[k]) => SlotToRead(rings'[k]) = SlotToRead(rings[k])
    <3>1. ~RingIsEmpty(ring) => SlotToRead(rings'[l]) = SlotToRead(ring)
      <4>1. rings'[l].slots = [ring.slots EXCEPT ![ring.write] = r]
        BY <1>0, <1>a DEF WithSlot, Rings
      <4>2. ring.read \in Slots(Capacity[l]) /\ ring.slots \in [Slots(Capacity[l]) -> Numbers]
        BY <1>0 DEF Rings
      <4> QED BY <1>a, <4>1, <4>2 DEF SlotToRead, RingIsEmpty
    <3> QED BY <1>a, <1>b, <3>1
  <2>2. worker' = worker /\ queues' = queues /\ recordInFlight' = recordInFlight
    BY DEF StoreSlot
  <2>3. "timing" \in RingLanes /\ "evidence" \in RingLanes
    BY DEF RingLanes
  <2> QED BY <2>1, <2>2, <2>3 DEF Inv, WorkerInv
<1>7. MailboxInv'
  BY DEF Inv, MailboxInv, TypeOK, WorkerPcs, LockHolders, Questions, StoreSlot
<1>8. CountInv'
  <2>1. \A k \in Lanes : Queued(k)' = Queued(k)
    BY <1>a, <1>b DEF Queued, StoreSlot, Lanes
  <2>2. Pending' = Pending
    BY <2>1, PendingStays DEF StoreSlot
  <2>3. \A k \in Lanes : Uncounted(k)' = Uncounted(k)
    BY <1>0 DEF Uncounted, LoopIs, StoreSlot, Inv, TypeOK
  <2> QED BY <2>2, <2>3, CountsStand DEF Inv, StoreSlot
<1> QED BY <1>1, <1>2, <1>3, <1>4, <1>5, <1>6, <1>7, <1>8 DEF Inv

LEMMA PublishWriteStep ==
    ASSUME Inv, PublishWrite
    PROVE  Inv'
<1>0. PICK l \in RingLanes, r \in Records :
          /\ l = caller[FlightLoop].lane /\ r = caller[FlightLoop].record
          /\ l \in Lanes /\ l \notin QueueLanes /\ r \in Numbers
          /\ Capacity[l] \in Nat \ {0} /\ rings[l] \in Rings(Capacity[l], Numbers)
          /\ ~RingIsFull(rings[l])
          /\ FlightLoop \in Callers /\ accepting
  BY DEF Inv, PushInv, PhaseInv, TypeOK, PublishWrite, LoopIs, Lanes, RingLanes,
     QueueLanes, Callers, Numbers
<1> DEFINE ring == rings[l]
<1>a. LET new == WithPublishedWrite(ring) IN
      /\ rings' = [rings EXCEPT ![l] = new] /\ rings'[l] = new
      /\ new \in Rings(Capacity[l], Numbers)
      /\ Contents(new) = Append(Contents(ring), r)
      /\ ~RingIsEmpty(new) /\ SlotToRead(new) = SlotToRead(ring)
  <2>1. WithPublishedWrite(ring).slots = ring.slots
        /\ WithPublishedWrite(ring).read = ring.read
        /\ WithPublishedWrite(ring).write = NextIndex(ring, ring.write)
    BY <1>0 DEF WithPublishedWrite, Rings
  <2>2. rings' = [rings EXCEPT ![l] = WithPublishedWrite(ring)]
        /\ rings'[l] = WithPublishedWrite(ring)
    BY <1>0 DEF PublishWrite, Inv, TypeOK
  <2>3. ring.slots[ring.write] = r
    BY <1>0 DEF Inv, PushInv, PublishWrite
  <2>4. /\ WithPublishedWrite(ring) \in Rings(Capacity[l], Numbers)
        /\ Contents(WithPublishedWrite(ring)) = Append(Contents(ring), r)
    BY <1>0, <2>3, PublishAppends
  <2>5. /\ ~RingIsEmpty(WithPublishedWrite(ring))
        /\ SlotToRead(WithPublishedWrite(ring)) = SlotToRead(ring)
    BY <1>0, <2>1 DEF RingIsEmpty, RingIsFull, SlotToRead
  <2> QED BY <2>2, <2>4, <2>5
<1>b. \A k \in RingLanes : k # l => rings'[k] = rings[k]
  BY <1>a DEF Inv, TypeOK
<1>1. TypeOK'
  <2>1. caller' \in [Callers -> [pc : LoopPcs, lane : Lanes, record : Numbers]]
    BY DEF Inv, TypeOK, PublishWrite, LoopPcs
  <2>2. \A k \in RingLanes : rings'[k] \in Rings(Capacity[k], Numbers)
    BY <1>a, <1>b DEF Inv, TypeOK
  <2>3. rings' \in [RingLanes -> AnyRing]
    BY <1>0, <1>a, RingsAreTyped DEF Inv, TypeOK
  <2> QED BY <2>1, <2>2, <2>3 DEF Inv, TypeOK, PublishWrite
<1>2. PhaseInv'
  BY <1>0 DEF Inv, PhaseInv, LoopIs, TypeOK, PublishWrite
<1>3. CallerInv'
  BY DEF Inv, CallerInv, TypeOK, Callers, LoopPcs, FlightLoop, PublishWrite
<1>4. PushInv'
  BY <1>0 DEF PushInv, LoopIs, Inv, TypeOK, PublishWrite
<1>5. RingInv'
  BY <1>0, <1>a, <1>b, AppendProperties DEF Inv, RingInv
<1>6. WorkerInv'
  <2>1. \A k \in RingLanes :
           /\ RingIsEmpty(rings'[k]) => RingIsEmpty(rings[k])
           /\ SlotToRead(rings'[k]) = SlotToRead(rings[k])
    BY <1>a, <1>b
  <2>2. worker' = worker /\ queues' = queues /\ recordInFlight' = recordInFlight
    BY DEF PublishWrite
  <2>3. "timing" \in RingLanes /\ "evidence" \in RingLanes
    BY DEF RingLanes
  <2> QED BY <2>1, <2>2, <2>3 DEF Inv, WorkerInv
<1>7. MailboxInv'
  BY DEF Inv, MailboxInv, TypeOK, WorkerPcs, LockHolders, Questions, PublishWrite
<1>8. CountInv'
  <2>1. \A k \in Lanes \ {l} : Queued(k)' = Queued(k)
    BY <1>a, <1>b DEF Queued, PublishWrite, Lanes
  <2>2. Queued(l)' = Append(Queued(l), r)
    BY <1>0, <1>a DEF Queued
  <2>3. /\ Len(Pending'[l]) = Len(Pending[l]) + 1
        /\ \A k \in Lanes \ {l} : Pending'[k] = Pending[k]
    BY <1>0, <2>1, <2>2, PendingGrows DEF PublishWrite
  <2>4. /\ Uncounted(l) = 0 /\ Uncounted(l)' = 1
        /\ \A k \in Lanes \ {l} : Uncounted(k)' = Uncounted(k)
    BY <1>0 DEF Uncounted, LoopIs, PublishWrite, Inv, TypeOK
  <2>5. \A k \in Lanes :
           /\ counts[k].submitted \in Nat /\ counts[k].written \in Nat
           /\ counts[k].failed \in Nat /\ counts'[k] = counts[k]
           /\ counts[k].submitted + Uncounted(k)
                  = counts[k].written + counts[k].failed + Len(Pending[k])
    BY DEF Inv, CountInv, TypeOK, PublishWrite
  <2>6. Len(Pending[l]) \in Nat
    BY <1>0, PendingLength
  <2>7. counts'[l].submitted + Uncounted(l)'
           = counts'[l].written + counts'[l].failed + Len(Pending'[l])
    <3>1. /\ counts[l].submitted \in Nat /\ counts[l].written \in Nat
          /\ counts[l].failed \in Nat /\ counts'[l] = counts[l]
          /\ counts[l].submitted + 0
                  = counts[l].written + counts[l].failed + Len(Pending[l])
      BY <1>0, <2>4, <2>5
    <3>2. counts[l].submitted + 1
               = counts[l].written + counts[l].failed + (Len(Pending[l]) + 1)
      <4>1. PICK s \in Nat, w \in Nat, f \in Nat, n \in Nat :
               /\ s = counts[l].submitted /\ w = counts[l].written
               /\ f = counts[l].failed /\ n = Len(Pending[l])
        BY <2>6, <3>1, Zenon
      <4>2. s + 0 = w + f + n
        BY <3>1, <4>1, Zenon
      <4>3. s + 1 = w + f + (n + 1)
        BY <4>2
      <4> QED BY <4>1, <4>3, Zenon
    <3> QED BY <2>3, <2>4, <3>1, <3>2
  <2>8. \A k \in Lanes \ {l} : counts'[k].submitted + Uncounted(k)'
           = counts'[k].written + counts'[k].failed + Len(Pending'[k])
    BY <2>3, <2>4, <2>5
  <2> QED BY <2>7, <2>8 DEF CountInv
<1> QED BY <1>1, <1>2, <1>3, <1>4, <1>5, <1>6, <1>7, <1>8 DEF Inv

LEMMA CountPushStep ==
    ASSUME Inv, CountPush
    PROVE  Inv'
<1>1. TypeOK'
  <2>1. caller' \in [Callers -> [pc : LoopPcs, lane : Lanes, record : Numbers]]
    BY RestType DEF Inv, TypeOK, CountPush
  <2>2. counts' \in [Lanes -> [submitted : Nat, written : Nat, failed : Nat]]
    <3>1. caller[FlightLoop].lane \in Lanes
      BY DEF Inv, TypeOK, Callers
    <3> QED BY <3>1, CountedOnce DEF Inv, CountPush
  <2> QED BY <2>1, <2>2 DEF Inv, TypeOK, CountPush
<1>2. PhaseInv'
  BY DEF Inv, PhaseInv, LanesAreEmpty, LoopIs, TypeOK, Callers, LoopPcs, WorkerPcs,
     LockHolders, CountPush, AtRest, Counted
<1>3. CallerInv'
  BY DEF Inv, CallerInv, TypeOK, Callers, LoopPcs, FlightLoop, CountPush, AtRest,
     Counted
<1>4. PushInv'
  BY DEF Inv, PushInv, LoopIs, TypeOK, Callers, LoopPcs, FlightLoop, Lanes,
     CountPush, AtRest, Counted
<1>5. RingInv'
  BY DEF Inv, RingInv, CountPush, AtRest, Counted
<1>6. WorkerInv'
  BY DEF Inv, WorkerInv, TypeOK, WorkerPcs, LockHolders, CountPush, AtRest, Counted
<1>7. MailboxInv'
  BY DEF Inv, MailboxInv, TypeOK, WorkerPcs, LockHolders, Questions, CountPush,
     AtRest, Counted
<1>8. CountInv'
  <2> DEFINE l == caller[FlightLoop].lane
  <2>1. l \in Lanes
    BY DEF Inv, TypeOK, Callers
  <2>2. /\ counts'[l].submitted = counts[l].submitted + 1
        /\ counts'[l].written = counts[l].written /\ counts'[l].failed = counts[l].failed
        /\ \A k \in Lanes \ {l} : counts'[k] = counts[k]
    BY <2>1 DEF Inv, TypeOK, CountPush, Counted
  <2>3. Uncounted(l) = 1 /\ \A k \in Lanes \ {l} : Uncounted(k) = 0
    BY DEF Uncounted, CountPush
  <2>4. \A k \in Lanes : Uncounted(k)' = 0
    BY DEF Inv, TypeOK, Uncounted, CountPush, LoopIs, AtRest, Callers
  <2>5. Pending' = Pending
    BY DEF Pending, Held, Queued, CountPush
  <2>6. \A k \in Lanes : counts[k].submitted \in Nat
    BY DEF Inv, TypeOK
  <2>7. SUFFICES ASSUME NEW k \in Lanes
        PROVE  counts'[k].submitted + Uncounted(k)'
                  = counts'[k].written + counts'[k].failed + Len(Pending'[k])
    BY DEF CountInv
  <2>8. counts[k].submitted + Uncounted(k)
           = counts[k].written + counts[k].failed + Len(Pending[k])
    BY DEF Inv, CountInv
  <2> QED BY <2>2, <2>3, <2>4, <2>5, <2>6, <2>8
<1> QED BY <1>1, <1>2, <1>3, <1>4, <1>5, <1>6, <1>7, <1>8 DEF Inv

LEMMA SubmitPdcLogRequestStep ==
    ASSUME Inv, SubmitPdcLogRequest
    PROVE  Inv'
<1>1. TypeOK'
  <2>1. mailbox.of + 1 \in 0 .. MaxQuestions
    BY DEF Inv, TypeOK, SubmitPdcLogRequest
  <2> QED BY <2>1 DEF Inv, TypeOK, SubmitPdcLogRequest
<1>2. PhaseInv'
  BY DEF Inv, PhaseInv, LanesAreEmpty, LoopIs, TypeOK, Callers, LoopPcs, WorkerPcs,
     LockHolders, SubmitPdcLogRequest, MutexIsFree
<1>3. CallerInv'
  BY DEF Inv, CallerInv, TypeOK, Callers, LoopPcs, FlightLoop, SubmitPdcLogRequest,
     MutexIsFree
<1>4. PushInv'
  BY DEF Inv, PushInv, LoopIs, TypeOK, Callers, LoopPcs, FlightLoop, Lanes,
     SubmitPdcLogRequest, MutexIsFree
<1>5. RingInv'
  BY DEF Inv, RingInv, SubmitPdcLogRequest, MutexIsFree
<1>6. WorkerInv'
  BY DEF Inv, WorkerInv, TypeOK, WorkerPcs, LockHolders, SubmitPdcLogRequest,
     MutexIsFree
<1>7. MailboxInv'
  <2>1. mailbox.of + 1 \in Questions
    BY DEF Inv, TypeOK, SubmitPdcLogRequest, Questions
  <2> QED BY <2>1 DEF Inv, MailboxInv, SubmitPdcLogRequest
<1>8. CountInv'
  BY DEF Inv, CountInv, Uncounted, Pending, Held, Queued, LoopIs, TypeOK, Callers,
     Lanes, FlightLoop, SubmitPdcLogRequest, MutexIsFree
<1> QED BY <1>1, <1>2, <1>3, <1>4, <1>5, <1>6, <1>7, <1>8 DEF Inv

LEMMA HarvestPdcLogFactStep ==
    ASSUME Inv, HarvestPdcLogFact
    PROVE  Inv'
<1>1. TypeOK'
  BY DEF Inv, TypeOK, HarvestPdcLogFact
<1>2. PhaseInv'
  BY DEF Inv, PhaseInv, LanesAreEmpty, LoopIs, TypeOK, Callers, LoopPcs, WorkerPcs,
     LockHolders, HarvestPdcLogFact, MutexIsFree
<1>3. CallerInv'
  BY DEF Inv, CallerInv, TypeOK, Callers, LoopPcs, FlightLoop, HarvestPdcLogFact,
     MutexIsFree
<1>4. PushInv'
  BY DEF Inv, PushInv, LoopIs, TypeOK, Callers, LoopPcs, FlightLoop, Lanes,
     HarvestPdcLogFact, MutexIsFree
<1>5. RingInv'
  BY DEF Inv, RingInv, HarvestPdcLogFact, MutexIsFree
<1>6. WorkerInv'
  BY DEF Inv, WorkerInv, TypeOK, WorkerPcs, LockHolders, HarvestPdcLogFact,
     MutexIsFree
<1>7. MailboxInv'
  BY DEF Inv, MailboxInv, TypeOK, WorkerPcs, LockHolders, Questions,
     HarvestPdcLogFact, MutexIsFree
<1>8. CountInv'
  BY DEF Inv, CountInv, Uncounted, Pending, Held, Queued, LoopIs, TypeOK, Callers,
     Lanes, FlightLoop, HarvestPdcLogFact, MutexIsFree
<1> QED BY <1>1, <1>2, <1>3, <1>4, <1>5, <1>6, <1>7, <1>8 DEF Inv

LEMMA StartStep ==
    ASSUME Inv, Start
    PROVE  Inv'
<1>a. /\ worker'.pc = "Waiting" /\ worker' = EmptyHanded("Waiting")
      /\ LoopIs("Free") /\ LoopIs("Free")' /\ caller' = caller
  BY DEF Start, EmptyHanded, LoopIs
<1>b. \A l \in RingLanes :
         /\ rings'[l] \in Rings(Capacity[l], Numbers)
         /\ Contents(rings'[l]) = <<>>
  <2>1. rings' = EmptyRings
    BY DEF Start
  <2> QED BY <2>1, EmptyRingsType
<1>1. TypeOK'
  <2>1. worker' \in [pc : WorkerPcs, lane : Lanes, record : Numbers]
    BY <1>a, HandType DEF WorkerPcs
  <2>2. /\ queues' \in [QueueLanes -> Seq(Records)]
        /\ \A l \in QueueLanes : Len(queues'[l]) <= Capacity[l]
    BY EmptySeq DEF Start, EmptyQueues, Lanes
  <2>3. rings' \in [RingLanes -> AnyRing]
    BY EmptyRingsType DEF Start
  <2>4. counts' \in [Lanes -> [submitted : Nat, written : Nat, failed : Nat]]
    BY DEF Start, NoCounts
  <2>5. sessions' \in 0 .. MaxSessions
    BY DEF Start, Inv, TypeOK
  <2> QED BY <1>b, <2>1, <2>2, <2>3, <2>4, <2>5 DEF Inv, TypeOK, Start
<1>2. PhaseInv'
  BY <1>a DEF PhaseInv, LoopIs, Start
<1>3. CallerInv'
  BY DEF Inv, CallerInv, TypeOK, Callers, LoopPcs, FlightLoop, Start, EmptyHanded,
     EmptyQueues
<1>4. PushInv'
  BY <1>a DEF PushInv, LoopIs
<1>5. RingInv'
  BY <1>b, EmptySeq DEF RingInv
<1>6. WorkerInv'
  BY <1>a DEF WorkerInv, Start
<1>7. MailboxInv'
  BY <1>a DEF MailboxInv, Start, Inv, TypeOK
<1>8. CountInv'
  <2>1. \A l \in Lanes : Pending'[l] = <<>>
    <3>1. \A l \in Lanes : Queued(l)' = <<>>
      BY <1>b DEF Queued, Lanes, Start, EmptyQueues
    <3>2. \A l \in Lanes : Held(l)' = <<>>
      BY <1>a DEF Held
    <3> QED BY <3>1, <3>2 DEF Pending
  <2>2. \A l \in Lanes : Uncounted(l)' = 0
    BY <1>a DEF Uncounted, LoopIs
  <2>3. \A l \in Lanes : counts'[l] = [submitted |-> 0, written |-> 0, failed |-> 0]
    BY DEF Start, NoCounts
  <2> QED BY <2>1, <2>2, <2>3 DEF CountInv
<1> QED BY <1>1, <1>2, <1>3, <1>4, <1>5, <1>6, <1>7, <1>8 DEF Inv

LEMMA StopAcceptingStep ==
    ASSUME Inv, StopAccepting
    PROVE  Inv'
<1>1. TypeOK'
  BY DEF Inv, TypeOK, StopAccepting, LoopPcs
<1>2. PhaseInv'
  BY DEF Inv, PhaseInv, LanesAreEmpty, LoopIs, TypeOK, Callers, LoopPcs, WorkerPcs,
     LockHolders, StopAccepting
<1>3. CallerInv'
  BY DEF Inv, CallerInv, TypeOK, Callers, LoopPcs, FlightLoop, StopAccepting
<1>4. PushInv'
  BY DEF Inv, PushInv, LoopIs, TypeOK, Callers, LoopPcs, FlightLoop, Lanes,
     StopAccepting
<1>5. RingInv'
  BY DEF Inv, RingInv, StopAccepting
<1>6. WorkerInv'
  BY DEF Inv, WorkerInv, TypeOK, WorkerPcs, LockHolders, StopAccepting
<1>7. MailboxInv'
  BY DEF Inv, MailboxInv, TypeOK, WorkerPcs, LockHolders, Questions, StopAccepting
<1>8. CountInv'
  BY DEF Inv, CountInv, Uncounted, Pending, Held, Queued, LoopIs, TypeOK, Callers,
     Lanes, FlightLoop, StopAccepting
<1> QED BY <1>1, <1>2, <1>3, <1>4, <1>5, <1>6, <1>7, <1>8 DEF Inv

LEMMA RequestStopStep ==
    ASSUME Inv, RequestStop
    PROVE  Inv'
<1>1. TypeOK'
  BY DEF Inv, TypeOK, RequestStop, LoopPcs
<1>2. PhaseInv'
  BY DEF Inv, PhaseInv, LanesAreEmpty, LoopIs, TypeOK, Callers, LoopPcs, WorkerPcs,
     LockHolders, RequestStop
<1>3. CallerInv'
  BY DEF Inv, CallerInv, TypeOK, Callers, LoopPcs, FlightLoop, RequestStop
<1>4. PushInv'
  BY DEF Inv, PushInv, LoopIs, TypeOK, Callers, LoopPcs, FlightLoop, Lanes,
     RequestStop
<1>5. RingInv'
  BY DEF Inv, RingInv, RequestStop
<1>6. WorkerInv'
  BY DEF Inv, WorkerInv, TypeOK, WorkerPcs, LockHolders, RequestStop
<1>7. MailboxInv'
  BY DEF Inv, MailboxInv, TypeOK, WorkerPcs, LockHolders, Questions, RequestStop
<1>8. CountInv'
  BY DEF Inv, CountInv, Uncounted, Pending, Held, Queued, LoopIs, TypeOK, Callers,
     Lanes, FlightLoop, RequestStop
<1> QED BY <1>1, <1>2, <1>3, <1>4, <1>5, <1>6, <1>7, <1>8 DEF Inv

LEMMA JoinStep ==
    ASSUME Inv, Join
    PROVE  Inv'
<1>1. TypeOK'
  BY HandType, RestType DEF Inv, TypeOK, Join, NoWorker, WorkerPcs
<1>2. PhaseInv'
  BY DEF Inv, PhaseInv, LanesAreEmpty, LoopIs, TypeOK, Callers, LoopPcs, WorkerPcs,
     LockHolders, Join, NoWorker, EmptyHanded, AtRest
<1>3. CallerInv'
  BY DEF Inv, CallerInv, TypeOK, Callers, LoopPcs, FlightLoop, Join, NoWorker,
     EmptyHanded, AtRest
<1>4. PushInv'
  BY DEF Inv, PushInv, LoopIs, TypeOK, Callers, LoopPcs, FlightLoop, Lanes, Join,
     NoWorker, EmptyHanded, AtRest
<1>5. RingInv'
  BY DEF Inv, RingInv, Join, NoWorker, EmptyHanded, AtRest
<1>6. WorkerInv'
  BY DEF Inv, WorkerInv, TypeOK, WorkerPcs, LockHolders, Join, NoWorker,
     EmptyHanded, AtRest
<1>7. MailboxInv'
  BY DEF Inv, MailboxInv, TypeOK, WorkerPcs, LockHolders, Questions, Join,
     NoWorker, EmptyHanded, AtRest
<1>8. CountInv'
  BY DEF Inv, CountInv, Uncounted, Pending, Held, Queued, LoopIs, TypeOK, Callers,
     Lanes, FlightLoop, Join, NoWorker, EmptyHanded, AtRest
<1> QED BY <1>1, <1>2, <1>3, <1>4, <1>5, <1>6, <1>7, <1>8 DEF Inv

LEMMA TakeCriticalStep ==
    ASSUME Inv, TakeCritical
    PROVE  Inv'
<1> DEFINE q == queues["critical"]
<1>0. /\ "critical" \in QueueLanes /\ "critical" \in Lanes
      /\ q # <<>> /\ q \in Seq(Records) /\ Capacity["critical"] \in Nat
      /\ Len(q) <= Capacity["critical"]
  BY DEF Inv, TypeOK, TakeCritical, QueueLanes, Lanes
<1>a. /\ Head(q) \in Records /\ Tail(q) \in Seq(Records)
      /\ Len(Tail(q)) <= Capacity["critical"]
  BY <1>0, HeadTailProperties, LenProperties
<1>b. /\ queues' = [queues EXCEPT !["critical"] = Tail(q)]
      /\ worker' = [pc |-> "Processing", lane |-> "critical", record |-> Head(q)]
      /\ recordInFlight' = TRUE /\ worker.pc = "Waiting"
      /\ UNCHANGED <<accepting, stopRequested, rings, mailbox, caller, offered,
                     counts, log, sessions>>
  BY DEF TakeCritical, TakeFromQueue
<1>1. TypeOK'
  <2>1. worker' \in [pc : WorkerPcs, lane : Lanes, record : Numbers]
    BY <1>0, <1>a, <1>b DEF WorkerPcs, Numbers
  <2>2. /\ queues' \in [QueueLanes -> Seq(Records)]
        /\ \A k \in QueueLanes : Len(queues'[k]) <= Capacity[k]
    BY <1>0, <1>a, <1>b DEF Inv, TypeOK
  <2> QED BY <1>b, <2>1, <2>2 DEF Inv, TypeOK
<1>2. PhaseInv'
  BY <1>b DEF Inv, PhaseInv, LoopIs
<1>3. CallerInv'
  BY <1>b DEF Inv, CallerInv
<1>4. PushInv'
  BY <1>b DEF Inv, PushInv, LoopIs
<1>5. RingInv'
  BY <1>b DEF Inv, RingInv
<1>6. WorkerInv'
  BY <1>a, <1>b DEF Inv, WorkerInv
<1>7. MailboxInv'
  BY <1>b DEF Inv, MailboxInv
<1>8. CountInv'
  <2>1. \A k \in Lanes \ {"critical"} : Queued(k)' = Queued(k)
    BY <1>0, <1>b DEF Queued, Inv, TypeOK
  <2>2. Queued("critical") = q /\ Queued("critical")' = Tail(q)
    BY <1>0, <1>b DEF Queued, Inv, TypeOK
  <2>3. Pending' = Pending
    BY <1>0, <1>b, <2>1, <2>2, PendingMoves
  <2>4. \A k \in Lanes : Uncounted(k)' = Uncounted(k)
    BY <1>b DEF Uncounted, LoopIs
  <2> QED BY <1>b, <2>3, <2>4, CountsStand DEF Inv
<1> QED BY <1>1, <1>2, <1>3, <1>4, <1>5, <1>6, <1>7, <1>8 DEF Inv

LEMMA TakeRequestStep ==
    ASSUME Inv, TakeRequest
    PROVE  Inv'
<1>1. TypeOK'
  BY HandType DEF Inv, TypeOK, TakeRequest, WorkerPcs, LockHolders
<1>2. PhaseInv'
  BY DEF Inv, PhaseInv, LanesAreEmpty, LoopIs, TypeOK, Callers, LoopPcs, WorkerPcs,
     LockHolders, TakeRequest, EmptyHanded
<1>3. CallerInv'
  BY DEF Inv, CallerInv, TypeOK, Callers, LoopPcs, FlightLoop, TakeRequest,
     EmptyHanded
<1>4. PushInv'
  BY DEF Inv, PushInv, LoopIs, TypeOK, Callers, LoopPcs, FlightLoop, Lanes,
     TakeRequest, EmptyHanded
<1>5. RingInv'
  BY DEF Inv, RingInv, TakeRequest, EmptyHanded
<1>6. WorkerInv'
  BY DEF Inv, WorkerInv, TypeOK, WorkerPcs, LockHolders, TakeRequest, EmptyHanded
<1>7. MailboxInv'
  BY DEF Inv, MailboxInv, TypeOK, WorkerPcs, LockHolders, Questions, TakeRequest,
     EmptyHanded
<1>8. CountInv'
  BY DEF Inv, CountInv, Uncounted, Pending, Held, Queued, LoopIs, TypeOK, Callers,
     Lanes, FlightLoop, TakeRequest, EmptyHanded
<1> QED BY <1>1, <1>2, <1>3, <1>4, <1>5, <1>6, <1>7, <1>8 DEF Inv

LEMMA LookForRecordStep ==
    ASSUME Inv, LookForRecord
    PROVE  Inv'
<1>1. TypeOK'
  BY DEF Inv, TypeOK, LookForRecord, Goto, WorkerPcs, LockHolders
<1>2. PhaseInv'
  BY DEF Inv, PhaseInv, LanesAreEmpty, LoopIs, TypeOK, Callers, LoopPcs, WorkerPcs,
     LockHolders, LookForRecord, Goto, WakesFor, WorkIsQueued, QueueLanes, RingLanes
<1>3. CallerInv'
  BY DEF Inv, CallerInv, TypeOK, Callers, LoopPcs, FlightLoop, LookForRecord, Goto,
     WakesFor, WorkIsQueued, QueueLanes, RingLanes
<1>4. PushInv'
  BY DEF Inv, PushInv, LoopIs, TypeOK, Callers, LoopPcs, FlightLoop, Lanes,
     LookForRecord, Goto, WakesFor, WorkIsQueued, QueueLanes, RingLanes
<1>5. RingInv'
  BY DEF Inv, RingInv, LookForRecord, Goto, WakesFor, WorkIsQueued, QueueLanes,
     RingLanes
<1>6. WorkerInv'
  BY DEF Inv, WorkerInv, TypeOK, WorkerPcs, LockHolders, LookForRecord, Goto,
     WakesFor, WorkIsQueued, QueueLanes, RingLanes
<1>7. MailboxInv'
  BY DEF Inv, MailboxInv, TypeOK, WorkerPcs, LockHolders, Questions, LookForRecord,
     Goto, WakesFor, WorkIsQueued, QueueLanes, RingLanes
<1>8. CountInv'
  BY DEF Inv, CountInv, Uncounted, Pending, Held, Queued, LoopIs, TypeOK, Callers,
     Lanes, FlightLoop, LookForRecord, Goto, WakesFor, WorkIsQueued, QueueLanes,
     RingLanes
<1> QED BY <1>1, <1>2, <1>3, <1>4, <1>5, <1>6, <1>7, <1>8 DEF Inv

LEMMA TryTimingStep ==
    ASSUME Inv, TryTiming
    PROVE  Inv'
<1>1. TypeOK'
  BY DEF Inv, TypeOK, TryTiming, TryRing, WorkerPcs, LockHolders, Lanes, RingLanes
<1>2. PhaseInv'
  BY DEF Inv, PhaseInv, LanesAreEmpty, LoopIs, TypeOK, Callers, LoopPcs, WorkerPcs,
     LockHolders, TryTiming, TryRing, RingLanes
<1>3. CallerInv'
  BY DEF Inv, CallerInv, TypeOK, Callers, LoopPcs, FlightLoop, TryTiming, TryRing,
     RingLanes
<1>4. PushInv'
  BY DEF Inv, PushInv, LoopIs, TypeOK, Callers, LoopPcs, FlightLoop, Lanes,
     TryTiming, TryRing, RingLanes
<1>5. RingInv'
  BY DEF Inv, RingInv, TryTiming, TryRing, RingLanes
<1>6. WorkerInv'
  BY DEF Inv, WorkerInv, TypeOK, WorkerPcs, LockHolders, TryTiming, TryRing,
     RingLanes
<1>7. MailboxInv'
  BY DEF Inv, MailboxInv, TypeOK, WorkerPcs, LockHolders, Questions, TryTiming,
     TryRing, RingLanes
<1>8. CountInv'
  <2>1. \A k \in Lanes : Queued(k)' = Queued(k)
    BY DEF Queued, TryTiming, TryRing
  <2>2. worker.pc # "Processing" /\ worker'.pc # "Processing"
    BY DEF Inv, TypeOK, TryTiming, TryRing
  <2>4. Pending' = Pending
    BY <2>1, <2>2, PendingStays
  <2>3. \A k \in Lanes : Uncounted(k)' = Uncounted(k)
    BY DEF Uncounted, LoopIs, TryTiming, TryRing
  <2> QED BY <2>3, <2>4, CountsStand DEF Inv, TryTiming, TryRing
<1> QED BY <1>1, <1>2, <1>3, <1>4, <1>5, <1>6, <1>7, <1>8 DEF Inv

LEMMA TryEvidenceStep ==
    ASSUME Inv, TryEvidence
    PROVE  Inv'
<1>1. TypeOK'
  BY DEF Inv, TypeOK, TryEvidence, TryRing, WorkerPcs, LockHolders, Lanes, RingLanes
<1>2. PhaseInv'
  BY DEF Inv, PhaseInv, LanesAreEmpty, LoopIs, TypeOK, Callers, LoopPcs, WorkerPcs,
     LockHolders, TryEvidence, TryRing, RingLanes
<1>3. CallerInv'
  BY DEF Inv, CallerInv, TypeOK, Callers, LoopPcs, FlightLoop, TryEvidence,
     TryRing, RingLanes
<1>4. PushInv'
  BY DEF Inv, PushInv, LoopIs, TypeOK, Callers, LoopPcs, FlightLoop, Lanes,
     TryEvidence, TryRing, RingLanes
<1>5. RingInv'
  BY DEF Inv, RingInv, TryEvidence, TryRing, RingLanes
<1>6. WorkerInv'
  BY DEF Inv, WorkerInv, TypeOK, WorkerPcs, LockHolders, TryEvidence, TryRing,
     RingLanes
<1>7. MailboxInv'
  BY DEF Inv, MailboxInv, TypeOK, WorkerPcs, LockHolders, Questions, TryEvidence,
     TryRing, RingLanes
<1>8. CountInv'
  <2>1. \A k \in Lanes : Queued(k)' = Queued(k)
    BY DEF Queued, TryEvidence, TryRing
  <2>2. worker.pc # "Processing" /\ worker'.pc # "Processing"
    BY DEF Inv, TypeOK, TryEvidence, TryRing
  <2>4. Pending' = Pending
    BY <2>1, <2>2, PendingStays
  <2>3. \A k \in Lanes : Uncounted(k)' = Uncounted(k)
    BY DEF Uncounted, LoopIs, TryEvidence, TryRing
  <2> QED BY <2>3, <2>4, CountsStand DEF Inv, TryEvidence, TryRing
<1> QED BY <1>1, <1>2, <1>3, <1>4, <1>5, <1>6, <1>7, <1>8 DEF Inv

LEMMA TakeRoutineStep ==
    ASSUME Inv, TakeRoutine
    PROVE  Inv'
<1> DEFINE q == queues["routine"]
<1>0. /\ "routine" \in QueueLanes /\ "routine" \in Lanes
      /\ q # <<>> /\ q \in Seq(Records) /\ Capacity["routine"] \in Nat
      /\ Len(q) <= Capacity["routine"]
  BY DEF Inv, TypeOK, TakeRoutine, QueueLanes, Lanes
<1>a. /\ Head(q) \in Records /\ Tail(q) \in Seq(Records)
      /\ Len(Tail(q)) <= Capacity["routine"]
  BY <1>0, HeadTailProperties, LenProperties
<1>b. /\ queues' = [queues EXCEPT !["routine"] = Tail(q)]
      /\ worker' = [pc |-> "Processing", lane |-> "routine", record |-> Head(q)]
      /\ recordInFlight' = TRUE /\ worker.pc = "TryRoutine"
      /\ UNCHANGED <<accepting, stopRequested, rings, mailbox, caller, offered,
                     counts, log, sessions>>
  BY DEF TakeRoutine, TakeFromQueue
<1>1. TypeOK'
  <2>1. worker' \in [pc : WorkerPcs, lane : Lanes, record : Numbers]
    BY <1>0, <1>a, <1>b DEF WorkerPcs, Numbers
  <2>2. /\ queues' \in [QueueLanes -> Seq(Records)]
        /\ \A k \in QueueLanes : Len(queues'[k]) <= Capacity[k]
    BY <1>0, <1>a, <1>b DEF Inv, TypeOK
  <2> QED BY <1>b, <2>1, <2>2 DEF Inv, TypeOK
<1>2. PhaseInv'
  BY <1>b DEF Inv, PhaseInv, LoopIs
<1>3. CallerInv'
  BY <1>b DEF Inv, CallerInv
<1>4. PushInv'
  BY <1>b DEF Inv, PushInv, LoopIs
<1>5. RingInv'
  BY <1>b DEF Inv, RingInv
<1>6. WorkerInv'
  BY <1>a, <1>b DEF Inv, WorkerInv
<1>7. MailboxInv'
  BY <1>b DEF Inv, MailboxInv
<1>8. CountInv'
  <2>1. \A k \in Lanes \ {"routine"} : Queued(k)' = Queued(k)
    BY <1>0, <1>b DEF Queued, Inv, TypeOK
  <2>2. Queued("routine") = q /\ Queued("routine")' = Tail(q)
    BY <1>0, <1>b DEF Queued, Inv, TypeOK
  <2>3. Pending' = Pending
    BY <1>0, <1>b, <2>1, <2>2, PendingMoves
  <2>4. \A k \in Lanes : Uncounted(k)' = Uncounted(k)
    BY <1>b DEF Uncounted, LoopIs
  <2> QED BY <1>b, <2>3, <2>4, CountsStand DEF Inv
<1> QED BY <1>1, <1>2, <1>3, <1>4, <1>5, <1>6, <1>7, <1>8 DEF Inv

LEMMA CopySlotStep ==
    ASSUME Inv, CopySlot
    PROVE  Inv'
<1>0. PICK l \in RingLanes :
          /\ l = worker.lane /\ l \in Lanes /\ ~RingIsEmpty(rings[l])
          /\ rings[l] \in Rings(Capacity[l], Numbers)
  BY DEF Inv, TypeOK, WorkerInv, CopySlot, Lanes
<1>a. worker' = [pc |-> "Releasing", lane |-> l, record |-> SlotToRead(rings[l])]
  BY <1>0 DEF Inv, TypeOK, CopySlot
<1>1. TypeOK'
  <2>1. SlotToRead(rings[l]) \in Numbers
    BY <1>0 DEF SlotToRead, Rings
  <2>2. worker' \in [pc : WorkerPcs, lane : Lanes, record : Numbers]
    BY <1>0, <1>a, <2>1 DEF WorkerPcs, LockHolders
  <2> QED BY <2>2 DEF Inv, TypeOK, CopySlot
<1>2. PhaseInv'
  BY DEF Inv, PhaseInv, LanesAreEmpty, LoopIs, TypeOK, Callers, LoopPcs, WorkerPcs,
     LockHolders, CopySlot
<1>3. CallerInv'
  BY DEF Inv, CallerInv, TypeOK, Callers, LoopPcs, FlightLoop, CopySlot
<1>4. PushInv'
  BY DEF Inv, PushInv, LoopIs, TypeOK, Callers, LoopPcs, FlightLoop, Lanes, CopySlot
<1>5. RingInv'
  BY DEF Inv, RingInv, CopySlot
<1>6. WorkerInv'
  BY <1>0, <1>a DEF Inv, WorkerInv, CopySlot
<1>7. MailboxInv'
  BY DEF Inv, MailboxInv, TypeOK, WorkerPcs, LockHolders, Questions, CopySlot
<1>8. CountInv'
  <2>1. \A k \in Lanes : Queued(k)' = Queued(k)
    BY DEF Queued, CopySlot
  <2>2. worker.pc # "Processing" /\ worker'.pc # "Processing"
    BY <1>a DEF CopySlot
  <2>3. Pending' = Pending
    BY <2>1, <2>2, PendingStays
  <2>4. \A k \in Lanes : Uncounted(k)' = Uncounted(k)
    BY DEF Uncounted, LoopIs, CopySlot
  <2> QED BY <2>3, <2>4, CountsStand DEF Inv, CopySlot
<1> QED BY <1>1, <1>2, <1>3, <1>4, <1>5, <1>6, <1>7, <1>8 DEF Inv

LEMMA PublishReadStep ==
    ASSUME Inv, PublishRead
    PROVE  Inv'
<1>0. PICK l \in RingLanes :
          /\ l = worker.lane /\ l \in Lanes /\ l \notin QueueLanes /\ ~RingIsEmpty(rings[l])
          /\ Capacity[l] \in Nat \ {0} /\ rings[l] \in Rings(Capacity[l], Numbers)
          /\ worker.pc = "Releasing" /\ worker.record = SlotToRead(rings[l])
  BY DEF Inv, TypeOK, WorkerInv, PublishRead, Lanes, RingLanes, QueueLanes
<1> DEFINE new == WithPublishedRead(rings[l])
<1>a. /\ rings' = [rings EXCEPT ![l] = new] /\ rings'[l] = new
      /\ \A k \in RingLanes \ {l} : rings'[k] = rings[k]
      /\ worker' = [pc |-> "Processing", lane |-> l, record |-> worker.record]
      /\ recordInFlight' = TRUE
      /\ UNCHANGED <<accepting, stopRequested, queues, mailbox, caller, offered,
                     counts, log, sessions>>
  BY <1>0 DEF Inv, TypeOK, PublishRead
<1>b. /\ new \in Rings(Capacity[l], Numbers)
      /\ Contents(rings[l]) # <<>> /\ Head(Contents(rings[l])) = worker.record
      /\ Contents(new) = Tail(Contents(rings[l]))
  BY <1>0, ReleaseTakesHead
<1>c. worker.record \in Records /\ Tail(Contents(rings[l])) \in Seq(Records)
  <2>1. Contents(rings[l]) \in Seq(Records)
    BY DEF Inv, RingInv
  <2> QED BY <1>b, <2>1, HeadTailProperties
<1>1. TypeOK'
  <2>1. worker' \in [pc : WorkerPcs, lane : Lanes, record : Numbers]
    BY <1>0, <1>a, <1>c DEF WorkerPcs, Numbers
  <2>2. \A k \in RingLanes : rings'[k] \in Rings(Capacity[k], Numbers)
    BY <1>a, <1>b DEF Inv, TypeOK
  <2>3. rings' \in [RingLanes -> AnyRing]
    BY <1>a, <1>b, RingsAreTyped DEF Inv
  <2> QED BY <1>a, <2>1, <2>2, <2>3 DEF Inv, TypeOK
<1>2. PhaseInv'
  BY <1>0, <1>a DEF Inv, PhaseInv, LoopIs
<1>3. CallerInv'
  BY DEF Inv, CallerInv, TypeOK, Callers, LoopPcs, FlightLoop, PublishRead
<1>4. PushInv'
  <2>1. \A k \in RingLanes : rings'[k].slots = rings[k].slots /\ rings'[k].write = rings[k].write
    BY <1>0, <1>a DEF WithPublishedRead, Rings
  <2>2. \A k \in RingLanes : ~RingIsFull(rings[k]) => ~RingIsFull(rings'[k])
    <3>1. ~RingIsFull(rings[l]) => ~RingIsFull(new)
      BY <1>0, ReleaseMakesRoom
    <3> QED BY <1>a, <3>1
  <2> QED BY <1>a, <2>1, <2>2 DEF Inv, PushInv, LoopIs
<1>5. RingInv'
  BY <1>a, <1>b, <1>c DEF Inv, RingInv
<1>6. WorkerInv'
  BY <1>a, <1>c DEF Inv, WorkerInv
<1>7. MailboxInv'
  BY <1>0, <1>a DEF Inv, MailboxInv
<1>8. CountInv'
  <2>1. \A k \in Lanes \ {l} : Queued(k)' = Queued(k)
    BY <1>a DEF Queued, Lanes
  <2>2. Queued(l) = Contents(rings[l]) /\ Queued(l)' = Tail(Contents(rings[l]))
    BY <1>0, <1>a, <1>b DEF Queued
  <2>3. Pending' = Pending
    BY <1>0, <1>a, <1>b, <2>1, <2>2, PendingMoves
  <2>4. \A k \in Lanes : Uncounted(k)' = Uncounted(k)
    BY <1>a DEF Uncounted, LoopIs
  <2> QED BY <1>a, <2>3, <2>4, CountsStand DEF Inv
<1> QED BY <1>1, <1>2, <1>3, <1>4, <1>5, <1>6, <1>7, <1>8 DEF Inv

LEMMA ProcessStep ==
    ASSUME Inv, NEW written \in BOOLEAN, Process(written)
    PROVE  Inv'
<1>0. PICK l \in Lanes :
          /\ l = worker.lane /\ worker.pc = "Processing" /\ worker.record \in Records
          /\ counts' = Counted(l, IF written THEN "written" ELSE "failed")
          /\ log' = IF written THEN [log EXCEPT ![l] = Append(log[l], worker.record)]
                    ELSE log
  BY DEF Inv, TypeOK, WorkerInv, Process
<1>a. worker' = EmptyHanded("Settling") /\ worker'.pc = "Settling"
  BY DEF Process, EmptyHanded
<1>1. TypeOK'
  <2>1. counts' \in [Lanes -> [submitted : Nat, written : Nat, failed : Nat]]
    BY <1>0, CountedOnce DEF Inv
  <2>2. worker' \in [pc : WorkerPcs, lane : Lanes, record : Numbers]
    BY <1>a, HandType DEF WorkerPcs
  <2>3. log' \in [Lanes -> Seq(Records)]
    BY <1>0, AppendProperties DEF Inv, TypeOK
  <2> QED BY <2>1, <2>2, <2>3 DEF Inv, TypeOK, Process
<1>2. PhaseInv'
  BY <1>0, <1>a DEF Inv, PhaseInv, LanesAreEmpty, LoopIs, Process
<1>3. CallerInv'
  BY DEF Inv, CallerInv, TypeOK, Callers, LoopPcs, FlightLoop, Process, EmptyHanded
<1>4. PushInv'
  BY DEF Inv, PushInv, LoopIs, TypeOK, Callers, LoopPcs, FlightLoop, Lanes,
     Process, EmptyHanded
<1>5. RingInv'
  BY DEF Inv, RingInv, Process, EmptyHanded
<1>6. WorkerInv'
  BY <1>0, <1>a DEF Inv, WorkerInv, Process
<1>7. MailboxInv'
  BY <1>0, <1>a DEF Inv, MailboxInv, Process
<1>8. CountInv'
  <2>1. \A k \in Lanes : Queued(k)' = Queued(k)
    BY DEF Queued, Process
  <2>2. /\ Len(Pending[l]) = Len(Pending'[l]) + 1
        /\ Pending' = [Pending EXCEPT ![l] = Tail(Pending[l])] /\ Pending[l] # <<>>
        /\ \A k \in Lanes \ {l} : Pending'[k] = Pending[k]
    BY <1>0, <1>a, <2>1, PendingShrinks
  <2>3. \A k \in Lanes : Uncounted(k)' = Uncounted(k)
    BY DEF Uncounted, LoopIs, Process
  <2>4. /\ counts'[l] = [counts[l] EXCEPT ![IF written THEN "written" ELSE "failed"] = @ + 1]
        /\ \A k \in Lanes \ {l} : counts'[k] = counts[k]
    BY <1>0, CountedOnce DEF Inv
  <2>5. PICK s \in Nat, u \in Nat, w \in Nat, f \in Nat, n \in Nat :
           /\ s = counts[l].submitted /\ u = Uncounted(l) /\ w = counts[l].written
           /\ f = counts[l].failed /\ n = Len(Pending'[l])
    <3>1. /\ counts[l].submitted \in Nat /\ counts[l].written \in Nat
          /\ counts[l].failed \in Nat /\ Uncounted(l) \in Nat
      BY DEF Inv, TypeOK, Uncounted
    <3>2. Len(Pending'[l]) \in Nat
      BY <2>2, PendingLength, HeadTailProperties, LenProperties
    <3> QED BY <3>1, <3>2, Zenon
  <2>6. s + u = w + f + (n + 1)
    BY <2>2, <2>5 DEF Inv, CountInv
  <2>7. counts'[l].submitted = s /\ counts'[l].written + counts'[l].failed = w + f + 1
    <3>1. counts[l] \in [submitted : Nat, written : Nat, failed : Nat]
      BY DEF Inv, TypeOK
    <3>2. CASE written
      <4>1. counts'[l] = [counts[l] EXCEPT !["written"] = @ + 1]
        BY <2>4, <3>2
      <4>2. /\ counts'[l].submitted = counts[l].submitted
            /\ counts'[l].written = counts[l].written + 1
            /\ counts'[l].failed = counts[l].failed
        BY <3>1, <4>1
      <4>3. w + 1 + f = w + f + 1
        OBVIOUS
      <4> QED BY <2>5, <4>2, <4>3
    <3>3. CASE ~written
      <4>1. counts'[l] = [counts[l] EXCEPT !["failed"] = @ + 1]
        BY <2>4, <3>3
      <4>2. /\ counts'[l].submitted = counts[l].submitted
            /\ counts'[l].written = counts[l].written
            /\ counts'[l].failed = counts[l].failed + 1
        BY <3>1, <4>1
      <4>3. w + (f + 1) = w + f + 1
        OBVIOUS
      <4> QED BY <2>5, <4>2, <4>3
    <3> QED BY <3>2, <3>3
  <2>8. counts'[l].submitted + Uncounted(l)'
           = counts'[l].written + counts'[l].failed + Len(Pending'[l])
    <3>1. s + u = (w + f + 1) + n
      BY <2>6
    <3> QED BY <2>3, <2>5, <2>7, <3>1
  <2>9. \A k \in Lanes \ {l} : counts'[k].submitted + Uncounted(k)'
           = counts'[k].written + counts'[k].failed + Len(Pending'[k])
    BY <2>2, <2>3, <2>4 DEF Inv, CountInv
  <2> QED BY <2>8, <2>9 DEF CountInv
<1> QED BY <1>1, <1>2, <1>3, <1>4, <1>5, <1>6, <1>7, <1>8 DEF Inv

LEMMA SettleStep ==
    ASSUME Inv, Settle
    PROVE  Inv'
<1>1. TypeOK'
  BY HandType DEF Inv, TypeOK, Settle, WorkerPcs
<1>2. PhaseInv'
  BY DEF Inv, PhaseInv, LanesAreEmpty, LoopIs, TypeOK, Callers, LoopPcs, WorkerPcs,
     LockHolders, Settle, EmptyHanded
<1>3. CallerInv'
  BY DEF Inv, CallerInv, TypeOK, Callers, LoopPcs, FlightLoop, Settle, EmptyHanded
<1>4. PushInv'
  BY DEF Inv, PushInv, LoopIs, TypeOK, Callers, LoopPcs, FlightLoop, Lanes, Settle,
     EmptyHanded
<1>5. RingInv'
  BY DEF Inv, RingInv, Settle, EmptyHanded
<1>6. WorkerInv'
  BY DEF Inv, WorkerInv, TypeOK, WorkerPcs, LockHolders, Settle, EmptyHanded
<1>7. MailboxInv'
  BY DEF Inv, MailboxInv, TypeOK, WorkerPcs, LockHolders, Questions, Settle,
     EmptyHanded
<1>8. CountInv'
  BY DEF Inv, CountInv, Uncounted, Pending, Held, Queued, LoopIs, TypeOK, Callers,
     Lanes, FlightLoop, Settle, EmptyHanded
<1> QED BY <1>1, <1>2, <1>3, <1>4, <1>5, <1>6, <1>7, <1>8 DEF Inv

LEMMA PublishFactStep ==
    ASSUME Inv, PublishFact
    PROVE  Inv'
<1>1. TypeOK'
  BY HandType DEF Inv, TypeOK, PublishFact, WorkerPcs
<1>2. PhaseInv'
  BY DEF Inv, PhaseInv, LanesAreEmpty, LoopIs, TypeOK, Callers, LoopPcs, WorkerPcs,
     LockHolders, PublishFact, EmptyHanded
<1>3. CallerInv'
  BY DEF Inv, CallerInv, TypeOK, Callers, LoopPcs, FlightLoop, PublishFact,
     EmptyHanded
<1>4. PushInv'
  BY DEF Inv, PushInv, LoopIs, TypeOK, Callers, LoopPcs, FlightLoop, Lanes,
     PublishFact, EmptyHanded
<1>5. RingInv'
  BY DEF Inv, RingInv, PublishFact, EmptyHanded
<1>6. WorkerInv'
  BY DEF Inv, WorkerInv, TypeOK, WorkerPcs, LockHolders, PublishFact, EmptyHanded
<1>7. MailboxInv'
  BY DEF Inv, MailboxInv, TypeOK, WorkerPcs, LockHolders, Questions, PublishFact,
     EmptyHanded
<1>8. CountInv'
  BY DEF Inv, CountInv, Uncounted, Pending, Held, Queued, LoopIs, TypeOK, Callers,
     Lanes, FlightLoop, PublishFact, EmptyHanded
<1> QED BY <1>1, <1>2, <1>3, <1>4, <1>5, <1>6, <1>7, <1>8 DEF Inv

LEMMA ExitStep ==
    ASSUME Inv, Exit
    PROVE  Inv'
<1>1. TypeOK'
  BY HandType DEF Inv, TypeOK, Exit, WorkerPcs
<1>2. PhaseInv'
  BY DEF Inv, PhaseInv, LanesAreEmpty, LoopIs, TypeOK, Callers, LoopPcs, WorkerPcs,
     LockHolders, Exit, EmptyHanded, LeavesWhen, WorkIsQueued
<1>3. CallerInv'
  BY DEF Inv, CallerInv, TypeOK, Callers, LoopPcs, FlightLoop, Exit, EmptyHanded,
     LeavesWhen, WorkIsQueued
<1>4. PushInv'
  BY DEF Inv, PushInv, LoopIs, TypeOK, Callers, LoopPcs, FlightLoop, Lanes, Exit,
     EmptyHanded, LeavesWhen, WorkIsQueued
<1>5. RingInv'
  BY DEF Inv, RingInv, Exit, EmptyHanded, LeavesWhen, WorkIsQueued
<1>6. WorkerInv'
  BY DEF Inv, WorkerInv, TypeOK, WorkerPcs, LockHolders, Exit, EmptyHanded,
     LeavesWhen, WorkIsQueued
<1>7. MailboxInv'
  BY DEF Inv, MailboxInv, TypeOK, WorkerPcs, LockHolders, Questions, Exit,
     EmptyHanded, LeavesWhen, WorkIsQueued
<1>8. CountInv'
  BY DEF Inv, CountInv, Uncounted, Pending, Held, Queued, LoopIs, TypeOK, Callers,
     Lanes, FlightLoop, Exit, EmptyHanded, LeavesWhen, WorkIsQueued
<1> QED BY <1>1, <1>2, <1>3, <1>4, <1>5, <1>6, <1>7, <1>8 DEF Inv

LEMMA InitInv == Init => Inv
<1> SUFFICES ASSUME Init PROVE Inv
  OBVIOUS
<1>1. \A l \in Lanes : Pending[l] = <<>> /\ Uncounted(l) = 0
  <2>1. \A l \in Lanes : Queued(l) = <<>>
    BY EmptyRingsType DEF Queued, Lanes, Init, EmptyQueues
  <2>2. \A l \in Lanes : Held(l) = <<>>
    BY DEF Held, Init, NoWorker, EmptyHanded
  <2>3. caller[FlightLoop].pc = "Free"
    BY DEF Init, AtRest, Callers
  <2> QED BY <2>1, <2>2, <2>3 DEF Pending, Uncounted, LoopIs
<1>2. TypeOK
  <2>1. worker \in [pc : WorkerPcs, lane : Lanes, record : Numbers]
    BY HandType DEF Init, NoWorker, WorkerPcs
  <2>2. caller \in [Callers -> [pc : LoopPcs, lane : Lanes, record : Numbers]]
    BY RestType DEF Init
  <2>3. /\ queues \in [QueueLanes -> Seq(Records)]
        /\ \A l \in QueueLanes : Len(queues[l]) <= Capacity[l]
    BY EmptySeq DEF Init, EmptyQueues, Lanes
  <2>4. /\ rings \in [RingLanes -> AnyRing]
        /\ \A l \in RingLanes : rings[l] \in Rings(Capacity[l], Numbers)
    BY EmptyRingsType DEF Init
  <2>5. /\ offered \in [Lanes -> Nat] /\ \A l \in Lanes : offered[l] <= MaxRecords[l]
        /\ counts \in [Lanes -> [submitted : Nat, written : Nat, failed : Nat]]
    BY DEF Init, NoCounts
  <2>6. log \in [Lanes -> Seq(Records)] /\ sessions \in 0 .. MaxSessions
    BY EmptySeq DEF Init
  <2>7. mailbox \in [state : {"Idle", "Queued", "Working", "Ready"}, of : 0 .. MaxQuestions]
    BY DEF Init
  <2> QED BY <2>1, <2>2, <2>3, <2>4, <2>5, <2>6, <2>7 DEF TypeOK, Init
<1>3. PhaseInv
  <2>1. LanesAreEmpty
    BY EmptyRingsType DEF LanesAreEmpty, Init, EmptyQueues
  <2>2. caller[FlightLoop].pc = "Free"
    BY DEF Init, AtRest, Callers
  <2> QED BY <2>1, <2>2 DEF PhaseInv, Init, NoWorker, EmptyHanded, LoopIs
<1>4. CallerInv /\ PushInv
  BY DEF CallerInv, PushInv, Init, AtRest, Callers, LoopIs
<1>5. RingInv
  BY EmptyRingsType, EmptySeq DEF RingInv, Init
<1>6. WorkerInv /\ MailboxInv
  BY DEF WorkerInv, MailboxInv, Init, NoWorker, EmptyHanded
<1>7. CountInv
  BY <1>1 DEF CountInv, Init, NoCounts
<1> QED BY <1>2, <1>3, <1>4, <1>5, <1>6, <1>7 DEF Inv

LEMMA StutterStep == ASSUME Inv, UNCHANGED vars PROVE Inv'
<1> USE DEF vars
<1>1. TypeOK' /\ PhaseInv' /\ CallerInv'
  BY DEF Inv, TypeOK, PhaseInv, LanesAreEmpty, CallerInv, LoopIs
<1>2. PushInv' /\ RingInv' /\ WorkerInv' /\ MailboxInv'
  BY DEF Inv, PushInv, RingInv, WorkerInv, MailboxInv, LoopIs
<1>3. CountInv'
  BY DEF Inv, CountInv, Pending, Held, Queued, Uncounted, LoopIs
<1> QED BY <1>1, <1>2, <1>3 DEF Inv

LEMMA InductiveInv == Spec => []Inv
<1>1. ASSUME Inv, [Next]_vars PROVE Inv'
  <2>1. CASE CallerStep
    BY <1>1, <2>1, OfferStep, EnqueueStep, ContendStep DEF CallerStep
  <2>2. CASE PushSteps
    BY <1>1, <2>2, BeginPushStep, StoreSlotStep, PublishWriteStep, CountPushStep
       DEF PushSteps
  <2>3. CASE SubmitPdcLogRequest \/ HarvestPdcLogFact \/ Start
    BY <1>1, <2>3, SubmitPdcLogRequestStep, HarvestPdcLogFactStep, StartStep
  <2>4. CASE StopSteps
    BY <1>1, <2>4, StopAcceptingStep, RequestStopStep, JoinStep DEF StopSteps
  <2>5. CASE WorkerStep
    <3>1. CASE \E written \in BOOLEAN : Process(written)
      BY <1>1, <3>1, ProcessStep
    <3>2. CASE TakeCritical \/ TakeRequest \/ LookForRecord \/ TryTiming \/ TryEvidence
      BY <1>1, <3>2, TakeCriticalStep, TakeRequestStep, LookForRecordStep,
         TryTimingStep, TryEvidenceStep
    <3>3. CASE TakeRoutine \/ CopySlot \/ PublishRead \/ Settle \/ PublishFact \/ Exit
      BY <1>1, <3>3, TakeRoutineStep, CopySlotStep, PublishReadStep, SettleStep,
         PublishFactStep, ExitStep
    <3> QED BY <2>5, <3>1, <3>2, <3>3 DEF WorkerStep
  <2>6. CASE UNCHANGED vars
    BY <1>1, <2>6, StutterStep
  <2> QED BY <1>1, <2>1, <2>2, <2>3, <2>4, <2>5, <2>6 DEF Next
<1> QED BY <1>1, InitInv, PTL DEF Spec

-----------------------------------------------------------------------------
(* The theorems                                                            *)

\* The lanes never exceed their capacity, whatever the callers do
\* (AsyncDiagnosticsWriter.cpp:300-468).
THEOREM WriterTypeCorrect == Spec => []TypeOK
<1>1. Inv => TypeOK
  BY DEF Inv
<1> QED BY <1>1, InductiveInv, PTL

\* The worker never copies the slot the flight loop stores
\* (AsyncDiagnosticsWriter.cpp:360-381).
THEOREM SlotsNeverShared == Spec => []SlotsAreNotShared
<1>1. Inv => SlotsAreNotShared
  BY DEF Inv, WorkerInv, SlotsAreNotShared, RingIsEmpty
<1> QED BY <1>1, InductiveInv, PTL

\* The pop of the routine lane, which has no test of its own, is never reached
\* with the lane empty (AsyncDiagnosticsWriter.cpp:1060-1063).
THEOREM RoutineIsAlwaysThere == Spec => []RoutineIsThere
<1>1. Inv => RoutineIsThere
  BY DEF Inv, WorkerInv, RoutineIsThere
<1> QED BY <1>1, InductiveInv, PTL

\* A writer that WaitUntilIdle finds idle has settled every record submitted
\* (AsyncDiagnosticsWriter.cpp:1317-1331).
THEOREM IdleMeansDrained == Spec => []IdleIsDrained
<1>1. ASSUME Inv, Idle, LoopIs("Free"), NEW l \in Lanes
      PROVE  counts[l].submitted = counts[l].written + counts[l].failed
  <2>1. Uncounted(l) = 0
    BY <1>1 DEF Uncounted, LoopIs
  <2>2. Pending[l] = <<>>
    <3>1. worker.pc # "Processing"
      BY <1>1 DEF Inv, WorkerInv, Idle
    <3>2. Queued(l) = <<>>
      BY <1>1, EmptyMeansNoContents DEF Idle, Queued, Lanes
    <3> QED BY <3>1, <3>2 DEF Pending, Held
  <2>3. /\ counts[l].submitted \in Nat /\ counts[l].written \in Nat
        /\ counts[l].failed \in Nat
    BY <1>1 DEF Inv, TypeOK
  <2>4. counts[l].submitted + 0 = counts[l].written + counts[l].failed + 0
    BY <1>1, <2>1, <2>2, EmptySeq DEF Inv, CountInv
  <2> QED BY <2>3, <2>4
<1>2. Inv => IdleIsDrained
  BY <1>1 DEF IdleIsDrained
<1> QED BY <1>2, InductiveInv, PTL

-----------------------------------------------------------------------------
(* The refinement                                                          *)

LEMMA QuietStep ==
    ASSUME Pending' = Pending, UNCHANGED <<accepting, log, mailbox>>,
           worker.pc = "None" <=> worker'.pc = "None"
    PROVE  [Promise!Next]_(Promise!vars)
BY DEF Promise!vars, Phase, Question

LEMMA AcceptStep ==
    ASSUME NEW l \in Lanes, NEW r \in Records, accepting,
           Pending' = [Pending EXCEPT ![l] = Append(Pending[l], r)],
           UNCHANGED <<accepting, log, mailbox, worker>>
    PROVE  Promise!Next
<1>1. Phase = "Open" /\ Phase' = Phase /\ Question' = Question
  BY DEF Phase, Question
<1>2. Promise!Accept(l, r)
  BY <1>1 DEF Promise!Accept
<1> QED BY <1>2 DEF Promise!Next

\* What the callers do: a record is accepted when it is queued, or when the index
\* of its slot is published.
LEMMA CallersKeepPromise ==
    ASSUME Inv, CallerStep \/ PushSteps
    PROVE  [Promise!Next]_(Promise!vars)
<1>1. ASSUME NEW c \in Callers, Contend(c) \/ \E l \in QueueLanes : Offer(c, l)
      PROVE  [Promise!Next]_(Promise!vars)
  BY <1>1, PendingStays, QuietStep DEF Queued, Offer, Contend
<1>2. ASSUME NEW c \in Callers, Enqueue(c) PROVE [Promise!Next]_(Promise!vars)
  <2>1. PICK l \in QueueLanes, r \in Records :
           l = caller[c].lane /\ r = caller[c].record /\ l \in Lanes
    BY <1>2 DEF Inv, CallerInv, Enqueue, Lanes
  <2>2. UNCHANGED <<accepting, log, mailbox, worker, rings>>
    BY <1>2 DEF Enqueue
  <2>3. CASE Admissible(l)
    <3>1. queues' = [queues EXCEPT ![l] = Append(queues[l], r)]
      BY <1>2, <2>1, <2>3 DEF Enqueue
    <3>2. /\ Queued(l)' = Append(Queued(l), r)
          /\ \A k \in Lanes \ {l} : Queued(k)' = Queued(k)
      BY <2>1, <2>2, <3>1 DEF Queued, Inv, TypeOK
    <3>3. Pending' = [Pending EXCEPT ![l] = Append(Pending[l], r)]
      BY <2>1, <2>2, <3>2, PendingGrows
    <3> QED BY <2>1, <2>2, <2>3, <3>3, AcceptStep DEF Admissible
  <2>4. CASE ~Admissible(l)
    <3>1. queues' = queues
      BY <1>2, <2>1, <2>4 DEF Enqueue
    <3> QED BY <2>2, <3>1, PendingStays, QuietStep DEF Queued
  <2> QED BY <2>3, <2>4
<1>3. ASSUME NEW l \in RingLanes, BeginPush(l) PROVE [Promise!Next]_(Promise!vars)
  BY <1>3, PendingStays, QuietStep DEF Queued, BeginPush
<1>4. CASE StoreSlot
  <2>1. PICK l \in RingLanes, r \in Numbers :
           /\ l = caller[FlightLoop].lane /\ r = caller[FlightLoop].record
           /\ Capacity[l] \in Nat \ {0} /\ rings[l] \in Rings(Capacity[l], Numbers)
    BY <1>4 DEF Inv, PushInv, TypeOK, StoreSlot, LoopIs, Lanes, Callers
  <2>2. \A k \in RingLanes : Contents(rings'[k]) = Contents(rings[k])
    <3>1. rings' = [rings EXCEPT ![l] = WithSlot(rings[l], r)]
      BY <1>4, <2>1 DEF StoreSlot
    <3>2. Contents(WithSlot(rings[l], r)) = Contents(rings[l])
      BY <2>1, StoreIsInvisible
    <3> QED BY <3>1, <3>2 DEF Inv, TypeOK
  <2>3. \A k \in Lanes : Queued(k)' = Queued(k)
    BY <1>4, <2>2 DEF Queued, Lanes, StoreSlot
  <2> QED BY <1>4, <2>3, PendingStays, QuietStep DEF StoreSlot
<1>5. CASE PublishWrite
  <2>1. PICK l \in RingLanes, r \in Records :
           /\ l = caller[FlightLoop].lane /\ r = caller[FlightLoop].record
           /\ l \in Lanes /\ l \notin QueueLanes /\ accepting
           /\ Capacity[l] \in Nat \ {0} /\ rings[l] \in Rings(Capacity[l], Numbers)
           /\ ~RingIsFull(rings[l]) /\ rings[l].slots[rings[l].write] = r
    BY <1>5 DEF Inv, PushInv, PhaseInv, TypeOK, PublishWrite, LoopIs, Lanes,
       RingLanes,
       QueueLanes, Callers
  <2>2. rings' = [rings EXCEPT ![l] = WithPublishedWrite(rings[l])]
    BY <1>5, <2>1 DEF PublishWrite
  <2>3. UNCHANGED <<accepting, log, mailbox, worker, queues>>
    BY <1>5 DEF PublishWrite
  <2>4. Contents(WithPublishedWrite(rings[l])) = Append(Contents(rings[l]), r)
    BY <2>1, PublishAppends
  <2>5. /\ Queued(l)' = Append(Queued(l), r)
        /\ \A k \in Lanes \ {l} : Queued(k)' = Queued(k)
    BY <2>1, <2>2, <2>3, <2>4 DEF Queued, Inv, TypeOK, Lanes
  <2>6. Pending' = [Pending EXCEPT ![l] = Append(Pending[l], r)]
    BY <2>1, <2>3, <2>5, PendingGrows
  <2> QED BY <2>1, <2>3, <2>6, AcceptStep
<1>6. CASE CountPush
  BY <1>6, PendingStays, QuietStep DEF Queued, CountPush
<1>7. CASE CallerStep
  BY <1>1, <1>2, <1>7 DEF CallerStep
<1>8. CASE PushSteps
  BY <1>3, <1>4, <1>5, <1>6, <1>8 DEF PushSteps
<1> QED BY <1>7, <1>8

\* What the Brain asks and collects, and how a session begins and ends.
LEMMA SessionKeepsPromise ==
    ASSUME Inv, SubmitPdcLogRequest \/ HarvestPdcLogFact \/ Start \/ StopSteps
    PROVE  [Promise!Next]_(Promise!vars)
<1>0. mailbox.state \in {"Idle", "Queued", "Working", "Ready"}
  BY DEF Inv, TypeOK
<1>1. CASE SubmitPdcLogRequest
  <2>1. Pending' = Pending /\ Phase = "Open" /\ Phase' = Phase /\ log' = log
    BY <1>1, PendingStays DEF Queued, SubmitPdcLogRequest, Phase
  <2>2. mailbox.of + 1 \in Questions
    BY <1>1 DEF Inv, TypeOK, SubmitPdcLogRequest, Questions
  <2>3. /\ Question = Promise!NoQuestion
        /\ Question' = Promise!Asked(mailbox.of + 1)
    BY <1>1 DEF SubmitPdcLogRequest, Question, Promise!NoQuestion, Promise!Asked
  <2>4. Promise!Ask(mailbox.of + 1)
    BY <2>1, <2>3 DEF Promise!Ask
  <2> QED BY <2>2, <2>4 DEF Promise!Next
<1>2. CASE HarvestPdcLogFact
  <2>1. Pending' = Pending /\ Phase' = Phase /\ log' = log
    BY <1>2, PendingStays DEF Queued, HarvestPdcLogFact, Phase
  <2>2. mailbox.of \in Questions
    BY <1>2 DEF Inv, MailboxInv, HarvestPdcLogFact
  <2>3. /\ Question = Promise!Answered(mailbox.of)
        /\ Question' = Promise!NoQuestion
    BY <1>2 DEF HarvestPdcLogFact, Question, Promise!NoQuestion, Promise!Answered,
       Inv,
       TypeOK
  <2>4. Promise!Take
    BY <2>1, <2>2, <2>3 DEF Promise!Take
  <2> QED BY <2>4 DEF Promise!Next
<1>3. CASE Start
  <2>1. worker.pc = "None" /\ worker'.pc = "Waiting" /\ accepting' /\ log' = log
    BY <1>3 DEF Start, EmptyHanded
  <2>2. Phase = "Closed" /\ Phase' = "Open"
    BY <2>1 DEF Phase, Inv, PhaseInv
  <2>3. \A l \in Lanes : Held(l) = <<>> /\ Held(l)' = <<>>
    BY <2>1 DEF Held
  <2>4. \A l \in Lanes : Queued(l) = <<>>
    BY <2>1, EmptyMeansNoContents DEF Inv, PhaseInv, LanesAreEmpty, Queued, Lanes
  <2>5. \A l \in Lanes : Queued(l)' = <<>>
    BY <1>3, EmptyRingsType DEF Start, EmptyQueues, Queued, Lanes
  <2>6. Pending' = Pending
    BY <2>3, <2>4, <2>5 DEF Pending
  <2>7. Question' = Question
    BY <1>3, <2>1 DEF Start, Question, Inv, PhaseInv, TypeOK
  <2>8. Promise!Open
    BY <2>1, <2>2, <2>6, <2>7 DEF Promise!Open
  <2> QED BY <2>8 DEF Promise!Next
<1>4. CASE StopAccepting
  <2>1. Pending' = Pending /\ log' = log /\ Question' = Question
    BY <1>4, PendingStays DEF Queued, StopAccepting, Question
  <2>2. Phase = "Open" /\ Phase' = "Closing"
    BY <1>4 DEF StopAccepting, Phase, Inv, PhaseInv
  <2>3. Promise!StartClosing
    BY <2>1, <2>2 DEF Promise!StartClosing
  <2> QED BY <2>3 DEF Promise!Next
<1>5. CASE RequestStop
  BY <1>5, PendingStays, QuietStep DEF Queued, RequestStop
<1>6. CASE Join
  <2>1. worker.pc = "Exited" /\ worker'.pc = "None" /\ log' = log /\ ~accepting
        /\ ~accepting'
    BY <1>6 DEF Join, NoWorker, EmptyHanded, Inv, PhaseInv
  <2>2. Phase = "Closing" /\ Phase' = "Closed"
    BY <2>1 DEF Phase
  <2>3. \A l \in Lanes : Queued(l) = <<>> /\ Held(l) = <<>>
    BY <2>1, EmptyMeansNoContents DEF Inv, PhaseInv, LanesAreEmpty, Queued, Lanes,
       Held
  <2>4. Pending' = Pending
    BY <1>6, <2>1, PendingStays DEF Queued, Join
  <2>5. \A l \in Lanes : Pending[l] = <<>>
    BY <2>3 DEF Pending
  <2>6. Question' = Promise!NoQuestion
    BY <1>6 DEF Join, Question, Promise!NoQuestion, Inv, TypeOK
  <2>7. Promise!Close
    BY <2>1, <2>2, <2>4, <2>5, <2>6 DEF Promise!Close
  <2> QED BY <2>7 DEF Promise!Next
<1> QED BY <1>1, <1>2, <1>3, <1>4, <1>5, <1>6 DEF StopSteps

\* What the worker does: taking a record changes nothing that was promised,
\* processing it ends it.
LEMMA WorkerKeepsPromise ==
    ASSUME Inv, WorkerStep
    PROVE  [Promise!Next]_(Promise!vars)
<1>1. CASE TakeCritical
  <2>1. /\ queues["critical"] # <<>> /\ worker.pc = "Waiting"
        /\ worker' = [pc |-> "Processing", lane |-> "critical",
                      record |-> Head(queues["critical"])]
        /\ queues' = [queues EXCEPT !["critical"] = Tail(queues["critical"])]
        /\ UNCHANGED <<accepting, rings, mailbox, log>>
    BY <1>1 DEF TakeCritical, TakeFromQueue
  <2>2. "critical" \in QueueLanes /\ "critical" \in Lanes
    BY DEF QueueLanes, Lanes
  <2>3. /\ Queued("critical") = queues["critical"]
        /\ Queued("critical")' = Tail(queues["critical"])
        /\ \A k \in Lanes \ {"critical"} : Queued(k)' = Queued(k)
    BY <2>1, <2>2 DEF Queued, Inv, TypeOK
  <2>4. Pending' = Pending
    BY <2>1, <2>2, <2>3, PendingMoves
  <2> QED BY <2>1, <2>4, QuietStep
<1>2. CASE TakeRoutine
  <2>1. /\ queues["routine"] # <<>> /\ worker.pc = "TryRoutine"
        /\ worker' = [pc |-> "Processing", lane |-> "routine",
                      record |-> Head(queues["routine"])]
        /\ queues' = [queues EXCEPT !["routine"] = Tail(queues["routine"])]
        /\ UNCHANGED <<accepting, rings, mailbox, log>>
    BY <1>2 DEF TakeRoutine, TakeFromQueue
  <2>2. "routine" \in QueueLanes /\ "routine" \in Lanes
    BY DEF QueueLanes, Lanes
  <2>3. /\ Queued("routine") = queues["routine"]
        /\ Queued("routine")' = Tail(queues["routine"])
        /\ \A k \in Lanes \ {"routine"} : Queued(k)' = Queued(k)
    BY <2>1, <2>2 DEF Queued, Inv, TypeOK
  <2>4. Pending' = Pending
    BY <2>1, <2>2, <2>3, PendingMoves
  <2> QED BY <2>1, <2>4, QuietStep
<1>3. CASE PublishRead
  <2>1. PICK l \in RingLanes :
           /\ l = worker.lane /\ l \in Lanes /\ l \notin QueueLanes
           /\ ~RingIsEmpty(rings[l]) /\ Capacity[l] \in Nat \ {0}
           /\ rings[l] \in Rings(Capacity[l], Numbers)
           /\ worker.pc = "Releasing" /\ worker.record = SlotToRead(rings[l])
    BY <1>3 DEF Inv, TypeOK, WorkerInv, PublishRead, Lanes, RingLanes, QueueLanes
  <2>2. /\ rings' = [rings EXCEPT ![l] = WithPublishedRead(rings[l])]
        /\ worker'.pc = "Processing" /\ worker'.lane = l
        /\ worker'.record = worker.record
        /\ UNCHANGED <<accepting, queues, mailbox, log>>
    BY <1>3, <2>1 DEF PublishRead, Inv, TypeOK
  <2>3. /\ Contents(rings[l]) # <<>> /\ Head(Contents(rings[l])) = worker.record
        /\ Contents(WithPublishedRead(rings[l])) = Tail(Contents(rings[l]))
    BY <2>1, ReleaseTakesHead
  <2>4. /\ Queued(l) = Contents(rings[l]) /\ Queued(l)' = Tail(Contents(rings[l]))
        /\ \A k \in Lanes \ {l} : Queued(k)' = Queued(k)
    BY <2>1, <2>2, <2>3 DEF Queued, Inv, TypeOK, Lanes
  <2>5. Pending' = Pending
    BY <2>1, <2>2, <2>3, <2>4, PendingMoves
  <2> QED BY <2>1, <2>2, <2>5, QuietStep
<1>4. ASSUME NEW written \in BOOLEAN, Process(written)
      PROVE  [Promise!Next]_(Promise!vars)
  <2>1. /\ worker.pc = "Processing" /\ worker'.pc = "Settling"
        /\ UNCHANGED <<accepting, queues, rings, mailbox>>
    BY <1>4 DEF Process, EmptyHanded
  <2>2. \A k \in Lanes : Queued(k)' = Queued(k)
    BY <2>1 DEF Queued
  <2>3. PICK l \in Lanes : l = worker.lane
    BY DEF Inv, TypeOK
  <2>4. /\ Pending[l] # <<>> /\ Head(Pending[l]) = worker.record
        /\ Pending' = [Pending EXCEPT ![l] = Tail(Pending[l])]
    BY <2>1, <2>2, <2>3, PendingShrinks
  <2>5. log' = IF written THEN [log EXCEPT ![l] = Append(log[l], Head(Pending[l]))]
               ELSE log
    BY <1>4, <2>3, <2>4 DEF Process
  <2>6. Phase' = Phase /\ Question' = Question
    BY <2>1 DEF Phase, Question
  <2>7. Promise!Finish(l, written)
    BY <2>4, <2>5, <2>6 DEF Promise!Finish
  <2> QED BY <2>7 DEF Promise!Next
<1>5. CASE TakeRequest \/ PublishFact
  <2>1. /\ worker.pc \notin {"Processing", "None"} /\ worker'.pc \notin {"Processing", "None"}
        /\ UNCHANGED <<accepting, queues, rings, log>>
    BY <1>5 DEF TakeRequest, PublishFact, EmptyHanded
  <2>2. Pending' = Pending /\ Phase' = Phase
    BY <2>1, PendingStays DEF Queued, Phase
  <2>3. CASE TakeRequest
    <3>1. Question' = Question
      BY <2>3 DEF TakeRequest, Question, Inv, TypeOK
    <3> QED BY <2>1, <2>2, <3>1 DEF Promise!vars
  <2>4. CASE PublishFact
    <3>1. mailbox.state = "Working" /\ mailbox.of \in Questions
      BY <2>4 DEF PublishFact, Inv, MailboxInv
    <3>2. mailbox' = [mailbox EXCEPT !.state = "Ready"]
      BY <2>4, <3>1 DEF PublishFact
    <3>3. /\ Question = Promise!Asked(mailbox.of)
          /\ Question' = Promise!Answered(mailbox.of)
      BY <3>1, <3>2 DEF Question, Promise!Asked, Promise!Answered, Inv, TypeOK
    <3>4. Promise!Answer
      BY <2>1, <2>2, <3>1, <3>3 DEF Promise!Answer
    <3> QED BY <3>4 DEF Promise!Next
  <2> QED BY <1>5, <2>3, <2>4
<1>6. CASE LookForRecord \/ TryTiming \/ TryEvidence \/ CopySlot \/ Settle \/ Exit
  <2>1. /\ worker.pc \notin {"Processing", "None"} /\ worker'.pc \notin {"Processing", "None"}
        /\ UNCHANGED <<accepting, queues, rings, mailbox, log>>
    <3>1. CASE LookForRecord \/ CopySlot
      BY <3>1 DEF LookForRecord, Goto, CopySlot, Inv, TypeOK
    <3>3. CASE Settle \/ Exit
      BY <3>3 DEF Settle, Exit, EmptyHanded
    <3>2. CASE TryTiming \/ TryEvidence
      BY <3>2 DEF TryTiming, TryEvidence, TryRing, Inv, TypeOK
    <3> QED BY <1>6, <3>1, <3>2, <3>3
  <2>2. Pending' = Pending
    BY <2>1, PendingStays DEF Queued
  <2> QED BY <2>1, <2>2, QuietStep
<1> QED BY <1>1, <1>2, <1>3, <1>4, <1>5, <1>6 DEF WorkerStep

\* For every capacity and every number of callers, what the writer does is what
\* DiagnosticsLog allows (AsyncDiagnosticsWriter.cpp:600-745, 947-1185).
THEOREM WriterKeepsPromise == Spec => KeepsPromise
<1>1. Init => Promise!Init
  <2> SUFFICES ASSUME Init PROVE Promise!Init
    OBVIOUS
  <2>1. Phase = "Closed" /\ Question = Promise!NoQuestion
    BY DEF Init, Phase, Question, NoWorker, EmptyHanded, Promise!NoQuestion
  <2>2. \A l \in Lanes : Queued(l) = <<>> /\ Held(l) = <<>>
    BY EmptyRingsType
       DEF Queued, Held, Lanes, Init, EmptyQueues, NoWorker, EmptyHanded
  <2>3. Pending = [l \in Lanes |-> <<>>] /\ log = [l \in Lanes |-> <<>>]
    BY <2>2 DEF Pending, Init
  <2> QED BY <2>1, <2>3 DEF Promise!Init
<1>2. ASSUME Inv, [Next]_vars PROVE [Promise!Next]_(Promise!vars)
  <2>1. CASE UNCHANGED vars
    BY <2>1, PendingStays, QuietStep DEF vars, Queued
  <2> QED BY <1>2, <2>1, CallersKeepPromise, SessionKeepsPromise, WorkerKeepsPromise
          DEF Next
<1> QED BY <1>1, <1>2, InductiveInv, PTL DEF Spec, KeepsPromise, Promise!Spec

=============================================================================
