------------------------- MODULE PdcLogMonitorProofs -------------------------
(***************************************************************************)
(* Theorems about PdcLogMonitor, for every value of its constants.  The    *)
(* inductive invariant IInv says that everything in the inbox lies behind  *)
(* the replay cursor and everything still staged beyond it, and that a     *)
(* request whose stamps are current asks for what the monitor is reading.  *)
(* The lemmas follow the callback: one per operation of the monitor, then  *)
(* one per action, then the theorems.  The second part adds the ledger,    *)
(* LedgerInv: which line of which log every staged record and every entry  *)
(* of the inbox is, and that no login or logout lies between a staged      *)
(* message and the read cursor.  It is proved over IInv, in the same order.*)
(***************************************************************************)
EXTENDS PdcLogMonitor, FiniteSetTheorems, WellFoundedInduction, TLAPS

-----------------------------------------------------------------------------
(* Facts about data *)

\* A finite non-empty set of records has a last one.
LEMMA LastRecord ==
    ASSUME NEW S, IsFiniteSet(S), S # {}, \A r \in S : r.end \in Nat
    PROVE  \E r \in S : \A q \in S : q.end <= r.end
<1> DEFINE HasLast(U) == \E r \in U : \A q \in U : q.end <= r.end
           Bad == {U \in FiniteSubsetsOf(S) : U # {} /\ ~HasLast(U)}
<1>1. SUFFICES ASSUME ~HasLast(S) PROVE FALSE
  OBVIOUS
<1>2. S \in Bad
  BY <1>1 DEF FiniteSubsetsOf
<1>3. PICK U \in Bad : \A V \in Bad : <<V, U>> \notin StrictSubsetOrdering(S)
  BY <1>2, FS_StrictSubsetOrderingWellFounded, WFMin
<1>4. PICK x \in U : TRUE
  OBVIOUS
<1> DEFINE V == U \ {x}
<1>5. V \in FiniteSubsetsOf(S) /\ <<V, U>> \in StrictSubsetOrdering(S)
  BY <1>4, FS_Subset DEF FiniteSubsetsOf, StrictSubsetOrdering
<1>6. V = {} \/ HasLast(V)
  BY <1>3, <1>5
<1>7. CASE V = {}
  <2>1. U = {x} /\ x.end \in Nat
    BY <1>4, <1>7 DEF FiniteSubsetsOf
  <2> QED BY <2>1
<1>8. CASE HasLast(V)
  <2>1. PICK m \in V : \A q \in V : q.end <= m.end
    BY <1>8
  <2>2. x.end \in Nat /\ m.end \in Nat /\ \A q \in U : q.end \in Nat
    BY <1>4, <2>1 DEF FiniteSubsetsOf
  <2>3. CASE x.end <= m.end
    BY <2>1, <2>2, <2>3
  <2>4. CASE ~(x.end <= m.end)
    BY <2>1, <2>2, <2>4
  <2> QED BY <2>3, <2>4
<1> QED BY <1>6, <1>7, <1>8

-----------------------------------------------------------------------------
(* The inductive invariant of the monitor *)

\* Entry e was logged no later than what the monitor has dealt with.
Behind(e, p) ==
    \/ e.file < p.file
    \/ e.file = p.file /\ e.incarnation < p.incarnation
    \/ /\ e.file = p.file /\ e.incarnation = p.incarnation
       /\ e.end <= ReplayHighWater(p)

\* The inbox is in log order and behind the replay cursor.
InboxInv(p) ==
    /\ \A e \in p.inbox : e.batch <= p.batches /\ Behind(e, p)
    /\ \A x, y \in p.inbox : x.batch < y.batch => Before(x, y)

\* What is still to be committed lies beyond the replay cursor.
Uncommitted(p, r) == r \in p.staged /\ (~p.committing \/ Rank(p, r) > p.commitIndex)
StageInv(p) ==
    /\ IsFiniteSet(p.staged)
    /\ \A r \in p.staged : Uncommitted(p, r) => r.end > ReplayHighWater(p)

\* Reading and committing concern a file; while messages are committed, and
\* while the plugin is disabled, no answer is awaited.
PhaseInv(p) ==
    /\ p.readingSnapshot \/ p.committing => p.file # 0
    /\ p.committing \/ p.suspended => p.pendingRequestId = 0

MonitorInv(p) == p \in Pdc /\ InboxInv(p) /\ StageInv(p) /\ PhaseInv(p)

\* The stamps of request r are not from the future; if they are current, the
\* request asks for what the monitor is reading now.
Current(p, r) == /\ r.product = p.productEpoch
                 /\ r.connection = p.connectionEpoch
                 /\ r.id = p.pendingRequestId
RequestInv(p, r) ==
    /\ r \in Request /\ r.id # 0 /\ r.operation # "None"
    /\ r.product <= p.productEpoch
    /\ r.product = p.productEpoch => r.connection <= p.connectionEpoch
    /\ Current(p, r) => p.bound # NoFlight
    /\ Current(p, r) /\ r.operation = "ReadRange" =>
            /\ r.file = p.file /\ r.begin = p.cursor /\ r.end = p.snapshotEnd
            /\ p.readingSnapshot /\ ~p.recoveryRequired

\* A step of the monitor from p to q that admits nothing, and whose stage is
\* what it was or empty.
Quiet(p, q) ==
    /\ q \in Pdc
    /\ q.file = p.file /\ q.incarnation = p.incarnation
    /\ q.replay = p.replay /\ q.inbox = p.inbox /\ q.batches = p.batches
    /\ \/ q.staged = {}
       \/ /\ q.staged = p.staged
          /\ \/ ~p.committing
             \/ q.committing = p.committing /\ q.commitIndex = p.commitIndex
    /\ q.readingSnapshot => p.readingSnapshot \/ p.file # 0
    /\ q.committing => p.committing \/ (p.file # 0 /\ q.pendingRequestId = 0)
    /\ q.pendingRequestId \in {p.pendingRequestId, 0}
    /\ q.suspended => p.suspended \/ q.pendingRequestId = 0

\* The replay cursor depends on the current file and the slots alone.
LEMMA SameHighWater ==
    ASSUME NEW p, NEW q, p.file = q.file, p.replay = q.replay
    PROVE  ReplayHighWater(p) = ReplayHighWater(q)
<1>1. SlotsOf(p, p.file) = SlotsOf(q, q.file)
  BY DEF SlotsOf
<1> QED BY <1>1 DEF ReplayHighWater

\* The replay cursor is an offset.
LEMMA HighWaterType ==
    ASSUME NEW p \in Pdc PROVE ReplayHighWater(p) \in Nat
<1>1. CASE SlotsOf(p, p.file) = {}
  BY <1>1 DEF ReplayHighWater
<1>2. CASE SlotsOf(p, p.file) # {}
  <2>1. (CHOOSE s \in SlotsOf(p, p.file) : TRUE) \in 1 .. ReplaySlots
    BY <1>2 DEF SlotsOf
  <2> QED BY <1>2, <2>1 DEF ReplayHighWater, Pdc
<1> QED BY <1>1, <1>2

\* A quiet step keeps the invariant of the monitor.
LEMMA QuietStep ==
    ASSUME NEW p, NEW q, MonitorInv(p), Quiet(p, q)
    PROVE  MonitorInv(q)
<1>1. ReplayHighWater(p) = ReplayHighWater(q)
  BY SameHighWater DEF Quiet
<1>2. InboxInv(q)
  BY <1>1 DEF MonitorInv, InboxInv, Quiet, Behind
<1>3. StageInv(q)
  <2>1. CASE q.staged = {}
    BY <2>1, FS_EmptySet DEF StageInv
  <2>2. CASE q.staged = p.staged /\ ~p.committing
    BY <1>1, <2>2 DEF MonitorInv, StageInv, Uncommitted
  <2>3. CASE q.staged = p.staged /\ q.committing = p.committing
             /\ q.commitIndex = p.commitIndex
    BY <1>1, <2>3 DEF MonitorInv, StageInv, Uncommitted, Rank
  <2> QED BY <2>1, <2>2, <2>3 DEF Quiet
<1>4. PhaseInv(q)
  BY DEF MonitorInv, PhaseInv, Quiet, Pdc
<1> QED BY <1>2, <1>3, <1>4 DEF MonitorInv, Quiet

-----------------------------------------------------------------------------
(* Each operation of the monitor keeps the invariant *)

\* Disowning the request in flight is quiet (InvalidateRequest).
LEMMA Disown ==
    ASSUME NEW p \in Pdc
    PROVE  /\ DisownRequest(p) \in Pdc
           /\ DisownRequest(p).connectionEpoch = p.connectionEpoch + 1
           /\ DisownRequest(p).pendingRequestId = 0
           /\ Quiet(p, DisownRequest(p))
           /\ DisownRequest(p).productEpoch = p.productEpoch
           /\ DisownRequest(p).available = p.available
           /\ DisownRequest(p).suspended = p.suspended
<1> DEFINE n == p.connectionEpoch + 1
<1>1. n \in Nat
  BY DEF Pdc
<1>2. DisownRequest(p) = [p EXCEPT !.connectionEpoch = n, !.pendingRequestId = 0]
  BY DEF DisownRequest
<1> HIDE DEF n
<1> DEFINE q == [p EXCEPT !.connectionEpoch = n, !.pendingRequestId = 0]
<1>3. q \in Pdc
  BY <1>1, ZenonT(60) DEF Pdc
<1>4. /\ q.connectionEpoch = n /\ q.pendingRequestId = 0
      /\ q.productEpoch = p.productEpoch /\ q.available = p.available
      /\ q.suspended = p.suspended
  BY DEF Pdc
<1>5. Quiet(p, q)
  BY <1>2, <1>3 DEF Quiet, Pdc
<1> QED BY <1>2, <1>3, <1>4, <1>5 DEF n

\* An observed change of connection keeps the invariant and makes every
\* request in flight obsolete (ObserveConnection).
LEMMA ConnectionObserved ==
    ASSUME NEW p, MonitorInv(p), NEW connected \in BOOLEAN
    PROVE  LET q == ObserveConnection(p, connected)
           IN  /\ MonitorInv(q)
               /\ q.file = p.file /\ q.suspended = p.suspended
               /\ q.productEpoch = p.productEpoch
               /\ \A r : r.id # 0 /\ RequestInv(p, r) => RequestInv(q, r)
<1> DEFINE q == ObserveConnection(p, connected)
<1>1. CASE q = p
  BY <1>1
<1>2. CASE q # p
  <2> DEFINE d == DisownRequest(p)
             v == d.available /\ connected
             w == [d EXCEPT !.connectionKnown = TRUE, !.connected = connected,
                            !.recoveryRequired = TRUE, !.readingSnapshot = FALSE,
                            !.committing = FALSE, !.staged = {}, !.commitIndex = 0,
                            !.due = TRUE, !.available = v]
  <2>1. p \in Pdc
    BY DEF MonitorInv
  <2>10. d \in Pdc /\ v \in BOOLEAN
    BY <2>1, Disown
  <2>2. /\ Quiet(p, d)
        /\ d.connectionEpoch = p.connectionEpoch + 1 /\ d.pendingRequestId = 0
        /\ d.productEpoch = p.productEpoch /\ d.suspended = p.suspended
    BY <2>1, Disown
  <2>3. q = w
    BY <1>2 DEF ObserveConnection
  <2> HIDE DEF d, v
  <2>4. w \in Pdc
    BY <2>10, ZenonT(60) DEF Pdc
  <2>5. /\ w.connectionEpoch = d.connectionEpoch /\ w.productEpoch = d.productEpoch
        /\ w.suspended = d.suspended /\ w.pendingRequestId = d.pendingRequestId
        /\ w.file = d.file /\ w.replay = d.replay
    BY <2>10 DEF Pdc
  <2>6. Quiet(d, w)
    BY <2>10, <2>4 DEF Quiet, Pdc
  <2> HIDE DEF w
  <2>7. MonitorInv(w)
    BY <2>2, <2>6, QuietStep
  <2>8. ASSUME NEW r, r.id # 0, RequestInv(p, r) PROVE RequestInv(w, r)
    <3>1. ~Current(w, r)
      BY <2>2, <2>5, <2>8 DEF Current
    <3>2. p.connectionEpoch \in Nat /\ r.connection \in Nat
      BY <2>1, <2>8 DEF Pdc, RequestInv, Request
    <3> QED BY <2>2, <2>5, <2>8, <3>1, <3>2 DEF RequestInv
  <2> QED BY <2>2, <2>3, <2>5, <2>7, <2>8 DEF Quiet
<1> QED BY <1>1, <1>2

\* The monitor as a lifecycle reset leaves it satisfies its invariant.
LEMMA Cleared ==
    ASSUME NEW e \in Nat, NEW s \in BOOLEAN
    PROVE  /\ MonitorInv(ClearedPdc(e, s))
           /\ ClearedPdc(e, s).file = 0 /\ ClearedPdc(e, s).suspended = s
           /\ ClearedPdc(e, s).productEpoch = e
           /\ ClearedPdc(e, s).pendingRequestId = 0
           /\ ClearedPdc(e, s).bound = NoFlight
<1> DEFINE q == ClearedPdc(e, s)
<1>1. q \in Pdc
  BY ConstantsAssumption DEF Pdc, ClearedPdc
<1>2. InboxInv(q)
  BY DEF InboxInv, ClearedPdc
<1>3. StageInv(q)
  BY FS_EmptySet DEF StageInv, ClearedPdc
<1>4. PhaseInv(q)
  BY DEF PhaseInv, ClearedPdc
<1> QED BY <1>1, <1>2, <1>3, <1>4 DEF MonitorInv, ClearedPdc

Plans == Flights \cup {NoFlight}

\* What binding a flight leaves true of the monitor p and of every request.
Rebound(p, q) ==
    /\ MonitorInv(q)
    /\ q.file \in {0, p.file} /\ q.suspended = p.suspended
    /\ \A r : RequestInv(p, r) => RequestInv(q, r)

\* Binding a flight keeps the invariant and what is known of every request.
LEMMA FlightBound ==
    ASSUME NEW p, MonitorInv(p), NEW ready \in BOOLEAN, NEW connected \in BOOLEAN,
           NEW plan \in Plans
    PROVE  Rebound(p, BindFlight(p, ready, plan, connected))
<1> DEFINE q == BindFlight(p, ready, plan, connected)
<1>1. CASE ~ready \/ p.bound = plan
  <2>1. q = p
    BY <1>1 DEF BindFlight
  <2>2. Rebound(p, p)
    BY DEF Rebound
  <2> QED BY <2>1, <2>2
<1>2. CASE ready /\ p.bound # plan
  <2> DEFINE c == ResetProductState(p)
             f == IF p.bound = NoFlight THEN p ELSE ObserveConnection(c, connected)
             w == [f EXCEPT !.bound = plan, !.recoveryRequired = TRUE, !.due = TRUE]
  <2>1. q = w
    BY <1>2 DEF BindFlight
  <2>2. p.productEpoch \in Nat /\ p.connectionEpoch \in Nat /\ p.suspended \in BOOLEAN
    BY DEF MonitorInv, Pdc
  <2>3. /\ MonitorInv(f)
        /\ f.file \in {0, p.file} /\ f.suspended = p.suspended
        /\ \A r : RequestInv(p, r) => RequestInv(f, r) /\ ~Current(f, r)
    <3>1. CASE p.bound = NoFlight
      BY <3>1 DEF RequestInv
    <3>2. CASE p.bound # NoFlight
      <4>1. /\ MonitorInv(c) /\ c.file = 0 /\ c.suspended = p.suspended
            /\ c.productEpoch = p.productEpoch + 1
        BY <2>2, Cleared DEF ResetProductState
      <4> DEFINE o == ObserveConnection(c, connected)
      <4>2. /\ MonitorInv(o) /\ o.file = 0 /\ o.suspended = p.suspended
            /\ o.productEpoch = p.productEpoch + 1
        BY <4>1, ConnectionObserved
      <4>3. ASSUME NEW r, RequestInv(p, r) PROVE RequestInv(o, r) /\ ~Current(o, r)
        <5>1. r.product \in Nat
          BY <4>3 DEF RequestInv, Request
        <5> HIDE DEF o
        <5> QED BY <2>2, <4>2, <4>3, <5>1 DEF RequestInv, Current
      <4> QED BY <3>2, <4>2, <4>3
    <3> QED BY <3>1, <3>2
  <2> HIDE DEF f
  <2>4. f \in Pdc
    BY <2>3 DEF MonitorInv
  <2>5. w \in Pdc
    BY <2>4, ZenonT(60) DEF Pdc, Plans
  <2>6. /\ w.bound = plan /\ w.file = f.file /\ w.suspended = f.suspended
        /\ w.productEpoch = f.productEpoch /\ w.connectionEpoch = f.connectionEpoch
        /\ w.pendingRequestId = f.pendingRequestId
        /\ w.incarnation = f.incarnation /\ w.replay = f.replay
        /\ w.inbox = f.inbox /\ w.batches = f.batches /\ w.staged = f.staged
        /\ w.committing = f.committing /\ w.commitIndex = f.commitIndex
        /\ w.readingSnapshot = f.readingSnapshot
    BY <2>4 DEF Pdc
  <2> HIDE DEF w
  <2>7. Quiet(f, w)
    BY <2>5, <2>6 DEF Quiet
  <2>8. MonitorInv(w)
    BY <2>3, <2>7, QuietStep
  <2>9. ASSUME NEW r, RequestInv(p, r) PROVE RequestInv(w, r)
    BY <2>3, <2>6, <2>9 DEF RequestInv, Current
  <2>10. Rebound(p, w)
    BY <2>3, <2>6, <2>8, <2>9 DEF Rebound
  <2> QED BY <2>1, <2>10
<1> QED BY <1>1, <1>2

\* In a ready context the monitor is bound to the flight of the context.
LEMMA BoundToPlan ==
    ASSUME NEW p, MonitorInv(p), NEW connected \in BOOLEAN, NEW plan
    PROVE  BindFlight(p, TRUE, plan, connected).bound = plan
<1> DEFINE c == ResetProductState(p)
           f == IF p.bound = NoFlight THEN p ELSE ObserveConnection(c, connected)
           w == [f EXCEPT !.bound = plan, !.recoveryRequired = TRUE, !.due = TRUE]
<1>1. p.productEpoch \in Nat /\ p.suspended \in BOOLEAN
  BY DEF MonitorInv, Pdc
<1>2. MonitorInv(c)
  BY <1>1, Cleared DEF ResetProductState
<1>3. MonitorInv(ObserveConnection(c, connected))
  BY <1>2, ConnectionObserved
<1>4. f \in Pdc
  BY <1>3 DEF MonitorInv
<1>5. BindFlight(p, TRUE, plan, connected) = IF p.bound = plan THEN p ELSE w
  BY DEF BindFlight
<1> HIDE DEF f
<1>6. w.bound = plan
  BY <1>4 DEF Pdc
<1> QED BY <1>5, <1>6

\* p and q agree on what an answer's stamps are compared with.
SameStamps(p, q) ==
    /\ q.productEpoch = p.productEpoch /\ q.connectionEpoch = p.connectionEpoch
    /\ q.pendingRequestId = p.pendingRequestId /\ q.suspended = p.suspended
    /\ q.bound = p.bound /\ q.file = p.file

\* p and q differ in their replay cursors at most.
SameButReplay(p, q) ==
    /\ SameStamps(p, q)
    /\ q.incarnation = p.incarnation /\ q.inbox = p.inbox /\ q.batches = p.batches
    /\ q.staged = p.staged /\ q.committing = p.committing
    /\ q.commitIndex = p.commitIndex /\ q.readingSnapshot = p.readingSnapshot
    /\ q.recoveryRequired = p.recoveryRequired
    /\ q.cursor = p.cursor /\ q.snapshotEnd = p.snapshotEnd
    /\ q.fileGeneration = p.fileGeneration /\ q.discard = p.discard

\* What RememberReplayHighWater does: the cursor of the current file never
\* moves back, and reaches the offset it is given.
LEMMA Remembered ==
    ASSUME NEW p \in Pdc, NEW offset \in Nat, p.file # 0
    PROVE  LET q == RememberReplayHighWater(p, offset)
           IN  /\ q \in Pdc /\ SameButReplay(p, q)
               /\ ReplayHighWater(q) >= ReplayHighWater(p)
               /\ ReplayHighWater(q) >= offset
               /\ ReplayHighWater(q) \in {ReplayHighWater(p), offset}
<1> DEFINE q == RememberReplayHighWater(p, offset)
           S == SlotsOf(p, p.file)
<1>0. /\ p.file \in Nat /\ p.nextSlot \in 1 .. ReplaySlots
      /\ p.replay \in [1 .. ReplaySlots -> [file : Nat, highWater : Nat]]
  BY DEF Pdc
<1>1. CASE S # {}
  <2> DEFINE f == [s \in 1 .. ReplaySlots |->
                     IF s \in S /\ offset > p.replay[s].highWater
                     THEN [file |-> p.file, highWater |-> offset]
                     ELSE p.replay[s]]
             w == [p EXCEPT !.replay = f]
  <2>1. q = w
    BY <1>1 DEF RememberReplayHighWater
  <2>2. f \in [1 .. ReplaySlots -> [file : Nat, highWater : Nat]]
    BY <1>0
  <2>3. \A s \in 1 .. ReplaySlots : f[s].file = p.replay[s].file
    BY <1>0 DEF SlotsOf
  <2>4. \A s \in S : f[s].highWater = IF offset > p.replay[s].highWater
                                      THEN offset ELSE p.replay[s].highWater
    BY <1>0 DEF SlotsOf
  <2> HIDE DEF f
  <2>5. w \in Pdc /\ SameButReplay(p, w) /\ w.replay = f /\ w.file = p.file
    BY <2>2 DEF Pdc, SameButReplay, SameStamps
  <2> HIDE DEF w
  <2>6. SlotsOf(w, w.file) = S
    BY <2>3, <2>5 DEF SlotsOf
  <2> DEFINE c == CHOOSE s \in S : TRUE
  <2>7. c \in S /\ c \in 1 .. ReplaySlots
    BY <1>1 DEF SlotsOf
  <2>8. ReplayHighWater(w) = f[c].highWater /\ ReplayHighWater(p) = p.replay[c].highWater
    BY <1>1, <2>5, <2>6 DEF ReplayHighWater
  <2>9. p.replay[c].highWater \in Nat
    BY <1>0, <2>7
  <2> HIDE DEF c
  <2> QED BY <2>1, <2>4, <2>5, <2>7, <2>8, <2>9
<1>2. CASE S = {}
  <2> DEFINE f == [p.replay EXCEPT ![p.nextSlot] =
                     [file |-> p.file, highWater |-> offset]]
             n == NextSlot(p)
             w == [p EXCEPT !.replay = f, !.nextSlot = n]
  <2>1. q = w
    BY <1>2 DEF RememberReplayHighWater
  <2>2. f \in [1 .. ReplaySlots -> [file : Nat, highWater : Nat]]
    BY <1>0
  <2>3. n \in 1 .. ReplaySlots
    BY <1>0, ConstantsAssumption DEF NextSlot
  <2>4. \A s \in 1 .. ReplaySlots : f[s] =
            IF s = p.nextSlot THEN [file |-> p.file, highWater |-> offset]
            ELSE p.replay[s]
    BY <1>0
  <2> HIDE DEF f, n
  <2>5. w \in Pdc /\ SameButReplay(p, w) /\ w.replay = f /\ w.file = p.file
    BY <2>2, <2>3 DEF Pdc, SameButReplay, SameStamps
  <2> HIDE DEF w
  <2>6. SlotsOf(w, w.file) = {p.nextSlot}
    BY <1>0, <1>2, <2>4, <2>5 DEF SlotsOf
  <2>7. ReplayHighWater(w) = offset
    <3>1. ReplayHighWater(w) = w.replay[CHOOSE s \in {p.nextSlot} : TRUE].highWater
      BY <2>6 DEF ReplayHighWater
    <3>2. (CHOOSE s \in {p.nextSlot} : TRUE) = p.nextSlot
      OBVIOUS
    <3> QED BY <1>0, <2>4, <2>5, <3>1, <3>2
  <2>8. ReplayHighWater(p) = 0
    BY <1>2 DEF ReplayHighWater
  <2> QED BY <2>1, <2>5, <2>7, <2>8
<1> QED BY <1>1, <1>2

\* Without a stage, the replay cursor may move anywhere.
LEMMA RememberedInv ==
    ASSUME NEW p, MonitorInv(p), p.staged = {}, p.file # 0, NEW offset \in Nat
    PROVE  LET q == RememberReplayHighWater(p, offset)
           IN  MonitorInv(q) /\ SameStamps(p, q)
<1> DEFINE q == RememberReplayHighWater(p, offset)
<1>1. /\ q \in Pdc /\ SameButReplay(p, q)
      /\ ReplayHighWater(q) >= ReplayHighWater(p)
  BY Remembered DEF MonitorInv
<1>2. ReplayHighWater(p) \in Nat /\ ReplayHighWater(q) \in Nat
  BY <1>1, HighWaterType DEF MonitorInv
<1> HIDE DEF q
<1>3. \A e \in p.inbox : e.end \in Nat
  BY DEF MonitorInv, Pdc, Entry
<1>4. InboxInv(q)
  BY <1>1, <1>2, <1>3 DEF MonitorInv, InboxInv, SameButReplay, SameStamps, Behind
<1>5. StageInv(q)
  BY <1>1, FS_EmptySet DEF StageInv, SameButReplay
<1>6. PhaseInv(q)
  BY <1>1 DEF MonitorInv, PhaseInv, SameButReplay, SameStamps
<1> QED BY <1>1, <1>4, <1>5, <1>6 DEF MonitorInv, SameButReplay, q

\* Ranks follow offsets.
LEMMA RankMonotone ==
    ASSUME NEW p \in Pdc, IsFiniteSet(p.staged), NEW r \in p.staged, NEW q \in p.staged
    PROVE  /\ Rank(p, r) \in Nat /\ Rank(p, q) \in Nat
           /\ r.end <= q.end => Rank(p, r) <= Rank(p, q)
<1> DEFINE R == {s \in p.staged : s.end <= r.end}
           Q == {s \in p.staged : s.end <= q.end}
<1>1. IsFiniteSet(R) /\ IsFiniteSet(Q)
  BY FS_Subset
<1>2. Cardinality(R) \in Nat /\ Cardinality(Q) \in Nat
  BY <1>1, FS_CardinalityType
<1>3. ASSUME r.end <= q.end PROVE Cardinality(R) <= Cardinality(Q)
  <2>1. \A s \in p.staged : s.end \in Nat
    BY DEF Pdc, Record
  <2>2. R \subseteq Q
    BY <1>3, <2>1
  <2> QED BY <1>1, <2>2, FS_Subset
<1> QED BY <1>2, <1>3 DEF Rank

\* Admitting a batch adds its records to the inbox, under one batch number.
LEMMA Admitted ==
    ASSUME NEW p \in Pdc, NEW batch \in SUBSET p.staged
    PROVE  LET q == Admit(p, batch)
           IN  /\ q \in Pdc /\ SameStamps(p, q)
               /\ q.incarnation = p.incarnation /\ q.replay = p.replay
               /\ q.batches = p.batches + 1
               /\ q.inbox = p.inbox \cup
                    {[id |-> r.id, file |-> p.file, incarnation |-> p.incarnation,
                      end |-> r.end, batch |-> p.batches + 1] : r \in batch}
               /\ q.staged = p.staged /\ q.committing = p.committing
               /\ q.commitIndex = p.commitIndex /\ q.readingSnapshot = p.readingSnapshot
               /\ q.cursor = p.cursor /\ q.snapshotEnd = p.snapshotEnd
               /\ q.fileGeneration = p.fileGeneration /\ q.discard = p.discard
<1> DEFINE n == p.batches + 1
           I == p.inbox \cup
                    {[id |-> r.id, file |-> p.file, incarnation |-> p.incarnation,
                      end |-> r.end, batch |-> n] : r \in batch}
           w == [p EXCEPT !.inbox = I, !.batches = n, !.available = TRUE]
<1>1. Admit(p, batch) = w
  BY DEF Admit
<1>2. n \in Nat /\ p.file \in Nat /\ p.incarnation \in Nat
  BY DEF Pdc
<1>3. p.inbox \in SUBSET Entry /\ \A r \in batch : r.id \in Nat \X Nat \X Nat /\ r.end \in Nat
  BY DEF Pdc, Record
<1>4. I \in SUBSET Entry
  BY <1>2, <1>3 DEF Entry
<1> HIDE DEF I, n
<1>5. w \in Pdc
  BY <1>2, <1>4, ZenonT(60) DEF Pdc
<1>6. /\ SameStamps(p, w) /\ w.incarnation = p.incarnation /\ w.replay = p.replay
      /\ w.batches = n /\ w.inbox = I /\ w.cursor = p.cursor
      /\ w.snapshotEnd = p.snapshotEnd
      /\ w.fileGeneration = p.fileGeneration /\ w.discard = p.discard
      /\ w.staged = p.staged /\ w.committing = p.committing
      /\ w.commitIndex = p.commitIndex /\ w.readingSnapshot = p.readingSnapshot
  BY DEF Pdc, SameStamps
<1> HIDE DEF w
<1> QED BY <1>1, <1>5, <1>6 DEF I, n

\* Admitting the staged records of the ranks up to stop, oldest first, and
\* moving the replay cursor to the last of them keeps the invariant.
LEMMA BatchAdmitted ==
    ASSUME NEW p, MonitorInv(p), p.committing,
           NEW stop \in Nat, stop > p.commitIndex,
           NEW batch, batch = {r \in p.staged : Rank(p, r) > p.commitIndex /\ Rank(p, r) <= stop},
           batch # {}
    PROVE  LET q == [AdmitBatch(p, batch) EXCEPT !.commitIndex = stop]
           IN  MonitorInv(q) /\ SameStamps(p, q) /\ q.cursor = p.cursor
<1>1. /\ p \in Pdc /\ InboxInv(p) /\ StageInv(p) /\ PhaseInv(p)
      /\ batch \in SUBSET p.staged /\ IsFiniteSet(batch) /\ p.file # 0
  BY FS_Subset DEF MonitorInv, StageInv, PhaseInv
<1>2. \A r \in p.staged : r.end \in Nat
  BY <1>1 DEF Pdc, Record
<1> DEFINE last == CHOOSE r \in batch : \A q \in batch : q.end <= r.end
           a == Admit(p, batch)
           m == RememberReplayHighWater(a, last.end)
           q == [m EXCEPT !.commitIndex = stop]
<1>3. AdmitBatch(p, batch) = m
  BY DEF AdmitBatch
<1>4. last \in batch /\ \A r \in batch : r.end <= last.end
  BY <1>1, <1>2, LastRecord
<1>5. last.end \in Nat
  BY <1>1, <1>2, <1>4
<1> HIDE DEF last
<1>6. /\ a \in Pdc /\ SameStamps(p, a)
      /\ a.incarnation = p.incarnation /\ a.replay = p.replay
      /\ a.batches = p.batches + 1
      /\ a.inbox = p.inbox \cup
            {[id |-> r.id, file |-> p.file, incarnation |-> p.incarnation,
              end |-> r.end, batch |-> p.batches + 1] : r \in batch}
      /\ a.staged = p.staged /\ a.committing = p.committing
      /\ a.commitIndex = p.commitIndex /\ a.readingSnapshot = p.readingSnapshot
      /\ a.cursor = p.cursor
  BY <1>1, Admitted
<1> HIDE DEF a
<1>7. /\ m \in Pdc /\ SameButReplay(a, m)
      /\ ReplayHighWater(m) >= ReplayHighWater(a)
      /\ ReplayHighWater(m) >= last.end
      /\ ReplayHighWater(m) \in {ReplayHighWater(a), last.end}
  BY <1>1, <1>5, <1>6, Remembered DEF SameStamps
<1> HIDE DEF m
<1>8. q \in Pdc
  BY <1>7, ZenonT(60) DEF Pdc
<1>9. /\ q.commitIndex = stop /\ q.replay = m.replay
      /\ SameStamps(m, q) /\ q.incarnation = m.incarnation /\ q.inbox = m.inbox
      /\ q.batches = m.batches /\ q.staged = m.staged /\ q.committing = m.committing
      /\ q.readingSnapshot = m.readingSnapshot /\ q.cursor = m.cursor
  BY <1>7 DEF Pdc, SameStamps
<1> HIDE DEF q
<1>10. /\ SameStamps(p, q) /\ q.incarnation = p.incarnation
       /\ q.batches = p.batches + 1 /\ q.inbox = a.inbox /\ q.staged = p.staged
       /\ q.committing = p.committing /\ q.readingSnapshot = p.readingSnapshot
       /\ q.cursor = p.cursor
  BY <1>6, <1>7, <1>9 DEF SameButReplay, SameStamps
<1>11. /\ ReplayHighWater(a) = ReplayHighWater(p)
       /\ ReplayHighWater(q) = ReplayHighWater(m)
       /\ ReplayHighWater(p) \in Nat /\ ReplayHighWater(q) \in Nat
  BY <1>1, <1>6, <1>8, <1>9, SameHighWater, HighWaterType DEF SameStamps
<1>12. q.file = p.file /\ p.batches \in Nat /\ p.commitIndex \in Nat
  BY <1>1, <1>10 DEF SameStamps, Pdc
<1>13. ASSUME NEW e \in q.inbox
       PROVE  \/ e \in p.inbox /\ e.batch <= p.batches /\ Behind(e, p)
              \/ /\ e.batch = p.batches + 1 /\ e.file = p.file
                 /\ e.incarnation = p.incarnation /\ e.end \in Nat
                 /\ e.end > ReplayHighWater(p) /\ e.end <= last.end
  <2>1. CASE e \in p.inbox
    BY <1>1, <2>1 DEF InboxInv
  <2>2. CASE e \notin p.inbox
    <3>1. PICK r \in batch : e = [id |-> r.id, file |-> p.file,
               incarnation |-> p.incarnation, end |-> r.end, batch |-> p.batches + 1]
      BY <1>6, <1>10, <2>2
    <3>2. r.end > ReplayHighWater(p)
      BY <1>1 DEF StageInv, Uncommitted
    <3> QED BY <1>1, <1>2, <1>4, <3>1, <3>2
  <2> QED BY <2>1, <2>2
<1>14. \A e \in p.inbox : e.end \in Nat /\ e.batch \in Nat
  BY <1>1 DEF Pdc, Entry
<1>15. InboxInv(q)
  <2>1. ASSUME NEW e \in q.inbox PROVE e.batch <= q.batches /\ Behind(e, q)
    BY <1>5, <1>7, <1>10, <1>11, <1>12, <1>13, <1>14 DEF Behind
  <2>2. ASSUME NEW x \in q.inbox, NEW y \in q.inbox, x.batch < y.batch
        PROVE  Before(x, y)
    <3>1. x \in p.inbox /\ x.batch <= p.batches /\ Behind(x, p)
      BY <1>12, <1>13, <1>14, <2>2
    <3>2. CASE y \in p.inbox
      BY <1>1, <2>2, <3>1, <3>2 DEF InboxInv
    <3>3. CASE y \notin p.inbox
      BY <1>11, <1>13, <1>14, <3>1, <3>3 DEF Behind, Before
    <3> QED BY <3>2, <3>3
  <2> QED BY <2>1, <2>2 DEF InboxInv
<1>16. StageInv(q)
  <2>1. ASSUME NEW r \in q.staged, Uncommitted(q, r)
        PROVE  r.end > ReplayHighWater(q)
    <3>1. r \in p.staged /\ Rank(q, r) = Rank(p, r) /\ Rank(p, r) > stop
      BY <1>9, <1>10, <2>1 DEF Uncommitted, Rank
    <3>2. Rank(p, r) \in Nat /\ Rank(p, last) \in Nat
      BY <1>1, <1>4, <3>1, RankMonotone DEF StageInv
    <3>3. r.end > ReplayHighWater(p)
      BY <1>1, <1>12, <3>1, <3>2 DEF StageInv, Uncommitted
    <3>4. r.end > last.end
      <4>1. Rank(p, last) <= stop
        BY <1>4
      <4>2. ~(r.end <= last.end)
        BY <1>1, <1>4, <3>1, <3>2, <4>1, RankMonotone DEF StageInv
      <4> QED BY <1>2, <1>5, <3>1, <4>2
    <3> QED BY <1>7, <1>11, <3>3, <3>4
  <2> QED BY <1>1, <1>10, <2>1 DEF StageInv
<1>17. PhaseInv(q)
  BY <1>1, <1>10 DEF PhaseInv, SameStamps
<1> QED BY <1>3, <1>8, <1>10, <1>15, <1>16, <1>17 DEF MonitorInv, q

\* A commit batch keeps the invariant (CommitStagedMessages).
LEMMA Committed ==
    ASSUME NEW p, MonitorInv(p), p.committing
    PROVE  LET q == CommitStagedMessages(p)
           IN  MonitorInv(q) /\ SameStamps(p, q)
<1> DEFINE count == Cardinality(p.staged)
           stop  == IF p.commitIndex + CommitBatch < count
                    THEN p.commitIndex + CommitBatch ELSE count
           batch == {r \in p.staged : Rank(p, r) > p.commitIndex /\ Rank(p, r) <= stop}
           index == IF stop > p.commitIndex THEN stop ELSE p.commitIndex
           moved == [AdmitBatch(p, batch) EXCEPT !.commitIndex = index]
           done  == [moved EXCEPT !.staged = {}, !.commitIndex = 0,
                                  !.committing = FALSE, !.due = FALSE]
           q     == CommitStagedMessages(p)
<1>1. /\ p \in Pdc /\ InboxInv(p) /\ StageInv(p) /\ PhaseInv(p)
      /\ p.commitIndex \in Nat /\ count \in Nat /\ CommitBatch \in Nat
      /\ p.file # 0 /\ p.cursor \in Nat
  BY FS_CardinalityType, ConstantsAssumption DEF MonitorInv, StageInv, PhaseInv, Pdc
<1>2. stop \in Nat /\ index \in Nat /\ index >= p.commitIndex
  BY <1>1
<1>3. q = IF index # count THEN moved ELSE RememberReplayHighWater(done, p.cursor)
  BY DEF CommitStagedMessages
<1> HIDE DEF count
<1>4. MonitorInv(moved) /\ SameStamps(p, moved) /\ moved.cursor = p.cursor
  <2>1. CASE batch = {}
    <3> DEFINE w == [p EXCEPT !.commitIndex = index]
    <3>1. moved = w
      BY <2>1 DEF AdmitBatch
    <3> HIDE DEF index, batch, stop
    <3>2. w \in Pdc
      BY <1>1, <1>2, ZenonT(60) DEF Pdc
    <3>3. /\ SameStamps(p, w) /\ w.incarnation = p.incarnation /\ w.inbox = p.inbox
          /\ w.batches = p.batches /\ w.replay = p.replay /\ w.staged = p.staged
          /\ w.committing = p.committing /\ w.readingSnapshot = p.readingSnapshot
          /\ w.cursor = p.cursor /\ w.commitIndex = index
      BY <1>1 DEF Pdc, SameStamps
    <3> HIDE DEF w
    <3>4. ReplayHighWater(w) = ReplayHighWater(p)
      BY <3>3, SameHighWater DEF SameStamps
    <3>5. InboxInv(w)
      BY <1>1, <3>3, <3>4 DEF InboxInv, Behind, SameStamps
    <3>6. StageInv(w)
      <4>1. ASSUME NEW r \in w.staged, Uncommitted(w, r)
            PROVE  r.end > ReplayHighWater(w)
        <5>1. Rank(w, r) = Rank(p, r) /\ Rank(p, r) \in Nat /\ Rank(w, r) > index
          BY <1>1, <3>3, <4>1, RankMonotone DEF Uncommitted, Rank, StageInv
        <5>2. Rank(p, r) > p.commitIndex
          BY <1>1, <1>2, <5>1
        <5> QED BY <1>1, <3>3, <3>4, <5>2 DEF StageInv, Uncommitted
      <4> QED BY <1>1, <3>3, <4>1 DEF StageInv
    <3>7. PhaseInv(w)
      BY <1>1, <3>3 DEF PhaseInv, SameStamps
    <3> QED BY <3>1, <3>2, <3>3, <3>5, <3>6, <3>7 DEF MonitorInv
  <2>2. CASE batch # {}
    <3>1. PICK r \in p.staged : Rank(p, r) > p.commitIndex /\ Rank(p, r) <= stop
      BY <2>2
    <3>2. Rank(p, r) \in Nat
      BY <1>1, RankMonotone DEF StageInv
    <3>3. stop > p.commitIndex /\ index = stop
      BY <1>1, <1>2, <3>1, <3>2
    <3> HIDE DEF stop, index
    <3> QED BY <1>2, <2>2, <3>3, BatchAdmitted
  <2> QED BY <2>1, <2>2
<1> HIDE DEF moved
<1>5. /\ MonitorInv(done) /\ SameStamps(moved, done)
      /\ done.staged = {} /\ done.file # 0
  <2>1. moved \in Pdc
    BY <1>4 DEF MonitorInv
  <2>2. done \in Pdc
    BY <2>1, ZenonT(60) DEF Pdc
  <2>3. /\ Quiet(moved, done) /\ SameStamps(moved, done) /\ done.staged = {}
        /\ done.file = moved.file
    BY <2>1, <2>2 DEF Quiet, SameStamps, Pdc
  <2> QED BY <1>1, <1>4, <2>3, QuietStep DEF SameStamps
<1> HIDE DEF done
<1>6. /\ MonitorInv(RememberReplayHighWater(done, p.cursor))
      /\ SameStamps(done, RememberReplayHighWater(done, p.cursor))
  BY <1>1, <1>5, RememberedInv
<1> QED BY <1>3, <1>4, <1>5, <1>6 DEF SameStamps

\* A step that keeps the stamps while messages are committed meets no answer.
LEMMA Serviced ==
    ASSUME NEW p, MonitorInv(p)
    PROVE  LET q == ServiceStaged(p)
           IN  /\ MonitorInv(q) /\ q.file = p.file /\ q.suspended = p.suspended
               /\ q.bound = p.bound
               /\ \A r : RequestInv(p, r) => RequestInv(q, r)
<1> DEFINE q == ServiceStaged(p)
<1>1. CASE ~p.committing
  BY <1>1 DEF ServiceStaged
<1>2. CASE p.committing
  <2>1. MonitorInv(q) /\ SameStamps(p, q)
    BY <1>2, Committed DEF ServiceStaged
  <2>2. p.pendingRequestId = 0
    BY <1>2 DEF MonitorInv, PhaseInv
  <2> HIDE DEF q
  <2>3. \A r : RequestInv(p, r) => RequestInv(q, r)
    BY <2>1, <2>2 DEF RequestInv, Current, SameStamps
  <2> QED BY <2>1, <2>3 DEF SameStamps, q
<1> QED BY <1>1, <1>2

-----------------------------------------------------------------------------
(* The answers of the worker *)

\* Every entry lies behind a file that is taken up as a new incarnation.
LEMMA Reincarnated ==
    ASSUME NEW p \in Pdc, InboxInv(p), NEW file
    PROVE  LET q == NewIncarnation(p, file)
           IN  /\ q \in Pdc /\ InboxInv(q) /\ SameStamps(p, q)
               /\ q.incarnation = p.incarnation + 1 /\ q.inbox = p.inbox
<1> DEFINE f == [s \in 1 .. ReplaySlots |->
                   IF s \in SlotsOf(p, file) THEN [file |-> 0, highWater |-> 0]
                   ELSE p.replay[s]]
           n == p.incarnation + 1
           c == [p EXCEPT !.replay = f]
           q == [c EXCEPT !.incarnation = n]
<1>1. p.replay \in [1 .. ReplaySlots -> [file : Nat, highWater : Nat]]
      /\ p.incarnation \in Nat /\ p.file \in Nat
  BY DEF Pdc
<1>2. f \in [1 .. ReplaySlots -> [file : Nat, highWater : Nat]]
  <2>1. [file |-> 0, highWater |-> 0] \in [file : Nat, highWater : Nat]
    OBVIOUS
  <2> QED BY <1>1, <2>1
<1>11. n \in Nat
  BY <1>1
<1>3. c.incarnation = p.incarnation
  BY DEF Pdc
<1>4. NewIncarnation(p, file) = q
  BY <1>3 DEF NewIncarnation, ClearReplayForFile
<1> HIDE DEF f, n
<1>5. c \in Pdc /\ SameStamps(p, c) /\ c.inbox = p.inbox /\ c.batches = p.batches
  BY <1>2 DEF Pdc, SameStamps
<1> HIDE DEF c
<1>6. /\ q \in Pdc /\ SameStamps(c, q) /\ q.inbox = c.inbox /\ q.batches = c.batches
      /\ q.incarnation = n
  BY <1>11, <1>5 DEF Pdc, SameStamps
<1> HIDE DEF q
<1>7. InboxInv(q)
  <2>1. \A e \in p.inbox : e.file \in Nat /\ e.incarnation \in Nat
    BY DEF Pdc, Entry
  <2>2. q.file = p.file /\ q.inbox = p.inbox /\ q.batches = p.batches
    BY <1>5, <1>6 DEF SameStamps
  <2>3. ASSUME NEW e \in q.inbox PROVE Behind(e, q)
    BY <1>1, <1>6, <2>1, <2>2, <2>3 DEF InboxInv, Behind, n
  <2> QED BY <2>2, <2>3 DEF InboxInv
<1> QED BY <1>4, <1>5, <1>6, <1>7 DEF SameStamps, n

\* A recovery scan starts with an empty stage (BeginFileSnapshot).
LEMMA SnapshotBegun ==
    ASSUME NEW p \in Pdc, InboxInv(p), p.pendingRequestId = 0,
           NEW fact \in FactType, fact.file # 0, fact.file >= p.file
    PROVE  LET q == BeginFileSnapshot(p, fact)
           IN  /\ MonitorInv(q) /\ q.file = fact.file
               /\ q.suspended = p.suspended /\ q.bound = p.bound
               /\ q.pendingRequestId = 0
               /\ q.staged = {} /\ q.inbox = p.inbox
               /\ q.incarnation = p.incarnation /\ q.fileGeneration = fact.generation
               /\ q.snapshotEnd = fact.size /\ q.cursor <= fact.size
<1> DEFINE start == IF fact.size > RecoveryWindow THEN fact.size - RecoveryWindow ELSE 0
           d == start # 0
           b == start < fact.size
           id == fact.file
           size == fact.size
           generation == fact.generation
           q == [p EXCEPT !.file = id, !.fileSize = size,
                  !.fileGeneration = generation,
                  !.snapshotEnd = size, !.cursor = start,
                  !.discard = d, !.readingSnapshot = b,
                  !.session = NoCallsign, !.staged = {}, !.commitIndex = 0,
                  !.committing = FALSE, !.recoveryRequired = FALSE]
<1>1. size \in Nat /\ id \in Nat /\ generation \in Nat
  BY DEF FactType
<1>2. start \in Nat /\ start <= size /\ d \in BOOLEAN /\ b \in BOOLEAN
  BY <1>1, ConstantsAssumption
<1>3. BeginFileSnapshot(p, fact) = q
  BY DEF BeginFileSnapshot
<1> HIDE DEF start, d, b, id, size, generation
<1>4. q \in Pdc
  BY ONLY <1>1, <1>2, p \in Pdc, ZenonT(60) DEF Pdc
<1>5. /\ q.file = id /\ q.incarnation = p.incarnation /\ q.replay = p.replay
      /\ q.inbox = p.inbox /\ q.batches = p.batches /\ q.staged = {}
      /\ q.committing = FALSE /\ q.pendingRequestId = p.pendingRequestId
      /\ q.suspended = p.suspended /\ q.bound = p.bound
      /\ q.fileGeneration = generation /\ q.snapshotEnd = size /\ q.cursor = start
  BY DEF Pdc
<1> HIDE DEF q
<1>6. InboxInv(q)
  <2>1. p.file \in Nat /\ \A e \in p.inbox : e.file \in Nat
    BY DEF Pdc, Entry
  <2>2. CASE fact.file = p.file
    <3>1. ReplayHighWater(q) = ReplayHighWater(p)
      BY <1>5, <2>2, SameHighWater DEF id
    <3> QED BY <1>5, <2>2, <3>1 DEF InboxInv, Behind, id
  <2>3. CASE fact.file # p.file
    BY <1>1, <1>5, <2>1, <2>3 DEF InboxInv, Behind, id
  <2> QED BY <2>2, <2>3
<1>7. StageInv(q) /\ PhaseInv(q)
  BY <1>5, FS_EmptySet DEF StageInv, PhaseInv, id
<1> QED BY <1>2, <1>3, <1>4, <1>5, <1>6, <1>7 DEF MonitorInv, id, size, generation

\* An observed discovery keeps the invariant (ObserveDiscovery).
LEMMA Discovered ==
    ASSUME NEW p, MonitorInv(p), p.pendingRequestId = 0,
           NEW fact \in FactType, fact.file # 0 => fact.file >= p.file
    PROVE  LET q == ObserveDiscovery(p, fact)
           IN  /\ MonitorInv(q) /\ q.file \in {p.file, fact.file}
               /\ q.suspended = p.suspended /\ q.bound = p.bound
<1> DEFINE q == ObserveDiscovery(p, fact)
<1>1. p \in Pdc /\ InboxInv(p)
  BY DEF MonitorInv
<1>2. CASE fact.file = 0
  <2> DEFINE w == [p EXCEPT !.recoveryRequired = TRUE, !.readingSnapshot = FALSE,
                            !.available = FALSE, !.due = FALSE]
  <2>1. q = w
    BY <1>2 DEF ObserveDiscovery
  <2>2. w \in Pdc
    BY <1>1, ZenonT(60) DEF Pdc
  <2>3. Quiet(p, w) /\ w.file = p.file /\ w.suspended = p.suspended /\ w.bound = p.bound
    BY <1>1, <2>2 DEF Quiet, Pdc
  <2> HIDE DEF w
  <2> QED BY <2>1, <2>3, QuietStep
<1>3. CASE fact.file # 0
  <2> DEFINE known == IF Rewritten(p, fact) THEN NewIncarnation(p, fact.file) ELSE p
             restart == p.recoveryRequired \/ p.file # fact.file \/ Rewritten(p, fact)
             b == p.cursor < fact.size
             size == fact.size
             generation == fact.generation
             appended == [known EXCEPT !.fileSize = size, !.fileGeneration = generation,
                                       !.snapshotEnd = size, !.readingSnapshot = b]
             begun == IF restart THEN BeginFileSnapshot(known, fact) ELSE appended
             v == begun.readingSnapshot
             w == [begun EXCEPT !.due = v]
  <2>1. q = w
    BY <1>3 DEF ObserveDiscovery
  <2>2. /\ known \in Pdc /\ InboxInv(known) /\ known.pendingRequestId = 0
        /\ known.file = p.file /\ known.suspended = p.suspended
        /\ known.bound = p.bound
    BY <1>1, Reincarnated DEF SameStamps
  <2>3. /\ MonitorInv(begun) /\ begun.file = fact.file
        /\ begun.suspended = p.suspended /\ begun.bound = p.bound
    <3>1. CASE restart
      <4> HIDE DEF known
      <4> QED BY <1>3, <2>2, <3>1, SnapshotBegun
    <3>2. CASE ~restart
      <4>1. known = p /\ p.file = fact.file
        BY <3>2
      <4>2. size \in Nat /\ generation \in Nat /\ b \in BOOLEAN
        BY DEF FactType
      <4> HIDE DEF size, generation, b, known
      <4> DEFINE a == [p EXCEPT !.fileSize = size, !.fileGeneration = generation,
                                !.snapshotEnd = size, !.readingSnapshot = b]
      <4>3. a \in Pdc
        BY ONLY <1>1, <4>2, ZenonT(60) DEF Pdc
      <4>4. /\ a.file = p.file /\ a.suspended = p.suspended /\ a.bound = p.bound
            /\ a.incarnation = p.incarnation /\ a.replay = p.replay
            /\ a.inbox = p.inbox /\ a.batches = p.batches
            /\ a.staged = p.staged /\ a.committing = p.committing
            /\ a.commitIndex = p.commitIndex
            /\ a.pendingRequestId = p.pendingRequestId
        BY ONLY <1>1, <4>2 DEF Pdc
      <4>5. begun = a
        BY <3>2, <4>1
      <4> HIDE DEF a, begun
      <4>6. Quiet(p, a)
        BY <1>3, <4>1, <4>3, <4>4 DEF Quiet
      <4> QED BY <4>1, <4>4, <4>5, <4>6, QuietStep
    <3> QED BY <3>1, <3>2
  <2> HIDE DEF begun
  <2>4. begun \in Pdc
    BY <2>3 DEF MonitorInv
  <2>20. v \in BOOLEAN
    BY <2>4 DEF Pdc
  <2> HIDE DEF v
  <2>5. w \in Pdc
    BY <2>4, <2>20, ZenonT(60) DEF Pdc
  <2>6. /\ Quiet(begun, w) /\ w.file = begun.file
        /\ w.suspended = begun.suspended /\ w.bound = begun.bound
    BY <2>4, <2>5 DEF Quiet, Pdc
  <2> HIDE DEF w
  <2>7. MonitorInv(w)
    BY <2>3, <2>6, QuietStep
  <2> QED BY <2>1, <2>3, <2>6, <2>7
<1> QED BY <1>2, <1>3

\* Whatever a range holds, only messages beyond the replay cursor are
\* staged (ObserveLogRecords).
LEMMA RecordsObserved ==
    ASSUME NEW p, MonitorInv(p), ~p.committing,
           NEW R \in SUBSET Record, IsFiniteSet(R)
    PROVE  LET q == ObserveLogRecords(p, R)
           IN  /\ MonitorInv(q) /\ SameStamps(p, q) /\ ~q.committing
               /\ q.cursor = p.cursor /\ q.snapshotEnd = p.snapshotEnd
<1> DEFINE own  == OwnSessionRecords(p, R)
           last == CHOOSE r \in own : \A q \in own : q.end <= r.end
           S    == IF own = {}
                   THEN IF p.session = p.bound.callsign
                        THEN KeepNewest(p.staged \cup Eligible(p, R, 0)) ELSE p.staged
                   ELSE IF last.kind = "open"
                        THEN KeepNewest(Eligible(p, R, last.end)) ELSE {}
           session == IF last.kind = "open" THEN last.callsign ELSE NoCallsign
           a == [p EXCEPT !.staged = S]
           b == [p EXCEPT !.session = session, !.staged = S,
                          !.commitIndex = 0, !.committing = FALSE]
           q == ObserveLogRecords(p, R)
<1>1. p \in Pdc /\ p.staged \in SUBSET Record /\ StageInv(p)
  BY DEF MonitorInv, Pdc
<1>2. S \subseteq p.staged \cup R
  BY DEF KeepNewest, Eligible
<1>3. S \in SUBSET Record /\ IsFiniteSet(S)
  <2>1. IsFiniteSet(p.staged \cup R)
    BY <1>1, FS_Union DEF StageInv
  <2> QED BY <1>1, <1>2, <2>1, FS_Subset
<1>4. \A r \in S : r.end > ReplayHighWater(p)
  BY <1>1 DEF StageInv, Uncommitted, KeepNewest, Eligible
<1>5. own # {} => session \in Callsigns \cup {NoCallsign}
  <2>1. own \subseteq R
    BY DEF OwnSessionRecords
  <2>2. own # {} => last \in own
    <3>1. IsFiniteSet(own) /\ \A r \in own : r.end \in Nat
      BY <2>1, FS_Subset DEF Record
    <3> QED BY <3>1, LastRecord
  <2> QED BY <2>1, <2>2 DEF Record
<1>6. q = IF own = {} THEN a ELSE b
  <2>1. CASE own = {} /\ p.session = p.bound.callsign
    BY <2>1 DEF ObserveLogRecords
  <2>2. CASE own = {} /\ p.session # p.bound.callsign
    BY <2>2 DEF ObserveLogRecords
  <2>3. CASE own # {}
    BY <2>3 DEF ObserveLogRecords
  <2> QED BY <2>1, <2>2, <2>3
<1> HIDE DEF S, session, q
<1>7. /\ q \in Pdc /\ SameStamps(p, q) /\ q.incarnation = p.incarnation
      /\ q.replay = p.replay /\ q.inbox = p.inbox /\ q.batches = p.batches
      /\ q.staged = S /\ ~q.committing /\ q.readingSnapshot = p.readingSnapshot
      /\ q.cursor = p.cursor /\ q.snapshotEnd = p.snapshotEnd
  <2>1. CASE own = {}
    <3>1. a \in Pdc
      BY ONLY <1>1, <1>3, ZenonT(60) DEF Pdc
    <3>2. /\ SameStamps(p, a) /\ a.incarnation = p.incarnation
          /\ a.replay = p.replay /\ a.inbox = p.inbox /\ a.batches = p.batches
          /\ a.staged = S /\ a.readingSnapshot = p.readingSnapshot
          /\ a.cursor = p.cursor /\ a.snapshotEnd = p.snapshotEnd
          /\ a.committing = p.committing
      BY ONLY <1>1, <1>3 DEF Pdc, SameStamps
    <3> QED BY <1>6, <2>1, <3>1, <3>2
  <2>2. CASE own # {}
    <3>0. session \in Callsigns \cup {NoCallsign}
      BY <1>5, <2>2
    <3>1. b \in Pdc
      BY ONLY <1>1, <1>3, <3>0, ZenonT(60) DEF Pdc
    <3>2. /\ SameStamps(p, b) /\ b.incarnation = p.incarnation
          /\ b.replay = p.replay /\ b.inbox = p.inbox /\ b.batches = p.batches
          /\ b.staged = S /\ b.readingSnapshot = p.readingSnapshot
          /\ b.cursor = p.cursor /\ b.snapshotEnd = p.snapshotEnd
          /\ b.committing = FALSE
      BY ONLY <1>1, <1>3 DEF Pdc, SameStamps
    <3> QED BY <1>6, <2>2, <3>1, <3>2
  <2> QED BY <2>1, <2>2
<1>8. ReplayHighWater(q) = ReplayHighWater(p)
  BY <1>7, SameHighWater DEF SameStamps
<1>9. InboxInv(q)
  BY <1>7, <1>8 DEF MonitorInv, InboxInv, Behind, SameStamps
<1>10. StageInv(q)
  BY <1>3, <1>4, <1>7, <1>8 DEF StageInv
<1>11. PhaseInv(q)
  BY <1>7 DEF MonitorInv, PhaseInv, SameStamps
<1> QED BY <1>7, <1>9, <1>10, <1>11 DEF MonitorInv, q

\* Finishing a snapshot keeps the invariant (FinishSnapshot).
LEMMA SnapshotFinished ==
    ASSUME NEW p, MonitorInv(p), ~p.committing, p.pendingRequestId = 0, p.file # 0,
           NEW fact
    PROVE  LET q == FinishSnapshot(p, fact)
           IN  MonitorInv(q) /\ SameStamps(p, q)
<1> DEFINE q == FinishSnapshot(p, fact)
           done == [p EXCEPT !.readingSnapshot = FALSE, !.commitIndex = 0]
           own == [done EXCEPT !.available = TRUE, !.committing = TRUE]
           other == [done EXCEPT !.available = FALSE, !.committing = FALSE,
                                 !.staged = {}, !.due = FALSE]
<1>1. q = own \/ q = RememberReplayHighWater(other, p.cursor)
  BY DEF FinishSnapshot
<1>2. p \in Pdc
  BY DEF MonitorInv
<1>3. done \in Pdc
  BY <1>2, ZenonT(60) DEF Pdc
<1>4. /\ SameStamps(p, done) /\ done.incarnation = p.incarnation
      /\ done.replay = p.replay /\ done.inbox = p.inbox /\ done.batches = p.batches
      /\ done.staged = p.staged /\ done.committing = p.committing
      /\ done.readingSnapshot = FALSE
  BY <1>2 DEF Pdc, SameStamps
<1> HIDE DEF done
<1>5. own \in Pdc
  BY <1>3, ZenonT(60) DEF Pdc
<1>6. other \in Pdc
  BY <1>3, ZenonT(60) DEF Pdc
<1>7. /\ SameStamps(done, own) /\ own.incarnation = done.incarnation
      /\ own.replay = done.replay /\ own.inbox = done.inbox
      /\ own.batches = done.batches /\ own.staged = done.staged
      /\ own.readingSnapshot = done.readingSnapshot
  BY <1>3 DEF Pdc, SameStamps
<1>8. /\ SameStamps(done, other) /\ other.incarnation = done.incarnation
      /\ other.replay = done.replay /\ other.inbox = done.inbox
      /\ other.batches = done.batches /\ other.staged = {}
      /\ other.readingSnapshot = done.readingSnapshot /\ other.committing = FALSE
  BY <1>3 DEF Pdc, SameStamps
<1> HIDE DEF own, other, q
<1>9. Quiet(p, own) /\ SameStamps(p, own)
  <2>1. SameStamps(p, own)
    BY <1>4, <1>7 DEF SameStamps
  <2> QED BY <1>4, <1>5, <1>7, <2>1 DEF Quiet, SameStamps
<1>10. Quiet(p, other) /\ SameStamps(p, other)
  <2>1. SameStamps(p, other)
    BY <1>4, <1>8 DEF SameStamps
  <2> QED BY <1>4, <1>6, <1>8, <2>1 DEF Quiet, SameStamps
<1>11. CASE q = own
  BY <1>9, <1>11, QuietStep DEF q
<1>12. CASE q = RememberReplayHighWater(other, p.cursor)
  <2>1. MonitorInv(other) /\ other.staged = {} /\ other.file # 0 /\ p.cursor \in Nat
    BY <1>2, <1>8, <1>10, QuietStep DEF SameStamps, Pdc
  <2>2. MonitorInv(q) /\ SameStamps(other, q)
    BY <1>12, <2>1, RememberedInv
  <2> QED BY <1>10, <2>2 DEF SameStamps, q
<1> QED BY <1>1, <1>11, <1>12

\* An observed range keeps the invariant (ObserveReadRange).
LEMMA RangeObserved ==
    ASSUME NEW p, MonitorInv(p), ~p.committing, p.pendingRequestId = 0, p.file # 0,
           NEW fact \in FactType, IsFiniteSet(fact.records)
    PROVE  LET q == ObserveRange(p, fact)
           IN  MonitorInv(q) /\ SameStamps(p, q)
<1> DEFINE q == ObserveRange(p, fact)
<1>1. p \in Pdc
  BY DEF MonitorInv
<1>2. CASE fact.next < p.cursor \/ fact.next > p.snapshotEnd
  <2> DEFINE w == [p EXCEPT !.recoveryRequired = TRUE, !.readingSnapshot = FALSE,
                            !.available = FALSE, !.due = FALSE]
  <2>1. q = w
    BY <1>2 DEF ObserveRange
  <2>2. w \in Pdc
    BY <1>1, ZenonT(60) DEF Pdc
  <2>3. /\ SameStamps(p, w) /\ w.incarnation = p.incarnation /\ w.replay = p.replay
        /\ w.inbox = p.inbox /\ w.batches = p.batches /\ w.staged = p.staged
        /\ w.committing = p.committing /\ w.readingSnapshot = FALSE
    BY <1>1 DEF SameStamps, Pdc
  <2> HIDE DEF w
  <2>4. Quiet(p, w)
    BY <2>2, <2>3 DEF Quiet, SameStamps
  <2> QED BY <2>1, <2>3, <2>4, QuietStep
<1>3. CASE ~(fact.next < p.cursor \/ fact.next > p.snapshotEnd)
  <2> DEFINE next == fact.next
             discard == fact.discard
             moved == [p EXCEPT !.cursor = next, !.discard = discard]
             read == ObserveLogRecords(moved, fact.records)
             more == MoreToRead(fact)
             w == [read EXCEPT !.due = FALSE, !.readingSnapshot = more]
  <2>1. q = IF fact.reachedEnd THEN FinishSnapshot(read, fact) ELSE w
    BY <1>3 DEF ObserveRange
  <2>2. next \in Nat /\ discard \in BOOLEAN /\ fact.records \in SUBSET Record
        /\ more \in BOOLEAN
    BY DEF FactType, MoreToRead
  <2> HIDE DEF next, discard, more
  <2>3. moved \in Pdc
    BY <1>1, <2>2, ZenonT(60) DEF Pdc
  <2>4. /\ SameStamps(p, moved) /\ moved.incarnation = p.incarnation
        /\ moved.replay = p.replay /\ moved.inbox = p.inbox
        /\ moved.batches = p.batches /\ moved.staged = p.staged
        /\ moved.committing = p.committing /\ moved.readingSnapshot = p.readingSnapshot
    BY <1>1 DEF SameStamps, Pdc
  <2> HIDE DEF moved
  <2>5. MonitorInv(moved)
    <3>1. Quiet(p, moved)
      BY <2>3, <2>4 DEF Quiet, SameStamps
    <3> QED BY <3>1, QuietStep
  <2>6. MonitorInv(read) /\ SameStamps(p, read) /\ ~read.committing
    <3>1. MonitorInv(read) /\ SameStamps(moved, read) /\ ~read.committing
      BY <2>2, <2>4, <2>5, RecordsObserved
    <3> QED BY <2>4, <3>1 DEF SameStamps
  <2> HIDE DEF read
  <2>7. CASE fact.reachedEnd
    <3>1. MonitorInv(q) /\ SameStamps(read, q)
      BY <2>1, <2>6, <2>7, SnapshotFinished DEF SameStamps
    <3> QED BY <2>6, <3>1 DEF SameStamps
  <2>8. CASE ~fact.reachedEnd
    <3>1. read \in Pdc
      BY <2>6 DEF MonitorInv
    <3>2. w \in Pdc
      BY <2>2, <3>1, ZenonT(60) DEF Pdc
    <3>3. /\ SameStamps(read, w) /\ w.incarnation = read.incarnation
          /\ w.replay = read.replay /\ w.inbox = read.inbox
          /\ w.batches = read.batches /\ w.staged = read.staged
          /\ w.committing = read.committing
      BY <3>1 DEF SameStamps, Pdc
    <3> HIDE DEF w
    <3>4. Quiet(read, w)
      BY <2>6, <3>2, <3>3 DEF Quiet, SameStamps
    <3>5. MonitorInv(w) /\ SameStamps(p, w)
      BY <2>6, <3>3, <3>4, QuietStep DEF SameStamps
    <3> QED BY <2>1, <2>8, <3>5
  <2> QED BY <2>7, <2>8
<1> QED BY <1>2, <1>3

\* Taking an answer the mailbox may hold keeps the invariant.
LEMMA FactObserved ==
    ASSUME NEW p, MonitorInv(p), NEW ready,
           NEW fact \in FactType, IsFiniteSet(fact.records),
           RequestInv(p, fact.request), fact.file # 0 => fact.file >= p.file
    PROVE  LET q == ObserveFact(p, ready, fact)
           IN  /\ MonitorInv(q) /\ q.file \in {p.file, fact.file}
               /\ q.suspended = p.suspended /\ q.bound = p.bound
<1> DEFINE q == ObserveFact(p, ready, fact)
           request == fact.request
           id == IF request.id = p.pendingRequestId THEN 0 ELSE p.pendingRequestId
           dropped == [p EXCEPT !.pendingRequestId = id]
           answered == [p EXCEPT !.pendingRequestId = 0]
           failed == [answered EXCEPT !.recoveryRequired = TRUE,
                        !.readingSnapshot = FALSE, !.committing = FALSE,
                        !.staged = {}, !.available = FALSE, !.due = FALSE]
<1>1. p \in Pdc /\ p.pendingRequestId \in Nat
  BY DEF MonitorInv, Pdc
<1>2. CASE StaleFact(p, ready, fact)
  <2>1. q = dropped
    BY <1>2 DEF ObserveFact
  <2>2. id \in {p.pendingRequestId, 0} /\ id \in Nat
    BY <1>1
  <2> HIDE DEF id
  <2>3. dropped \in Pdc
    BY <1>1, <2>2, ZenonT(60) DEF Pdc
  <2>4. /\ dropped.pendingRequestId = id /\ dropped.file = p.file
        /\ dropped.suspended = p.suspended /\ dropped.bound = p.bound
        /\ dropped.incarnation = p.incarnation /\ dropped.replay = p.replay
        /\ dropped.inbox = p.inbox /\ dropped.batches = p.batches
        /\ dropped.staged = p.staged /\ dropped.committing = p.committing
        /\ dropped.commitIndex = p.commitIndex
        /\ dropped.readingSnapshot = p.readingSnapshot
    BY <1>1 DEF Pdc
  <2> HIDE DEF dropped
  <2>5. Quiet(p, dropped)
    BY <2>2, <2>3, <2>4 DEF Quiet, MonitorInv, PhaseInv
  <2> QED BY <2>1, <2>4, <2>5, QuietStep
<1>3. CASE ~StaleFact(p, ready, fact)
  <2>1. Current(p, request) /\ request.id # 0 /\ p.pendingRequestId # 0
    BY <1>3 DEF StaleFact, Current, RequestInv
  <2>2. ~p.committing /\ ~p.suspended
    BY <2>1 DEF MonitorInv, PhaseInv
  <2>3. answered \in Pdc
    BY <1>1, ZenonT(60) DEF Pdc
  <2>4. /\ answered.pendingRequestId = 0 /\ answered.file = p.file
        /\ answered.suspended = p.suspended /\ answered.bound = p.bound
        /\ answered.incarnation = p.incarnation /\ answered.replay = p.replay
        /\ answered.inbox = p.inbox /\ answered.batches = p.batches
        /\ answered.staged = p.staged /\ answered.committing = p.committing
        /\ answered.readingSnapshot = p.readingSnapshot
    BY <1>1 DEF Pdc
  <2> HIDE DEF answered
  <2>5. MonitorInv(answered)
    <3>1. Quiet(p, answered)
      BY <2>2, <2>3, <2>4 DEF Quiet, MonitorInv, PhaseInv
    <3> QED BY <3>1, QuietStep
  <2>6. CASE fact.failed
    <3>1. q = failed
      BY <1>3, <2>6 DEF ObserveFact, answered
    <3>2. failed \in Pdc
      BY <2>3, ZenonT(60) DEF Pdc
    <3>3. /\ failed.pendingRequestId = answered.pendingRequestId
          /\ failed.file = answered.file /\ failed.suspended = answered.suspended
          /\ failed.bound = answered.bound /\ failed.incarnation = answered.incarnation
          /\ failed.replay = answered.replay /\ failed.inbox = answered.inbox
          /\ failed.batches = answered.batches /\ failed.staged = {}
          /\ failed.committing = FALSE /\ failed.readingSnapshot = FALSE
      BY <2>3 DEF Pdc
    <3> HIDE DEF failed
    <3>4. Quiet(answered, failed)
      BY <2>4, <3>2, <3>3 DEF Quiet
    <3> QED BY <2>4, <2>5, <3>1, <3>3, <3>4, QuietStep
  <2>7. CASE ~fact.failed /\ request.operation = "Discover"
    <3>1. q = ObserveDiscovery(answered, fact)
      BY <1>3, <2>7 DEF ObserveFact, answered
    <3> QED BY <2>4, <2>5, <3>1, Discovered
  <2>8. CASE ~fact.failed /\ request.operation # "Discover"
    <3>1. q = ObserveRange(answered, fact)
      BY <1>3, <2>8 DEF ObserveFact, answered
    <3>2. p.file # 0
      <4>1. request.operation = "ReadRange"
        BY <2>8 DEF RequestInv, Request
      <4> QED BY <2>1, <4>1 DEF RequestInv, MonitorInv, PhaseInv
    <3> QED BY <2>2, <2>4, <2>5, <3>1, <3>2, RangeObserved DEF SameStamps
  <2> QED BY <2>6, <2>7, <2>8
<1> QED BY <1>2, <1>3

-----------------------------------------------------------------------------
(* Requests and their answers *)

\* The next request carries the stamps of now and asks for the range the
\* monitor is reading.
LEMMA Requested ==
    ASSUME NEW p \in Pdc
    PROVE  LET r == NextRequest(p)
           IN  /\ r \in Request /\ r.id # 0 /\ r.operation # "None"
               /\ r.product = p.productEpoch /\ r.connection = p.connectionEpoch
               /\ r.operation = "ReadRange" =>
                    /\ r.file = p.file /\ r.begin = p.cursor /\ r.end = p.snapshotEnd
                    /\ p.readingSnapshot /\ ~p.recoveryRequired
<1> DEFINE id == (p.nextRequestId % RequestIds) + 1
           r == NextRequest(p)
<1>1. id \in Nat /\ id # 0
  <2>1. p.nextRequestId \in Nat
    BY DEF Pdc
  <2> QED BY ONLY <2>1, ConstantsAssumption
<1>2. /\ p.productEpoch \in Nat /\ p.connectionEpoch \in Nat /\ p.file \in Nat
      /\ p.cursor \in Nat /\ p.snapshotEnd \in Nat /\ p.discard \in BOOLEAN
  BY DEF Pdc
<1>3. CASE p.readingSnapshot /\ ~p.recoveryRequired
  <2>1. r = [operation |-> "ReadRange", id |-> id, product |-> p.productEpoch,
             connection |-> p.connectionEpoch, file |-> p.file,
             begin |-> p.cursor, end |-> p.snapshotEnd, discard |-> p.discard]
    BY <1>3 DEF NextRequest, NoRequest
  <2> HIDE DEF id, r
  <2>2. r \in Request
    BY <1>1, <1>2, <2>1 DEF Request
  <2> QED BY <1>1, <1>3, <2>1, <2>2 DEF r
<1>4. CASE ~(p.readingSnapshot /\ ~p.recoveryRequired)
  <2>1. r = [operation |-> "Discover", id |-> id, product |-> p.productEpoch,
             connection |-> p.connectionEpoch, file |-> 0,
             begin |-> 0, end |-> 0, discard |-> FALSE]
    BY <1>4 DEF NextRequest, NoRequest
  <2> HIDE DEF id, r
  <2>2. r \in Request
    BY <1>1, <1>2, <2>1 DEF Request
  <2> QED BY <1>1, <2>1, <2>2 DEF r
<1> QED BY <1>3, <1>4

\* Submitting a request keeps the invariant; the request is current.
LEMMA Submitted ==
    ASSUME NEW p, MonitorInv(p), WantsRequest(p), ~p.suspended, NEW taken \in BOOLEAN
    PROVE  LET q == SubmitRequest(p, taken)
           IN  /\ MonitorInv(q) /\ q.file = p.file
               /\ taken /\ p.bound # NoFlight => RequestInv(q, NextRequest(p))
               /\ ~taken => \A r : RequestInv(p, r) => RequestInv(q, r)
<1> DEFINE r == NextRequest(p)
           n == r.id
           id == IF taken THEN n ELSE p.pendingRequestId
           due == p.due /\ taken
           q == [p EXCEPT !.nextRequestId = n, !.pendingRequestId = id, !.due = due]
<1>1. /\ p \in Pdc /\ ~p.committing /\ p.pendingRequestId = 0
      /\ p.productEpoch \in Nat /\ p.connectionEpoch \in Nat
  BY DEF MonitorInv, Pdc, WantsRequest
<1>2. SubmitRequest(p, taken) = q
  BY DEF SubmitRequest
<1>3. /\ r \in Request /\ r.id # 0 /\ r.operation # "None"
      /\ r.product = p.productEpoch /\ r.connection = p.connectionEpoch
      /\ r.operation = "ReadRange" =>
            /\ r.file = p.file /\ r.begin = p.cursor /\ r.end = p.snapshotEnd
            /\ p.readingSnapshot /\ ~p.recoveryRequired
  BY <1>1, Requested
<1> HIDE DEF r
<1>4. n \in Nat /\ id \in Nat /\ due \in BOOLEAN
  BY <1>1, <1>3 DEF Request
<1> HIDE DEF due
<1>5. q \in Pdc
  <2> HIDE DEF n, id
  <2> QED BY <1>1, <1>4, ZenonT(60) DEF Pdc
<1>6. /\ q.pendingRequestId = id /\ q.file = p.file /\ q.suspended = p.suspended
      /\ q.bound = p.bound /\ q.incarnation = p.incarnation /\ q.replay = p.replay
      /\ q.inbox = p.inbox /\ q.batches = p.batches
      /\ q.staged = p.staged /\ q.committing = p.committing
      /\ q.readingSnapshot = p.readingSnapshot
      /\ q.recoveryRequired = p.recoveryRequired
      /\ q.productEpoch = p.productEpoch /\ q.connectionEpoch = p.connectionEpoch
      /\ q.cursor = p.cursor /\ q.snapshotEnd = p.snapshotEnd
  BY <1>1 DEF Pdc
<1> HIDE DEF q
<1>7. ReplayHighWater(q) = ReplayHighWater(p)
  BY <1>6, SameHighWater
<1>8. InboxInv(q)
  BY <1>6, <1>7 DEF MonitorInv, InboxInv, Behind
<1>9. StageInv(q)
  BY <1>1, <1>6, <1>7 DEF MonitorInv, StageInv, Uncommitted
<1>10. PhaseInv(q)
  BY <1>1, <1>6 DEF MonitorInv, PhaseInv
<1>11. ASSUME taken, p.bound # NoFlight PROVE RequestInv(q, r)
  BY <1>1, <1>3, <1>6, <1>11 DEF RequestInv
<1>12. ASSUME ~taken, NEW s, RequestInv(p, s) PROVE RequestInv(q, s)
  BY <1>1, <1>6, <1>12 DEF RequestInv, Current
<1> QED BY <1>2, <1>5, <1>6, <1>8, <1>9, <1>10, <1>11, <1>12 DEF MonitorInv, r

\* A failed read reports a well-formed fact of no file.
LEMMA EmptyFactType ==
    ASSUME NEW request \in Request
    PROVE  /\ EmptyFact(request) \in FactType
           /\ IsFiniteSet(EmptyFact(request).records)
           /\ EmptyFact(request).request = request /\ EmptyFact(request).file = 0
<1>1. request.begin \in Nat /\ request.discard \in BOOLEAN
  BY DEF Request
<1> QED BY <1>1, FS_EmptySet DEF EmptyFact, FactType

\* The size of a file is that of its lines, and at most one half line more.
LEMMA SizeType ==
    ASSUME NEW file \in LogFile
    PROVE  /\ SizeOf(file) \in Nat /\ Len(file.lines) \in Nat
           /\ SizeOf(file) <= 2 * Len(file.lines) + 1
<1> DEFINE n == Len(file.lines)
           t == IF file.tail THEN 1 ELSE 0
<1>1. n \in Nat /\ t \in 0 .. 1
  BY DEF LogFile
<1>2. SizeOf(file) = 2 * n + t
  BY DEF SizeOf
<1> HIDE DEF n, t
<1>3. SizeOf(file) \in Nat /\ SizeOf(file) <= 2 * n + 1
  BY <1>1, <1>2
<1> QED BY <1>1, <1>3 DEF n

\* What the worker finds out is well formed, and about the newest file only.
LEMMA FactWellFormed ==
    ASSUME NEW request \in Request, logs \in Seq(LogFile), NEW fresh \in BOOLEAN
    PROVE  LET fact == Fact(request, fresh)
           IN  /\ fact \in FactType /\ IsFiniteSet(fact.records)
               /\ fact.request = request /\ fact.file \in {0, Len(logs)}
<1> DEFINE fact == Fact(request, fresh)
           empty == EmptyFact(request)
<1>0. /\ request.begin \in Nat /\ request.end \in Nat /\ request.file \in Nat
      /\ request.discard \in BOOLEAN
  BY DEF Request
<1>1. /\ empty \in FactType /\ IsFiniteSet(empty.records)
      /\ empty.request = request /\ empty.file = 0 /\ empty.records = {}
  BY EmptyFactType DEF EmptyFact
<1>2. Len(logs) \in Nat
  BY DEF LogFile
<1>3. \A f \in DOMAIN logs : /\ logs[f].lines \in Seq(Line) /\ logs[f].tail \in BOOLEAN
                             /\ logs[f].generation \in Nat /\ f \in Nat
  <2> SUFFICES ASSUME NEW f \in DOMAIN logs
               PROVE  /\ logs[f].lines \in Seq(Line) /\ logs[f].tail \in BOOLEAN
                      /\ logs[f].generation \in Nat /\ f \in Nat
    OBVIOUS
  <2>1. logs[f] \in LogFile /\ f \in Nat
    OBVIOUS
  <2> QED BY <2>1 DEF LogFile
<1>4. CASE request.operation = "Discover"
  <2>1. fact = DiscoverFact(request)
    BY <1>4 DEF Fact
  <2>2. CASE logs = <<>>
    <3>1. fact = [empty EXCEPT !.failed = FALSE]
      BY <2>1, <2>2 DEF DiscoverFact
    <3> HIDE DEF fact, empty
    <3> QED BY <1>1, <3>1 DEF FactType, fact
  <2>3. CASE logs # <<>>
    <3> DEFINE size == SizeOf(logs[Newest])
               generation == logs[Newest].generation
    <3>1. fact = [empty EXCEPT !.failed = FALSE, !.file = Newest, !.size = size,
                               !.generation = generation]
      BY <2>1, <2>3 DEF DiscoverFact
    <3>2. Newest \in DOMAIN logs /\ Newest \in Nat
      BY <1>2, <2>3 DEF Newest
    <3>3. generation \in Nat /\ size \in Nat
      <4>1. logs[Newest] \in LogFile
        BY <3>2
      <4> QED BY <1>3, <3>2, <4>1, SizeType
    <3> HIDE DEF fact, empty, size, generation
    <3> QED BY <1>1, <3>1, <3>2, <3>3 DEF FactType, fact, Newest
  <2> QED BY <2>2, <2>3
<1>5. CASE request.operation # "Discover" /\ Readable(request)
  <2> DEFINE lines == logs[request.file].lines
             block == request.begin + Min2(request.end - request.begin, ReadLimit)
             first == (request.begin \div 2) + 1
             whole == (block \div 2) - first + 1
             count == Min2(whole, RecordsPerFact + IF request.discard THEN 1 ELSE 0)
             from  == IF request.discard THEN first + 1 ELSE first
             next  == IF count > 0 THEN 2 * (first + count - 1)
                      ELSE IF request.discard THEN block ELSE request.begin
             to == first + count - 1
             g == [i \in from .. to |-> RecordOf(request.file, i)]
             records == {RecordOf(request.file, i) : i \in from .. to}
             discard == request.discard /\ count = 0
             partial == ~request.discard /\ count = 0
             reached == next = request.end
  <2>1. fact = [empty EXCEPT !.failed = FALSE, !.next = next, !.fresh = fresh,
                  !.records = records, !.discard = discard, !.partial = partial,
                  !.reachedEnd = reached]
    BY <1>5 DEF Fact, ReadRangeFact
  <2>2. /\ request.file \in DOMAIN logs /\ request.begin <= request.end
        /\ request.end <= 2 * Len(lines) + 1
        /\ Len(lines) \in Nat /\ lines \in Seq(Line)
    <3>1. request.file \in DOMAIN logs /\ request.begin <= request.end
          /\ request.end <= SizeOf(logs[request.file])
      BY <1>5 DEF Readable
    <3>2. lines \in Seq(Line) /\ Len(lines) \in Nat
      BY <1>3, <3>1
    <3>3. /\ SizeOf(logs[request.file]) \in Nat
          /\ SizeOf(logs[request.file]) <= 2 * Len(lines) + 1
      <4>1. logs[request.file] \in LogFile
        BY <3>1
      <4> QED BY <4>1, SizeType
    <3> HIDE DEF lines
    <3> QED BY <1>0, <3>1, <3>2, <3>3
  <2>3. ReadLimit \in Nat /\ RecordsPerFact \in Nat
    BY ConstantsAssumption
  <2>4. /\ block \in Nat /\ block >= request.begin /\ block <= 2 * Len(lines) + 1
    BY <1>0, <2>2, <2>3 DEF Min2
  <2>5. first \in Nat /\ first >= 1 /\ from \in Nat /\ from >= 1
    BY <1>0
  <2>6. whole \in Nat /\ whole <= Len(lines) - first + 1
    <3> DEFINE L == Len(lines)
    <3>1. L \in Nat /\ block \in Nat /\ block >= request.begin /\ block <= 2 * L + 1
      BY <2>2, <2>4
    <3> HIDE DEF block, L
    <3>2. /\ block \div 2 \in Nat /\ block \div 2 <= L
          /\ request.begin \div 2 <= block \div 2 /\ request.begin \div 2 \in Nat
      BY ONLY <1>0, <3>1
    <3> DEFINE h == block \div 2
               k == request.begin \div 2
    <3>3. h \in Nat /\ k \in Nat /\ k <= h /\ h <= L /\ whole = h - (k + 1) + 1
          /\ first = k + 1
      BY <3>2
    <3> HIDE DEF h, k, whole, first
    <3>4. whole \in Nat /\ whole <= L - first + 1
      BY ONLY <3>1, <3>3
    <3> QED BY <3>4 DEF L
  <2>7. count \in Nat /\ count <= whole
    <3> HIDE DEF whole
    <3> QED BY <2>3, <2>6 DEF Min2
  <2> HIDE DEF first, from, whole, count, block
  <2>8. to \in Int /\ to <= Len(lines)
    BY <2>2, <2>5, <2>6, <2>7
  <2>9. next \in Nat
    BY <1>0, <2>4, <2>5, <2>7
  <2> HIDE DEF to, next, lines
  <2>10. \A i \in from .. to : RecordOf(request.file, i) \in Record
    <3> SUFFICES ASSUME NEW i \in from .. to
                 PROVE  RecordOf(request.file, i) \in Record
      OBVIOUS
    <3>1. i \in 1 .. Len(lines) /\ i \in Nat
      BY <2>2, <2>5, <2>8
    <3>2. lines[i] \in Line
      BY <2>2, <3>1
    <3>3. logs[request.file].generation \in Nat /\ request.file \in Nat
      BY <1>3, <2>2
    <3> QED BY <3>1, <3>2, <3>3 DEF RecordOf, Record, Line, lines
  <2>11. records \in SUBSET Record /\ IsFiniteSet(records)
    <3>1. IsFiniteSet(from .. to)
      BY <2>5, <2>8, FS_Interval
    <3>2. g \in Surjection(from .. to, records)
      BY DEF Surjection
    <3> QED BY <2>10, <3>1, <3>2, FS_Surjection
  <2>12. discard \in BOOLEAN /\ partial \in BOOLEAN /\ reached \in BOOLEAN
    OBVIOUS
  <2> HIDE DEF fact, empty, records, discard, partial, reached
  <2> QED BY <1>1, <2>1, <2>9, <2>11, <2>12 DEF FactType, fact
<1>6. CASE request.operation # "Discover" /\ ~Readable(request)
  BY <1>1, <1>6 DEF Fact
<1> QED BY <1>4, <1>5, <1>6

-----------------------------------------------------------------------------
(* The inductive invariant of the specification *)

\* What is in the mailbox was asked for, and answered, in this history.
MailboxInv ==
    /\ mailbox.state # "Idle" => RequestInv(pdc, mailbox.request)
    /\ mailbox.state = "Ready" =>
         /\ mailbox.fact.request = mailbox.request
         /\ IsFiniteSet(mailbox.fact.records)
         /\ mailbox.fact.file # 0 => mailbox.fact.file >= pdc.file
         /\ mailbox.fact.file <= Len(logs)

IInv == TypeOK /\ MonitorInv(pdc) /\ MailboxInv /\ pdc.file <= Len(logs)

Mailbox == [state : {"Idle", "Queued", "Working", "Ready"},
            request : Request, fact : FactType]

\* The empty mailbox is well typed.
LEMMA EmptyMailboxType ==
    /\ NoRequest \in Request /\ NoFact \in FactType
    /\ EmptyMailbox \in Mailbox /\ EmptyMailbox.state = "Idle"
<1>1. NoRequest \in Request
  BY DEF NoRequest, Request
<1>2. NoFact \in FactType
  BY <1>1, EmptyFactType DEF NoFact
<1> QED BY <1>1, <1>2 DEF EmptyMailbox, Mailbox

\* The invariant holds initially.
LEMMA IInvInit == Init => IInv
<1> SUFFICES ASSUME Init PROVE IInv
  OBVIOUS
<1>1. /\ MonitorInv(pdc) /\ pdc.file = 0
  BY Cleared DEF Init
<1>2. TypeOK
  <2>1. logs \in Seq(LogFile) /\ disturbances \in 0 .. MaxDisturbances
    BY ConstantsAssumption DEF Init
  <2>2. network \in [connected : Callsigns \cup {NoCallsign},
                     logged : Callsigns \cup {NoCallsign}]
    BY DEF Init, Offline
  <2>3. mailbox \in Mailbox
    BY EmptyMailboxType DEF Init
  <2> QED BY <1>1, <2>1, <2>2, <2>3 DEF Init, TypeOK, MonitorInv, Mailbox
<1>3. MailboxInv
  BY EmptyMailboxType DEF Init, MailboxInv
<1>4. pdc.file <= Len(logs)
  <2>1. Len(logs) = 0
    BY DEF Init
  <2> QED BY <1>1, <2>1
<1> QED BY <1>1, <1>2, <1>3, <1>4 DEF IInv

\* The stages of a callback: what the monitor is once the connection has been
\* observed, the flight bound, an answer taken, and the stage serviced.
Watched == ObserveConnection(pdc, network.connected # NoCallsign)
BoundMonitor(ready) ==
    BindFlight(Watched, ready, flight, network.connected # NoCallsign)
Observed(ready, harvested) ==
    IF harvested THEN ObserveFact(BoundMonitor(ready), ready, mailbox.fact)
    ELSE BoundMonitor(ready)
Served(ready, harvested) ==
    IF ready THEN ServiceStaged(Observed(ready, harvested))
    ELSE [Observed(ready, harvested) EXCEPT
            !.available = @ /\ network.connected # NoCallsign]

\* Every stage of a callback keeps the monitor's invariant, and every request
\* that no answer has been taken of stays in order.
LEMMA CallbackStages ==
    ASSUME IInv, ~pdc.suspended, NEW ready \in BOOLEAN, NEW harvested \in BOOLEAN,
           harvested => mailbox.state = "Ready"
    PROVE  LET watched  == Watched
               bound    == BoundMonitor(ready)
               observed == Observed(ready, harvested)
               serviced == Served(ready, harvested)
           IN  /\ MonitorInv(watched) /\ watched.file = pdc.file
               /\ \A r : RequestInv(pdc, r) => RequestInv(watched, r)
               /\ MonitorInv(bound) /\ bound.file \in {0, pdc.file}
               /\ \A r : RequestInv(pdc, r) => RequestInv(bound, r)
               /\ MonitorInv(observed)
               /\ ~harvested =>
                     \A r : RequestInv(pdc, r) => RequestInv(observed, r)
               /\ MonitorInv(serviced) /\ ~serviced.suspended
               /\ serviced.file \in Nat /\ serviced.file <= Len(logs)
               /\ ready => serviced.bound = flight
               /\ ~harvested =>
                     /\ serviced.file \in {0, pdc.file}
                     /\ \A r : RequestInv(pdc, r) => RequestInv(serviced, r)
<1> DEFINE connected == network.connected # NoCallsign
           watched   == Watched
           bound     == BoundMonitor(ready)
           observed  == Observed(ready, harvested)
           serviced  == Served(ready, harvested)
<1>1. /\ watched = ObserveConnection(pdc, connected)
      /\ bound = BindFlight(watched, ready, flight, connected)
      /\ observed = IF harvested THEN ObserveFact(bound, ready, mailbox.fact) ELSE bound
      /\ serviced = IF ready THEN ServiceStaged(observed)
                    ELSE [observed EXCEPT !.available = @ /\ connected]
  BY DEF Watched, BoundMonitor, Observed, Served
<1>2. /\ connected \in BOOLEAN /\ MonitorInv(pdc)
      /\ flight \in Flights \cup {NoFlight} /\ mailbox \in Mailbox
      /\ logs \in Seq(LogFile) /\ pdc.file \in Nat /\ pdc.file <= Len(logs)
      /\ Len(logs) \in Nat
  BY DEF IInv, TypeOK, Mailbox, Pdc
<1> HIDE DEF connected, watched, bound, observed, serviced
<1>3. /\ MonitorInv(watched) /\ watched.file = pdc.file /\ ~watched.suspended
      /\ \A r : RequestInv(pdc, r) => RequestInv(watched, r)
  <2>1. \A r : RequestInv(pdc, r) => r.id # 0
    BY DEF RequestInv
  <2> QED BY <1>1, <1>2, <2>1, ConnectionObserved
<1>4. /\ MonitorInv(bound) /\ bound.file \in {0, pdc.file} /\ ~bound.suspended
      /\ ready => bound.bound = flight
      /\ \A r : RequestInv(pdc, r) => RequestInv(bound, r)
  <2>1. /\ MonitorInv(bound)
        /\ bound.file \in {0, watched.file} /\ bound.suspended = watched.suspended
        /\ ready => bound.bound = flight
        /\ \A r : RequestInv(watched, r) => RequestInv(bound, r)
    <3>1. /\ MonitorInv(bound)
          /\ bound.file \in {0, watched.file} /\ bound.suspended = watched.suspended
          /\ \A r : RequestInv(watched, r) => RequestInv(bound, r)
      <4>1. flight \in Plans
        BY <1>2 DEF Plans
      <4>2. Rebound(watched, bound)
        BY <1>1, <1>2, <1>3, <4>1, FlightBound
      <4> QED BY <4>2 DEF Rebound
    <3>2. ASSUME ready PROVE bound.bound = flight
      <4>1. bound = BindFlight(watched, TRUE, flight, connected)
        BY <1>1, <3>2
      <4> QED BY <1>2, <1>3, <4>1, BoundToPlan
    <3> QED BY <3>1, <3>2
  <2> QED BY <1>3, <2>1
<1>5. /\ MonitorInv(observed) /\ ~observed.suspended
      /\ observed.file \in Nat /\ observed.file <= Len(logs)
      /\ ready => observed.bound = flight
      /\ ~harvested => /\ observed.file \in {0, pdc.file}
                       /\ \A r : RequestInv(pdc, r) => RequestInv(observed, r)
  <2>1. CASE harvested
    <3> DEFINE fact == mailbox.fact
    <3>1. /\ fact \in FactType /\ IsFiniteSet(fact.records)
          /\ RequestInv(bound, fact.request) /\ fact.file \in Nat
          /\ fact.file # 0 => fact.file >= bound.file
          /\ fact.file <= Len(logs)
      <4>1. fact \in FactType /\ fact.file \in Nat
        BY <1>2 DEF Mailbox, FactType
      <4>2. /\ RequestInv(pdc, fact.request) /\ IsFiniteSet(fact.records)
            /\ fact.file # 0 => fact.file >= pdc.file
            /\ fact.file <= Len(logs)
        BY <2>1 DEF IInv, MailboxInv
      <4> HIDE DEF fact
      <4> QED BY <1>2, <1>4, <4>1, <4>2
    <3>2. observed = ObserveFact(bound, ready, fact)
      BY <1>1, <2>1
    <3> HIDE DEF fact
    <3>3. /\ MonitorInv(observed) /\ observed.file \in {bound.file, fact.file}
          /\ observed.suspended = bound.suspended /\ observed.bound = bound.bound
      BY <1>4, <3>1, <3>2, FactObserved
    <3> QED BY <1>2, <1>4, <2>1, <3>1, <3>3
  <2>2. CASE ~harvested
    BY <1>1, <1>2, <1>4, <2>2
  <2> QED BY <2>1, <2>2
<1>6. /\ MonitorInv(serviced) /\ ~serviced.suspended
      /\ serviced.file \in Nat /\ serviced.file <= Len(logs)
      /\ ready => serviced.bound = flight
      /\ ~harvested => /\ serviced.file \in {0, pdc.file}
                       /\ \A r : RequestInv(pdc, r) => RequestInv(serviced, r)
  <2>1. CASE ready
    <3>1. serviced = ServiceStaged(observed)
      BY <1>1, <2>1
    <3> QED BY <1>5, <3>1, Serviced
  <2>2. CASE ~ready
    <3> DEFINE v == observed.available /\ connected
               w == [observed EXCEPT !.available = v]
    <3>1. serviced = w
      BY <1>1, <2>2
    <3>2. observed \in Pdc
      BY <1>5 DEF MonitorInv
    <3>3. v \in BOOLEAN
      BY <1>2, <3>2 DEF Pdc
    <3> HIDE DEF v
    <3>4. w \in Pdc
      BY <3>2, <3>3, ZenonT(60) DEF Pdc
    <3>5. /\ SameButReplay(observed, w) /\ w.replay = observed.replay
      BY <3>2 DEF Pdc, SameButReplay, SameStamps
    <3> HIDE DEF w
    <3>6. Quiet(observed, w)
      BY <3>4, <3>5 DEF Quiet, SameButReplay, SameStamps
    <3>7. MonitorInv(w)
      BY <1>5, <3>6, QuietStep
    <3>8. \A r : RequestInv(observed, r) => RequestInv(w, r)
      BY <3>5 DEF RequestInv, Current, SameButReplay, SameStamps
    <3> QED BY <1>5, <2>2, <3>1, <3>5, <3>7, <3>8 DEF SameButReplay, SameStamps
  <2> QED BY <2>1, <2>2
<1> QED BY <1>3, <1>4, <1>5, <1>6 DEF watched, bound, observed, serviced

\* A callback of the flight loop, stage by stage.
LEMMA CallbackStep ==
    ASSUME IInv, NEW harvestFree \in BOOLEAN, NEW submitFree \in BOOLEAN,
           NEW callsignSeen \in BOOLEAN,
           Callback(harvestFree, submitFree, callsignSeen)
    PROVE  IInv'
<1> DEFINE ready     == ContextReady(callsignSeen)
           harvested == harvestFree /\ mailbox.state = "Ready"
           serviced  == Served(ready, harvested)
<1>1. /\ ~pdc.suspended
      /\ UNCHANGED <<logs, network, flight, disturbances>>
  BY DEF Callback
<1>2. LeaveRequest(serviced, ready, harvested, submitFree)
  BY DEF Callback, Served, Observed, BoundMonitor, Watched
<1>3. /\ ready \in BOOLEAN /\ harvested \in BOOLEAN /\ MonitorInv(pdc)
      /\ mailbox \in Mailbox /\ pdc.file \in Nat /\ pdc.file <= Len(logs)
      /\ Len(logs) \in Nat
  BY DEF IInv, TypeOK, Mailbox, Pdc, ContextReady
<1>4. /\ ready => flight # NoFlight
      /\ harvested => mailbox.state = "Ready"
  BY DEF ContextReady
<1> HIDE DEF ready, harvested
<1>5. /\ MonitorInv(serviced) /\ ~serviced.suspended
      /\ serviced.file \in Nat /\ serviced.file <= Len(logs)
      /\ ready => serviced.bound = flight
      /\ ~harvested => /\ serviced.file \in {0, pdc.file}
                       /\ \A r : RequestInv(pdc, r) => RequestInv(serviced, r)
  BY <1>1, <1>3, <1>4, CallbackStages
<1> HIDE DEF serviced
<1> DEFINE taken == submitFree /\ (harvested \/ mailbox.state = "Idle")
<1>6. CASE ready /\ WantsRequest(serviced) /\ taken
  <2>0. /\ pdc' = SubmitRequest(serviced, TRUE)
        /\ mailbox' = [state |-> "Queued", request |-> NextRequest(serviced),
                       fact |-> NoFact]
    BY <1>2, <1>6 DEF LeaveRequest
  <2>1. /\ MonitorInv(pdc') /\ pdc'.file = serviced.file
        /\ RequestInv(pdc', NextRequest(serviced))
    BY <1>4, <1>5, <1>6, <2>0, Submitted
  <2>2. NextRequest(serviced) \in Request
    BY <2>1 DEF RequestInv
  <2>3. mailbox' \in Mailbox
    BY <2>0, <2>2, EmptyMailboxType DEF Mailbox
  <2>4. MailboxInv'
    BY <2>0, <2>1 DEF MailboxInv
  <2>5. TypeOK'
    BY <1>1, <2>1, <2>3 DEF IInv, TypeOK, Mailbox, MonitorInv
  <2> QED BY <1>1, <1>5, <2>1, <2>4, <2>5 DEF IInv
<1>7. CASE ~(ready /\ WantsRequest(serviced) /\ taken)
  <2>0. /\ pdc' = IF ready /\ WantsRequest(serviced)
                  THEN SubmitRequest(serviced, FALSE) ELSE serviced
        /\ mailbox' = IF harvested THEN EmptyMailbox ELSE mailbox
    BY <1>2, <1>7 DEF LeaveRequest
  <2>1. /\ MonitorInv(pdc') /\ pdc'.file = serviced.file
        /\ ~harvested => \A r : RequestInv(pdc, r) => RequestInv(pdc', r)
    <3>1. CASE ready /\ WantsRequest(serviced)
      <4>1. pdc' = SubmitRequest(serviced, FALSE)
        BY <2>0, <3>1
      <4> QED BY <1>5, <3>1, <4>1, Submitted
    <3>2. CASE ~(ready /\ WantsRequest(serviced))
      BY <1>5, <2>0, <3>2
    <3> QED BY <3>1, <3>2
  <2>2. mailbox' \in Mailbox
    BY <1>3, <2>0, EmptyMailboxType
  <2>3. MailboxInv'
    <3>1. CASE harvested
      BY <2>0, <3>1, EmptyMailboxType DEF MailboxInv
    <3>2. CASE ~harvested
      <4>1. mailbox' = mailbox
        BY <2>0, <3>2
      <4>2. mailbox.fact.file \in Nat
        BY <1>3 DEF Mailbox, FactType
      <4>3. pdc'.file \in {0, pdc.file}
        BY <1>5, <2>1, <3>2
      <4> QED BY <1>1, <1>3, <2>1, <3>2, <4>1, <4>2, <4>3 DEF IInv, MailboxInv
    <3> QED BY <3>1, <3>2
  <2>4. TypeOK'
    BY <1>1, <2>1, <2>2 DEF IInv, TypeOK, Mailbox, MonitorInv
  <2> QED BY <1>1, <1>5, <2>1, <2>3, <2>4 DEF IInv
<1> QED BY <1>6, <1>7

\* A step outside the callback that changes the monitor and no request.
Undisturbed(p, q) ==
    /\ MonitorInv(q) /\ q.file \in {0, p.file}
    /\ \A r : RequestInv(p, r) => RequestInv(q, r)

\* Such a step keeps the invariant of the specification.
LEMMA MonitorStep ==
    ASSUME IInv, Undisturbed(pdc, pdc'), disturbances' \in 0 .. MaxDisturbances,
           UNCHANGED <<logs, network, flight, mailbox>>
    PROVE  IInv'
<1>1. /\ mailbox \in Mailbox /\ mailbox.fact.file \in Nat
      /\ pdc.file \in Nat /\ pdc.file <= Len(logs) /\ Len(logs) \in Nat
  <2>1. logs \in Seq(LogFile) /\ mailbox \in Mailbox /\ pdc \in Pdc /\ pdc.file <= Len(logs)
    BY DEF IInv, TypeOK, Mailbox
  <2>2. mailbox.fact \in FactType /\ pdc.file \in Nat
    BY <2>1 DEF Mailbox, Pdc
  <2> QED BY <2>1, <2>2 DEF FactType
<1>2. /\ MonitorInv(pdc') /\ pdc'.file \in {0, pdc.file} /\ pdc' \in Pdc
      /\ \A r : RequestInv(pdc, r) => RequestInv(pdc', r)
  BY DEF Undisturbed, MonitorInv
<1>3. MailboxInv'
  BY <1>1, <1>2 DEF IInv, MailboxInv
<1>4. TypeOK'
  BY <1>2 DEF IInv, TypeOK
<1> QED BY <1>1, <1>2, <1>3, <1>4 DEF IInv

\* The bound on disturbances is kept.
LEMMA DisturbType ==
    ASSUME IInv, Disturb PROVE disturbances' \in 0 .. MaxDisturbances
<1>1. disturbances \in 0 .. MaxDisturbances
  BY DEF IInv, TypeOK
<1> QED BY <1>1, ConstantsAssumption DEF Disturb

\* Reaching the service time keeps the invariant.
LEMMA ServiceTimeStep ==
    ASSUME IInv, ServiceTimeArrives PROVE IInv'
<1> DEFINE w == [pdc EXCEPT !.due = TRUE]
<1>1. pdc \in Pdc /\ MonitorInv(pdc)
  BY DEF IInv, MonitorInv
<1>2. w \in Pdc
  BY <1>1, ZenonT(60) DEF Pdc
<1>3. SameButReplay(pdc, w) /\ w.replay = pdc.replay
  BY <1>1 DEF Pdc, SameButReplay, SameStamps
<1>4. pdc' = w /\ UNCHANGED <<logs, network, flight, mailbox, disturbances>>
  BY DEF ServiceTimeArrives
<1> HIDE DEF w
<1>5. MonitorInv(w)
  <2>1. Quiet(pdc, w)
    BY <1>2, <1>3 DEF Quiet, SameButReplay, SameStamps
  <2> QED BY <1>1, <2>1, QuietStep
<1>6. \A r : RequestInv(pdc, r) => RequestInv(w, r)
  BY <1>3 DEF RequestInv, Current, SameButReplay, SameStamps
<1>7. Undisturbed(pdc, pdc')
  BY <1>3, <1>4, <1>5, <1>6 DEF Undisturbed, SameButReplay, SameStamps
<1>8. disturbances' \in 0 .. MaxDisturbances
  BY <1>4 DEF IInv, TypeOK
<1> QED BY <1>4, <1>7, <1>8, MonitorStep

\* XPluginDisable keeps the invariant: the request in flight is disowned.
LEMMA SuspendStep ==
    ASSUME IInv, SuspendPdc PROVE IInv'
<1> DEFINE d == DisownRequest(pdc)
           w == [d EXCEPT !.suspended = TRUE, !.recoveryRequired = TRUE,
                          !.readingSnapshot = FALSE, !.staged = {}]
<1>1. pdc \in Pdc /\ MonitorInv(pdc)
  BY DEF IInv, MonitorInv
<1>2. /\ d \in Pdc /\ Quiet(pdc, d)
      /\ d.connectionEpoch = pdc.connectionEpoch + 1 /\ d.pendingRequestId = 0
      /\ d.productEpoch = pdc.productEpoch
  BY <1>1, Disown
<1>3. pdc' = w /\ Disturb /\ UNCHANGED <<logs, network, flight, mailbox>>
  BY DEF SuspendPdc
<1> HIDE DEF d
<1>4. w \in Pdc
  BY <1>2, ZenonT(60) DEF Pdc
<1>5. /\ w.connectionEpoch = d.connectionEpoch /\ w.productEpoch = d.productEpoch
      /\ w.pendingRequestId = d.pendingRequestId /\ w.file = d.file
      /\ w.incarnation = d.incarnation /\ w.replay = d.replay
      /\ w.inbox = d.inbox /\ w.batches = d.batches /\ w.staged = {}
      /\ w.committing = d.committing /\ w.readingSnapshot = FALSE
  BY <1>2 DEF Pdc
<1> HIDE DEF w
<1>6. MonitorInv(w)
  <2>1. MonitorInv(d)
    BY <1>1, <1>2, QuietStep
  <2>2. Quiet(d, w)
    BY <1>2, <1>4, <1>5 DEF Quiet
  <2> QED BY <2>1, <2>2, QuietStep
<1>7. ASSUME NEW r, RequestInv(pdc, r) PROVE RequestInv(w, r)
  <2>1. ~Current(w, r)
    BY <1>2, <1>5, <1>7 DEF Current, RequestInv
  <2>2. pdc.connectionEpoch \in Nat /\ r.connection \in Nat
    BY <1>1, <1>7 DEF Pdc, RequestInv, Request
  <2> QED BY <1>2, <1>5, <1>7, <2>1, <2>2 DEF RequestInv
<1>8. Undisturbed(pdc, pdc')
  BY <1>2, <1>3, <1>5, <1>6, <1>7 DEF Undisturbed, Quiet
<1> QED BY <1>3, <1>8, DisturbType, MonitorStep

\* XPluginEnable keeps the invariant: no request was awaited meanwhile.
LEMMA ResumeStep ==
    ASSUME IInv, ResumePdc PROVE IInv'
<1> DEFINE w == [pdc EXCEPT !.suspended = FALSE, !.recoveryRequired = TRUE, !.due = TRUE]
<1>1. pdc \in Pdc /\ MonitorInv(pdc)
  BY DEF IInv, MonitorInv
<1>2. w \in Pdc
  BY <1>1, ZenonT(60) DEF Pdc
<1>3. /\ w.connectionEpoch = pdc.connectionEpoch /\ w.productEpoch = pdc.productEpoch
      /\ w.pendingRequestId = pdc.pendingRequestId /\ w.file = pdc.file
      /\ w.incarnation = pdc.incarnation /\ w.replay = pdc.replay
      /\ w.inbox = pdc.inbox /\ w.batches = pdc.batches /\ w.staged = pdc.staged
      /\ w.committing = pdc.committing /\ w.commitIndex = pdc.commitIndex
      /\ w.readingSnapshot = pdc.readingSnapshot /\ w.suspended = FALSE
  BY <1>1 DEF Pdc
<1>4. /\ pdc' = w /\ pdc.suspended
      /\ UNCHANGED <<logs, network, flight, mailbox, disturbances>>
  BY DEF ResumePdc
<1> HIDE DEF w
<1>5. MonitorInv(w)
  <2>1. Quiet(pdc, w)
    BY <1>2, <1>3 DEF Quiet
  <2> QED BY <1>1, <2>1, QuietStep
<1>6. ASSUME NEW r, RequestInv(pdc, r) PROVE RequestInv(w, r)
  <2>1. pdc.pendingRequestId = 0
    BY <1>1, <1>4 DEF MonitorInv, PhaseInv
  <2>2. ~Current(w, r)
    BY <1>3, <1>6, <2>1 DEF Current, RequestInv
  <2> QED BY <1>3, <1>6, <2>2 DEF RequestInv
<1>7. Undisturbed(pdc, pdc')
  BY <1>3, <1>4, <1>5, <1>6 DEF Undisturbed
<1>8. disturbances' \in 0 .. MaxDisturbances
  BY <1>4 DEF IInv, TypeOK
<1> QED BY <1>4, <1>7, <1>8, MonitorStep

\* A lifecycle reset keeps the invariant: the lifecycle epoch moves on.
LEMMA ResetStep ==
    ASSUME IInv, ResetProduct PROVE IInv'
<1> DEFINE w == ResetProductState(pdc)
<1>1. pdc.productEpoch \in Nat /\ pdc.suspended \in BOOLEAN
  BY DEF IInv, MonitorInv, Pdc
<1>2. /\ MonitorInv(w) /\ w.file = 0 /\ w.productEpoch = pdc.productEpoch + 1
  BY <1>1, Cleared DEF ResetProductState
<1>3. pdc' = w /\ Disturb /\ UNCHANGED <<logs, network, flight, mailbox>>
  BY DEF ResetProduct
<1> HIDE DEF w
<1>4. ASSUME NEW r, RequestInv(pdc, r) PROVE RequestInv(w, r)
  <2>1. r.product \in Nat
    BY <1>4 DEF RequestInv, Request
  <2> QED BY <1>1, <1>2, <1>4, <2>1 DEF RequestInv, Current
<1>5. Undisturbed(pdc, pdc')
  BY <1>2, <1>3, <1>4 DEF Undisturbed
<1> QED BY <1>3, <1>5, DisturbType, MonitorStep

\* A step of the worker, of xPilot or of the pilot leaves the monitor alone,
\* and no log file disappears.
LEMMA OutsideStep ==
    ASSUME IInv, UNCHANGED pdc,
           logs' \in Seq(LogFile), Len(logs') >= Len(logs),
           network' \in [connected : Callsigns \cup {NoCallsign},
                          logged : Callsigns \cup {NoCallsign}],
           flight' \in Flights \cup {NoFlight},
           mailbox' \in Mailbox, MailboxInv',
           disturbances' \in 0 .. MaxDisturbances
    PROVE  IInv'
<1>1. /\ MonitorInv(pdc') /\ pdc' \in Pdc /\ pdc'.file \in Nat
      /\ pdc'.file <= Len(logs)
  <2>1. pdc \in Pdc /\ MonitorInv(pdc) /\ pdc.file <= Len(logs)
    BY DEF IInv, MonitorInv
  <2>2. pdc.file \in Nat
    BY <2>1 DEF Pdc
  <2> QED BY <2>1, <2>2
<1>2. pdc'.file <= Len(logs')
  <2>1. Len(logs) \in Nat /\ Len(logs') \in Nat
    BY DEF IInv, TypeOK
  <2> QED BY <1>1, <2>1
<1>3. TypeOK'
  BY <1>1 DEF TypeOK, Mailbox
<1> QED BY <1>1, <1>2, <1>3 DEF IInv

\* A step that leaves the monitor and the mailbox alone.
LEMMA XPilotStep ==
    ASSUME IInv, UNCHANGED <<pdc, mailbox>>,
           logs' \in Seq(LogFile), Len(logs') >= Len(logs),
           network' \in [connected : Callsigns \cup {NoCallsign},
                          logged : Callsigns \cup {NoCallsign}],
           flight' \in Flights \cup {NoFlight},
           disturbances' \in 0 .. MaxDisturbances
    PROVE  IInv'
<1>1. mailbox \in Mailbox /\ mailbox.fact \in FactType
  BY DEF IInv, TypeOK, Mailbox
<1>2. MailboxInv'
  <2>1. Len(logs) \in Nat /\ Len(logs') \in Nat
    BY DEF IInv, TypeOK
  <2>2. mailbox.fact.file \in Nat
    BY <1>1 DEF FactType
  <2>3. mailbox.fact.file <= Len(logs) => mailbox.fact.file <= Len(logs')
    BY <2>1, <2>2
  <2> QED BY <2>3 DEF IInv, MailboxInv
<1> QED BY <1>1, <1>2, OutsideStep

\* A step of the worker changes the mailbox only.
LEMMA WorkerStep ==
    ASSUME IInv, mailbox' \in Mailbox, MailboxInv',
           disturbances' \in 0 .. MaxDisturbances,
           UNCHANGED <<logs, network, flight, pdc>>
    PROVE  IInv'
<1>1. /\ logs' \in Seq(LogFile) /\ flight' \in Flights \cup {NoFlight}
      /\ network' \in [connected : Callsigns \cup {NoCallsign},
                        logged : Callsigns \cup {NoCallsign}]
      /\ Len(logs) \in Nat /\ Len(logs') = Len(logs)
  BY DEF IInv, TypeOK
<1> QED BY <1>1, OutsideStep

\* Taking a request keeps the invariant.
LEMMA TakeStep ==
    ASSUME IInv, TakeRequest PROVE IInv'
<1>1. mailbox \in Mailbox
  BY DEF IInv, TypeOK, Mailbox
<1>2. /\ mailbox.state = "Queued" /\ mailbox' = [mailbox EXCEPT !.state = "Working"]
      /\ UNCHANGED <<logs, network, flight, pdc, disturbances>>
  BY DEF TakeRequest
<1>3. /\ mailbox' \in Mailbox /\ mailbox'.state = "Working"
      /\ mailbox'.request = mailbox.request
  BY <1>1, <1>2 DEF Mailbox
<1>4. MailboxInv'
  BY <1>2, <1>3 DEF IInv, MailboxInv
<1>5. disturbances' \in 0 .. MaxDisturbances
  BY <1>2 DEF IInv, TypeOK
<1> QED BY <1>2, <1>3, <1>4, <1>5, WorkerStep

\* The worker's answer goes into the mailbox.
LEMMA Answered ==
    ASSUME IInv, mailbox.state = "Working",
           NEW fact \in FactType, IsFiniteSet(fact.records),
           fact.request = mailbox.request, fact.file \in {0, Len(logs)},
           mailbox' = [mailbox EXCEPT !.state = "Ready", !.fact = fact],
           UNCHANGED <<logs, pdc>>
    PROVE  mailbox' \in Mailbox /\ MailboxInv'
<1>1. mailbox \in Mailbox
  BY DEF IInv, TypeOK, Mailbox
<1>2. /\ mailbox' \in Mailbox /\ mailbox'.state = "Ready"
      /\ mailbox'.request = mailbox.request /\ mailbox'.fact = fact
  BY <1>1 DEF Mailbox
<1>3. /\ RequestInv(pdc, mailbox.request) /\ pdc.file <= Len(logs)
  BY DEF IInv, MailboxInv
<1>4. Len(logs) \in Nat /\ fact.file <= Len(logs)
  <2>1. Len(logs) \in Nat
    BY DEF IInv, TypeOK
  <2> QED BY <2>1
<1>5. MailboxInv'
  BY <1>2, <1>3, <1>4 DEF MailboxInv
<1> QED BY <1>2, <1>5

\* Answering a request keeps the invariant.
LEMMA AnswerStep ==
    ASSUME IInv, NEW fresh \in BOOLEAN, AnswerRequest(fresh) PROVE IInv'
<1> DEFINE fact == Fact(mailbox.request, fresh)
<1>1. mailbox.request \in Request /\ logs \in Seq(LogFile)
  BY DEF IInv, TypeOK
<1>2. /\ fact \in FactType /\ IsFiniteSet(fact.records)
      /\ fact.request = mailbox.request /\ fact.file \in {0, Len(logs)}
  BY <1>1, FactWellFormed
<1>3. /\ mailbox.state = "Working"
      /\ mailbox' = [mailbox EXCEPT !.state = "Ready", !.fact = fact]
      /\ UNCHANGED <<logs, network, flight, pdc, disturbances>>
  BY DEF AnswerRequest
<1> HIDE DEF fact
<1>4. mailbox' \in Mailbox /\ MailboxInv'
  BY <1>2, <1>3, Answered
<1>5. disturbances' \in 0 .. MaxDisturbances
  BY <1>3 DEF IInv, TypeOK
<1> QED BY <1>3, <1>4, <1>5, WorkerStep

\* A failed read keeps the invariant.
LEMMA FailStep ==
    ASSUME IInv, FailRequest PROVE IInv'
<1> DEFINE fact == EmptyFact(mailbox.request)
<1>1. mailbox.request \in Request
  BY DEF IInv, TypeOK
<1>2. /\ fact \in FactType /\ IsFiniteSet(fact.records)
      /\ fact.request = mailbox.request /\ fact.file \in {0, Len(logs)}
  BY <1>1, EmptyFactType
<1>3. /\ mailbox.state = "Working" /\ Disturb
      /\ mailbox' = [mailbox EXCEPT !.state = "Ready", !.fact = fact]
      /\ UNCHANGED <<logs, network, flight, pdc>>
  BY DEF FailRequest
<1> HIDE DEF fact
<1>4. mailbox' \in Mailbox /\ MailboxInv'
  BY <1>2, <1>3, Answered
<1> QED BY <1>3, <1>4, DisturbType, WorkerStep

\* The newest log file is rewritten.
LEMMA NewestReplaced ==
    ASSUME logs \in Seq(LogFile), logs # <<>>, NEW file \in LogFile
    PROVE  /\ [logs EXCEPT ![Newest] = file] \in Seq(LogFile)
           /\ Len([logs EXCEPT ![Newest] = file]) = Len(logs)
  BY DEF Newest

\* The newest log file is a log file.
LEMMA NewestType ==
    ASSUME logs \in Seq(LogFile), logs # <<>>
    PROVE  /\ logs[Newest] \in LogFile /\ Newest \in DOMAIN logs /\ Newest \in Nat
           /\ logs[Newest].lines \in Seq(Line) /\ logs[Newest].generation \in Nat
<1>1. Newest \in DOMAIN logs /\ Newest \in Nat
  BY DEF Newest
<1>2. logs[Newest] \in LogFile
  BY <1>1
<1> QED BY <1>1, <1>2 DEF LogFile

\* One whole line is appended to the newest log file.
LEMMA LineAppended ==
    ASSUME logs \in Seq(LogFile), logs # <<>>, NEW line \in Line
    PROVE  /\ Append1(line) \in Seq(LogFile) /\ Len(Append1(line)) = Len(logs)
<1> DEFINE old == logs[Newest]
           new == [old EXCEPT !.lines = Append(old.lines, line)]
<1>1. old \in LogFile /\ old.lines \in Seq(Line)
  BY NewestType
<1> HIDE DEF old
<1>2. Append(old.lines, line) \in Seq(Line)
  BY <1>1
<1>3. new \in LogFile
  BY <1>1, <1>2 DEF LogFile
<1>4. Append1(line) = [logs EXCEPT ![Newest] = new]
  BY NewestType DEF Append1, old
<1> QED BY <1>3, <1>4, NewestReplaced

Network == [connected : Callsigns \cup {NoCallsign}, logged : Callsigns \cup {NoCallsign}]

\* The types the steps of xPilot start from.
LEMMA OutsideTypes ==
    ASSUME IInv
    PROVE  /\ logs \in Seq(LogFile) /\ network \in Network
           /\ flight \in Flights \cup {NoFlight}
           /\ disturbances \in 0 .. MaxDisturbances /\ Len(logs) \in Nat
  BY DEF IInv, TypeOK, Network

\* A change of the flight context keeps the invariant.
LEMMA ChangeFlightStep ==
    ASSUME IInv, NEW plan \in Flights \cup {NoFlight}, ChangeFlight(plan)
    PROVE  IInv'
  BY OutsideTypes, DisturbType, XPilotStep DEF ChangeFlight, Network

\* A starting xPilot keeps the invariant: no file disappears.
LEMMA StartStep ==
    ASSUME IInv, NEW newFile \in BOOLEAN, StartXPilot(newFile) PROVE IInv'
<1>1. NewFile \in LogFile
  BY DEF NewFile, LogFile
<1>2. Offline \in Network
  BY DEF Offline, Network
<1>3. disturbances' \in 0 .. MaxDisturbances
  BY OutsideTypes, DisturbType DEF StartXPilot
<1>4. logs' \in Seq(LogFile) /\ Len(logs') >= Len(logs)
  <2>1. CASE newFile
    <3>1. logs' = Append(logs, NewFile)
      BY <2>1 DEF StartXPilot
    <3> QED BY <1>1, <3>1, OutsideTypes
  <2>2. CASE ~newFile
    <3> DEFINE old == logs[Newest]
               g   == old.generation + 1
               new == [NewFile EXCEPT !.generation = g]
    <3>1. /\ logs # <<>> /\ logs' = [logs EXCEPT ![Newest] = new]
      BY <2>2 DEF StartXPilot
    <3>2. g \in Nat
      BY <3>1, OutsideTypes, NewestType
    <3> HIDE DEF g
    <3>3. new \in LogFile
      BY <1>1, <3>2 DEF LogFile
    <3> HIDE DEF new
    <3>4. logs' \in Seq(LogFile) /\ Len(logs') = Len(logs)
      BY <3>1, <3>3, OutsideTypes, NewestReplaced
    <3> QED BY <3>4, OutsideTypes
  <2> QED BY <2>1, <2>2
<1>5. network' \in Network /\ flight' \in Flights \cup {NoFlight}
      /\ UNCHANGED <<pdc, mailbox>>
  BY <1>2, OutsideTypes DEF StartXPilot
<1> QED BY <1>3, <1>4, <1>5, XPilotStep DEF Network

\* Connecting keeps the invariant.
LEMMA ConnectStep ==
    ASSUME IInv, NEW callsign \in Callsigns, Connect(callsign) PROVE IInv'
<1>1. network' \in Network
  BY OutsideTypes DEF Connect, Network
<1> QED BY <1>1, OutsideTypes, XPilotStep DEF Connect, Network

\* Disconnecting keeps the invariant.
LEMMA DisconnectStep ==
    ASSUME IInv, Disconnect PROVE IInv'
<1>1. network' \in Network
  BY OutsideTypes DEF Disconnect, Network
<1> QED BY <1>1, OutsideTypes, DisturbType, XPilotStep DEF Disconnect, Network

\* xPilot writes one line.
LEMMA LineStep ==
    ASSUME IInv, logs # <<>>, NEW line \in Line, logs' = Append1(line),
           network' \in Network, UNCHANGED <<flight, mailbox, pdc, disturbances>>
    PROVE  IInv'
<1>1. logs' \in Seq(LogFile) /\ Len(logs') = Len(logs)
  BY OutsideTypes, LineAppended
<1> QED BY <1>1, OutsideTypes, XPilotStep DEF Network

\* A logged login keeps the invariant.
LEMMA LogLoginStep ==
    ASSUME IInv, LogLogin PROVE IInv'
<1> DEFINE line == [kind |-> "open", callsign |-> network.connected]
<1>1. line \in Line
  BY OutsideTypes DEF LogLogin, Network, Line
<1>2. network' \in Network
  BY OutsideTypes DEF LogLogin, Network
<1>3. /\ logs # <<>> /\ logs' = Append1(line)
      /\ UNCHANGED <<flight, mailbox, pdc, disturbances>>
  BY DEF LogLogin, CanWrite
<1> QED BY <1>1, <1>2, <1>3, LineStep

\* A logged logout keeps the invariant.
LEMMA LogLogoutStep ==
    ASSUME IInv, LogLogout PROVE IInv'
<1> DEFINE line == [kind |-> "close", callsign |-> network.logged]
<1>1. line \in Line
  BY OutsideTypes DEF LogLogout, Network, Line
<1>2. network' \in Network
  BY OutsideTypes DEF LogLogout, Network
<1>3. /\ logs # <<>> /\ logs' = Append1(line)
      /\ UNCHANGED <<flight, mailbox, pdc, disturbances>>
  BY DEF LogLogout, CanWrite
<1> QED BY <1>1, <1>2, <1>3, LineStep

\* A logged text keeps the invariant.
LEMMA LogTextStep ==
    ASSUME IInv, NEW kind \in TextKinds, LogText(kind) PROVE IInv'
<1> DEFINE line == [kind |-> kind, callsign |-> network.logged]
<1>1. line \in Line
  <2>1. kind \in {"direct", "other"}
    BY ConstantsAssumption
  <2> QED BY <2>1, OutsideTypes DEF LogText, Network, Line
<1>2. /\ logs # <<>> /\ logs' = Append1(line) /\ network' \in Network
      /\ UNCHANGED <<flight, mailbox, pdc, disturbances>>
  BY OutsideTypes DEF LogText, CanWrite
<1> QED BY <1>1, <1>2, LineStep

\* A line begun keeps the invariant.
LEMMA BeginLineStep ==
    ASSUME IInv, BeginDirectLine PROVE IInv'
<1> DEFINE old == logs[Newest]
           new == [old EXCEPT !.tail = TRUE]
<1>1. /\ logs # <<>> /\ Newest \in DOMAIN logs
      /\ logs' = [logs EXCEPT ![Newest].tail = TRUE]
      /\ UNCHANGED <<network, flight, mailbox, pdc, disturbances>>
  BY OutsideTypes, NewestType DEF BeginDirectLine, CanWrite
<1>2. logs' = [logs EXCEPT ![Newest] = new]
  BY <1>1
<1>3. old \in LogFile
  BY <1>1, OutsideTypes, NewestType
<1> HIDE DEF old
<1>4. new \in LogFile
  BY <1>3 DEF LogFile
<1> HIDE DEF new
<1>5. logs' \in Seq(LogFile) /\ Len(logs') = Len(logs)
  <2>1. logs \in Seq(LogFile) /\ logs # <<>>
    BY <1>1, OutsideTypes
  <2> QED BY ONLY <1>2, <1>4, <2>1, NewestReplaced
<1> QED BY <1>1, <1>5, OutsideTypes, XPilotStep DEF Network

\* A line finished keeps the invariant.
LEMMA FinishLineStep ==
    ASSUME IInv, FinishDirectLine PROVE IInv'
<1> DEFINE old  == logs[Newest]
           line == [kind |-> "direct", callsign |-> network.logged]
           new  == [old EXCEPT !.tail = FALSE, !.lines = Append(old.lines, line)]
<1>1. /\ logs # <<>> /\ network.logged # NoCallsign
      /\ logs' = [logs EXCEPT ![Newest].tail = FALSE, ![Newest].lines = Append(@, line)]
      /\ UNCHANGED <<network, flight, mailbox, pdc, disturbances>>
  BY DEF FinishDirectLine
<1>2. line \in Line
  BY <1>1, OutsideTypes DEF Network, Line
<1> HIDE DEF line
<1>3. Newest \in DOMAIN logs /\ old \in LogFile /\ old.lines \in Seq(Line)
  BY <1>1, OutsideTypes, NewestType
<1>4. logs' = [logs EXCEPT ![Newest] = new]
  BY <1>1, <1>3
<1> HIDE DEF old
<1>5. Append(old.lines, line) \in Seq(Line)
  BY <1>2, <1>3
<1>6. new \in LogFile
  BY <1>3, <1>5 DEF LogFile
<1> HIDE DEF new
<1>7. logs' \in Seq(LogFile) /\ Len(logs') = Len(logs)
  <2>1. logs \in Seq(LogFile) /\ logs # <<>>
    BY <1>1, OutsideTypes
  <2> QED BY ONLY <1>4, <1>6, <2>1, NewestReplaced
<1> QED BY <1>1, <1>7, OutsideTypes, XPilotStep DEF Network

\* A stuttering step keeps the invariant.
LEMMA StutterStep ==
    ASSUME IInv, UNCHANGED vars PROVE IInv'
  BY OutsideTypes, XPilotStep DEF vars, Network

-----------------------------------------------------------------------------
(* The theorems *)

\* Every step keeps the invariant: one case per action.
LEMMA IInvStep == IInv /\ [Next]_vars => IInv'
<1> SUFFICES ASSUME IInv, [Next]_vars PROVE IInv'
  OBVIOUS
<1>1. CASE FlightLoop
  <2>1. ASSUME NEW harvestFree \in {TRUE, ~Contention},
               NEW submitFree \in {TRUE, ~Contention}, NEW callsignSeen \in BOOLEAN,
               Callback(harvestFree, submitFree, callsignSeen)
        PROVE  IInv'
    <3>1. harvestFree \in BOOLEAN /\ submitFree \in BOOLEAN
      BY ConstantsAssumption
    <3> QED BY <2>1, <3>1, CallbackStep
  <2>2. CASE ServiceTimeArrives
    BY <2>2, ServiceTimeStep
  <2>3. CASE SuspendPdc
    BY <2>3, SuspendStep
  <2>4. CASE ResumePdc
    BY <2>4, ResumeStep
  <2>5. CASE ResetProduct
    BY <2>5, ResetStep
  <2>6. ASSUME NEW plan \in Flights \cup {NoFlight}, ChangeFlight(plan) PROVE IInv'
    BY <2>6, ChangeFlightStep
  <2> QED BY <1>1, <2>1, <2>2, <2>3, <2>4, <2>5, <2>6 DEF FlightLoop
<1>2. CASE Worker
  <2>1. CASE TakeRequest
    BY <2>1, TakeStep
  <2>2. ASSUME NEW fresh \in {TRUE, ~StaleFiles}, AnswerRequest(fresh) PROVE IInv'
    <3>1. fresh \in BOOLEAN
      BY ConstantsAssumption
    <3> QED BY <2>2, <3>1, AnswerStep
  <2>3. CASE FailRequest
    BY <2>3, FailStep
  <2> QED BY <1>2, <2>1, <2>2, <2>3 DEF Worker
<1>3. CASE XPilot
  <2>1. ASSUME NEW newFile \in BOOLEAN, StartXPilot(newFile) PROVE IInv'
    BY <2>1, StartStep
  <2>2. ASSUME NEW callsign \in Callsigns, Connect(callsign) PROVE IInv'
    BY <2>2, ConnectStep
  <2>3. CASE LogLogin
    BY <2>3, LogLoginStep
  <2>4. CASE Disconnect
    BY <2>4, DisconnectStep
  <2>5. CASE LogLogout
    BY <2>5, LogLogoutStep
  <2>6. ASSUME NEW kind \in TextKinds, LogText(kind) PROVE IInv'
    BY <2>6, LogTextStep
  <2>7. CASE BeginDirectLine
    BY <2>7, BeginLineStep
  <2>8. CASE FinishDirectLine
    BY <2>8, FinishLineStep
  <2> QED BY <1>3, <2>1, <2>2, <2>3, <2>4, <2>5, <2>6, <2>7, <2>8 DEF XPilot
<1>4. CASE UNCHANGED vars
  BY <1>4, StutterStep
<1> QED BY <1>1, <1>2, <1>3, <1>4 DEF Next

\* The inductive invariant holds in every reachable state: the inbox is in log
\* order and behind the replay cursor, what is staged lies beyond it, and a
\* request whose stamps are current asks for what the monitor reads.
THEOREM MonitorInvariant == Spec => []IInv
  BY IInvInit, IInvStep, PTL DEF Spec

\* Every variable keeps its type, for every number of files, lines, slots,
\* callsigns and flights.
THEOREM TypeCorrect == Spec => []TypeOK
<1>1. IInv => TypeOK
  BY DEF IInv
<1> QED BY <1>1, MonitorInvariant, PTL

\* Whatever the interleaving of xPilot, the worker and the flight loop, a
\* later callback admits only messages logged after those admitted before:
\* none is admitted twice and none out of order (CommitStagedMessages with the
\* replay cursors, BrainPdcLogRuntime.cpp:68-103 and 225-264).
THEOREM InboxOrder == Spec => []InboxFollowsLog
<1>1. IInv => InboxFollowsLog
  BY DEF IInv, MonitorInv, InboxInv, InboxFollowsLog
<1> QED BY <1>1, MonitorInvariant, PTL

\* An answer that passes the checks of StaleFact was asked for by the
\* monitor as it is now: no reconnection, suspension, reset or recovery lies
\* between the question and its use (BrainPdcLogRuntime.cpp:356-359).
THEOREM AcceptedAnswers == Spec => []AcceptedRangeIsCurrent
<1>1. IInv => AcceptedRangeIsCurrent
  <2> SUFFICES ASSUME IInv, mailbox.state # "Idle",
                      mailbox.request.operation = "ReadRange",
                      ~StaleFact(pdc, TRUE, [request |-> mailbox.request])
               PROVE  /\ mailbox.request.file = pdc.file
                      /\ mailbox.request.begin = pdc.cursor
                      /\ mailbox.request.end = pdc.snapshotEnd
                      /\ pdc.readingSnapshot /\ ~pdc.recoveryRequired
    BY DEF AcceptedRangeIsCurrent
  <2>1. Current(pdc, mailbox.request)
    BY DEF StaleFact, Current
  <2>2. RequestInv(pdc, mailbox.request)
    BY DEF IInv, MailboxInv
  <2> QED BY <2>1, <2>2 DEF RequestInv
<1> QED BY <1>1, MonitorInvariant, PTL

-----------------------------------------------------------------------------
(* Which line of which log an entry of the inbox is *)

\* The line is a login or a logout of callsign.
OwnLine(line, callsign) == line.callsign = callsign /\ line.kind \in {"open", "close"}

\* A direct message is logged in an open session of its callsign, and xPilot
\* is in the session whose login it has logged last.
LogsInv ==
    /\ \A f \in DOMAIN logs : \A i \in 1 .. Len(logs[f].lines) :
          logs[f].lines[i].kind = "direct" =>
             OpenSession(logs[f].lines, logs[f].lines[i].callsign, i, i)
    /\ network.logged # NoCallsign =>
          /\ logs # <<>>
          /\ OpenSession(logs[Newest].lines, network.logged,
                         Len(logs[Newest].lines) + 1, Len(logs[Newest].lines))

\* Record r was read from file f, in this or in an earlier life of the file.
ReadFrom(r, f) ==
    /\ f \in DOMAIN logs /\ r.id[1] = f /\ r.end = 2 * r.id[3]
    /\ r.id[2] <= logs[f].generation
    /\ r.id[2] = logs[f].generation =>
          /\ r.id[3] \in 1 .. Len(logs[f].lines)
          /\ logs[f].lines[r.id[3]] = [kind |-> r.kind, callsign |-> r.callsign]

\* The stage holds direct messages of the bound callsign; between such a
\* message and the read cursor there is no login or logout of the callsign.
StagedInSession(p) ==
    \A r \in p.staged :
       /\ ReadFrom(r, p.file) /\ r.kind = "direct" /\ r.callsign = p.bound.callsign
       /\ ~p.discard
       /\ r.id[2] = logs[p.file].generation =>
             /\ p.cursor <= 2 * Len(logs[p.file].lines)
             /\ \A k \in r.id[3] + 1 .. p.cursor \div 2 :
                   ~OwnLine(logs[p.file].lines[k], p.bound.callsign)

\* What was admitted of the first life of the file the monitor reads carries
\* the incarnation the monitor gives the file now.
SameLife(p) ==
    \A e \in p.inbox : e.file = p.file /\ e.id[2] = 0 => e.incarnation = p.incarnation

\* An entry names its line; the entries of one batch come from one
\* incarnation of one file, and so do those of the first life of a file.
InboxNamed(p) ==
    /\ \A e \in p.inbox : e.id[1] = e.file /\ e.end = 2 * e.id[3]
    /\ \A x, y \in p.inbox : x.batch = y.batch =>
          x.file = y.file /\ x.incarnation = y.incarnation
    /\ \A x, y \in p.inbox : x.file = y.file /\ x.id[2] = 0 /\ y.id[2] = 0 =>
          x.incarnation = y.incarnation
    /\ \A r \in p.staged : r.id[2] = 0 => SameLife(p)

\* A file xPilot has not rewritten only grows: nothing the monitor knows of
\* it lies beyond its end, and it still is the incarnation it was.
FirstLife(p) ==
    p.file \in DOMAIN logs /\ logs[p.file].generation = 0 =>
        /\ p.cursor <= SizeOf(logs[p.file]) /\ p.snapshotEnd <= SizeOf(logs[p.file])
        /\ p.fileGeneration = 0
        /\ SameLife(p)

Ledger(p) == StagedInSession(p) /\ InboxNamed(p) /\ FirstLife(p)

\* What the worker found out about a log that is not rewritten.
DiscoveryInv(p, fact) ==
    fact.file # 0 /\ logs[fact.file].generation = 0 =>
        /\ fact.generation = 0 /\ fact.size <= SizeOf(logs[fact.file])
        /\ fact.file = p.file => p.cursor <= fact.size

Reported(fact, k) == \E z \in fact.records : z.id[3] = k

\* The records of a fact are lines of one life of the file, none older than
\* what is staged, and every line from the first record to the end of the
\* range is among them; unless a first fragment is to be dropped, so is every
\* line from the beginning of the range.
RangeInv(p, fact) ==
    /\ \A q \in fact.records :
          /\ ReadFrom(q, fact.request.file)
          /\ q.id[2] = logs[q.id[1]].generation => fact.next <= 2 * Len(logs[q.id[1]].lines)
          /\ \A z \in fact.records : z.id[2] = q.id[2]
          /\ q.id[1] = p.file /\ q.id[2] = 0 => SameLife(p)
          /\ q.id[1] = p.file => \A r \in p.staged : r.id[2] <= q.id[2]
          /\ \A k \in q.id[3] .. fact.next \div 2 : Reported(fact, k)
    /\ fact.discard => fact.request.discard /\ fact.records = {}
    /\ ~fact.request.discard =>
          /\ fact.records = {} => fact.next = fact.request.begin
          /\ \A k \in (fact.request.begin \div 2) + 1 .. fact.next \div 2 : Reported(fact, k)

\* A current request drops a first fragment exactly if the monitor still must.
DiscardInv(p, r) == Current(p, r) /\ r.operation = "ReadRange" => r.discard = p.discard

LedgerInv ==
    /\ LogsInv /\ Ledger(pdc)
    /\ mailbox.state # "Idle" => DiscardInv(pdc, mailbox.request)
    /\ mailbox.state = "Ready" =>
          DiscoveryInv(pdc, mailbox.fact) /\ RangeInv(pdc, mailbox.fact)

\* The entry a staged record becomes.
EntryOf(p, r) == [id |-> r.id, file |-> p.file, incarnation |-> p.incarnation,
                  end |-> r.end, batch |-> p.batches + 1]

\* A step of the monitor from p to q that reads nothing; it may admit what is
\* staged, and keep or drop the stage.
Advances(p, q) ==
    /\ \A e \in q.inbox : e \in p.inbox \/ \E r \in p.staged : e = EntryOf(p, r)
    /\ q.file = p.file /\ q.incarnation = p.incarnation
    /\ q.cursor = p.cursor /\ q.snapshotEnd = p.snapshotEnd
    /\ q.fileGeneration = p.fileGeneration /\ q.discard = p.discard
    /\ q.staged = {} \/ (q.staged = p.staged /\ q.bound = p.bound)

\* A step of the monitor after which no request is current that was not.
Awaits(p, q) ==
    /\ q.productEpoch = p.productEpoch /\ q.connectionEpoch >= p.connectionEpoch
    /\ q.pendingRequestId \in {p.pendingRequestId, 0}

\* What such steps leave true of the monitor, the mailbox and every request.
FactsHold(p, q) ==
    \A fact : /\ DiscoveryInv(p, fact) => DiscoveryInv(q, fact)
              /\ RangeInv(p, fact) => RangeInv(q, fact)
RequestsHold(p, q) ==
    \A r : RequestInv(p, r) /\ DiscardInv(p, r) => DiscardInv(q, r)

\* The ledger survives a step that reads nothing.
LEMMA AdvancesLedger ==
    ASSUME NEW p, NEW q, MonitorInv(p), Ledger(p), Advances(p, q)
    PROVE  Ledger(q) /\ FactsHold(p, q)
<1>1. /\ p \in Pdc /\ p.batches \in Nat
      /\ \A e \in p.inbox : e.batch <= p.batches /\ e.batch \in Nat
  BY DEF MonitorInv, InboxInv, Pdc, Entry
<1>2. ASSUME NEW e \in q.inbox
      PROVE  \/ e \in p.inbox /\ e.batch <= p.batches /\ e.batch \in Nat
             \/ /\ e.batch = p.batches + 1 /\ e.file = p.file
                /\ e.incarnation = p.incarnation
                /\ e.id[1] = e.file /\ e.end = 2 * e.id[3]
                /\ e.id[2] = 0 => SameLife(p)
  <2>1. CASE e \in p.inbox
    BY <1>1, <2>1
  <2>2. CASE e \notin p.inbox
    <3>1. PICK r \in p.staged : e = EntryOf(p, r)
      BY <2>2 DEF Advances
    <3>2. /\ e.id = r.id /\ e.file = p.file /\ e.incarnation = p.incarnation
          /\ e.end = r.end /\ e.batch = p.batches + 1
      BY <3>1 DEF EntryOf
    <3>3. r.id[1] = p.file /\ r.end = 2 * r.id[3] /\ (r.id[2] = 0 => SameLife(p))
      BY DEF Ledger, StagedInSession, InboxNamed, ReadFrom
    <3> QED BY <3>2, <3>3
  <2> QED BY <2>1, <2>2
<1>3. SameLife(p) => SameLife(q)
  BY <1>2 DEF SameLife, Advances
<1>4. StagedInSession(q)
  BY DEF Ledger, StagedInSession, Advances
<1>5. InboxNamed(q)
  <2>1. \A e \in q.inbox : e.id[1] = e.file /\ e.end = 2 * e.id[3]
    BY <1>2 DEF Ledger, InboxNamed
  <2>2. ASSUME NEW x \in q.inbox, NEW y \in q.inbox, x.batch = y.batch
        PROVE  x.file = y.file /\ x.incarnation = y.incarnation
    BY <1>1, <1>2, <2>2 DEF Ledger, InboxNamed
  <2>3. ASSUME NEW x \in q.inbox, NEW y \in q.inbox,
               x.file = y.file, x.id[2] = 0, y.id[2] = 0
        PROVE  x.incarnation = y.incarnation
    BY <1>2, <2>3 DEF Ledger, InboxNamed, SameLife
  <2>4. \A r \in q.staged : r.id[2] = 0 => SameLife(q)
    BY <1>3 DEF Ledger, InboxNamed, Advances
  <2> QED BY <2>1, <2>2, <2>3, <2>4 DEF InboxNamed
<1>6. FirstLife(q)
  BY <1>3 DEF Ledger, FirstLife, Advances
<1>7. ASSUME NEW fact, DiscoveryInv(p, fact) PROVE DiscoveryInv(q, fact)
  BY <1>7 DEF DiscoveryInv, Advances
<1>8. ASSUME NEW fact, RangeInv(p, fact) PROVE RangeInv(q, fact)
  BY <1>3, <1>8 DEF RangeInv, Advances
<1> QED BY <1>4, <1>5, <1>6, <1>7, <1>8 DEF Ledger, FactsHold

\* A request that is not current any more needs no agreement.
LEMMA AwaitsRequests ==
    ASSUME NEW p, NEW q, MonitorInv(p), Awaits(p, q), q.discard = p.discard,
           q.connectionEpoch \in Nat
    PROVE  RequestsHold(p, q)
<1> SUFFICES ASSUME NEW r, RequestInv(p, r), DiscardInv(p, r), Current(q, r),
                    r.operation = "ReadRange"
             PROVE  r.discard = q.discard
  BY DEF RequestsHold, DiscardInv
<1>1. p.connectionEpoch \in Nat /\ r.connection \in Nat
  BY DEF MonitorInv, Pdc, RequestInv, Request
<1>2. Current(p, r)
  BY <1>1 DEF Current, Awaits, RequestInv
<1> QED BY <1>2 DEF DiscardInv

\* A cleared monitor has nothing to answer for.
LEMMA ClearedLedger ==
    ASSUME NEW p, MonitorInv(p), NEW e \in Nat, e > p.productEpoch, NEW s,
           logs \in Seq(LogFile)
    PROVE  /\ Ledger(ClearedPdc(e, s)) /\ FactsHold(p, ClearedPdc(e, s))
           /\ RequestsHold(p, ClearedPdc(e, s))
<1> DEFINE q == ClearedPdc(e, s)
<1>1. /\ q.inbox = {} /\ q.staged = {} /\ q.file = 0 /\ q.productEpoch = e
  BY DEF ClearedPdc
<1> HIDE DEF q
<1>2. 0 \notin DOMAIN logs
  OBVIOUS
<1>3. Ledger(q)
  BY <1>1, <1>2 DEF Ledger, StagedInSession, InboxNamed, FirstLife
<1>4. ASSUME NEW fact, DiscoveryInv(p, fact) PROVE DiscoveryInv(q, fact)
  BY <1>1, <1>4 DEF DiscoveryInv
<1>5. ASSUME NEW fact, RangeInv(p, fact) PROVE RangeInv(q, fact)
  BY <1>1, <1>5 DEF RangeInv, SameLife
<1>6. ASSUME NEW r, RequestInv(p, r) PROVE ~Current(q, r)
  <2>1. r.product \in Nat /\ r.product <= p.productEpoch /\ p.productEpoch \in Nat
    BY <1>6 DEF RequestInv, Request, MonitorInv, Pdc
  <2> QED BY <1>1, <2>1 DEF Current
<1> QED BY <1>3, <1>4, <1>5, <1>6 DEF FactsHold, RequestsHold, DiscardInv, q

\* Before a flight is bound, nothing is staged.
LEMMA UnboundStage ==
    ASSUME NEW p \in Pdc, StagedInSession(p), p.bound = NoFlight
    PROVE  p.staged = {}
<1>1. \A r \in p.staged : r.callsign \in Callsigns /\ r.callsign = NoCallsign
  BY DEF Pdc, Record, StagedInSession, NoFlight
<1> QED BY <1>1, ConstantsAssumption

\* What a stage of the callback that reads nothing leaves true.
Keeps(p, q) == Ledger(q) /\ FactsHold(p, q) /\ RequestsHold(p, q)

\* Observing the connection keeps the ledger.
LEMMA ConnectionLedger ==
    ASSUME NEW p, MonitorInv(p), Ledger(p), NEW connected \in BOOLEAN
    PROVE  LET q == ObserveConnection(p, connected)
           IN  Keeps(p, q) /\ q.inbox = p.inbox
<1> DEFINE q == ObserveConnection(p, connected)
<1>1. CASE q = p
  BY <1>1 DEF Keeps, FactsHold, RequestsHold
<1>2. CASE q # p
  <2> DEFINE n == p.connectionEpoch + 1
             d == [p EXCEPT !.connectionEpoch = n, !.pendingRequestId = 0]
             v == d.available /\ connected
             w == [d EXCEPT !.connectionKnown = TRUE, !.connected = connected,
                            !.recoveryRequired = TRUE, !.readingSnapshot = FALSE,
                            !.committing = FALSE, !.staged = {}, !.commitIndex = 0,
                            !.due = TRUE, !.available = v]
  <2>1. q = w /\ p \in Pdc /\ p.connectionEpoch \in Nat
    BY <1>2 DEF ObserveConnection, DisownRequest, MonitorInv, Pdc
  <2>2. n \in Nat /\ n >= p.connectionEpoch
    BY <2>1
  <2> HIDE DEF n
  <2>3. /\ d \in Pdc /\ d.connectionEpoch = n /\ d.pendingRequestId = 0
        /\ d.productEpoch = p.productEpoch /\ d.inbox = p.inbox /\ d.file = p.file
        /\ d.incarnation = p.incarnation /\ d.cursor = p.cursor
        /\ d.snapshotEnd = p.snapshotEnd /\ d.fileGeneration = p.fileGeneration
        /\ d.discard = p.discard
    BY <2>1, <2>2 DEF Pdc
  <2> HIDE DEF d, v
  <2>4. /\ w.connectionEpoch = n /\ w.pendingRequestId = 0
        /\ w.productEpoch = d.productEpoch /\ w.inbox = d.inbox /\ w.file = d.file
        /\ w.incarnation = d.incarnation /\ w.cursor = d.cursor
        /\ w.snapshotEnd = d.snapshotEnd /\ w.fileGeneration = d.fileGeneration
        /\ w.discard = d.discard /\ w.staged = {}
    BY <2>3 DEF Pdc
  <2> HIDE DEF w
  <2>5. Advances(p, w) /\ Awaits(p, w)
    BY <2>2, <2>3, <2>4 DEF Advances, Awaits
  <2>6. Ledger(w) /\ FactsHold(p, w)
    BY <2>5, AdvancesLedger
  <2>7. RequestsHold(p, w)
    BY <2>2, <2>3, <2>4, <2>5, AwaitsRequests
  <2> QED BY <2>1, <2>3, <2>4, <2>6, <2>7 DEF Keeps
<1> QED BY <1>1, <1>2

\* Binding a flight keeps the ledger; another flight finds an empty inbox.
LEMMA FlightLedger ==
    ASSUME NEW p, MonitorInv(p), Ledger(p), NEW ready \in BOOLEAN,
           NEW connected \in BOOLEAN, NEW plan \in Plans, logs \in Seq(LogFile)
    PROVE  LET q == BindFlight(p, ready, plan, connected)
           IN  Keeps(p, q) /\ q.inbox \subseteq p.inbox
<1> DEFINE q == BindFlight(p, ready, plan, connected)
<1>1. CASE ~ready \/ p.bound = plan
  <2>1. q = p
    BY <1>1 DEF BindFlight
  <2> QED BY <2>1 DEF Keeps, FactsHold, RequestsHold
<1>2. CASE ready /\ p.bound # plan
  <2> DEFINE c == ResetProductState(p)
             f == IF p.bound = NoFlight THEN p ELSE ObserveConnection(c, connected)
             w == [f EXCEPT !.bound = plan, !.recoveryRequired = TRUE, !.due = TRUE]
  <2>1. q = w
    BY <1>2 DEF BindFlight
  <2>2. p \in Pdc /\ p.productEpoch \in Nat /\ p.suspended \in BOOLEAN
    BY DEF MonitorInv, Pdc
  <2>3. /\ MonitorInv(f) /\ f.staged = {} /\ f.inbox \subseteq p.inbox
        /\ Keeps(p, f)
        /\ \A r : RequestInv(p, r) => RequestInv(f, r)
    <3>1. CASE p.bound = NoFlight
      <4>1. p.staged = {}
        BY <2>2, <3>1, UnboundStage DEF Ledger
      <4> QED BY <3>1, <4>1 DEF Keeps, FactsHold, RequestsHold
    <3>2. CASE p.bound # NoFlight
      <4> DEFINE o == ObserveConnection(c, connected)
                 e == p.productEpoch + 1
      <4>1. c = ClearedPdc(e, p.suspended) /\ e \in Nat /\ e > p.productEpoch
        BY <2>2 DEF ResetProductState
      <4>2. MonitorInv(c) /\ c.productEpoch = e
        BY <2>2, <4>1, Cleared
      <4>3. Keeps(p, c)
        BY <4>1, ClearedLedger DEF Keeps
      <4>4. c.inbox = {} /\ c.connectionKnown = FALSE /\ c.staged = {}
        BY <4>1 DEF ClearedPdc
      <4> HIDE DEF c, e
      <4>5. Keeps(c, o) /\ o.inbox = {}
        BY <4>2, <4>3, <4>4, ConnectionLedger DEF Keeps
      <4>6. MonitorInv(o) /\ \A r : r.id # 0 /\ RequestInv(c, r) => RequestInv(o, r)
        BY <4>2, ConnectionObserved
      <4>7. o.staged = {}
        <5> DEFINE d == DisownRequest(c)
                   v == d.available /\ connected
        <5>1. o = [d EXCEPT !.connectionKnown = TRUE, !.connected = connected,
                            !.recoveryRequired = TRUE, !.readingSnapshot = FALSE,
                            !.committing = FALSE, !.staged = {}, !.commitIndex = 0,
                            !.due = TRUE, !.available = v]
          BY <4>4 DEF ObserveConnection
        <5>2. d \in Pdc
          BY <4>2, Disown DEF MonitorInv
        <5> HIDE DEF d, v, o
        <5> QED BY <5>1, <5>2 DEF Pdc
      <4>8. ASSUME NEW r, RequestInv(p, r) PROVE r.id # 0 /\ RequestInv(c, r)
        <5>1. r.product \in Nat /\ r.product <= p.productEpoch
          BY <4>8 DEF RequestInv, Request
        <5> QED BY <2>2, <4>1, <4>2, <4>8, <5>1 DEF RequestInv, Current
      <4>9. Keeps(p, o)
        <5> HIDE DEF o
        <5> QED BY <4>3, <4>5, <4>8 DEF Keeps, FactsHold, RequestsHold
      <4> HIDE DEF o
      <4>10. f = o
        BY <3>2 DEF o, c
      <4> QED BY <4>5, <4>6, <4>7, <4>8, <4>9, <4>10
    <3> QED BY <3>1, <3>2
  <2> HIDE DEF f
  <2>4. /\ w.file = f.file /\ w.incarnation = f.incarnation /\ w.cursor = f.cursor
        /\ w.snapshotEnd = f.snapshotEnd /\ w.fileGeneration = f.fileGeneration
        /\ w.discard = f.discard /\ w.inbox = f.inbox /\ w.staged = f.staged
        /\ w.productEpoch = f.productEpoch /\ w.connectionEpoch = f.connectionEpoch
        /\ w.pendingRequestId = f.pendingRequestId
    BY <2>3 DEF MonitorInv, Pdc
  <2> HIDE DEF w
  <2>5. f.connectionEpoch \in Nat
    BY <2>3 DEF MonitorInv, Pdc
  <2>6. Advances(f, w) /\ Awaits(f, w)
    BY <2>3, <2>4, <2>5 DEF Advances, Awaits
  <2>7. Ledger(w) /\ FactsHold(f, w)
    BY <2>3, <2>6, AdvancesLedger DEF Keeps
  <2>8. RequestsHold(f, w)
    BY <2>3, <2>4, <2>5, <2>6, AwaitsRequests
  <2>9. Keeps(p, w)
    BY <2>3, <2>7, <2>8 DEF Keeps, FactsHold, RequestsHold
  <2> QED BY <2>1, <2>3, <2>4, <2>9
<1> QED BY <1>1, <1>2

\* Reading the records of a current range keeps the ledger: what stays staged
\* and what is staged anew has no login or logout of the callsign after it.
LEMMA RecordsLedger ==
    ASSUME NEW p, MonitorInv(p), Ledger(p),
           NEW fact \in FactType, IsFiniteSet(fact.records), RangeInv(p, fact),
           fact.request.file = p.file, fact.request.begin = p.cursor,
           fact.request.discard = p.discard,
           fact.next >= p.cursor, fact.next <= p.snapshotEnd, logs \in Seq(LogFile)
    PROVE  LET m == [p EXCEPT !.cursor = fact.next, !.discard = fact.discard]
               q == ObserveLogRecords(m, fact.records)
           IN  Ledger(q) /\ q.inbox = p.inbox
<1> DEFINE next == fact.next
           discard == fact.discard
           R == fact.records
           m == [p EXCEPT !.cursor = next, !.discard = discard]
           own  == OwnSessionRecords(m, R)
           last == CHOOSE r \in own : \A z \in own : z.end <= r.end
           S    == IF own = {}
                   THEN IF m.session = m.bound.callsign
                        THEN KeepNewest(m.staged \cup Eligible(m, R, 0)) ELSE m.staged
                   ELSE IF last.kind = "open"
                        THEN KeepNewest(Eligible(m, R, last.end)) ELSE {}
           session == IF last.kind = "open" THEN last.callsign ELSE NoCallsign
           a == [m EXCEPT !.staged = S]
           b == [m EXCEPT !.session = session, !.staged = S,
                          !.commitIndex = 0, !.committing = FALSE]
           q == ObserveLogRecords(m, R)
<1>1. /\ p \in Pdc /\ p.staged \in SUBSET Record /\ R \in SUBSET Record
      /\ next \in Nat /\ discard \in BOOLEAN /\ p.cursor \in Nat
      /\ p.snapshotEnd \in Nat
  BY DEF MonitorInv, Pdc, FactType
<1>2. /\ m \in Pdc /\ m.cursor = next /\ m.discard = discard
      /\ m.staged = p.staged /\ m.bound = p.bound /\ m.inbox = p.inbox
      /\ m.file = p.file /\ m.incarnation = p.incarnation
      /\ m.snapshotEnd = p.snapshotEnd /\ m.fileGeneration = p.fileGeneration
  <2> HIDE DEF next, discard
  <2>1. m \in Pdc
    BY ONLY <1>1, ZenonT(60) DEF Pdc
  <2> QED BY <1>1, <2>1 DEF Pdc
<1> HIDE DEF m
<1>3. /\ IsFiniteSet(own) /\ own \subseteq R
      /\ \A z \in R : z.end \in Nat
  BY <1>1, FS_Subset DEF OwnSessionRecords, Record
<1>4. own # {} => last \in own /\ \A z \in own : z.end <= last.end
  BY <1>3, LastRecord
<1>5. ASSUME NEW r \in S
      PROVE  \/ r \in p.staged /\ own = {}
             \/ /\ r \in R /\ r.kind = "direct" /\ r.callsign = p.bound.callsign
                /\ own # {} => r.end > last.end
  <2>1. CASE own = {}
    <3>1. r \in m.staged \cup Eligible(m, R, 0)
      BY <2>1 DEF KeepNewest
    <3> QED BY <1>2, <2>1, <3>1 DEF Eligible
  <2>2. CASE own # {}
    <3>1. r \in Eligible(m, R, last.end)
      BY <2>2 DEF KeepNewest
    <3> QED BY <1>2, <2>2, <3>1 DEF Eligible
  <2> QED BY <2>1, <2>2
<1>6. q = IF own = {} THEN a ELSE b
  <2>1. CASE own = {} /\ m.session = m.bound.callsign
    BY <2>1 DEF ObserveLogRecords
  <2>2. CASE own = {} /\ m.session # m.bound.callsign
    BY <2>2 DEF ObserveLogRecords
  <2>3. CASE own # {}
    BY <2>3 DEF ObserveLogRecords
  <2> QED BY <2>1, <2>2, <2>3
<1>7. \A z \in R : z.kind \in {"open", "close"} /\ z.callsign = p.bound.callsign => z \in own
  BY <1>2 DEF OwnSessionRecords
<1> HIDE DEF S, session, own, last, q
<1>8. /\ q.staged = S /\ q.cursor = next /\ q.discard = discard
      /\ q.bound = p.bound /\ q.inbox = p.inbox
      /\ q.file = p.file /\ q.incarnation = p.incarnation
      /\ q.snapshotEnd = p.snapshotEnd /\ q.fileGeneration = p.fileGeneration
  <2>1. CASE own = {}
    <3>1. /\ a.staged = S /\ a.cursor = m.cursor /\ a.discard = m.discard
          /\ a.bound = m.bound /\ a.inbox = m.inbox
          /\ a.file = m.file /\ a.incarnation = m.incarnation
          /\ a.snapshotEnd = m.snapshotEnd /\ a.fileGeneration = m.fileGeneration
      BY ONLY <1>2 DEF Pdc
    <3> QED BY <1>2, <1>6, <2>1, <3>1
  <2>2. CASE own # {}
    <3>1. /\ b.staged = S /\ b.cursor = m.cursor /\ b.discard = m.discard
          /\ b.bound = m.bound /\ b.inbox = m.inbox
          /\ b.file = m.file /\ b.incarnation = m.incarnation
          /\ b.snapshotEnd = m.snapshotEnd /\ b.fileGeneration = m.fileGeneration
      BY ONLY <1>2 DEF Pdc
    <3> QED BY <1>2, <1>6, <2>2, <3>1
  <2> QED BY <2>1, <2>2
<1> DEFINE lines == logs[p.file].lines
           life  == logs[p.file].generation
<1>9. ASSUME NEW z \in R
      PROVE  /\ ReadFrom(z, p.file) /\ z.id[1] = p.file /\ z.end = 2 * z.id[3]
             /\ z.id[2] \in Nat /\ z.id[3] \in Nat
             /\ z.id[2] = life =>
                  /\ z.id[3] \in 1 .. Len(lines) /\ next <= 2 * Len(lines)
                  /\ lines[z.id[3]].kind = z.kind /\ lines[z.id[3]].callsign = z.callsign
             /\ z.id[2] <= life
             /\ \A y \in R : y.id[2] = z.id[2]
             /\ \A k \in z.id[3] .. next \div 2 : Reported(fact, k)
  <2>1. z.id \in Nat \X Nat \X Nat
    BY <1>1 DEF Record
  <2>2. z.id[2] \in Nat /\ z.id[3] \in Nat
    BY <2>1
  <2>3. /\ ReadFrom(z, p.file)
        /\ z.id[2] = logs[z.id[1]].generation => next <= 2 * Len(logs[z.id[1]].lines)
        /\ \A y \in R : y.id[2] = z.id[2]
        /\ \A k \in z.id[3] .. next \div 2 : Reported(fact, k)
    BY DEF RangeInv
  <2>4. /\ z.id[1] = p.file /\ z.end = 2 * z.id[3] /\ z.id[2] <= life
        /\ z.id[2] = life =>
             /\ z.id[3] \in 1 .. Len(lines)
             /\ lines[z.id[3]] = [kind |-> z.kind, callsign |-> z.callsign]
    BY <2>3 DEF ReadFrom
  <2>5. z.id[2] = life => next <= 2 * Len(lines)
    BY <2>3, <2>4
  <2>6. z.id[2] = life => /\ lines[z.id[3]].kind = z.kind
                          /\ lines[z.id[3]].callsign = z.callsign
    <3> HIDE DEF lines, life
    <3> QED BY <2>4
  <2> HIDE DEF lines, life, R, next
  <2> QED BY ONLY <2>2, <2>3, <2>4, <2>5, <2>6
<1>10. ASSUME NEW r \in S PROVE ReadFrom(r, p.file) /\ ~discard
  <2>1. CASE r \in p.staged
    BY <2>1 DEF Ledger, StagedInSession, RangeInv
  <2>2. CASE r \in R
    BY <1>9, <2>2 DEF RangeInv
  <2> QED BY <1>5, <2>1, <2>2
<1>11. ASSUME NEW r \in S, r.id[2] = life
       PROVE  /\ next <= 2 * Len(lines)
              /\ \A k \in r.id[3] + 1 .. next \div 2 : ~OwnLine(lines[k], p.bound.callsign)
  <2>0. r.id[3] \in Nat /\ r.id[2] \in Nat
    <3>1. r \in Record
      BY <1>1, <1>5
    <3> QED BY <3>1 DEF Record
  <2>1. CASE r \in p.staged /\ own = {}
    <3>1. /\ ~p.discard /\ p.cursor <= 2 * Len(lines)
          /\ \A k \in r.id[3] + 1 .. p.cursor \div 2 : ~OwnLine(lines[k], p.bound.callsign)
      BY <1>11, <2>1 DEF Ledger, StagedInSession
    <3>2. \A z \in R : z.id[2] = life
      <4> SUFFICES ASSUME NEW z \in R PROVE z.id[2] = life
        OBVIOUS
      <4>1. r.id[2] <= z.id[2]
        BY <1>9, <2>1 DEF RangeInv
      <4> QED BY <1>9, <1>11, <2>0, <4>1
    <3>3. next <= 2 * Len(lines)
      <4>1. CASE R = {}
        <5>1. next = p.cursor
          BY <3>1, <4>1 DEF RangeInv
        <5> QED BY <3>1, <5>1
      <4>2. CASE R # {}
        <5>1. PICK z \in R : TRUE
          BY <4>2
        <5> QED BY <1>9, <3>2, <5>1
      <4> QED BY <4>1, <4>2
    <3>4. ASSUME NEW k \in r.id[3] + 1 .. next \div 2 PROVE ~OwnLine(lines[k], p.bound.callsign)
      <4>1. CASE k <= p.cursor \div 2
        <5>1. k \in r.id[3] + 1 .. p.cursor \div 2
          BY <1>1, <2>0, <4>1
        <5> QED BY <3>1, <5>1
      <4>2. CASE ~(k <= p.cursor \div 2)
        <5>1. k \in (p.cursor \div 2) + 1 .. next \div 2
          BY <1>1, <2>0, <4>2
        <5>2. Reported(fact, k)
          BY <3>1, <5>1 DEF RangeInv
        <5>3. PICK z \in R : z.id[3] = k
          BY <5>2 DEF Reported
        <5>4. lines[k].kind = z.kind /\ lines[k].callsign = z.callsign
          BY <1>9, <3>2, <5>3
        <5> QED BY <1>7, <2>1, <5>4 DEF OwnLine
      <4> QED BY <4>1, <4>2
    <3> QED BY <3>3, <3>4
  <2>2. CASE r \in R /\ (own # {} => r.end > last.end)
    <3>1. next <= 2 * Len(lines)
      BY <1>9, <1>11, <2>2
    <3>2. ASSUME NEW k \in r.id[3] + 1 .. next \div 2 PROVE ~OwnLine(lines[k], p.bound.callsign)
      <4>1. k \in r.id[3] .. next \div 2 /\ k > r.id[3] /\ k \in Nat
        BY <1>1, <2>0
      <4>2. PICK z \in R : z.id[3] = k
        BY <1>9, <2>2, <4>1 DEF Reported
      <4>3. /\ lines[k].kind = z.kind /\ lines[k].callsign = z.callsign
            /\ z.end = 2 * k /\ r.end = 2 * r.id[3]
        BY <1>9, <1>11, <2>2, <4>2
      <4>4. z \notin own
        <5>1. SUFFICES ASSUME z \in own PROVE FALSE
          OBVIOUS
        <5>2. z.end <= last.end /\ r.end > last.end /\ last.end \in Nat
          BY <1>3, <1>4, <2>2, <5>1
        <5> QED BY <2>0, <4>1, <4>3, <5>2
      <4> QED BY <1>7, <4>3, <4>4 DEF OwnLine
    <3> QED BY <3>1, <3>2
  <2> QED BY <1>5, <2>1, <2>2
<1>12. StagedInSession(q)
  <2>1. ASSUME NEW r \in S PROVE r.kind = "direct" /\ r.callsign = p.bound.callsign
    BY <1>5 DEF Ledger, StagedInSession
  <2> QED BY <1>8, <1>10, <1>11, <2>1 DEF StagedInSession
<1>13. SameLife(q) <=> SameLife(p)
  BY <1>8 DEF SameLife
<1>14. InboxNamed(q)
  <2>1. ASSUME NEW r \in S, r.id[2] = 0 PROVE SameLife(p)
    <3>1. CASE r \in p.staged
      BY <2>1, <3>1 DEF Ledger, InboxNamed
    <3>2. CASE r \in R
      BY <1>9, <2>1, <3>2 DEF RangeInv
    <3> QED BY <1>5, <3>1, <3>2
  <2> QED BY <1>8, <1>13, <2>1 DEF Ledger, InboxNamed
<1>15. FirstLife(q)
  <2>1. ASSUME p.file \in DOMAIN logs, life = 0 PROVE next <= SizeOf(logs[p.file])
    <3>1. p.snapshotEnd <= SizeOf(logs[p.file])
      BY <2>1 DEF Ledger, FirstLife
    <3>2. SizeOf(logs[p.file]) \in Nat
      BY <2>1, SizeType
    <3> QED BY <1>1, <3>1, <3>2
  <2> QED BY <1>8, <1>13, <2>1 DEF Ledger, FirstLife
<1> QED BY <1>8, <1>12, <1>14, <1>15 DEF Ledger, q, m

\* Discovering a file keeps the ledger: a log that is not rewritten is never
\* taken for a new incarnation.
LEMMA DiscoveryLedger ==
    ASSUME NEW p, MonitorInv(p), Ledger(p), p.pendingRequestId = 0,
           NEW fact \in FactType, fact.file # 0 => fact.file >= p.file,
           fact.file <= Len(logs), DiscoveryInv(p, fact), logs \in Seq(LogFile)
    PROVE  LET q == ObserveDiscovery(p, fact)
           IN  Ledger(q) /\ q.inbox = p.inbox
<1> DEFINE q == ObserveDiscovery(p, fact)
<1>1. p \in Pdc /\ InboxInv(p)
  BY DEF MonitorInv
<1>2. CASE fact.file = 0
  <2> DEFINE w == [p EXCEPT !.recoveryRequired = TRUE, !.readingSnapshot = FALSE,
                            !.available = FALSE, !.due = FALSE]
  <2>1. q = w
    BY <1>2 DEF ObserveDiscovery
  <2>2. Advances(p, w) /\ w.inbox = p.inbox
    BY <1>1 DEF Advances, Pdc
  <2> HIDE DEF w
  <2> QED BY <2>1, <2>2, AdvancesLedger
<1>3. CASE fact.file # 0
  <2> DEFINE known == IF Rewritten(p, fact) THEN NewIncarnation(p, fact.file) ELSE p
             restart == p.recoveryRequired \/ p.file # fact.file \/ Rewritten(p, fact)
             b == p.cursor < fact.size
             size == fact.size
             generation == fact.generation
             appended == [known EXCEPT !.fileSize = size, !.fileGeneration = generation,
                                       !.snapshotEnd = size, !.readingSnapshot = b]
             begun == IF restart THEN BeginFileSnapshot(known, fact) ELSE appended
             v == begun.readingSnapshot
             w == [begun EXCEPT !.due = v]
             life == logs[fact.file].generation
  <2>1. q = w
    BY <1>3 DEF ObserveDiscovery
  <2>2. /\ known \in Pdc /\ InboxInv(known) /\ known.pendingRequestId = 0
        /\ known.file = p.file /\ known.inbox = p.inbox
    BY <1>1, Reincarnated DEF SameStamps
  <2>3. /\ p.file \in Nat /\ p.cursor \in Nat /\ p.fileSize \in Nat
        /\ size \in Nat /\ generation \in Nat /\ fact.file \in Nat
        /\ b \in BOOLEAN /\ fact.file \in DOMAIN logs
        /\ \A e \in p.inbox : e.file \in Nat
    <3>1. /\ p.file \in Nat /\ p.cursor \in Nat /\ p.fileSize \in Nat
          /\ size \in Nat /\ generation \in Nat /\ fact.file \in Nat
          /\ \A e \in p.inbox : e.file \in Nat
      BY <1>1 DEF Pdc, FactType, Entry
    <3> QED BY <1>3, <3>1
  <2>4. ASSUME life = 0
        PROVE  /\ size <= SizeOf(logs[fact.file]) /\ SizeOf(logs[fact.file]) \in Nat
               /\ generation = 0
               /\ p.file = fact.file => ~Rewritten(p, fact) /\ SameLife(p)
    <3>1. /\ size <= SizeOf(logs[fact.file]) /\ generation = 0
          /\ p.file = fact.file => p.cursor <= size
      BY <1>3, <2>4 DEF DiscoveryInv
    <3>2. p.file = fact.file => p.fileGeneration = 0 /\ SameLife(p)
      BY <2>3, <2>4 DEF Ledger, FirstLife
    <3>3. p.file = fact.file => ~Rewritten(p, fact)
      BY <2>3, <3>1, <3>2 DEF Rewritten
    <3>4. SizeOf(logs[fact.file]) \in Nat
      BY <2>3, SizeType
    <3> QED BY <3>1, <3>2, <3>3, <3>4
  <2>5. p.file # fact.file => \A e \in p.inbox : e.file # fact.file
    BY <1>1, <1>3, <2>3 DEF InboxInv, Behind
  <2>6. begun \in Pdc /\ MonitorInv(begun) /\ Ledger(begun) /\ begun.inbox = p.inbox
    <3>1. CASE restart
      <4>1. begun = BeginFileSnapshot(known, fact)
        BY <3>1
      <4> DEFINE s == BeginFileSnapshot(known, fact)
      <4>2. /\ MonitorInv(s) /\ s.file = fact.file /\ s.staged = {}
            /\ s.inbox = p.inbox /\ s.incarnation = known.incarnation
            /\ s.fileGeneration = generation /\ s.snapshotEnd = size
            /\ s.cursor <= size
        <5> HIDE DEF known
        <5> QED BY <1>3, <2>2, SnapshotBegun
      <4> HIDE DEF s, begun
      <4>3. ASSUME life = 0 PROVE SameLife(s)
        <5>1. CASE p.file = fact.file
          <6>1. known = p /\ SameLife(p)
            BY <2>4, <4>3, <5>1
          <6> HIDE DEF known
          <6> QED BY <4>2, <5>1, <6>1 DEF SameLife
        <5>2. CASE p.file # fact.file
          BY <2>5, <4>2, <5>2 DEF SameLife
        <5> QED BY <5>1, <5>2
      <4>4. s.cursor \in Nat
        BY <4>2 DEF MonitorInv, Pdc
      <4>5. FirstLife(s)
        <5> HIDE DEF size, generation, known
        <5> SUFFICES ASSUME s.file \in DOMAIN logs, logs[s.file].generation = 0
                     PROVE  /\ s.cursor <= SizeOf(logs[s.file])
                            /\ s.snapshotEnd <= SizeOf(logs[s.file])
                            /\ s.fileGeneration = 0 /\ SameLife(s)
          BY DEF FirstLife
        <5>1. life = 0
          BY <4>2
        <5>2. /\ size <= SizeOf(logs[fact.file]) /\ SizeOf(logs[fact.file]) \in Nat
              /\ generation = 0
          BY <2>4, <5>1
        <5> HIDE DEF life
        <5> QED BY <2>3, <4>2, <4>3, <4>4, <5>1, <5>2
      <4>6. StagedInSession(s) /\ InboxNamed(s)
        BY <4>2 DEF Ledger, StagedInSession, InboxNamed
      <4> QED BY <4>1, <4>2, <4>5, <4>6, s = BeginFileSnapshot(known, fact)
              DEF Ledger, MonitorInv, s
    <3>2. CASE ~restart
      <4>1. known = p /\ p.file = fact.file
        BY <3>2
      <4> DEFINE a == [p EXCEPT !.fileSize = size, !.fileGeneration = generation,
                                !.snapshotEnd = size, !.readingSnapshot = b]
      <4>2. begun = a
        BY <3>2, <4>1
      <4>3. SameLife(p) <=> SameLife(a)
        BY <1>1 DEF SameLife, Pdc
      <4> HIDE DEF size, generation, b, known, begun
      <4>4. a \in Pdc
        BY ONLY <1>1, <2>3, ZenonT(60) DEF Pdc
      <4>5. /\ a.file = p.file /\ a.incarnation = p.incarnation /\ a.replay = p.replay
            /\ a.inbox = p.inbox /\ a.batches = p.batches
            /\ a.staged = p.staged /\ a.committing = p.committing
            /\ a.commitIndex = p.commitIndex
            /\ a.pendingRequestId = p.pendingRequestId
            /\ a.suspended = p.suspended /\ a.bound = p.bound
            /\ a.cursor = p.cursor /\ a.discard = p.discard
            /\ a.snapshotEnd = size /\ a.fileGeneration = generation
        BY ONLY <1>1, <2>3 DEF Pdc
      <4> HIDE DEF a
      <4>6. MonitorInv(a)
        <5>1. Quiet(p, a)
          BY <1>3, <4>1, <4>4, <4>5 DEF Quiet
        <5> QED BY <5>1, QuietStep
      <4>7. StagedInSession(a) /\ InboxNamed(a)
        BY <4>3, <4>5 DEF Ledger, StagedInSession, InboxNamed
      <4>8. FirstLife(a)
        BY <2>4, <4>1, <4>3, <4>5 DEF Ledger, FirstLife
      <4> QED BY <4>2, <4>4, <4>5, <4>6, <4>7, <4>8 DEF Ledger
    <3> QED BY <3>1, <3>2
  <2> HIDE DEF begun, v
  <2>7. Advances(begun, w) /\ w.inbox = begun.inbox
    BY <2>6 DEF Advances, Pdc
  <2> HIDE DEF w
  <2> QED BY <2>1, <2>6, <2>7, AdvancesLedger
<1> QED BY <1>2, <1>3

\* Finishing a snapshot reads nothing.
LEMMA FinishAdvances ==
    ASSUME NEW p \in Pdc, p.file # 0, NEW fact
    PROVE  LET q == FinishSnapshot(p, fact)
           IN  Advances(p, q) /\ q.inbox = p.inbox
<1> DEFINE q == FinishSnapshot(p, fact)
           done == [p EXCEPT !.readingSnapshot = FALSE, !.commitIndex = 0]
           own == [done EXCEPT !.available = TRUE, !.committing = TRUE]
           other == [done EXCEPT !.available = FALSE, !.committing = FALSE,
                                 !.staged = {}, !.due = FALSE]
           r == RememberReplayHighWater(other, p.cursor)
<1>1. q = own \/ q = r
  BY DEF FinishSnapshot
<1>2. done \in Pdc
  BY ZenonT(60) DEF Pdc
<1>3. Advances(p, done) /\ done.inbox = p.inbox /\ done.staged = p.staged
      /\ done.bound = p.bound
  BY DEF Advances, Pdc
<1> HIDE DEF done
<1>4. Advances(p, own) /\ own.inbox = p.inbox
  <2>1. /\ own.inbox = done.inbox /\ own.staged = done.staged /\ own.bound = done.bound
        /\ own.file = done.file /\ own.incarnation = done.incarnation
        /\ own.cursor = done.cursor /\ own.snapshotEnd = done.snapshotEnd
        /\ own.fileGeneration = done.fileGeneration /\ own.discard = done.discard
    BY <1>2 DEF Pdc
  <2> HIDE DEF own
  <2> QED BY <1>3, <2>1 DEF Advances
<1>5. other \in Pdc
  BY <1>2, ZenonT(60) DEF Pdc
<1>6. Advances(p, other) /\ other.inbox = p.inbox /\ other.staged = {}
      /\ other.file = p.file
  <2>1. /\ other.inbox = done.inbox /\ other.staged = {}
        /\ other.file = done.file /\ other.incarnation = done.incarnation
        /\ other.cursor = done.cursor /\ other.snapshotEnd = done.snapshotEnd
        /\ other.fileGeneration = done.fileGeneration /\ other.discard = done.discard
    BY <1>2 DEF Pdc
  <2> HIDE DEF other
  <2> QED BY <1>3, <2>1 DEF Advances
<1> HIDE DEF other, own
<1>7. Advances(p, r) /\ r.inbox = p.inbox
  <2>1. p.cursor \in Nat
    BY DEF Pdc
  <2>2. SameButReplay(other, r)
    BY <1>5, <1>6, <2>1, Remembered
  <2> HIDE DEF r
  <2> QED BY <1>6, <2>2 DEF Advances, SameButReplay, SameStamps
<1> QED BY <1>1, <1>4, <1>7

\* Observing a current range keeps the ledger.
LEMMA RangeLedger ==
    ASSUME NEW p, MonitorInv(p), Ledger(p), ~p.committing, p.pendingRequestId = 0,
           p.file # 0,
           NEW fact \in FactType, IsFiniteSet(fact.records), RangeInv(p, fact),
           fact.request.file = p.file, fact.request.begin = p.cursor,
           fact.request.discard = p.discard, logs \in Seq(LogFile)
    PROVE  LET q == ObserveRange(p, fact)
           IN  Ledger(q) /\ q.inbox = p.inbox
<1> DEFINE q == ObserveRange(p, fact)
<1>1. /\ p \in Pdc /\ fact.next \in Nat /\ p.cursor \in Nat /\ p.snapshotEnd \in Nat
  BY DEF MonitorInv, Pdc, FactType
<1>2. CASE fact.next < p.cursor \/ fact.next > p.snapshotEnd
  <2> DEFINE w == [p EXCEPT !.recoveryRequired = TRUE, !.readingSnapshot = FALSE,
                            !.available = FALSE, !.due = FALSE]
  <2>1. q = w
    BY <1>2 DEF ObserveRange
  <2>2. Advances(p, w) /\ w.inbox = p.inbox
    BY <1>1 DEF Advances, Pdc
  <2> HIDE DEF w
  <2> QED BY <2>1, <2>2, AdvancesLedger
<1>3. CASE ~(fact.next < p.cursor \/ fact.next > p.snapshotEnd)
  <2> DEFINE next == fact.next
             discard == fact.discard
             m == [p EXCEPT !.cursor = next, !.discard = discard]
             read == ObserveLogRecords(m, fact.records)
             more == MoreToRead(fact)
             w == [read EXCEPT !.due = FALSE, !.readingSnapshot = more]
  <2>1. q = IF fact.reachedEnd THEN FinishSnapshot(read, fact) ELSE w
    BY <1>3 DEF ObserveRange
  <2>2. Ledger(read) /\ read.inbox = p.inbox
    <3>1. fact.next >= p.cursor /\ fact.next <= p.snapshotEnd
      BY <1>1, <1>3
    <3>2. \A z : z = read => Ledger(z) /\ z.inbox = p.inbox
      BY <3>1, RecordsLedger, Zenon
    <3> QED BY <3>2
  <2>3. next \in Nat /\ discard \in BOOLEAN /\ fact.records \in SUBSET Record
        /\ more \in BOOLEAN
    BY DEF FactType, MoreToRead
  <2> HIDE DEF next, discard, more
  <2>4. m \in Pdc
    BY <1>1, <2>3, ZenonT(60) DEF Pdc
  <2>5. /\ m.file = p.file /\ m.suspended = p.suspended /\ m.bound = p.bound
        /\ m.incarnation = p.incarnation /\ m.replay = p.replay /\ m.inbox = p.inbox
        /\ m.batches = p.batches /\ m.staged = p.staged
        /\ m.committing = p.committing /\ m.readingSnapshot = p.readingSnapshot
        /\ m.pendingRequestId = p.pendingRequestId
    BY <1>1 DEF Pdc
  <2> HIDE DEF m
  <2>6. MonitorInv(m)
    <3>1. Quiet(p, m)
      BY <2>4, <2>5 DEF Quiet
    <3> QED BY <3>1, QuietStep
  <2>7. MonitorInv(read) /\ SameStamps(m, read)
    BY <2>3, <2>5, <2>6, RecordsObserved
  <2> HIDE DEF read
  <2>8. read \in Pdc /\ read.file # 0
    BY <2>5, <2>7 DEF MonitorInv, SameStamps
  <2>9. CASE fact.reachedEnd
    <3>1. q = FinishSnapshot(read, fact)
      BY <2>1, <2>9
    <3>2. Advances(read, q) /\ q.inbox = read.inbox
      BY <2>8, <3>1, FinishAdvances
    <3> QED BY <2>2, <2>7, <3>2, AdvancesLedger
  <2>10. CASE ~fact.reachedEnd
    <3>1. Advances(read, w) /\ w.inbox = read.inbox
      <4>1. /\ w.inbox = read.inbox /\ w.staged = read.staged /\ w.bound = read.bound
            /\ w.file = read.file /\ w.incarnation = read.incarnation
            /\ w.cursor = read.cursor /\ w.snapshotEnd = read.snapshotEnd
            /\ w.fileGeneration = read.fileGeneration /\ w.discard = read.discard
        BY <2>8 DEF Pdc
      <4> HIDE DEF w
      <4> QED BY <4>1 DEF Advances
    <3> HIDE DEF w
    <3>2. Ledger(w) /\ w.inbox = p.inbox
      BY <2>2, <2>7, <3>1, AdvancesLedger
    <3> QED BY <2>1, <2>10, <3>2
  <2> QED BY <2>9, <2>10
<1> QED BY <1>2, <1>3

\* Taking an answer keeps the ledger and admits nothing.
LEMMA FactLedger ==
    ASSUME NEW p, MonitorInv(p), Ledger(p), NEW ready,
           NEW fact \in FactType, IsFiniteSet(fact.records),
           RequestInv(p, fact.request), DiscardInv(p, fact.request),
           fact.file # 0 => fact.file >= p.file, fact.file <= Len(logs),
           DiscoveryInv(p, fact), RangeInv(p, fact), logs \in Seq(LogFile)
    PROVE  LET q == ObserveFact(p, ready, fact)
           IN  Ledger(q) /\ q.inbox = p.inbox
<1> DEFINE q == ObserveFact(p, ready, fact)
           request == fact.request
           id == IF request.id = p.pendingRequestId THEN 0 ELSE p.pendingRequestId
           dropped == [p EXCEPT !.pendingRequestId = id]
           answered == [p EXCEPT !.pendingRequestId = 0]
           failed == [answered EXCEPT !.recoveryRequired = TRUE,
                        !.readingSnapshot = FALSE, !.committing = FALSE,
                        !.staged = {}, !.available = FALSE, !.due = FALSE]
<1>1. p \in Pdc /\ p.pendingRequestId \in Nat
  BY DEF MonitorInv, Pdc
<1>2. CASE StaleFact(p, ready, fact)
  <2>1. q = dropped
    BY <1>2 DEF ObserveFact
  <2> HIDE DEF id
  <2>2. Advances(p, dropped) /\ dropped.inbox = p.inbox
    BY <1>1 DEF Advances, Pdc
  <2> HIDE DEF dropped
  <2> QED BY <2>1, <2>2, AdvancesLedger
<1>3. CASE ~StaleFact(p, ready, fact)
  <2>1. Current(p, request) /\ request.id # 0 /\ p.pendingRequestId # 0
    BY <1>3 DEF StaleFact, Current, RequestInv
  <2>2. ~p.committing /\ ~p.suspended
    BY <2>1 DEF MonitorInv, PhaseInv
  <2>3. answered \in Pdc
    BY <1>1, ZenonT(60) DEF Pdc
  <2>4. /\ answered.pendingRequestId = 0 /\ answered.file = p.file
        /\ answered.suspended = p.suspended /\ answered.bound = p.bound
        /\ answered.incarnation = p.incarnation /\ answered.replay = p.replay
        /\ answered.inbox = p.inbox /\ answered.batches = p.batches
        /\ answered.staged = p.staged /\ answered.committing = p.committing
        /\ answered.readingSnapshot = p.readingSnapshot
        /\ answered.cursor = p.cursor /\ answered.snapshotEnd = p.snapshotEnd
        /\ answered.fileGeneration = p.fileGeneration /\ answered.discard = p.discard
    BY <1>1 DEF Pdc
  <2> HIDE DEF answered
  <2>5. MonitorInv(answered)
    <3>1. Quiet(p, answered)
      BY <2>2, <2>3, <2>4 DEF Quiet, MonitorInv, PhaseInv
    <3> QED BY <3>1, QuietStep
  <2>6. Ledger(answered) /\ DiscoveryInv(answered, fact) /\ RangeInv(answered, fact)
    <3>1. Advances(p, answered)
      BY <2>4 DEF Advances
    <3> QED BY <3>1, AdvancesLedger DEF FactsHold
  <2>7. CASE fact.failed
    <3>1. q = failed
      BY <1>3, <2>7 DEF ObserveFact, answered
    <3>2. /\ failed.inbox = answered.inbox /\ failed.staged = {}
          /\ failed.file = answered.file /\ failed.incarnation = answered.incarnation
          /\ failed.cursor = answered.cursor
          /\ failed.snapshotEnd = answered.snapshotEnd
          /\ failed.fileGeneration = answered.fileGeneration
          /\ failed.discard = answered.discard
      BY <2>3 DEF Pdc
    <3> HIDE DEF failed
    <3>3. Advances(answered, failed)
      BY <3>2 DEF Advances
    <3> QED BY <2>4, <2>5, <2>6, <3>1, <3>2, <3>3, AdvancesLedger
  <2>8. CASE ~fact.failed /\ request.operation = "Discover"
    <3>1. q = ObserveDiscovery(answered, fact)
      BY <1>3, <2>8 DEF ObserveFact, answered
    <3> QED BY <2>4, <2>5, <2>6, <3>1, DiscoveryLedger
  <2>9. CASE ~fact.failed /\ request.operation # "Discover"
    <3>1. q = ObserveRange(answered, fact)
      BY <1>3, <2>9 DEF ObserveFact, answered
    <3>2. request.operation = "ReadRange"
      BY <2>9 DEF RequestInv, Request
    <3>3. /\ request.file = p.file /\ request.begin = p.cursor
          /\ request.discard = p.discard /\ p.file # 0
      BY <2>1, <3>2 DEF RequestInv, DiscardInv, MonitorInv, PhaseInv
    <3> QED BY <2>2, <2>4, <2>5, <2>6, <3>1, <3>3, RangeLedger
  <2> QED BY <2>7, <2>8, <2>9
<1> QED BY <1>2, <1>3

\* Committing admits staged records only, and reads nothing.
LEMMA CommitAdvances ==
    ASSUME NEW p, MonitorInv(p), p.committing
    PROVE  Advances(p, CommitStagedMessages(p))
<1> DEFINE count == Cardinality(p.staged)
           stop  == IF p.commitIndex + CommitBatch < count
                    THEN p.commitIndex + CommitBatch ELSE count
           batch == {r \in p.staged : Rank(p, r) > p.commitIndex /\ Rank(p, r) <= stop}
           index == IF stop > p.commitIndex THEN stop ELSE p.commitIndex
           admitted == AdmitBatch(p, batch)
           moved == [admitted EXCEPT !.commitIndex = index]
           done  == [moved EXCEPT !.staged = {}, !.commitIndex = 0,
                                  !.committing = FALSE, !.due = FALSE]
           q     == CommitStagedMessages(p)
<1>1. /\ p \in Pdc /\ p.commitIndex \in Nat /\ count \in Nat /\ CommitBatch \in Nat
      /\ p.file # 0 /\ p.cursor \in Nat /\ IsFiniteSet(p.staged)
  BY FS_CardinalityType, ConstantsAssumption DEF MonitorInv, StageInv, PhaseInv, Pdc
<1>2. stop \in Nat /\ index \in Nat
  BY <1>1
<1>3. q = IF index # count THEN moved ELSE RememberReplayHighWater(done, p.cursor)
  BY DEF CommitStagedMessages
<1>4. batch \in SUBSET p.staged
  OBVIOUS
<1> HIDE DEF count, stop, batch, index
<1>5. admitted \in Pdc /\ Advances(p, admitted) /\ admitted.staged = p.staged
      /\ admitted.bound = p.bound
  <2>1. CASE batch = {}
    BY <1>1, <2>1 DEF AdmitBatch, Advances
  <2>2. CASE batch # {}
    <3> DEFINE last == CHOOSE r \in batch : \A z \in batch : z.end <= r.end
               a == Admit(p, batch)
               m == RememberReplayHighWater(a, last.end)
    <3>1. admitted = m
      BY <2>2 DEF AdmitBatch
    <3>2. IsFiniteSet(batch) /\ \A r \in batch : r.end \in Nat
      BY <1>1, <1>4, FS_Subset DEF Pdc, Record
    <3>3. last.end \in Nat
      <4>1. last \in batch
        BY <2>2, <3>2, LastRecord
      <4> QED BY <3>2, <4>1
    <3> HIDE DEF last
    <3>4. /\ a \in Pdc /\ SameStamps(p, a)
          /\ a.incarnation = p.incarnation
          /\ a.inbox = p.inbox \cup
                {[id |-> r.id, file |-> p.file, incarnation |-> p.incarnation,
                  end |-> r.end, batch |-> p.batches + 1] : r \in batch}
          /\ a.staged = p.staged
          /\ a.cursor = p.cursor /\ a.snapshotEnd = p.snapshotEnd
          /\ a.fileGeneration = p.fileGeneration /\ a.discard = p.discard
      BY <1>1, <1>4, Admitted
    <3> HIDE DEF a
    <3>5. m \in Pdc /\ SameButReplay(a, m)
      BY <1>1, <3>3, <3>4, Remembered DEF SameStamps
    <3> HIDE DEF m
    <3>6. \A e \in m.inbox : e \in p.inbox \/ \E r \in p.staged : e = EntryOf(p, r)
      BY <1>4, <3>4, <3>5 DEF SameButReplay, EntryOf
    <3>7. Advances(p, m) /\ m.staged = p.staged /\ m.bound = p.bound
      BY <3>4, <3>5, <3>6 DEF Advances, SameButReplay, SameStamps
    <3> HIDE DEF admitted
    <3> QED BY <3>1, <3>5, <3>7
  <2> QED BY <2>1, <2>2
<1> HIDE DEF admitted
<1>6. moved \in Pdc
  BY <1>2, <1>5, ZenonT(60) DEF Pdc
<1>7. Advances(p, moved) /\ moved.staged = p.staged /\ moved.bound = p.bound
  <2>1. /\ moved.inbox = admitted.inbox /\ moved.staged = admitted.staged
        /\ moved.bound = admitted.bound
        /\ moved.file = admitted.file /\ moved.incarnation = admitted.incarnation
        /\ moved.cursor = admitted.cursor /\ moved.snapshotEnd = admitted.snapshotEnd
        /\ moved.fileGeneration = admitted.fileGeneration
        /\ moved.discard = admitted.discard
    BY <1>5 DEF Pdc
  <2> HIDE DEF moved
  <2> QED BY <1>5, <2>1 DEF Advances
<1> HIDE DEF moved
<1>8. done \in Pdc
  BY <1>6, ZenonT(60) DEF Pdc
<1>9. Advances(p, done) /\ done.staged = {} /\ done.file = p.file
  <2>1. /\ done.inbox = moved.inbox /\ done.staged = {}
        /\ done.file = moved.file /\ done.incarnation = moved.incarnation
        /\ done.cursor = moved.cursor /\ done.snapshotEnd = moved.snapshotEnd
        /\ done.fileGeneration = moved.fileGeneration
        /\ done.discard = moved.discard
    BY <1>6 DEF Pdc
  <2> HIDE DEF done
  <2> QED BY <1>7, <2>1 DEF Advances
<1> HIDE DEF done
<1>10. Advances(p, RememberReplayHighWater(done, p.cursor))
  <2> DEFINE r == RememberReplayHighWater(done, p.cursor)
  <2>1. SameButReplay(done, r)
    BY <1>1, <1>8, <1>9, Remembered
  <2> HIDE DEF r
  <2>2. Advances(p, r)
    BY <1>9, <2>1 DEF Advances, SameButReplay, SameStamps
  <2> QED BY <2>2 DEF r
<1> QED BY <1>3, <1>7, <1>10

-----------------------------------------------------------------------------
(* xPilot's logs only grow, or begin another life *)

\* What a step of xPilot does to every log: it appends to it, leaves it, or
\* begins a new life of it.
Grown ==
    \A f \in DOMAIN logs :
       /\ f \in DOMAIN logs' /\ logs'[f].generation >= logs[f].generation
       /\ logs'[f].generation = logs[f].generation =>
             /\ SizeOf(logs'[f]) >= SizeOf(logs[f])
             /\ Len(logs'[f].lines) >= Len(logs[f].lines)
             /\ \A k \in 1 .. Len(logs[f].lines) : logs'[f].lines[k] = logs[f].lines[k]

\* The parts of a log file have their types.
LEMMA FileType ==
    ASSUME logs \in Seq(LogFile), NEW f \in DOMAIN logs
    PROVE  /\ logs[f] \in LogFile /\ logs[f].lines \in Seq(Line)
           /\ Len(logs[f].lines) \in Nat /\ logs[f].generation \in Nat
           /\ SizeOf(logs[f]) \in Nat /\ f \in Nat
<1>1. logs[f] \in LogFile /\ f \in Nat
  OBVIOUS
<1>2. logs[f].lines \in Seq(Line) /\ logs[f].generation \in Nat
  BY <1>1 DEF LogFile
<1> QED BY <1>1, <1>2, SizeType

\* A record stays read from its file, and a line of a life that goes on stays
\* what it is.
LEMMA ReadFromGrown ==
    ASSUME logs \in Seq(LogFile), logs' \in Seq(LogFile), Grown,
           NEW r, r.id \in Nat \X Nat \X Nat, NEW f, ReadFrom(r, f)
    PROVE  /\ ReadFrom(r, f)'
           /\ r.id[2] = logs'[f].generation =>
                 logs'[f].generation = logs[f].generation
<1>1. /\ f \in DOMAIN logs /\ r.id[1] = f /\ r.end = 2 * r.id[3]
      /\ r.id[2] <= logs[f].generation
      /\ r.id[2] = logs[f].generation =>
            /\ r.id[3] \in 1 .. Len(logs[f].lines)
            /\ logs[f].lines[r.id[3]] = [kind |-> r.kind, callsign |-> r.callsign]
  BY DEF ReadFrom
<1>2. /\ f \in DOMAIN logs' /\ logs'[f].generation >= logs[f].generation
      /\ logs'[f].generation = logs[f].generation =>
            /\ Len(logs'[f].lines) >= Len(logs[f].lines)
            /\ \A k \in 1 .. Len(logs[f].lines) : logs'[f].lines[k] = logs[f].lines[k]
  BY <1>1 DEF Grown
<1>3. /\ logs[f].generation \in Nat /\ Len(logs[f].lines) \in Nat
      /\ r.id[2] \in Nat /\ r.id[3] \in Nat
  BY <1>1, FileType
<1>4. logs'[f].generation \in Nat /\ Len(logs'[f].lines) \in Nat
  <2>1. logs'[f] \in LogFile
    BY <1>2
  <2> QED BY <2>1, SizeType DEF LogFile
<1>5. r.id[2] <= logs'[f].generation
  BY <1>1, <1>2, <1>3, <1>4
<1>6. r.id[2] = logs'[f].generation => logs'[f].generation = logs[f].generation
  BY <1>1, <1>2, <1>3, <1>4
<1>7. ASSUME r.id[2] = logs'[f].generation
      PROVE  /\ r.id[3] \in 1 .. Len(logs'[f].lines)
             /\ logs'[f].lines[r.id[3]] = [kind |-> r.kind, callsign |-> r.callsign]
  <2>1. r.id[3] \in 1 .. Len(logs[f].lines) /\ logs'[f].lines[r.id[3]] = logs[f].lines[r.id[3]]
    BY <1>1, <1>2, <1>6, <1>7
  <2> QED BY <1>1, <1>2, <1>3, <1>4, <1>6, <1>7, <2>1
<1> QED BY <1>1, <1>2, <1>5, <1>6, <1>7 DEF ReadFrom

\* What xPilot writes keeps the ledger, and what the worker reported stays
\* true of the logs.
LEMMA GrownLedger ==
    ASSUME IInv, Ledger(pdc), Grown, logs' \in Seq(LogFile), UNCHANGED <<pdc, mailbox>>
    PROVE  /\ Ledger(pdc)'
           /\ mailbox.state = "Ready" /\ DiscoveryInv(pdc, mailbox.fact)
                 => DiscoveryInv(pdc, mailbox.fact)'
           /\ mailbox.state = "Ready" /\ RangeInv(pdc, mailbox.fact)
                 => RangeInv(pdc, mailbox.fact)'
<1>1. /\ logs \in Seq(LogFile) /\ pdc \in Pdc /\ pdc.file \in Nat
      /\ pdc.file <= Len(logs) /\ Len(logs) \in Nat
      /\ pdc.cursor \in Nat /\ pdc.snapshotEnd \in Nat
      /\ \A r \in pdc.staged : r.id \in Nat \X Nat \X Nat
      /\ pdc' = pdc /\ mailbox' = mailbox
  <2>1. logs \in Seq(LogFile) /\ pdc \in Pdc /\ pdc.file <= Len(logs)
    BY DEF IInv, TypeOK
  <2>2. Len(logs) \in Nat
    BY <2>1
  <2>3. pdc.file \in Nat /\ pdc.cursor \in Nat /\ pdc.snapshotEnd \in Nat
        /\ pdc.staged \in SUBSET Record
    BY <2>1 DEF Pdc
  <2>4. \A r \in pdc.staged : r.id \in Nat \X Nat \X Nat
    BY <2>3 DEF Record
  <2> QED BY <2>1, <2>2, <2>3, <2>4
<1>2. StagedInSession(pdc)'
  <2>0. PICK f : f = pdc.file
    OBVIOUS
  <2> SUFFICES ASSUME NEW r \in pdc.staged
               PROVE  /\ ReadFrom(r, f)' /\ r.kind = "direct"
                      /\ r.callsign = pdc.bound.callsign /\ ~pdc.discard
                      /\ r.id[2] = logs'[f].generation =>
                           /\ pdc.cursor <= 2 * Len(logs'[f].lines)
                           /\ \A k \in r.id[3] + 1 .. pdc.cursor \div 2 :
                                ~OwnLine(logs'[f].lines[k], pdc.bound.callsign)
    BY <1>1, <2>0 DEF StagedInSession, ReadFrom
  <2>1. /\ ReadFrom(r, f) /\ r.kind = "direct" /\ r.callsign = pdc.bound.callsign
        /\ ~pdc.discard
        /\ r.id[2] = logs[f].generation =>
             /\ pdc.cursor <= 2 * Len(logs[f].lines)
             /\ \A k \in r.id[3] + 1 .. pdc.cursor \div 2 :
                   ~OwnLine(logs[f].lines[k], pdc.bound.callsign)
    BY <2>0 DEF Ledger, StagedInSession
  <2>2. /\ ReadFrom(r, f)'
        /\ r.id[2] = logs'[f].generation => logs'[f].generation = logs[f].generation
    BY <1>1, <2>1, ReadFromGrown
  <2>3. ASSUME r.id[2] = logs'[f].generation
        PROVE  /\ pdc.cursor <= 2 * Len(logs'[f].lines)
               /\ \A k \in r.id[3] + 1 .. pdc.cursor \div 2 :
                    ~OwnLine(logs'[f].lines[k], pdc.bound.callsign)
    <3>1. /\ f \in DOMAIN logs /\ logs'[f].generation = logs[f].generation
          /\ r.id[3] \in Nat
      BY <1>1, <2>1, <2>2, <2>3 DEF ReadFrom
    <3>2. /\ Len(logs'[f].lines) >= Len(logs[f].lines)
          /\ \A k \in 1 .. Len(logs[f].lines) : logs'[f].lines[k] = logs[f].lines[k]
      BY <3>1 DEF Grown
    <3>3. Len(logs[f].lines) \in Nat /\ Len(logs'[f].lines) \in Nat
      <4>1. logs'[f] \in LogFile /\ logs[f] \in LogFile
        BY <1>1, <3>1 DEF Grown
      <4> QED BY <4>1, SizeType
    <3>4. /\ pdc.cursor <= 2 * Len(logs[f].lines)
          /\ \A k \in r.id[3] + 1 .. pdc.cursor \div 2 :
                   ~OwnLine(logs[f].lines[k], pdc.bound.callsign)
      BY <2>1, <2>3, <3>1
    <3>5. ASSUME NEW k \in r.id[3] + 1 .. pdc.cursor \div 2
          PROVE  ~OwnLine(logs'[f].lines[k], pdc.bound.callsign)
      <4>1. k \in 1 .. Len(logs[f].lines)
        <5> DEFINE h == pdc.cursor \div 2
                   n == Len(logs[f].lines)
        <5>1. n \in Nat /\ pdc.cursor <= 2 * n
          BY <3>3, <3>4
        <5> HIDE DEF n
        <5>2. h \in Nat /\ h <= n
          BY <1>1, <5>1
        <5> HIDE DEF h
        <5>3. k \in r.id[3] + 1 .. h
          BY DEF h
        <5>4. k \in 1 .. n
          BY <3>1, <5>1, <5>2, <5>3
        <5> QED BY <5>4 DEF n
      <4>2. logs'[f].lines[k] = logs[f].lines[k]
        BY <3>2, <4>1
      <4> QED BY <3>4, <4>2
    <3>6. pdc.cursor <= 2 * Len(logs'[f].lines)
      <4> DEFINE n == Len(logs[f].lines)
                 m == Len(logs'[f].lines)
                 c == pdc.cursor
      <4>1. n \in Nat /\ m \in Nat /\ m >= n /\ c <= 2 * n
        BY <3>2, <3>3, <3>4
      <4>2. c \in Nat
        BY <1>1
      <4> HIDE DEF n, m, c
      <4>3. c <= 2 * m
        BY <4>1, <4>2
      <4> QED BY <4>3 DEF m, c
    <3> QED BY <3>5, <3>6
  <2> QED BY <2>1, <2>2, <2>3
<1>3. InboxNamed(pdc)'
  BY <1>1 DEF Ledger, InboxNamed, SameLife
<1>4. FirstLife(pdc)'
  <2>0. PICK f : f = pdc.file
    OBVIOUS
  <2> SUFFICES ASSUME f \in DOMAIN logs', logs'[f].generation = 0
               PROVE  /\ pdc.cursor <= SizeOf(logs'[f])
                      /\ pdc.snapshotEnd <= SizeOf(logs'[f])
                      /\ pdc.fileGeneration = 0 /\ SameLife(pdc)
    BY <1>1, <2>0 DEF FirstLife, SameLife
  <2>1. f \in DOMAIN logs
    <3>1. f >= 1 /\ f \in Nat
      OBVIOUS
    <3> QED BY <1>1, <2>0, <3>1
  <2>2. logs[f].generation = 0 /\ SizeOf(logs'[f]) >= SizeOf(logs[f])
    <3>1. logs[f].generation \in Nat /\ logs'[f].generation >= logs[f].generation
      BY <1>1, <2>1, FileType DEF Grown
    <3>2. logs[f].generation = 0
      BY <3>1
    <3> QED BY <2>1, <3>2 DEF Grown
  <2>3. SizeOf(logs[f]) \in Nat /\ SizeOf(logs'[f]) \in Nat
    <3>1. logs'[f] \in LogFile
      OBVIOUS
    <3> QED BY <1>1, <2>1, <3>1, FileType, SizeType
  <2> QED BY <1>1, <2>0, <2>1, <2>2, <2>3 DEF Ledger, FirstLife
<1>5. ASSUME mailbox.state = "Ready", DiscoveryInv(pdc, mailbox.fact)
      PROVE  DiscoveryInv(pdc, mailbox.fact)'
  <2> DEFINE fact == mailbox.fact
             f == fact.file
  <2>1. f \in Nat /\ fact.size \in Nat /\ f <= Len(logs)
    BY <1>5 DEF IInv, TypeOK, FactType, MailboxInv
  <2> SUFFICES ASSUME f # 0, logs'[f].generation = 0
               PROVE  /\ fact.generation = 0 /\ fact.size <= SizeOf(logs'[f])
                      /\ f = pdc.file => pdc.cursor <= fact.size
    BY <1>1 DEF DiscoveryInv
  <2> HIDE DEF f
  <2>2. f \in DOMAIN logs
    BY <1>1, <2>1
  <2>3. logs[f].generation = 0 /\ SizeOf(logs'[f]) >= SizeOf(logs[f])
    <3>1. logs[f].generation \in Nat /\ logs'[f].generation >= logs[f].generation
      BY <1>1, <2>2, FileType DEF Grown
    <3>2. logs[f].generation = 0
      BY <3>1
    <3> QED BY <2>2, <3>2 DEF Grown
  <2>4. SizeOf(logs[f]) \in Nat /\ SizeOf(logs'[f]) \in Nat
    <3>1. logs'[f] \in LogFile
      BY <2>2 DEF Grown
    <3> QED BY <1>1, <2>2, <3>1, FileType, SizeType
  <2> QED BY <1>5, <2>1, <2>3, <2>4 DEF DiscoveryInv, f
<1>6. ASSUME mailbox.state = "Ready", RangeInv(pdc, mailbox.fact)
      PROVE  RangeInv(pdc, mailbox.fact)'
  <2>1. PICK fact : fact = mailbox.fact
    OBVIOUS
  <2>2. /\ RangeInv(pdc, fact) /\ \A q \in fact.records : q.id \in Nat \X Nat \X Nat
        /\ fact.next \in Nat
    BY <1>6, <2>1 DEF IInv, TypeOK, FactType, Record
  <2>3. ASSUME NEW q \in fact.records
        PROVE  /\ ReadFrom(q, fact.request.file)'
               /\ q.id[2] = logs'[q.id[1]].generation =>
                     fact.next <= 2 * Len(logs'[q.id[1]].lines)
    <3>1. PICK f : f = q.id[1]
      OBVIOUS
    <3>2. ReadFrom(q, f) /\ f = fact.request.file
          /\ (q.id[2] = logs[f].generation => fact.next <= 2 * Len(logs[f].lines))
      BY <2>2, <3>1 DEF RangeInv, ReadFrom
    <3>3. /\ ReadFrom(q, f)'
          /\ q.id[2] = logs'[f].generation => logs'[f].generation = logs[f].generation
      BY <1>1, <2>2, <3>2, ReadFromGrown
    <3>4. ASSUME q.id[2] = logs'[f].generation
          PROVE  fact.next <= 2 * Len(logs'[f].lines)
      <4>1. f \in DOMAIN logs /\ logs'[f].generation = logs[f].generation
        BY <3>2, <3>3, <3>4 DEF ReadFrom
      <4>2. Len(logs'[f].lines) >= Len(logs[f].lines)
        BY <4>1 DEF Grown
      <4>3. Len(logs[f].lines) \in Nat /\ Len(logs'[f].lines) \in Nat
        <5>1. logs'[f] \in LogFile /\ logs[f] \in LogFile
          BY <1>1, <4>1 DEF Grown
        <5> QED BY <5>1, SizeType
      <4>4. fact.next <= 2 * Len(logs[f].lines)
        BY <3>2, <3>4, <4>1
      <4> QED BY <2>2, <4>2, <4>3, <4>4
    <3> QED BY <3>1, <3>2, <3>3, <3>4
  <2>4. \A q \in fact.records :
           /\ \A z \in fact.records : z.id[2] = q.id[2]
           /\ q.id[1] = pdc.file /\ q.id[2] = 0 => SameLife(pdc)
           /\ q.id[1] = pdc.file => \A r \in pdc.staged : r.id[2] <= q.id[2]
           /\ \A k \in q.id[3] .. fact.next \div 2 : Reported(fact, k)
    BY <2>2 DEF RangeInv
  <2>5. SameLife(pdc)' <=> SameLife(pdc)
    BY <1>1 DEF SameLife
  <2>6. RangeInv(pdc, fact)'
    BY <1>1, <2>2, <2>3, <2>4, <2>5 DEF RangeInv, Reported
  <2> QED BY <1>1, <2>1, <2>6 DEF RangeInv, Reported, ReadFrom
<1> QED BY <1>2, <1>3, <1>4, <1>5, <1>6 DEF Ledger

\* An open session is not closed by what is logged after its last line.
LEMMA SessionKept ==
    ASSUME NEW lines \in Seq(Line), NEW line \in Line, NEW callsign,
           NEW i \in Nat, NEW last \in Nat, i <= Len(lines) + 1, last <= Len(lines),
           OpenSession(lines, callsign, i, last)
    PROVE  OpenSession(Append(lines, line), callsign, i, last)
<1> DEFINE more == Append(lines, line)
<1>1. Len(lines) \in Nat /\ \A k \in 1 .. Len(lines) : more[k] = lines[k]
  OBVIOUS
<1> HIDE DEF more
<1>2. PICK j \in 1 .. i - 1 :
         /\ lines[j] = [kind |-> "open", callsign |-> callsign]
         /\ \A k \in j + 1 .. last :
              lines[k].callsign = callsign => lines[k].kind \notin {"open", "close"}
  BY DEF OpenSession
<1>3. more[j] = lines[j] /\ \A k \in j + 1 .. last : more[k] = lines[k]
  BY <1>1
<1>4. \A k \in j + 1 .. last :
              more[k].callsign = callsign => more[k].kind \notin {"open", "close"}
  BY <1>2, <1>3
<1> QED BY <1>2, <1>3, <1>4 DEF OpenSession, more

\* A session goes on behind a line that is no login or logout of its callsign.
LEMMA SessionGoesOn ==
    ASSUME NEW lines \in Seq(Line), NEW line \in Line, NEW callsign,
           OpenSession(lines, callsign, Len(lines) + 1, Len(lines)),
           line.callsign = callsign => line.kind \notin {"open", "close"}
    PROVE  /\ OpenSession(Append(lines, line), callsign, Len(lines) + 1, Len(lines) + 1)
           /\ OpenSession(Append(lines, line), callsign, Len(lines) + 2, Len(lines) + 1)
<1> DEFINE more == Append(lines, line)
           n == Len(lines)
<1>1. n \in Nat /\ (\A k \in 1 .. n : more[k] = lines[k]) /\ more[n + 1] = line
  OBVIOUS
<1>2. PICK j \in 1 .. n :
         /\ lines[j] = [kind |-> "open", callsign |-> callsign]
         /\ \A k \in j + 1 .. n :
              lines[k].callsign = callsign => lines[k].kind \notin {"open", "close"}
  <2>1. (n + 1) - 1 = n
    BY <1>1
  <2> QED BY <2>1 DEF OpenSession
<1> HIDE DEF more, n
<1>3. more[j] = [kind |-> "open", callsign |-> callsign]
  BY <1>1, <1>2
<1>4. ASSUME NEW k \in j + 1 .. n + 1, more[k].callsign = callsign
      PROVE  more[k].kind \notin {"open", "close"}
  <2>1. CASE k = n + 1
    BY <1>1, <1>4, <2>1
  <2>2. CASE k # n + 1
    <3>1. k \in j + 1 .. n /\ k \in 1 .. n
      BY <1>1, <2>2
    <3> QED BY <1>1, <1>2, <1>4, <3>1
  <2> QED BY <2>1, <2>2
<1>5. j \in 1 .. (n + 1) - 1 /\ j \in 1 .. (n + 2) - 1
  BY <1>1
<1> QED BY <1>3, <1>4, <1>5 DEF OpenSession, more, n

\* A login opens a session.
LEMMA LoginOpens ==
    ASSUME NEW lines \in Seq(Line), NEW callsign \in Callsigns
    PROVE  OpenSession(Append(lines, [kind |-> "open", callsign |-> callsign]),
                       callsign, Len(lines) + 2, Len(lines) + 1)
<1> DEFINE line == [kind |-> "open", callsign |-> callsign]
           more == Append(lines, line)
           n == Len(lines)
<1>1. n \in Nat /\ more[n + 1] = line
  OBVIOUS
<1> HIDE DEF more, n
<1>2. n + 1 \in 1 .. (n + 2) - 1 /\ (n + 1) + 1 .. n + 1 = {}
  BY <1>1
<1> QED BY <1>1, <1>2 DEF OpenSession, more, n

\* The newest log gets one line more, whole or finished: the logs grow, and
\* every direct message still lies in a session.
LEMMA LineLogged ==
    ASSUME IInv, LogsInv, logs # <<>>, NEW line \in Line, NEW file \in LogFile,
           file.lines = Append(logs[Newest].lines, line),
           file.generation = logs[Newest].generation,
           ~file.tail, logs' = [logs EXCEPT ![Newest] = file],
           line.kind = "direct" =>
              network.logged # NoCallsign /\ line.callsign = network.logged,
           \/ network'.logged = NoCallsign
           \/ /\ network'.logged = network.logged
              /\ line.callsign = network.logged => line.kind \notin {"open", "close"}
           \/ network'.logged \in Callsigns
              /\ line = [kind |-> "open", callsign |-> network'.logged]
    PROVE  Grown /\ LogsInv'
<1> DEFINE old == logs[Newest].lines
           n == Len(old)
<1>1. /\ logs \in Seq(LogFile) /\ old \in Seq(Line) /\ n \in Nat
      /\ Newest \in DOMAIN logs /\ Newest \in Nat /\ logs[Newest].generation \in Nat
  BY OutsideTypes, NewestType
<1>2. /\ DOMAIN logs' = DOMAIN logs /\ Newest' = Newest /\ logs' # <<>>
      /\ \A f \in DOMAIN logs : logs'[f] = IF f = Newest THEN file ELSE logs[f]
  <2>1. DOMAIN logs' = DOMAIN logs /\ Len(logs') = Len(logs) /\ logs' # <<>>
    BY <1>1
  <2> QED BY <1>1, <2>1 DEF Newest
<1>3. /\ Len(file.lines) = n + 1
      /\ \A k \in 1 .. n : file.lines[k] = old[k]
      /\ file.lines[n + 1] = line
  BY <1>1
<1>4. Grown
  <2>1. SizeOf(file) = 2 * (n + 1)
    BY <1>3 DEF SizeOf
  <2>2. SizeOf(logs[Newest]) \in Nat /\ SizeOf(logs[Newest]) <= 2 * n + 1
    <3>1. logs[Newest] \in LogFile
      BY <1>1
    <3> QED BY <3>1, SizeType
  <2>3. \A f \in DOMAIN logs : /\ logs[f].generation \in Nat /\ SizeOf(logs[f]) \in Nat
                               /\ Len(logs[f].lines) \in Nat
    BY <1>1, FileType
  <2> SUFFICES ASSUME NEW f \in DOMAIN logs
               PROVE  /\ f \in DOMAIN logs' /\ logs'[f].generation >= logs[f].generation
                      /\ SizeOf(logs'[f]) >= SizeOf(logs[f])
                      /\ Len(logs'[f].lines) >= Len(logs[f].lines)
                      /\ \A k \in 1 .. Len(logs[f].lines) :
                            logs'[f].lines[k] = logs[f].lines[k]
    BY DEF Grown
  <2>4. CASE f # Newest
    BY <1>2, <2>3, <2>4
  <2>5. CASE f = Newest
    <3>1. logs'[f] = file /\ f \in DOMAIN logs' /\ logs[f] = logs[Newest]
      BY <1>2, <2>5
    <3>2. SizeOf(file) >= SizeOf(logs[Newest]) /\ Len(file.lines) >= n
      BY <1>1, <1>3, <2>1, <2>2
    <3> QED BY <1>1, <1>3, <3>1, <3>2
  <2> QED BY <2>4, <2>5
<1>5. ASSUME NEW f \in DOMAIN logs', NEW i \in 1 .. Len(logs'[f].lines),
             logs'[f].lines[i].kind = "direct"
      PROVE  OpenSession(logs'[f].lines, logs'[f].lines[i].callsign, i, i)
  <2>1. CASE f # Newest
    BY <1>2, <1>5, <2>1 DEF LogsInv
  <2>2. CASE f = Newest
    <3>1. logs'[f].lines = Append(old, line) /\ logs'[f].lines = file.lines
      BY <1>2, <2>2
    <3>2. CASE i \in 1 .. n
      <4>1. file.lines[i] = old[i] /\ i \in Nat /\ i <= n + 1 /\ i <= n
        BY <1>1, <1>3, <3>2
      <4>2. OpenSession(old, old[i].callsign, i, i)
        BY <1>1, <1>5, <3>1, <3>2, <4>1 DEF LogsInv
      <4>3. OpenSession(Append(old, line), old[i].callsign, i, i)
        <5> HIDE DEF old
        <5> QED BY <1>1, <4>1, <4>2, SessionKept DEF n
      <4> QED BY <3>1, <4>1, <4>3
    <3>3. CASE i = n + 1
      <4>1. /\ line.kind = "direct" /\ network.logged # NoCallsign
            /\ line.callsign = network.logged
        BY <1>3, <1>5, <3>1, <3>3
      <4>2. OpenSession(old, network.logged, n + 1, n)
        BY <4>1 DEF LogsInv
      <4>3. OpenSession(Append(old, line), network.logged, n + 1, n + 1)
        <5> HIDE DEF old
        <5> QED BY <1>1, <4>1, <4>2, SessionGoesOn DEF n
      <4> QED BY <1>3, <3>1, <3>3, <4>1, <4>3
    <3> QED BY <1>1, <1>3, <3>1, <3>2, <3>3
  <2> QED BY <2>1, <2>2
<1>6. ASSUME network'.logged # NoCallsign
      PROVE  OpenSession(logs'[Newest].lines, network'.logged,
                         Len(logs'[Newest].lines) + 1, Len(logs'[Newest].lines))
  <2>1. /\ logs'[Newest].lines = Append(old, line) /\ Len(logs'[Newest].lines) = n + 1
        /\ (n + 1) + 1 = n + 2
    BY <1>1, <1>2, <1>3
  <2>2. OpenSession(Append(old, line), network'.logged, n + 2, n + 1)
    <3>1. CASE /\ network'.logged = network.logged
               /\ line.callsign = network.logged => line.kind \notin {"open", "close"}
      <4>1. OpenSession(old, network.logged, n + 1, n)
        BY <1>6, <3>1 DEF LogsInv
      <4> HIDE DEF old
      <4> QED BY <1>1, <3>1, <4>1, SessionGoesOn DEF n
    <3>2. CASE network'.logged \in Callsigns
               /\ line = [kind |-> "open", callsign |-> network'.logged]
      <4> HIDE DEF old
      <4> QED BY <1>1, <3>2, LoginOpens DEF n
    <3> QED BY <1>6, <3>1, <3>2
  <2> QED BY <2>1, <2>2
<1> QED BY <1>2, <1>4, <1>5, <1>6 DEF LogsInv

\* Logs that are left alone have grown by nothing.
LEMMA SameLogs ==
    ASSUME IInv, LogsInv, logs' = logs,
           network'.logged \in {network.logged, NoCallsign}
    PROVE  Grown /\ LogsInv'
<1>1. \A f \in DOMAIN logs : /\ logs[f].generation \in Nat /\ SizeOf(logs[f]) \in Nat
                             /\ Len(logs[f].lines) \in Nat
  BY OutsideTypes, FileType
<1>2. Grown
  BY <1>1 DEF Grown
<1>3. LogsInv'
  BY DEF LogsInv, Newest
<1> QED BY <1>2, <1>3

\* A starting xPilot begins a log, or another life of the newest one.
LEMMA StartLedger ==
    ASSUME IInv, LogsInv, NEW newFile \in BOOLEAN, StartXPilot(newFile)
    PROVE  Grown /\ LogsInv'
<1>1. /\ logs \in Seq(LogFile) /\ Len(logs) \in Nat /\ network'.logged = NoCallsign
      /\ \A f \in DOMAIN logs : /\ logs[f].generation \in Nat
                                /\ SizeOf(logs[f]) \in Nat /\ Len(logs[f].lines) \in Nat
  <2>1. logs \in Seq(LogFile) /\ Len(logs) \in Nat
    BY OutsideTypes
  <2>2. network'.logged = NoCallsign
    BY DEF StartXPilot, Offline
  <2> QED BY <2>1, <2>2, FileType
<1>2. CASE newFile
  <2>1. logs' = Append(logs, NewFile)
    BY <1>2 DEF StartXPilot
  <2>2. NewFile \in LogFile /\ NewFile.lines = <<>>
    BY DEF NewFile, LogFile
  <2>3. /\ DOMAIN logs' = 1 .. Len(logs) + 1
        /\ \A f \in DOMAIN logs : f \in DOMAIN logs' /\ logs'[f] = logs[f]
        /\ logs'[Len(logs) + 1] = NewFile
    <3> HIDE DEF NewFile
    <3> QED BY <1>1, <2>1, <2>2
  <2>4. Grown
    BY <1>1, <2>3 DEF Grown
  <2>5. ASSUME NEW f \in DOMAIN logs', NEW i \in 1 .. Len(logs'[f].lines),
               logs'[f].lines[i].kind = "direct"
        PROVE  OpenSession(logs'[f].lines, logs'[f].lines[i].callsign, i, i)
    <3>1. CASE f \in DOMAIN logs
      BY <2>3, <2>5, <3>1 DEF LogsInv
    <3>2. CASE f \notin DOMAIN logs
      <4>1. f = Len(logs) + 1
        BY <1>1, <2>3, <3>2
      <4>2. logs'[f].lines = <<>>
        BY <2>2, <2>3, <4>1
      <4>3. Len(logs'[f].lines) = 0
        BY <4>2
      <4> QED BY <4>3
    <3> QED BY <3>1, <3>2
  <2> QED BY <1>1, <2>4, <2>5 DEF LogsInv
<1>3. CASE ~newFile
  <2> DEFINE g == logs[Newest].generation + 1
             file == [NewFile EXCEPT !.generation = g]
  <2>1. logs # <<>> /\ logs' = [logs EXCEPT ![Newest] = file]
    BY <1>3 DEF StartXPilot
  <2>2. Newest \in DOMAIN logs /\ logs[Newest].generation \in Nat
    BY <1>1, <2>1, NewestType
  <2>3. file.lines = <<>> /\ file.generation = g
    BY DEF NewFile
  <2>4. g \in Nat /\ g > logs[Newest].generation
    BY <2>2
  <2> HIDE DEF file, g
  <2>5. /\ DOMAIN logs' = DOMAIN logs
        /\ \A f \in DOMAIN logs : logs'[f] = IF f = Newest THEN file ELSE logs[f]
    BY <1>1, <2>1, <2>2
  <2>6. Grown
    <3> SUFFICES ASSUME NEW f \in DOMAIN logs
                 PROVE  /\ f \in DOMAIN logs' /\ logs'[f].generation >= logs[f].generation
                        /\ logs'[f].generation = logs[f].generation =>
                              /\ SizeOf(logs'[f]) >= SizeOf(logs[f])
                              /\ Len(logs'[f].lines) >= Len(logs[f].lines)
                              /\ \A k \in 1 .. Len(logs[f].lines) :
                                    logs'[f].lines[k] = logs[f].lines[k]
      BY DEF Grown
    <3>1. CASE f = Newest
      BY <2>2, <2>3, <2>4, <2>5, <3>1
    <3>2. CASE f # Newest
      BY <1>1, <2>5, <3>2
    <3> QED BY <3>1, <3>2
  <2>7. ASSUME NEW f \in DOMAIN logs', NEW i \in 1 .. Len(logs'[f].lines),
               logs'[f].lines[i].kind = "direct"
        PROVE  OpenSession(logs'[f].lines, logs'[f].lines[i].callsign, i, i)
    <3>1. CASE f = Newest
      <4>1. logs'[f].lines = <<>>
        BY <2>3, <2>5, <3>1
      <4>2. Len(logs'[f].lines) = 0
        BY <4>1
      <4> QED BY <4>2
    <3>2. CASE f # Newest
      BY <2>5, <2>7, <3>2 DEF LogsInv
    <3> QED BY <3>1, <3>2
  <2> QED BY <1>1, <2>6, <2>7 DEF LogsInv
<1> QED BY <1>2, <1>3

\* A line appended to the newest log.
LEMMA Append1Ledger ==
    ASSUME IInv, LogsInv, CanWrite, NEW line \in Line, logs' = Append1(line),
           line.kind = "direct" =>
              network.logged # NoCallsign /\ line.callsign = network.logged,
           \/ network'.logged = NoCallsign
           \/ /\ network'.logged = network.logged
              /\ line.callsign = network.logged => line.kind \notin {"open", "close"}
           \/ network'.logged \in Callsigns
              /\ line = [kind |-> "open", callsign |-> network'.logged]
    PROVE  Grown /\ LogsInv'
<1> DEFINE old == logs[Newest]
           lines == Append(old.lines, line)
           file == [old EXCEPT !.lines = lines]
<1>1. logs # <<>> /\ ~old.tail
  BY DEF CanWrite
<1>2. old \in LogFile /\ old.lines \in Seq(Line) /\ Newest \in DOMAIN logs
  BY <1>1, OutsideTypes, NewestType
<1>3. lines \in Seq(Line)
  BY <1>2
<1>4. logs' = [logs EXCEPT ![Newest] = file]
  BY <1>2 DEF Append1
<1>5. /\ file \in LogFile /\ file.lines = lines /\ ~file.tail
      /\ file.generation = old.generation
  <2> HIDE DEF lines, old
  <2> QED BY <1>1, <1>2, <1>3 DEF LogFile
<1> HIDE DEF file
<1> QED BY <1>1, <1>4, <1>5, LineLogged

\* Every step of xPilot.
LEMMA XPilotLedger ==
    ASSUME IInv, LogsInv, XPilot PROVE Grown /\ LogsInv'
<1>0. network \in Network
  BY OutsideTypes
<1>1. ASSUME NEW newFile \in BOOLEAN, StartXPilot(newFile) PROVE Grown /\ LogsInv'
  BY <1>1, StartLedger
<1>2. ASSUME NEW callsign \in Callsigns, Connect(callsign) PROVE Grown /\ LogsInv'
  <2>1. logs' = logs /\ network'.logged = network.logged
    BY <1>0, <1>2 DEF Connect, Network
  <2> QED BY <2>1, SameLogs
<1>3. CASE LogLogin
  <2> DEFINE line == [kind |-> "open", callsign |-> network.connected]
  <2>1. /\ line \in Line /\ CanWrite /\ logs' = Append1(line)
        /\ network'.logged = network.connected /\ network.connected \in Callsigns
    BY <1>0, <1>3 DEF LogLogin, Network, Line
  <2>2. line.kind # "direct"
    OBVIOUS
  <2> QED BY <2>1, <2>2, Append1Ledger
<1>4. CASE Disconnect
  <2>1. logs' = logs /\ network'.logged = network.logged
    BY <1>0, <1>4 DEF Disconnect, Network
  <2> QED BY <2>1, SameLogs
<1>5. CASE LogLogout
  <2> DEFINE line == [kind |-> "close", callsign |-> network.logged]
  <2>1. /\ line \in Line /\ CanWrite /\ logs' = Append1(line)
        /\ network'.logged = NoCallsign
    BY <1>0, <1>5 DEF LogLogout, Network, Line
  <2>2. line.kind # "direct"
    OBVIOUS
  <2> QED BY <2>1, <2>2, Append1Ledger
<1>6. ASSUME NEW kind \in TextKinds, LogText(kind) PROVE Grown /\ LogsInv'
  <2> DEFINE line == [kind |-> kind, callsign |-> network.logged]
  <2>1. kind \in {"direct", "other"}
    BY ConstantsAssumption
  <2>2. /\ line \in Line /\ CanWrite /\ logs' = Append1(line)
        /\ network' = network /\ network.logged # NoCallsign
    BY <1>0, <1>6, <2>1 DEF LogText, Network, Line
  <2>3. line.callsign = network.logged /\ line.kind \notin {"open", "close"}
    BY <2>1
  <2> HIDE DEF line
  <2> QED BY <2>2, <2>3, Append1Ledger
<1>7. CASE BeginDirectLine
  <2> DEFINE old == logs[Newest]
             file == [old EXCEPT !.tail = TRUE]
  <2>1. /\ logs # <<>> /\ ~old.tail /\ logs' = [logs EXCEPT ![Newest].tail = TRUE]
        /\ network' = network
    BY <1>7 DEF BeginDirectLine, CanWrite
  <2>2. old \in LogFile /\ Newest \in DOMAIN logs /\ logs \in Seq(LogFile)
    BY <2>1, OutsideTypes, NewestType
  <2>3. logs' = [logs EXCEPT ![Newest] = file]
    BY <2>1, <2>2
  <2>4. file.lines = old.lines /\ file.tail /\ file.generation = old.generation
    BY <2>2 DEF LogFile
  <2>5. SizeOf(old) \in Nat /\ SizeOf(file) = SizeOf(old) + 1
    <3>1. Len(old.lines) \in Nat
      BY <2>2, SizeType
    <3> QED BY <2>1, <2>4, <3>1 DEF SizeOf
  <2> HIDE DEF file
  <2>6. /\ DOMAIN logs' = DOMAIN logs /\ Newest' = Newest /\ logs' # <<>>
        /\ \A f \in DOMAIN logs : logs'[f] = IF f = Newest THEN file ELSE logs[f]
    <3>1. DOMAIN logs' = DOMAIN logs /\ Len(logs') = Len(logs) /\ logs' # <<>>
      BY <2>2, <2>3
    <3> QED BY <2>2, <2>3, <3>1 DEF Newest
  <2>7. \A f \in DOMAIN logs : /\ logs'[f].lines = logs[f].lines
                               /\ logs'[f].generation = logs[f].generation
                               /\ SizeOf(logs'[f]) >= SizeOf(logs[f])
                               /\ logs[f].generation \in Nat /\ Len(logs[f].lines) \in Nat
    <3> SUFFICES ASSUME NEW f \in DOMAIN logs
                 PROVE  /\ logs'[f].lines = logs[f].lines
                        /\ logs'[f].generation = logs[f].generation
                        /\ SizeOf(logs'[f]) >= SizeOf(logs[f])
                        /\ logs[f].generation \in Nat /\ Len(logs[f].lines) \in Nat
      OBVIOUS
    <3>1. /\ logs[f].generation \in Nat /\ SizeOf(logs[f]) \in Nat
          /\ Len(logs[f].lines) \in Nat
      BY <2>2, FileType
    <3>2. CASE f = Newest
      BY <2>4, <2>5, <2>6, <3>1, <3>2
    <3>3. CASE f # Newest
      BY <2>6, <3>1, <3>3
    <3> QED BY <3>2, <3>3
  <2>8. Grown
    BY <2>6, <2>7 DEF Grown
  <2>9. LogsInv'
    BY <2>1, <2>2, <2>6, <2>7 DEF LogsInv
  <2> QED BY <2>8, <2>9
<1>8. CASE FinishDirectLine
  <2> DEFINE old  == logs[Newest]
             line == [kind |-> "direct", callsign |-> network.logged]
             lines == Append(old.lines, line)
             file == [old EXCEPT !.tail = FALSE, !.lines = lines]
  <2>1. /\ logs # <<>> /\ network.logged # NoCallsign /\ network' = network
        /\ logs' = [logs EXCEPT ![Newest].tail = FALSE, ![Newest].lines = Append(@, line)]
    BY <1>8 DEF FinishDirectLine
  <2>2. line \in Line /\ line.callsign = network.logged /\ line.kind = "direct"
    BY <1>0, <2>1 DEF Network, Line
  <2> HIDE DEF line
  <2>3. Newest \in DOMAIN logs /\ old \in LogFile /\ old.lines \in Seq(Line)
    BY <2>1, OutsideTypes, NewestType
  <2>4. logs' = [logs EXCEPT ![Newest] = file]
    BY <2>1, <2>3
  <2>5. lines \in Seq(Line)
    BY <2>2, <2>3
  <2>6. /\ file \in LogFile /\ file.lines = lines /\ ~file.tail
        /\ file.generation = old.generation
    <3> HIDE DEF lines, old
    <3> QED BY <2>3, <2>5 DEF LogFile
  <2> HIDE DEF file
  <2> QED BY <2>1, <2>2, <2>4, <2>6, LineLogged
<1> QED BY <1>1, <1>2, <1>3, <1>4, <1>5, <1>6, <1>7, <1>8 DEF XPilot

-----------------------------------------------------------------------------
(* What the worker reports *)

\* A fact without records, which reports the beginning of its range, says
\* nothing of any line.
LEMMA NothingReported ==
    ASSUME NEW p, NEW fact, fact.request.begin \in Nat,
           fact.records = {}, fact.next = fact.request.begin,
           fact.discard = fact.request.discard
    PROVE  RangeInv(p, fact)
<1>1. \A k : k \notin (fact.request.begin \div 2) + 1 .. fact.next \div 2
  <2> DEFINE h == fact.request.begin \div 2
  <2>1. h \in Int /\ fact.next \div 2 = h
    OBVIOUS
  <2> HIDE DEF h
  <2>2. \A k : k \notin h + 1 .. h
    BY <2>1
  <2> QED BY <2>1, <2>2 DEF h
<1> QED BY <1>1 DEF RangeInv

\* What the worker finds out is true of the logs.
LEMMA FactHolds ==
    ASSUME NEW p \in Pdc, Ledger(p), NEW request \in Request, NEW fresh \in BOOLEAN,
           logs \in Seq(LogFile)
    PROVE  LET fact == Fact(request, fresh)
           IN  DiscoveryInv(p, fact) /\ RangeInv(p, fact)
<1> DEFINE fact == Fact(request, fresh)
           empty == EmptyFact(request)
<1>0. /\ request.begin \in Nat /\ request.end \in Nat /\ request.file \in Nat
      /\ request.discard \in BOOLEAN
  BY DEF Request
<1>1. /\ empty \in FactType /\ empty.request = request /\ empty.file = 0
      /\ empty.records = {} /\ empty.next = request.begin
      /\ empty.discard = request.discard
  BY EmptyFactType DEF EmptyFact
<1>2. CASE request.operation = "Discover"
  <2>1. fact = DiscoverFact(request)
    BY <1>2 DEF Fact
  <2> DEFINE size == SizeOf(logs[Newest])
             generation == logs[Newest].generation
  <2>2. /\ fact.request = request /\ fact.records = {} /\ fact.next = request.begin
        /\ fact.discard = request.discard
        /\ fact.file # 0 => logs # <<>> /\ fact.file = Newest
                            /\ fact.size = size /\ fact.generation = generation
    <3>1. CASE logs = <<>>
      <4>1. fact = [empty EXCEPT !.failed = FALSE]
        BY <2>1, <3>1 DEF DiscoverFact
      <4> HIDE DEF fact, empty
      <4> QED BY <1>1, <4>1 DEF FactType
    <3>2. CASE logs # <<>>
      <4>1. fact = [empty EXCEPT !.failed = FALSE, !.file = Newest, !.size = size,
                                 !.generation = generation]
        BY <2>1, <3>2 DEF DiscoverFact
      <4> HIDE DEF fact, empty, size, generation
      <4> QED BY <1>1, <3>2, <4>1 DEF FactType
    <3> QED BY <3>1, <3>2
  <2> HIDE DEF fact
  <2>3. RangeInv(p, fact)
    BY <1>0, <2>2, NothingReported
  <2>4. DiscoveryInv(p, fact)
    <3> SUFFICES ASSUME fact.file # 0, logs[fact.file].generation = 0
                 PROVE  /\ fact.generation = 0 /\ fact.size <= SizeOf(logs[fact.file])
                        /\ fact.file = p.file => p.cursor <= fact.size
      BY DEF DiscoveryInv
    <3>1. fact.file = Newest /\ fact.size = size /\ fact.generation = generation
      BY <2>2
    <3>2. Newest \in DOMAIN logs
      BY <2>2 DEF Newest
    <3>3. size \in Nat
      BY <3>2, FileType
    <3>4. fact.file = p.file => p.cursor <= size
      BY <3>1, <3>2 DEF Ledger, FirstLife
    <3> HIDE DEF size
    <3>5. size <= SizeOf(logs[fact.file])
      BY <3>1, <3>3 DEF size
    <3> QED BY <3>1, <3>4, <3>5
  <2> QED BY <2>3, <2>4 DEF fact
<1>3. CASE request.operation # "Discover" /\ Readable(request)
  <2> DEFINE f == request.file
             lines == logs[f].lines
             life == logs[f].generation
             block == request.begin + Min2(request.end - request.begin, ReadLimit)
             first == (request.begin \div 2) + 1
             whole == (block \div 2) - first + 1
             count == Min2(whole, RecordsPerFact + IF request.discard THEN 1 ELSE 0)
             from  == IF request.discard THEN first + 1 ELSE first
             to    == first + count - 1
             next  == IF count > 0 THEN 2 * (first + count - 1)
                      ELSE IF request.discard THEN block ELSE request.begin
             records == {RecordOf(f, i) : i \in from .. to}
             discard == request.discard /\ count = 0
             partial == ~request.discard /\ count = 0
             reached == next = request.end
  <2>1. fact = [empty EXCEPT !.failed = FALSE, !.next = next, !.fresh = fresh,
                  !.records = records, !.discard = discard, !.partial = partial,
                  !.reachedEnd = reached]
    BY <1>3 DEF Fact, ReadRangeFact
  <2>2. /\ f \in DOMAIN logs /\ request.begin <= request.end
        /\ request.end <= 2 * Len(lines) + 1
        /\ Len(lines) \in Nat /\ life \in Nat
    <3>1. /\ f \in DOMAIN logs /\ request.begin <= request.end
          /\ request.end <= SizeOf(logs[f])
      BY <1>3 DEF Readable
    <3>2. /\ Len(lines) \in Nat /\ life \in Nat /\ SizeOf(logs[f]) \in Nat
          /\ SizeOf(logs[f]) <= 2 * Len(lines) + 1
      BY <3>1, FileType, SizeType
    <3> HIDE DEF lines, life, f
    <3> QED BY <1>0, <3>1, <3>2
  <2>3. ReadLimit \in Nat /\ RecordsPerFact \in Nat
    BY ConstantsAssumption
  <2>4. block \in Nat /\ block >= request.begin /\ block <= 2 * Len(lines) + 1
    BY <1>0, <2>2, <2>3 DEF Min2
  <2> DEFINE h == request.begin \div 2
  <2>5. h \in Nat /\ first = h + 1
    BY <1>0
  <2>6. whole \in Nat /\ whole <= Len(lines) - first + 1
    <3> DEFINE L == Len(lines)
               g == block \div 2
    <3>1. L \in Nat /\ block \in Nat /\ block >= request.begin /\ block <= 2 * L + 1
      BY <2>2, <2>4
    <3> HIDE DEF block, L
    <3>2. g \in Nat /\ g <= L /\ h <= g
      BY ONLY <1>0, <3>1
    <3>3. whole = g - (h + 1) + 1 /\ first = h + 1
      BY <2>5
    <3> HIDE DEF g, h, whole, first
    <3>4. whole \in Nat /\ whole <= L - first + 1
      BY ONLY <2>5, <3>1, <3>2, <3>3
    <3> QED BY <3>4 DEF L
  <2>7. count \in Nat /\ count <= whole
    <3> HIDE DEF whole
    <3> QED BY <2>3, <2>6 DEF Min2
  <2>8. fact.request = request /\ fact.file = 0 /\ fact.records = records
        /\ fact.next = next /\ fact.discard = discard
    <3> HIDE DEF fact, empty, next, records, discard, partial, reached
    <3> QED BY <1>1, <2>1 DEF FactType
  <2> HIDE DEF h, whole, count, block
  <2>9. /\ from \in Nat /\ from >= 1 /\ to \in Int /\ to <= Len(lines)
        /\ from >= h + 1 /\ (~request.discard => from = h + 1)
        /\ count = 0 => from > to
        /\ count > 0 => next = 2 * to /\ next \div 2 = to
        /\ count = 0 /\ ~request.discard => next = request.begin
    <3> HIDE DEF first
    <3>1. to \in Int /\ to = h + count /\ to <= Len(lines)
      BY <2>2, <2>5, <2>6, <2>7
    <3>2. /\ from \in Nat /\ from >= 1 /\ from >= h + 1
          /\ (~request.discard => from = h + 1)
      BY <1>0, <2>5
    <3>3. count = 0 => from > to
      BY <2>5, <3>1, <3>2
    <3>4. ASSUME count > 0 PROVE next = 2 * to /\ next \div 2 = to
      <4>1. next = 2 * to
        BY <3>4
      <4> HIDE DEF to, next
      <4> QED BY <3>1, <4>1
    <3>5. count = 0 /\ ~request.discard => next = request.begin
      OBVIOUS
    <3> QED BY <3>1, <3>2, <3>3, <3>4, <3>5
  <2>10. fact.next \in Int
    BY <1>0, <2>4, <2>8, <2>9
  <2> HIDE DEF fact, first, from, to, next, lines, life, f
  <2>11. ASSUME NEW i \in from .. to
         PROVE  LET q == RecordOf(f, i)
                IN  /\ q \in fact.records /\ ReadFrom(q, f) /\ q.id[1] = f
                    /\ q.id[2] = life /\ q.id[3] = i
    <3>1. i \in 1 .. Len(lines) /\ i \in Nat
      BY <2>2, <2>9
    <3> DEFINE q == RecordOf(f, i)
    <3>2. /\ q.kind = lines[i].kind /\ q.callsign = lines[i].callsign
          /\ q.end = 2 * i /\ q.id = <<f, life, i>>
      BY DEF RecordOf, lines, life
    <3>3. q.id[1] = f /\ q.id[2] = life /\ q.id[3] = i
      BY <3>2
    <3>4. lines[i] = [kind |-> lines[i].kind, callsign |-> lines[i].callsign]
      <4>1. lines \in Seq(Line)
        BY <2>2, FileType DEF lines
      <4>2. lines[i] \in Line
        BY <3>1, <4>1
      <4> QED BY <4>2 DEF Line
    <3>5. q \in fact.records
      BY <2>8
    <3> HIDE DEF q
    <3>6. ReadFrom(q, f)
      BY <2>2, <3>1, <3>2, <3>3, <3>4 DEF ReadFrom, lines, life
    <3> QED BY <3>3, <3>5, <3>6 DEF q
  <2>12. \A q \in fact.records : \E i \in from .. to : q = RecordOf(f, i)
    BY <2>8
  <2>13. ASSUME NEW k \in from .. to PROVE Reported(fact, k)
    <3>1. RecordOf(f, k) \in fact.records /\ RecordOf(f, k).id[3] = k
      BY <2>11
    <3> QED BY <3>1 DEF Reported
  <2>14. fact.records # {} => count > 0
    BY <2>7, <2>9, <2>12
  <2>15. ASSUME NEW q \in fact.records
         PROVE  /\ ReadFrom(q, f)
                /\ q.id[2] = logs[q.id[1]].generation
                      => fact.next <= 2 * Len(logs[q.id[1]].lines)
                /\ \A z \in fact.records : z.id[2] = q.id[2]
                /\ q.id[1] = p.file /\ q.id[2] = 0 => SameLife(p)
                /\ q.id[1] = p.file => \A r \in p.staged : r.id[2] <= q.id[2]
                /\ \A k \in q.id[3] .. fact.next \div 2 : Reported(fact, k)
    <3>1. PICK i \in from .. to : q = RecordOf(f, i)
      BY <2>12
    <3>2. /\ ReadFrom(q, f) /\ q.id[1] = f /\ q.id[2] = life /\ q.id[3] = i
      BY <2>11, <3>1
    <3>3. count > 0
      BY <2>14
    <3>4. fact.next = 2 * to /\ fact.next \div 2 = to
      BY <2>8, <2>9, <3>3
    <3>5. fact.next <= 2 * Len(logs[f].lines)
      BY <2>2, <2>9, <3>4 DEF lines
    <3>6. \A z \in fact.records : z.id[2] = life
      BY <2>11, <2>12
    <3>7. f = p.file /\ life = 0 => SameLife(p)
      BY <2>2 DEF Ledger, FirstLife, life
    <3>8. f = p.file => \A r \in p.staged : r.id[2] <= life
      BY DEF Ledger, StagedInSession, ReadFrom, life
    <3>9. \A k \in i .. to : Reported(fact, k)
      BY <2>9, <2>13
    <3> QED BY <3>2, <3>4, <3>5, <3>6, <3>7, <3>8, <3>9
  <2>16. fact.discard => request.discard /\ fact.records = {}
    <3>1. ASSUME fact.discard PROVE request.discard /\ count = 0
      BY <2>8, <3>1 DEF discard
    <3> QED BY <2>14, <3>1
  <2>17. ASSUME ~request.discard
         PROVE  /\ fact.records = {} => fact.next = request.begin
                /\ \A k \in h + 1 .. fact.next \div 2 : Reported(fact, k)
    <3>1. CASE count = 0
      <4>1. fact.next = request.begin
        BY <2>8, <2>9, <2>17, <3>1
      <4>2. \A k : k \notin h + 1 .. h
        BY <2>5
      <4> QED BY <4>1, <4>2 DEF h
    <3>2. CASE count # 0
      <4>1. count > 0
        BY <2>7, <3>2
      <4>2. fact.next \div 2 = to /\ from = h + 1 /\ from <= to
        BY <2>5, <2>7, <2>8, <2>9, <2>17, <4>1 DEF from, to, first
      <4>3. fact.records # {}
        BY <2>9, <2>11, <4>2
      <4> QED BY <2>13, <4>2, <4>3
    <3> QED BY <3>1, <3>2
  <2>18. RangeInv(p, fact)
    BY <2>8, <2>15, <2>16, <2>17 DEF RangeInv, f, h
  <2>19. DiscoveryInv(p, fact)
    BY <2>8 DEF DiscoveryInv
  <2> QED BY <2>18, <2>19 DEF fact
<1>4. CASE request.operation # "Discover" /\ ~Readable(request)
  <2>1. fact = empty
    BY <1>4 DEF Fact
  <2> HIDE DEF fact, empty
  <2>2. RangeInv(p, fact)
    BY <1>0, <1>1, <2>1, NothingReported
  <2>3. DiscoveryInv(p, fact)
    BY <1>1, <2>1 DEF DiscoveryInv
  <2> QED BY <2>2, <2>3 DEF fact
<1> QED BY <1>2, <1>3, <1>4

\* Every step of the worker keeps the ledger.
LEMMA WorkerLedger ==
    ASSUME IInv, LedgerInv, Worker PROVE LedgerInv'
<1>1. mailbox \in Mailbox /\ logs \in Seq(LogFile) /\ pdc \in Pdc
      /\ mailbox.request \in Request
  BY DEF IInv, TypeOK, Mailbox
<1>2. UNCHANGED <<logs, network, pdc>>
  BY DEF Worker, TakeRequest, AnswerRequest, FailRequest
<1>3. LogsInv' /\ Ledger(pdc)'
  BY <1>2 DEF LedgerInv, LogsInv, Ledger, StagedInSession, InboxNamed, FirstLife,
              SameLife, ReadFrom, Newest, SizeOf
<1>4. CASE TakeRequest
  <2>1. mailbox'.state = "Working" /\ mailbox'.request = mailbox.request
        /\ mailbox.state # "Idle"
    BY <1>1, <1>4 DEF TakeRequest, Mailbox
  <2>2. DiscardInv(pdc, mailbox.request)'
    BY <1>2, <2>1 DEF LedgerInv, DiscardInv, Current
  <2> QED BY <1>3, <2>1, <2>2 DEF LedgerInv
<1>5. ASSUME NEW fact, mailbox.state = "Working",
             mailbox' = [mailbox EXCEPT !.state = "Ready", !.fact = fact],
             DiscoveryInv(pdc, fact), RangeInv(pdc, fact)
      PROVE  LedgerInv'
  <2>1. mailbox'.state = "Ready" /\ mailbox'.request = mailbox.request
        /\ mailbox'.fact = fact
    BY <1>1, <1>5 DEF Mailbox
  <2>2. DiscardInv(pdc, mailbox.request)'
    BY <1>2, <1>5, <2>1 DEF LedgerInv, DiscardInv, Current
  <2>3. DiscoveryInv(pdc, mailbox.fact)' /\ RangeInv(pdc, mailbox.fact)'
    <3>1. pdc' = pdc /\ mailbox'.fact = fact /\ logs' = logs
      BY <1>2, <2>1
    <3>2. DiscoveryInv(pdc, mailbox.fact)'
      BY <1>5, <3>1 DEF DiscoveryInv, SizeOf
    <3>3. RangeInv(pdc, mailbox.fact)'
      <4>1. RangeInv(pdc, fact)'
        BY <1>5, <3>1 DEF RangeInv, ReadFrom, SameLife, Reported
      <4>2. RangeInv(pdc', mailbox'.fact) <=> RangeInv(pdc', fact)
        BY <3>1
      <4> QED BY <3>1, <4>1, <4>2 DEF RangeInv, ReadFrom, SameLife, Reported
    <3> QED BY <3>2, <3>3
  <2> QED BY <1>3, <2>1, <2>2, <2>3 DEF LedgerInv
<1>6. ASSUME NEW fresh \in {TRUE, ~StaleFiles}, AnswerRequest(fresh)
      PROVE  LedgerInv'
  <2> DEFINE fact == Fact(mailbox.request, fresh)
  <2>1. fresh \in BOOLEAN
    BY ConstantsAssumption
  <2>2. DiscoveryInv(pdc, fact) /\ RangeInv(pdc, fact)
    BY <1>1, <2>1, FactHolds DEF LedgerInv
  <2>3. mailbox.state = "Working"
        /\ mailbox' = [mailbox EXCEPT !.state = "Ready", !.fact = fact]
    BY <1>6 DEF AnswerRequest
  <2> HIDE DEF fact
  <2> QED BY <1>5, <2>2, <2>3
<1>7. CASE FailRequest
  <2> DEFINE fact == EmptyFact(mailbox.request)
  <2>1. /\ fact.request = mailbox.request /\ fact.records = {} /\ fact.file = 0
        /\ fact.next = mailbox.request.begin /\ fact.discard = mailbox.request.discard
    BY DEF EmptyFact
  <2>2. mailbox.request.begin \in Nat
    BY <1>1 DEF Request
  <2>3. mailbox.state = "Working"
        /\ mailbox' = [mailbox EXCEPT !.state = "Ready", !.fact = fact]
    BY <1>7 DEF FailRequest
  <2> HIDE DEF fact
  <2>4. RangeInv(pdc, fact)
    BY <2>1, <2>2, NothingReported
  <2>5. DiscoveryInv(pdc, fact)
    BY <2>1 DEF DiscoveryInv
  <2> QED BY <1>5, <2>3, <2>4, <2>5
<1> QED BY <1>4, <1>6, <1>7 DEF Worker

-----------------------------------------------------------------------------
(* The callback keeps the ledger *)

\* A step that leaves the logs alone keeps the ledger if the monitor it leads
\* to is in order with the logs as they are.
LEMMA LedgerCarried ==
    ASSUME LogsInv, UNCHANGED <<logs, network>>, Ledger(pdc'),
           mailbox'.state # "Idle" => DiscardInv(pdc', mailbox'.request),
           mailbox'.state = "Ready" =>
              DiscoveryInv(pdc', mailbox'.fact) /\ RangeInv(pdc', mailbox'.fact)
    PROVE  LedgerInv'
<1>1. LogsInv'
  BY DEF LogsInv, Newest
<1>2. Ledger(pdc)'
  <2>1. StagedInSession(pdc)'
    BY DEF Ledger, StagedInSession, ReadFrom
  <2>2. InboxNamed(pdc)'
    BY DEF Ledger, InboxNamed, SameLife
  <2>3. FirstLife(pdc)'
    BY DEF Ledger, FirstLife, SameLife, SizeOf
  <2> QED BY <2>1, <2>2, <2>3 DEF Ledger
<1>3. ASSUME mailbox'.state # "Idle" PROVE DiscardInv(pdc, mailbox.request)'
  BY <1>3 DEF DiscardInv, Current
<1>4. ASSUME mailbox'.state = "Ready" PROVE DiscoveryInv(pdc, mailbox.fact)'
  BY <1>4 DEF DiscoveryInv, SizeOf
<1>5. ASSUME mailbox'.state = "Ready" PROVE RangeInv(pdc, mailbox.fact)'
  BY <1>5 DEF RangeInv, ReadFrom, SameLife, Reported
<1> QED BY <1>1, <1>2, <1>3, <1>4, <1>5 DEF LedgerInv

\* Submitting a request reads nothing; the request drops a first fragment
\* exactly if the monitor must.
LEMMA SubmitLedger ==
    ASSUME NEW p, MonitorInv(p), Ledger(p), WantsRequest(p), NEW taken \in BOOLEAN
    PROVE  LET q == SubmitRequest(p, taken)
           IN  /\ Advances(p, q) /\ q.bound = p.bound /\ q.inbox = p.inbox
               /\ Ledger(q) /\ FactsHold(p, q)
               /\ ~taken => RequestsHold(p, q)
               /\ DiscardInv(q, NextRequest(p))
<1> DEFINE r == NextRequest(p)
           n == r.id
           id == IF taken THEN n ELSE p.pendingRequestId
           due == p.due /\ taken
           q == [p EXCEPT !.nextRequestId = n, !.pendingRequestId = id, !.due = due]
<1>1. p \in Pdc
  BY DEF MonitorInv
<1>2. SubmitRequest(p, taken) = q
  BY DEF SubmitRequest
<1>3. r.operation = "ReadRange" => r.discard = p.discard
  BY DEF NextRequest, NoRequest
<1> HIDE DEF r, n, id, due
<1>4. /\ q.inbox = p.inbox /\ q.staged = p.staged /\ q.bound = p.bound
      /\ q.file = p.file /\ q.incarnation = p.incarnation
      /\ q.cursor = p.cursor /\ q.snapshotEnd = p.snapshotEnd
      /\ q.fileGeneration = p.fileGeneration /\ q.discard = p.discard
      /\ q.productEpoch = p.productEpoch /\ q.connectionEpoch = p.connectionEpoch
      /\ q.pendingRequestId = id
  BY <1>1 DEF Pdc
<1> HIDE DEF q
<1>5. Advances(p, q)
  BY <1>4 DEF Advances
<1>6. Ledger(q) /\ FactsHold(p, q)
  BY <1>5, AdvancesLedger
<1>7. ASSUME ~taken PROVE RequestsHold(p, q)
  <2>1. p.connectionEpoch \in Nat
    BY <1>1 DEF Pdc
  <2>2. Awaits(p, q) /\ q.connectionEpoch \in Nat
    BY <1>4, <1>7, <2>1 DEF Awaits, id
  <2> QED BY <1>4, <2>2, AwaitsRequests
<1>8. DiscardInv(q, r)
  BY <1>3, <1>4 DEF DiscardInv
<1> QED BY <1>2, <1>4, <1>5, <1>6, <1>7, <1>8 DEF r

\* Up to the answer it takes, a callback admits nothing; what it admits then
\* was staged.
LEMMA StagesLedger ==
    ASSUME IInv, LedgerInv, ~pdc.suspended,
           NEW ready \in BOOLEAN, NEW harvested \in BOOLEAN,
           harvested => mailbox.state = "Ready"
    PROVE  LET observed == Observed(ready, harvested)
               serviced == Served(ready, harvested)
           IN  /\ Ledger(observed) /\ observed.inbox \subseteq pdc.inbox
               /\ Advances(observed, serviced) /\ serviced.bound = observed.bound
               /\ Ledger(serviced)
               /\ ~harvested => FactsHold(pdc, serviced) /\ RequestsHold(pdc, serviced)
<1> DEFINE connected == network.connected # NoCallsign
           watched   == Watched
           bound     == BoundMonitor(ready)
           observed  == Observed(ready, harvested)
           serviced  == Served(ready, harvested)
<1>1. /\ watched = ObserveConnection(pdc, connected)
      /\ bound = BindFlight(watched, ready, flight, connected)
      /\ observed = IF harvested THEN ObserveFact(bound, ready, mailbox.fact) ELSE bound
      /\ serviced = IF ready THEN ServiceStaged(observed)
                    ELSE [observed EXCEPT !.available = @ /\ connected]
  BY DEF Watched, BoundMonitor, Observed, Served
<1>2. /\ connected \in BOOLEAN /\ flight \in Plans /\ mailbox \in Mailbox
      /\ logs \in Seq(LogFile) /\ Ledger(pdc) /\ MonitorInv(pdc)
      /\ pdc.file \in Nat
  BY DEF IInv, TypeOK, Mailbox, Plans, LedgerInv, Pdc
<1>3. /\ MonitorInv(watched) /\ MonitorInv(bound) /\ MonitorInv(observed)
      /\ MonitorInv(serviced) /\ bound.file \in {0, pdc.file}
      /\ \A r : RequestInv(pdc, r) => RequestInv(watched, r)
      /\ \A r : RequestInv(pdc, r) => RequestInv(bound, r)
  BY CallbackStages
<1> HIDE DEF connected, watched, bound, observed, serviced
<1>4. Keeps(pdc, watched) /\ watched.inbox = pdc.inbox
  BY <1>1, <1>2, ConnectionLedger
<1>5. Keeps(watched, bound) /\ bound.inbox \subseteq watched.inbox
  BY <1>1, <1>2, <1>3, <1>4, FlightLedger DEF Keeps
<1>6. Keeps(pdc, bound)
  BY <1>3, <1>4, <1>5 DEF Keeps, FactsHold, RequestsHold
<1>7. Ledger(observed) /\ observed.inbox = bound.inbox
  <2>1. CASE harvested
    <3> DEFINE fact == mailbox.fact
    <3>1. fact \in FactType /\ fact.file \in Nat
      BY <1>2 DEF Mailbox, FactType
    <3>2. /\ fact.request = mailbox.request /\ RequestInv(pdc, mailbox.request)
          /\ IsFiniteSet(fact.records)
          /\ fact.file # 0 => fact.file >= pdc.file
          /\ fact.file <= Len(logs)
      BY <2>1 DEF IInv, MailboxInv
    <3>3. /\ DiscardInv(pdc, mailbox.request)
          /\ DiscoveryInv(pdc, fact) /\ RangeInv(pdc, fact)
      BY <2>1 DEF LedgerInv
    <3> HIDE DEF fact
    <3>4. /\ RequestInv(bound, fact.request) /\ DiscardInv(bound, fact.request)
          /\ DiscoveryInv(bound, fact) /\ RangeInv(bound, fact)
      BY <1>3, <1>6, <3>2, <3>3 DEF Keeps, FactsHold, RequestsHold
    <3>5. fact.file # 0 => fact.file >= bound.file
      BY <1>2, <1>3, <3>1, <3>2
    <3>6. observed = ObserveFact(bound, ready, fact)
      BY <1>1, <2>1 DEF fact
    <3> QED BY <1>2, <1>3, <1>6, <3>1, <3>2, <3>4, <3>5, <3>6, FactLedger DEF Keeps
  <2>2. CASE ~harvested
    BY <1>1, <1>6, <2>2 DEF Keeps
  <2> QED BY <2>1, <2>2
<1>8. /\ Advances(observed, serviced) /\ serviced.bound = observed.bound
      /\ Awaits(observed, serviced)
  <2>1. observed \in Pdc /\ observed.connectionEpoch \in Nat
    BY <1>3 DEF MonitorInv, Pdc
  <2>2. CASE ready /\ observed.committing
    <3>1. serviced = CommitStagedMessages(observed)
      BY <1>1, <2>2 DEF ServiceStaged
    <3>2. SameStamps(observed, serviced)
      BY <1>3, <2>2, <3>1, Committed
    <3> QED BY <1>3, <2>1, <2>2, <3>1, <3>2, CommitAdvances DEF Awaits, SameStamps
  <2>3. CASE ready /\ ~observed.committing
    <3>1. serviced = observed
      BY <1>1, <2>3 DEF ServiceStaged
    <3> QED BY <2>1, <3>1 DEF Advances, Awaits
  <2>4. CASE ~ready
    <3> DEFINE v == observed.available /\ connected
               w == [observed EXCEPT !.available = v]
    <3>1. serviced = w
      BY <1>1, <2>4
    <3>2. /\ w.inbox = observed.inbox /\ w.staged = observed.staged
          /\ w.bound = observed.bound /\ w.file = observed.file
          /\ w.incarnation = observed.incarnation /\ w.cursor = observed.cursor
          /\ w.snapshotEnd = observed.snapshotEnd
          /\ w.fileGeneration = observed.fileGeneration
          /\ w.discard = observed.discard
          /\ w.productEpoch = observed.productEpoch
          /\ w.connectionEpoch = observed.connectionEpoch
          /\ w.pendingRequestId = observed.pendingRequestId
      BY <2>1 DEF Pdc
    <3> HIDE DEF w
    <3> QED BY <2>1, <3>1, <3>2 DEF Advances, Awaits
  <2> QED BY <2>2, <2>3, <2>4
<1>9. Ledger(serviced) /\ FactsHold(observed, serviced)
      /\ RequestsHold(observed, serviced)
  <2>1. serviced.connectionEpoch \in Nat /\ serviced.discard = observed.discard
    BY <1>3, <1>8 DEF MonitorInv, Pdc, Advances
  <2> QED BY <1>3, <1>7, <1>8, <2>1, AdvancesLedger, AwaitsRequests
<1>10. ASSUME ~harvested PROVE FactsHold(pdc, serviced) /\ RequestsHold(pdc, serviced)
  <2>1. observed = bound
    BY <1>1, <1>10
  <2> QED BY <1>3, <1>6, <1>9, <2>1 DEF Keeps, FactsHold, RequestsHold
<1> QED BY <1>4, <1>5, <1>7, <1>8, <1>9, <1>10 DEF observed, serviced

\* A callback keeps the ledger, and admits only what it had staged of the
\* session of the callsign it is bound to.
LEMMA CallbackLedger ==
    ASSUME IInv, LedgerInv, NEW harvestFree \in BOOLEAN, NEW submitFree \in BOOLEAN,
           NEW callsignSeen \in BOOLEAN,
           Callback(harvestFree, submitFree, callsignSeen)
    PROVE  /\ LedgerInv'
           /\ \E o : /\ MonitorInv(o) /\ Ledger(o) /\ o.inbox \subseteq pdc.inbox
                     /\ Advances(o, pdc') /\ pdc'.bound = o.bound
<1> DEFINE ready     == ContextReady(callsignSeen)
           harvested == harvestFree /\ mailbox.state = "Ready"
           observed  == Observed(ready, harvested)
           serviced  == Served(ready, harvested)
           taken     == submitFree /\ (harvested \/ mailbox.state = "Idle")
           wants     == ready /\ WantsRequest(serviced)
<1>1. ~pdc.suspended /\ UNCHANGED <<logs, network, flight, disturbances>>
  BY DEF Callback
<1>2. LeaveRequest(serviced, ready, harvested, submitFree)
  BY DEF Callback, Served, Observed, BoundMonitor, Watched
<1>3. /\ ready \in BOOLEAN /\ harvested \in BOOLEAN /\ taken \in BOOLEAN
      /\ harvested => mailbox.state = "Ready"
  BY DEF ContextReady
<1>4. /\ pdc' = IF wants THEN SubmitRequest(serviced, taken) ELSE serviced
      /\ mailbox' = IF wants /\ taken
                    THEN [state |-> "Queued", request |-> NextRequest(serviced),
                          fact |-> NoFact]
                    ELSE IF harvested THEN EmptyMailbox ELSE mailbox
  BY <1>2 DEF LeaveRequest
<1> HIDE DEF ready, harvested, taken
<1>5. /\ MonitorInv(observed) /\ MonitorInv(serviced)
      /\ ~harvested => \A r : RequestInv(pdc, r) => RequestInv(serviced, r)
  BY <1>1, <1>3, CallbackStages
<1>6. /\ Ledger(observed) /\ observed.inbox \subseteq pdc.inbox
      /\ Advances(observed, serviced) /\ serviced.bound = observed.bound
      /\ Ledger(serviced)
      /\ ~harvested => FactsHold(pdc, serviced) /\ RequestsHold(pdc, serviced)
  BY <1>1, <1>3, StagesLedger
<1> HIDE DEF observed, serviced
<1>7. /\ Advances(serviced, pdc') /\ pdc'.bound = serviced.bound
      /\ pdc'.inbox = serviced.inbox
      /\ Ledger(pdc') /\ FactsHold(serviced, pdc')
      /\ ~(wants /\ taken) => RequestsHold(serviced, pdc')
      /\ wants => DiscardInv(pdc', NextRequest(serviced))
  <2>1. CASE wants
    <3>1. pdc' = SubmitRequest(serviced, taken)
      BY <1>4, <2>1
    <3> QED BY <1>3, <1>5, <1>6, <2>1, <3>1, SubmitLedger
  <2>2. CASE ~wants
    <3>1. pdc' = serviced
      BY <1>4, <2>2
    <3> QED BY <1>6, <2>2, <3>1 DEF Advances, FactsHold, RequestsHold
  <2> QED BY <2>1, <2>2
<1>8. Advances(observed, pdc') /\ pdc'.bound = observed.bound
  BY <1>6, <1>7 DEF Advances
<1> HIDE DEF wants
<1>9. mailbox'.state # "Idle" => DiscardInv(pdc', mailbox'.request)
  <2>1. CASE wants /\ taken
    BY <1>4, <1>7, <2>1
  <2>2. CASE ~(wants /\ taken) /\ harvested
    BY <1>4, <2>2, EmptyMailboxType
  <2>3. CASE ~(wants /\ taken) /\ ~harvested
    <3>1. mailbox' = mailbox
      BY <1>4, <2>3
    <3>2. ASSUME mailbox.state # "Idle" PROVE DiscardInv(pdc', mailbox.request)
      <4>1. RequestInv(pdc, mailbox.request) /\ DiscardInv(pdc, mailbox.request)
        BY <3>2 DEF IInv, MailboxInv, LedgerInv
      <4>2. /\ RequestInv(serviced, mailbox.request)
            /\ DiscardInv(serviced, mailbox.request)
        BY <1>5, <1>6, <2>3, <4>1 DEF RequestsHold
      <4> QED BY <1>7, <2>3, <4>2 DEF RequestsHold
    <3> QED BY <3>1, <3>2
  <2> QED BY <2>1, <2>2, <2>3
<1>10. mailbox'.state = "Ready" =>
          DiscoveryInv(pdc', mailbox'.fact) /\ RangeInv(pdc', mailbox'.fact)
  <2>1. CASE wants /\ taken
    BY <1>4, <2>1
  <2>2. CASE ~(wants /\ taken) /\ harvested
    BY <1>4, <2>2, EmptyMailboxType
  <2>3. CASE ~(wants /\ taken) /\ ~harvested
    <3>1. mailbox' = mailbox
      BY <1>4, <2>3
    <3>2. ASSUME mailbox.state = "Ready"
          PROVE  DiscoveryInv(pdc', mailbox.fact) /\ RangeInv(pdc', mailbox.fact)
      <4>1. DiscoveryInv(pdc, mailbox.fact) /\ RangeInv(pdc, mailbox.fact)
        BY <3>2 DEF LedgerInv
      <4> QED BY <1>6, <1>7, <2>3, <4>1 DEF FactsHold
    <3> QED BY <3>1, <3>2
  <2> QED BY <2>1, <2>2, <2>3
<1>11. LedgerInv'
  BY <1>1, <1>7, <1>9, <1>10, LedgerCarried DEF LedgerInv
<1> QED BY <1>5, <1>6, <1>8, <1>11

-----------------------------------------------------------------------------
(* Every step keeps the ledger *)

\* What reads nothing and leaves the mailbox alone.
LEMMA MonitorLedger ==
    ASSUME IInv, LedgerInv, UNCHANGED <<logs, network, mailbox>>,
           Ledger(pdc'), FactsHold(pdc, pdc'), RequestsHold(pdc, pdc')
    PROVE  LedgerInv'
<1>1. ASSUME mailbox.state # "Idle" PROVE DiscardInv(pdc', mailbox.request)
  BY <1>1 DEF IInv, MailboxInv, LedgerInv, RequestsHold
<1>2. ASSUME mailbox.state = "Ready"
      PROVE  DiscoveryInv(pdc', mailbox.fact) /\ RangeInv(pdc', mailbox.fact)
  BY <1>2 DEF LedgerInv, FactsHold
<1>3. mailbox' = mailbox
  OBVIOUS
<1> QED BY <1>1, <1>2, <1>3, LedgerCarried DEF LedgerInv

\* A step of the monitor that admits nothing, reads nothing and awaits no
\* answer it did not await.
LEMMA IdleLedger ==
    ASSUME IInv, IInv', LedgerInv, UNCHANGED <<logs, network, mailbox>>,
           Advances(pdc, pdc'), Awaits(pdc, pdc')
    PROVE  LedgerInv'
<1>1. MonitorInv(pdc) /\ Ledger(pdc) /\ pdc'.connectionEpoch \in Nat
      /\ pdc'.discard = pdc.discard
  <2>1. pdc' \in Pdc
    BY DEF IInv, TypeOK
  <2> QED BY <2>1 DEF IInv, LedgerInv, Advances, Pdc
<1>2. Ledger(pdc') /\ FactsHold(pdc, pdc')
  BY <1>1, AdvancesLedger
<1>3. RequestsHold(pdc, pdc')
  BY <1>1, AwaitsRequests
<1> QED BY <1>2, <1>3, MonitorLedger

\* Every other step of the flight loop keeps the ledger and admits nothing.
LEMMA FlightLoopLedger ==
    ASSUME IInv, IInv', LedgerInv,
           \/ ServiceTimeArrives \/ SuspendPdc \/ ResumePdc \/ ResetProduct
           \/ \E plan \in Flights \cup {NoFlight} : ChangeFlight(plan)
    PROVE  LedgerInv' /\ pdc'.inbox \subseteq pdc.inbox
<1>1. /\ pdc \in Pdc /\ pdc.connectionEpoch \in Nat /\ pdc.productEpoch \in Nat
      /\ logs \in Seq(LogFile) /\ MonitorInv(pdc)
  BY DEF IInv, TypeOK, MonitorInv, Pdc
<1>2. CASE ServiceTimeArrives
  <2> DEFINE w == [pdc EXCEPT !.due = TRUE]
  <2>1. pdc' = w /\ UNCHANGED <<logs, network, mailbox>>
    BY <1>2 DEF ServiceTimeArrives
  <2>2. /\ w.inbox = pdc.inbox /\ w.staged = pdc.staged /\ w.bound = pdc.bound
        /\ w.file = pdc.file /\ w.incarnation = pdc.incarnation
        /\ w.cursor = pdc.cursor /\ w.snapshotEnd = pdc.snapshotEnd
        /\ w.fileGeneration = pdc.fileGeneration /\ w.discard = pdc.discard
        /\ w.productEpoch = pdc.productEpoch
        /\ w.connectionEpoch = pdc.connectionEpoch
        /\ w.pendingRequestId = pdc.pendingRequestId
    BY <1>1 DEF Pdc
  <2> HIDE DEF w
  <2>3. Advances(pdc, w) /\ Awaits(pdc, w)
    BY <1>1, <2>2 DEF Advances, Awaits
  <2> QED BY <2>1, <2>2, <2>3, IdleLedger
<1>3. CASE SuspendPdc
  <2> DEFINE d == DisownRequest(pdc)
             w == [d EXCEPT !.suspended = TRUE, !.recoveryRequired = TRUE,
                            !.readingSnapshot = FALSE, !.staged = {}]
             n == pdc.connectionEpoch + 1
  <2>1. pdc' = w /\ UNCHANGED <<logs, network, mailbox>>
    BY <1>3 DEF SuspendPdc
  <2>2. d = [pdc EXCEPT !.connectionEpoch = n, !.pendingRequestId = 0]
    BY DEF DisownRequest
  <2>3. n \in Nat /\ n >= pdc.connectionEpoch
    BY <1>1
  <2>4. d \in Pdc
    BY <1>1, Disown
  <2> HIDE DEF d, n
  <2>5. /\ d.inbox = pdc.inbox /\ d.file = pdc.file
        /\ d.incarnation = pdc.incarnation /\ d.cursor = pdc.cursor
        /\ d.snapshotEnd = pdc.snapshotEnd /\ d.fileGeneration = pdc.fileGeneration
        /\ d.discard = pdc.discard /\ d.productEpoch = pdc.productEpoch
        /\ d.connectionEpoch = n /\ d.pendingRequestId = 0
    BY <1>1, <2>2 DEF Pdc
  <2>6. /\ w.inbox = d.inbox /\ w.staged = {} /\ w.file = d.file
        /\ w.incarnation = d.incarnation /\ w.cursor = d.cursor
        /\ w.snapshotEnd = d.snapshotEnd /\ w.fileGeneration = d.fileGeneration
        /\ w.discard = d.discard /\ w.productEpoch = d.productEpoch
        /\ w.connectionEpoch = d.connectionEpoch
        /\ w.pendingRequestId = d.pendingRequestId
    BY <2>4 DEF Pdc
  <2> HIDE DEF w
  <2>7. Advances(pdc, w) /\ Awaits(pdc, w)
    BY <2>3, <2>5, <2>6 DEF Advances, Awaits
  <2> QED BY <2>1, <2>5, <2>6, <2>7, IdleLedger
<1>4. CASE ResumePdc
  <2> DEFINE w == [pdc EXCEPT !.suspended = FALSE, !.recoveryRequired = TRUE, !.due = TRUE]
  <2>1. pdc' = w /\ UNCHANGED <<logs, network, mailbox>>
    BY <1>4 DEF ResumePdc
  <2>2. /\ w.inbox = pdc.inbox /\ w.staged = pdc.staged /\ w.bound = pdc.bound
        /\ w.file = pdc.file /\ w.incarnation = pdc.incarnation
        /\ w.cursor = pdc.cursor /\ w.snapshotEnd = pdc.snapshotEnd
        /\ w.fileGeneration = pdc.fileGeneration /\ w.discard = pdc.discard
        /\ w.productEpoch = pdc.productEpoch
        /\ w.connectionEpoch = pdc.connectionEpoch
        /\ w.pendingRequestId = pdc.pendingRequestId
    BY <1>1 DEF Pdc
  <2> HIDE DEF w
  <2>3. Advances(pdc, w) /\ Awaits(pdc, w)
    BY <1>1, <2>2 DEF Advances, Awaits
  <2> QED BY <2>1, <2>2, <2>3, IdleLedger
<1>5. CASE ResetProduct
  <2> DEFINE e == pdc.productEpoch + 1
             w == ClearedPdc(e, pdc.suspended)
  <2>1. pdc' = w /\ UNCHANGED <<logs, network, mailbox>>
    BY <1>5 DEF ResetProduct, ResetProductState
  <2>2. e \in Nat /\ e > pdc.productEpoch
    BY <1>1
  <2>3. w.inbox = {}
    BY DEF ClearedPdc
  <2> HIDE DEF e
  <2>4. Ledger(w) /\ FactsHold(pdc, w) /\ RequestsHold(pdc, w)
    BY <1>1, <2>2, ClearedLedger
  <2> HIDE DEF w
  <2> QED BY <2>1, <2>3, <2>4, MonitorLedger
<1>6. ASSUME NEW plan \in Flights \cup {NoFlight}, ChangeFlight(plan)
      PROVE  LedgerInv' /\ pdc'.inbox \subseteq pdc.inbox
  <2>1. UNCHANGED <<logs, network, mailbox, pdc>>
    BY <1>6 DEF ChangeFlight
  <2>2. Advances(pdc, pdc') /\ Awaits(pdc, pdc')
    BY <1>1, <2>1 DEF Advances, Awaits
  <2> QED BY <2>1, <2>2, IdleLedger
<1> QED BY <1>2, <1>3, <1>4, <1>5, <1>6

\* Every step of the worker and of xPilot leaves the monitor alone.
LEMMA MonitorAlone ==
    ASSUME Worker \/ XPilot \/ UNCHANGED vars PROVE UNCHANGED pdc
<1>1. CASE Worker
  BY <1>1 DEF Worker, TakeRequest, AnswerRequest, FailRequest
<1>2. CASE XPilot
  BY <1>2 DEF XPilot, StartXPilot, Connect, LogLogin, Disconnect, LogLogout,
              LogText, BeginDirectLine, FinishDirectLine
<1>3. CASE UNCHANGED vars
  BY <1>3 DEF vars
<1> QED BY <1>1, <1>2, <1>3

\* Every step of xPilot leaves the mailbox alone.
LEMMA MailboxAlone ==
    ASSUME XPilot PROVE UNCHANGED mailbox
BY DEF XPilot, StartXPilot, Connect, LogLogin, Disconnect, LogLogout,
       LogText, BeginDirectLine, FinishDirectLine

\* The ledger holds initially.
LEMMA LedgerInit == Init => LedgerInv
<1> SUFFICES ASSUME Init PROVE LedgerInv
  OBVIOUS
<1>1. /\ logs = <<>> /\ network.logged = NoCallsign /\ mailbox.state = "Idle"
      /\ pdc.inbox = {} /\ pdc.staged = {}
  BY DEF Init, Offline, EmptyMailbox, ClearedPdc
<1>2. LogsInv /\ DOMAIN logs = {}
  BY <1>1 DEF LogsInv
<1>3. Ledger(pdc)
  BY <1>1, <1>2 DEF Ledger, StagedInSession, InboxNamed, FirstLife
<1> QED BY <1>1, <1>2, <1>3 DEF LedgerInv

\* Every step keeps the ledger.
LEMMA LedgerStep == IInv /\ LedgerInv /\ [Next]_vars => LedgerInv'
<1> SUFFICES ASSUME IInv, LedgerInv, [Next]_vars PROVE LedgerInv'
  OBVIOUS
<1>1. IInv'
  BY IInvStep
<1>2. ASSUME NEW harvestFree \in {TRUE, ~Contention},
             NEW submitFree \in {TRUE, ~Contention}, NEW callsignSeen \in BOOLEAN,
             Callback(harvestFree, submitFree, callsignSeen)
      PROVE  LedgerInv'
  <2>1. harvestFree \in BOOLEAN /\ submitFree \in BOOLEAN
    BY ConstantsAssumption
  <2> QED BY <1>2, <2>1, CallbackLedger
<1>3. CASE FlightLoop
  BY <1>1, <1>2, <1>3, FlightLoopLedger DEF FlightLoop
<1>4. CASE Worker
  BY <1>4, WorkerLedger
<1>5. CASE XPilot
  <2>1. Grown /\ LogsInv' /\ UNCHANGED <<pdc, mailbox>>
    BY <1>5, XPilotLedger, MonitorAlone, MailboxAlone DEF LedgerInv
  <2>2. logs' \in Seq(LogFile)
    BY <1>1 DEF IInv, TypeOK
  <2>3. /\ Ledger(pdc)'
        /\ mailbox.state = "Ready" =>
              DiscoveryInv(pdc, mailbox.fact)' /\ RangeInv(pdc, mailbox.fact)'
    BY <2>1, <2>2, GrownLedger DEF LedgerInv
  <2>4. mailbox.state # "Idle" => DiscardInv(pdc, mailbox.request)'
    BY <2>1 DEF LedgerInv, DiscardInv, Current
  <2> QED BY <2>1, <2>3, <2>4 DEF LedgerInv
<1>6. CASE UNCHANGED vars
  <2>1. UNCHANGED <<logs, network, mailbox, pdc>>
    BY <1>6 DEF vars
  <2>2. Advances(pdc, pdc') /\ Awaits(pdc, pdc')
    <3>1. pdc.connectionEpoch \in Nat
      BY DEF IInv, TypeOK, Pdc
    <3> QED BY <2>1, <3>1 DEF Advances, Awaits
  <2> QED BY <1>1, <2>1, <2>2, IdleLedger
<1> QED BY <1>3, <1>4, <1>5, <1>6 DEF Next

\* What a step admits was logged in the session still open at the cursor.
LEMMA AdmissionStep ==
    ASSUME IInv, LedgerInv, [Next]_vars, NEW e \in pdc'.inbox \ pdc.inbox,
           logs[e.id[1]].generation = e.id[2]
    PROVE  OpenSession(logs[e.id[1]].lines, pdc'.bound.callsign, e.id[3],
                       pdc'.cursor \div 2)
<1>1. IInv'
  BY IInvStep
<1>2. PICK harvestFree \in {TRUE, ~Contention}, submitFree \in {TRUE, ~Contention},
           callsignSeen \in BOOLEAN :
         Callback(harvestFree, submitFree, callsignSeen)
  <2>1. ~(Worker \/ XPilot \/ UNCHANGED vars)
    BY MonitorAlone
  <2> QED BY <1>1, <2>1, FlightLoopLedger DEF Next, FlightLoop
<1>3. PICK o : /\ MonitorInv(o) /\ Ledger(o) /\ o.inbox \subseteq pdc.inbox
               /\ Advances(o, pdc') /\ pdc'.bound = o.bound
  <2>1. harvestFree \in BOOLEAN /\ submitFree \in BOOLEAN
    BY ConstantsAssumption
  <2> QED BY <1>2, <2>1, CallbackLedger
<1>4. PICK r \in o.staged : e = EntryOf(o, r)
  BY <1>3 DEF Advances
<1> DEFINE f == o.file
           c == o.bound.callsign
           i == r.id[3]
           lines == logs[f].lines
           last == o.cursor \div 2
<1>5. /\ ReadFrom(r, f) /\ r.kind = "direct" /\ r.callsign = c
      /\ r.id[2] = logs[f].generation => \A k \in i + 1 .. last : ~OwnLine(lines[k], c)
  BY <1>3 DEF Ledger, StagedInSession
<1>6. e.id = r.id /\ r.id[1] = f /\ pdc'.bound.callsign = c
      /\ pdc'.cursor = o.cursor
  BY <1>3, <1>4, <1>5 DEF EntryOf, ReadFrom, Advances
<1>7. f \in DOMAIN logs /\ i \in 1 .. Len(lines)
      /\ lines[i].kind = "direct" /\ lines[i].callsign = c
  BY <1>5, <1>6 DEF ReadFrom
<1>8. \A k \in i + 1 .. last : ~OwnLine(lines[k], c)
  BY <1>5, <1>6
<1>9. OpenSession(lines, c, i, i)
  BY <1>7 DEF LedgerInv, LogsInv
<1>10. i \in Nat /\ last \in Int
  <2>1. o.cursor \in Nat
    BY <1>3 DEF MonitorInv, Pdc
  <2> QED BY <1>7, <2>1
<1> HIDE DEF f, c, i, lines, last
<1>11. OpenSession(lines, c, i, last)
  <2>1. PICK j \in 1 .. i - 1 :
           /\ lines[j] = [kind |-> "open", callsign |-> c]
           /\ \A k \in j + 1 .. i :
                lines[k].callsign = c => lines[k].kind \notin {"open", "close"}
    BY <1>9 DEF OpenSession
  <2>2. ASSUME NEW k \in j + 1 .. last, lines[k].callsign = c
        PROVE  lines[k].kind \notin {"open", "close"}
    <3>1. CASE k <= i
      BY <1>10, <2>1, <2>2, <3>1
    <3>2. CASE ~(k <= i)
      BY <1>8, <1>10, <2>2, <3>2 DEF OwnLine
    <3> QED BY <3>1, <3>2
  <2> QED BY <2>1, <2>2 DEF OpenSession
<1> QED BY <1>6, <1>11 DEF f, c, i, lines, last

-----------------------------------------------------------------------------
(* The theorems about the ledger *)

\* The ledger is an invariant of the specification.
THEOREM LedgerInvariant == Spec => []LedgerInv
<1>1. IInv /\ LedgerInv /\ [Next]_vars => LedgerInv'
  BY LedgerStep
<1> QED BY <1>1, LedgerInit, MonitorInvariant, PTL DEF Spec

\* No line of a log that xPilot has not rewritten reaches the Drawer twice,
\* through all recovery scans, reconnections and evictions of replay cursors
\* (BrainPdcLogRuntime.cpp: ReplayHighWater, BeginFileSnapshot).
THEOREM NoLineIsAdmittedTwice == Spec => []NoMessageTwice
<1>1. ASSUME IInv, LedgerInv PROVE NoMessageTwice
  <2> SUFFICES ASSUME NEW x \in pdc.inbox, NEW y \in pdc.inbox,
                      x.id = y.id, x.id[2] = 0
               PROVE  x = y
    BY DEF NoMessageTwice
  <2>1. x \in Entry /\ y \in Entry
    BY <1>1 DEF IInv, TypeOK, Pdc
  <2>2. x.file = y.file /\ x.end = y.end
    BY <1>1 DEF LedgerInv, Ledger, InboxNamed
  <2>3. x.incarnation = y.incarnation
    BY <1>1, <2>2 DEF LedgerInv, Ledger, InboxNamed
  <2>4. /\ x.batch \in Nat /\ y.batch \in Nat /\ x.file \in Nat
        /\ x.incarnation \in Nat /\ x.end \in Nat
    BY <2>1 DEF Entry
  <2>5. ~Before(x, y) /\ ~Before(y, x)
    BY <2>2, <2>3, <2>4 DEF Before
  <2>6. x.batch = y.batch
    BY <1>1, <2>4, <2>5 DEF IInv, MonitorInv, InboxInv
  <2> QED BY <2>1, <2>2, <2>3, <2>6 DEF Entry
<1> QED BY <1>1, MonitorInvariant, LedgerInvariant, PTL

\* A message reaches the Drawer only while the session it was logged in is
\* open, as far as the monitor has read, for the callsign the flight is bound
\* to (BrainPdcLogRuntime.cpp: ObserveRecord, CommitStagedMessages).
THEOREM OnlyTheOpenSessionIsAdmitted == Spec => AdmitsOpenSessionOnly
<1> DEFINE Admits == \A e \in pdc'.inbox \ pdc.inbox :
                        LET f == e.id[1] i == e.id[3]
                        IN  logs[f].generation = e.id[2] =>
                              OpenSession(logs[f].lines, pdc'.bound.callsign, i,
                                          pdc'.cursor \div 2)
<1>1. IInv /\ LedgerInv /\ [Next]_vars => [Admits]_vars
  BY AdmissionStep
<1> HIDE DEF Admits
<1>2. Spec => [][Admits]_vars
  BY <1>1, MonitorInvariant, LedgerInvariant, PTL DEF Spec
<1> QED BY <1>2 DEF AdmitsOpenSessionOnly, Admits

=============================================================================
