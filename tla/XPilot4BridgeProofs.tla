-------------------------- MODULE XPilot4BridgeProofs ------------------------
(***************************************************************************)
(* Proofs about the bridge: type correctness; that a list in transfer is   *)
(* always the answer to the pending request; that no message is shown      *)
(* twice; that, while the client's queue has room, none is shown for a     *)
(* flight under another callsign; and that, while the pipe lasts, the      *)
(* Brain learns of all that the queues had no room for. The Brain's part   *)
(* is one lemma per operator, each about what it makes of a Brain of which *)
(* the invariant holds.                                                    *)
(***************************************************************************)
EXTENDS XPilot4Bridge, FiniteSetTheorems, SequenceTheorems, TLAPS

\* A list of controllers has a size.
LEMMA ListIsFinite ==
    ASSUME NEW listed \in SUBSET Controllers
    PROVE  IsFiniteSet(listed) /\ Cardinality(listed) \in Nat
  BY ProtocolAssumption, FS_Subset, FS_CardinalityType

\* What is observed of a controller names one. Only such observations are
\* ever made.
Proper == {o \in Observation :
              o.kind \in LiveKinds \cup {"SnapshotEntry"} => o.controller \in Controllers}
ProperQueues == [items : Seq(Proper), loss : [count : Nat, epoch : Nat]]

\* Proper observations and queues of them are observations and queues.
LEMMA ProperObservation == Proper \subseteq Observation /\ ProperQueues \subseteq Queues
<1>1. Proper \subseteq Observation
  BY DEF Proper
<1>2. Seq(Proper) \subseteq Seq(Observation)
  BY <1>1
<1> QED BY <1>1, <1>2 DEF ProperQueues, Queues

\* An observation of a known kind that XVatsim makes itself is an observation.
LEMMA LocalType ==
    ASSUME NEW kind \in Kinds
    PROVE  Local(kind) \in Observation /\ Local(kind).kind = kind
  BY DEF Local, Observation

\* The mark of an empty hand is no observation of a controller.
LEMMA NothingProper == Nothing \in Proper /\ Nothing.kind = "None"
<1>1. Nothing \in Observation /\ Nothing.kind = "None"
  BY LocalType DEF Nothing, Kinds
<1> QED BY <1>1 DEF Proper, LiveKinds

\* What the client reports of itself concerns no controller.
LEMMA LocalProper == ASSUME NEW kind \in LocalKinds PROVE Local(kind) \in Proper
<1>1. Local(kind) \in Observation /\ Local(kind).kind = kind
  BY LocalType DEF Kinds
<1>2. kind \notin LiveKinds \cup {"SnapshotEntry"}
  BY DEF LocalKinds, LiveKinds
<1> QED BY <1>1, <1>2 DEF Proper

-----------------------------------------------------------------------------
(* The bounded queue *)

\* The queue starts without items and without a loss.
LEMMA EmptyQueueType == EmptyQueue \in ProperQueues
  BY DEF EmptyQueue, ProperQueues, NoLoss

\* What finds no room leaves the items alone.
LEMMA OfferType ==
    ASSUME NEW q \in ProperQueues, NEW o \in Proper, NEW capacity \in Nat
    PROVE  Offer(q, o, capacity) \in ProperQueues
<1>1. q.items \in Seq(Proper) /\ q.loss \in [count : Nat, epoch : Nat]
  BY DEF ProperQueues
<1>2. o.epoch \in Nat
  BY ProperObservation DEF Observation
<1>3. RecordLoss(q, o) \in ProperQueues
  BY <1>1, <1>2 DEF RecordLoss, ProperQueues
<1>4. [q EXCEPT !.items = Append(q.items, o)] \in ProperQueues
  BY <1>1, AppendProperties DEF ProperQueues
<1> QED BY <1>3, <1>4 DEF Offer

\* A report joins the items and clears the loss.
LEMMA ReportLossType ==
    ASSUME NEW q \in ProperQueues, NEW o \in Proper
    PROVE  ReportLoss(q, o) \in ProperQueues
<1>1. Append(q.items, o) \in Seq(Proper)
  BY AppendProperties DEF ProperQueues
<1> QED BY <1>1 DEF ReportLoss, ProperQueues, NoLoss

\* The first item is an observation, and the rest is a queue.
LEMMA DequeueType ==
    ASSUME NEW q \in ProperQueues, q.items # <<>>
    PROVE  /\ Head(q.items) \in Proper
           /\ [q EXCEPT !.items = Tail(q.items)] \in ProperQueues
<1>1. q.items \in Seq(Proper)
  BY DEF ProperQueues
<1>2. Head(q.items) \in Proper /\ Tail(q.items) \in Seq(Proper)
  BY <1>1, HeadTailProperties
<1> QED BY <1>2 DEF ProperQueues

-----------------------------------------------------------------------------
(* The Brain *)

Builds == [active : BOOLEAN, request : Nat, expected : Nat,
           entries : SUBSET Controllers, count : Nat,
           added : SUBSET Controllers, removed : SUBSET Controllers]
Entries == [message : Observation, expired : BOOLEAN]

\* A well-typed Brain whose list in transfer answers its pending request.
Sound(b) ==
    /\ b \in Brains
    /\ b.build.active => b.pending /\ b.build.request = b.request

\* What the fields of a well-typed Brain are.
LEMMA BrainFields ==
    ASSUME NEW b \in Brains
    PROVE  /\ b.build \in Builds /\ b.request \in Nat /\ b.nextRequest \in Nat
           /\ b.deferred \in Seq(Entries) /\ b.list \in SUBSET Controllers
           /\ b.served \in 0 .. MaximumObservations
           /\ b.last \in Nat /\ b.epoch \in Nat /\ b.process \in Nat
           /\ b.callsign \in Callsigns \cup {NoCallsign}
           /\ b.bound \in Callsigns \cup {NoCallsign}
           /\ b.pending \in BOOLEAN /\ b.source \in BOOLEAN
           /\ b.compatible \in BOOLEAN
  BY DEF Brains, Builds, Entries

\* No list is in transfer in NoBuild.
LEMMA NoBuildType == NoBuild \in Builds /\ ~NoBuild.active
  BY DEF NoBuild, Builds

\* What the fields of an observation are.
LEMMA ObservationFields ==
    ASSUME NEW o \in Observation
    PROVE  /\ o.kind \in Kinds /\ o.process \in Nat /\ o.epoch \in Nat
           /\ o.sequence \in Nat /\ o.request \in Nat
           /\ o.callsign \in Callsigns \cup {NoCallsign}
           /\ o.controller \in Controllers \cup {NoController}
           /\ o.listed \in SUBSET Controllers
  BY DEF Observation

\* A Brain starts sound: no request, no transfer.
LEMMA FreshBrainSound == Sound(FreshBrain)
<1>1. NoBuild \in Builds /\ ~NoBuild.active
  BY NoBuildType
<1>2. <<>> \in Seq(Entries)
  OBVIOUS
<1>3. 0 \in 0 .. MaximumObservations
  BY BrainAssumption
<1> QED BY <1>1, <1>2, <1>3 DEF Sound, FreshBrain, Brains, Builds, Entries

\* Requiring recovery abandons the request and the transfer together.
LEMMA MarkSound ==
    ASSUME NEW b, Sound(b)
    PROVE  Sound(MarkRecoveryRequired(b))
  BY NoBuildType, BrainFields, ZenonT(60) DEF Sound, MarkRecoveryRequired,
       Brains, Builds


\* Marking leaves alone everything that is not about a transfer.
LEMMA MarkFrame ==
    ASSUME NEW b \in Brains
    PROVE  LET m == MarkRecoveryRequired(b)
           IN  /\ m.served = b.served /\ m.deferred = b.deferred
               /\ m.nextRequest = b.nextRequest /\ m.last = b.last
               /\ m.process = b.process /\ m.epoch = b.epoch
  BY DEF Brains, MarkRecoveryRequired

\* A source that is gone takes its transfer with it.
LEMMA UnavailableSound ==
    ASSUME NEW b, Sound(b)
    PROVE  Sound(Unavailable(b)) /\ Unavailable(b).served = b.served
<1> DEFINE m == MarkRecoveryRequired(b)
<1>1. Sound(m) /\ m.served = b.served
  BY MarkSound, MarkFrame DEF Sound
<1> HIDE DEF m
<1>2. Sound([m EXCEPT !.complete = FALSE]) /\ [m EXCEPT !.complete = FALSE].served = m.served
  BY <1>1, ZenonT(60) DEF Sound, Brains
<1> QED BY <1>1, <1>2 DEF Unavailable, m

\* A gap in the numbers abandons the transfer, and nothing else touches it.
LEMMA SequenceSound ==
    ASSUME NEW b, Sound(b), NEW o \in Observation
    PROVE  /\ Sound(ObserveSequence(b, o))
           /\ ObserveSequence(b, o).served = b.served
<1> DEFINE m == IF b.last # 0 /\ o.sequence > b.last + 1 THEN MarkRecoveryRequired(b) ELSE b
           n == IF o.sequence > b.last THEN o.sequence ELSE b.last
<1>1. Sound(m) /\ m.served = b.served
  BY MarkSound, MarkFrame DEF Sound
<1>2. n \in Nat
  BY BrainFields, ObservationFields DEF Sound
<1> HIDE DEF m, n
<1>3. Sound([m EXCEPT !.last = n]) /\ [m EXCEPT !.last = n].served = m.served
  BY <1>1, <1>2, ZenonT(60) DEF Sound, Brains
<1> QED BY <1>1, <1>3 DEF ObserveSequence, m, n

\* A Brain with another transfer is sound if the transfer is.
LEMMA WithBuildSound ==
    ASSUME NEW b, Sound(b), NEW build \in Builds,
           build.active => b.pending /\ build.request = b.request
    PROVE  /\ Sound([b EXCEPT !.build = build])
           /\ [b EXCEPT !.build = build].served = b.served
<1> DEFINE c == [b EXCEPT !.build = build]
<1>1. c \in Brains
  BY ZenonT(60) DEF Sound, Brains, Builds
<1>2. c.build = build /\ c.pending = b.pending /\ c.request = b.request /\ c.served = b.served
  BY DEF Sound, Brains
<1> QED BY <1>1, <1>2 DEF Sound

\* A Brain without a transfer is sound if it is well typed.
LEMMA IdleSound ==
    ASSUME NEW b \in Brains, ~b.build.active
    PROVE  Sound(b)
  BY DEF Sound

\* An event during a transfer changes its lists, not its request.
LEMMA ControllerEventSound ==
    ASSUME NEW b, Sound(b), NEW o \in Observation, o.kind \in LiveKinds,
           o.controller \in Controllers
    PROVE  /\ Sound(ApplyControllerEvent(b, o))
           /\ ApplyControllerEvent(b, o).served = b.served
<1> DEFINE list  == (b.list \ Remove(o)) \cup Add(o)
           later == [b.build EXCEPT
                        !.added = (b.build.added \ Remove(o)) \cup Add(o),
                        !.removed = (b.build.removed \ Add(o)) \cup Remove(o)]
           build == IF ~b.build.active THEN b.build ELSE later
           c == [b EXCEPT !.list = list]
<1>1. Add(o) \in SUBSET Controllers /\ Remove(o) \in SUBSET Controllers
  BY DEF Add, Remove
<1>2. b.build \in Builds /\ b.list \in SUBSET Controllers
  BY BrainFields DEF Sound
<1>3. list \in SUBSET Controllers
  BY <1>1, <1>2
<1>4. later \in Builds
  BY <1>1, <1>2 DEF Builds
<1>5. /\ later.active = b.build.active /\ later.request = b.build.request
  BY <1>2 DEF Builds
<1>6. build \in Builds /\ build.active = b.build.active /\ build.request = b.build.request
  BY <1>2, <1>4, <1>5
<1> HIDE DEF list, build, later
<1>7. c \in Brains
  BY <1>3, ZenonT(60) DEF Sound, Brains
<1>8. /\ c.build = b.build /\ c.pending = b.pending
      /\ c.request = b.request /\ c.served = b.served
  BY DEF Sound, Brains
<1>9. Sound(c)
  BY <1>7, <1>8 DEF Sound
<1>10. build.active => c.pending /\ build.request = c.request
  BY <1>6, <1>8 DEF Sound
<1> HIDE DEF c
<1>11. Sound([c EXCEPT !.build = build]) /\ [c EXCEPT !.build = build].served = c.served
  BY <1>6, <1>9, <1>10, WithBuildSound
<1>12. ApplyControllerEvent(b, o) = [c EXCEPT !.build = build]
  BY DEF ApplyControllerEvent, c, list, build, later, Sound, Brains
<1> QED BY <1>8, <1>11, <1>12

\* A transfer begins only as the answer to the pending request.
LEMMA BeginSnapshotSound ==
    ASSUME NEW b, Sound(b), NEW o \in Observation
    PROVE  Sound(BeginSnapshot(b, o)) /\ BeginSnapshot(b, o).served = b.served
<1> DEFINE build == [NoBuild EXCEPT !.active = TRUE, !.request = o.request,
                                    !.expected = Cardinality(o.listed)]
<1>1. Cardinality(o.listed) \in Nat /\ o.request \in Nat
  BY ListIsFinite, ObservationFields
<1>2. build \in Builds /\ build.request = o.request
  BY <1>1, NoBuildType DEF Builds, NoBuild
<1> HIDE DEF build
<1> QED BY <1>2, WithBuildSound DEF BeginSnapshot, build

\* An entry joins the transfer it belongs to.
LEMMA SnapshotEntrySound ==
    ASSUME NEW b, Sound(b), NEW o \in Observation, o.controller \in Controllers
    PROVE  Sound(AddSnapshotEntry(b, o)) /\ AddSnapshotEntry(b, o).served = b.served
<1> DEFINE entries == b.build.entries \cup {o.controller}
           count == b.build.count + 1
           build == [b.build EXCEPT !.entries = entries, !.count = count]
<1>0. b.build \in Builds
  BY BrainFields DEF Sound
<1>1. entries \in SUBSET Controllers /\ count \in Nat
  BY <1>0 DEF Builds
<1> HIDE DEF entries, count
<1>2. build \in Builds
  BY <1>0, <1>1, Zenon DEF Builds
<1>5. build.request = b.build.request /\ build.active = b.build.active
  BY <1>0 DEF Builds
<1> HIDE DEF build
<1>3. build.active => b.pending /\ build.request = b.request
  BY <1>5 DEF Sound
<1>4. Sound([b EXCEPT !.build = build]) /\ [b EXCEPT !.build = build].served = b.served
  BY <1>2, <1>3, WithBuildSound
<1> QED BY <1>4 DEF AddSnapshotEntry, build, entries, count

\* The end of a transfer is the end of its request, or abandons both.
LEMMA CompleteSnapshotSound ==
    ASSUME NEW b, Sound(b), NEW o \in Observation
    PROVE  Sound(CompleteSnapshot(b, o)) /\ CompleteSnapshot(b, o).served = b.served
<1> DEFINE idle == [b EXCEPT !.build = NoBuild, !.pending = FALSE, !.request = 0]
           full == [idle EXCEPT !.list = FinalList(b.build), !.complete = TRUE,
                                !.recovery = FALSE]
<1>1. Sound(MarkRecoveryRequired(b)) /\ MarkRecoveryRequired(b).served = b.served
  BY MarkSound, MarkFrame DEF Sound
<1>2. idle \in Brains
  BY NoBuildType, ZenonT(60) DEF Sound, Brains, Builds
<1>3. idle.build = NoBuild /\ idle.served = b.served
  BY DEF Sound, Brains
<1>4. FinalList(b.build) \in SUBSET Controllers
  BY BrainFields DEF FinalList, Sound, Builds
<1> HIDE DEF idle
<1>5. full \in Brains
  BY <1>2, <1>4, ZenonT(60) DEF Brains
<1>6. full.build = NoBuild /\ full.served = b.served
  BY <1>2, <1>3 DEF Brains
<1> HIDE DEF full
<1>7. Sound(idle) /\ Sound(full)
  BY <1>2, <1>3, <1>5, <1>6, NoBuildType, IdleSound
<1>8. CompleteSnapshot(b, o) \in {MarkRecoveryRequired(b), idle, full}
  BY DEF CompleteSnapshot, idle, full
<1> QED BY <1>1, <1>3, <1>6, <1>7, <1>8

\* With the transport go the transfer and the deferred messages.
LEMMA LoseTransportSound ==
    ASSUME NEW b, Sound(b)
    PROVE  Sound(LoseTransport(b)) /\ LoseTransport(b).served = b.served
<1> DEFINE u == Unavailable(b)
           lost == [u EXCEPT !.transport = FALSE, !.source = FALSE,
                             !.network = FALSE, !.deferred = <<>>]
<1>1. Sound(u) /\ u.served = b.served
  BY UnavailableSound
<1>2. <<>> \in Seq(Entries)
  OBVIOUS
<1> HIDE DEF u
<1>3. lost \in Brains
  BY <1>1, <1>2, ZenonT(60) DEF Sound, Brains, Entries
<1>4. /\ lost.build = u.build /\ lost.pending = u.pending
      /\ lost.request = u.request /\ lost.served = u.served
  BY <1>1 DEF Sound, Brains
<1> QED BY <1>1, <1>3, <1>4 DEF LoseTransport, u, Sound

\* A greeting keeps the transfer of the same process and drops that of another.
LEMMA HelloSound ==
    ASSUME NEW b, Sound(b), NEW o \in Observation
    PROVE  Sound(Hello(b, o)) /\ Hello(b, o).served = b.served
<1> DEFINE last == LastAfterHello(b, o)
           greeted == [b EXCEPT !.process = o.process, !.epoch = o.epoch,
                                !.compatible = TRUE, !.last = last]
           u == Unavailable(greeted)
           dropped == [u EXCEPT !.deferred = <<>>]
<1>1. last \in Nat
  BY BrainFields DEF LastAfterHello, Sound
<1>2. o.process \in Nat /\ o.epoch \in Nat
  BY ObservationFields
<1> HIDE DEF last
<1>3. greeted \in Brains
  BY <1>1, <1>2, ZenonT(60) DEF Sound, Brains
<1>4. /\ greeted.build = b.build /\ greeted.pending = b.pending
      /\ greeted.request = b.request /\ greeted.served = b.served
  BY DEF Sound, Brains
<1>5. Sound(greeted)
  BY <1>3, <1>4 DEF Sound
<1> HIDE DEF greeted
<1>6. Sound(u) /\ u.served = b.served
  BY <1>4, <1>5, UnavailableSound
<1>7. <<>> \in Seq(Entries)
  OBVIOUS
<1> HIDE DEF u
<1>8. dropped \in Brains
  BY <1>6, <1>7, ZenonT(60) DEF Sound, Brains, Entries
<1>9. /\ dropped.build = u.build /\ dropped.pending = u.pending
      /\ dropped.request = u.request /\ dropped.served = u.served
  BY <1>6 DEF Sound, Brains
<1>10. Sound(dropped)
  BY <1>6, <1>8, <1>9 DEF Sound
<1> QED BY <1>4, <1>5, <1>6, <1>9, <1>10 DEF Hello, greeted, dropped, u, last

\* A change of connection abandons the transfer.
LEMMA ConnectionSound ==
    ASSUME NEW b, Sound(b), NEW o \in Observation
    PROVE  Sound(ChangeConnection(b, o)) /\ ChangeConnection(b, o).served = b.served
<1> DEFINE connected == o.callsign # NoCallsign
           kept == IF ~connected \/ (b.epoch # 0 /\ b.epoch # o.epoch)
                   THEN <<>> ELSE b.deferred
           m == MarkRecoveryRequired(b)
           now == [m EXCEPT !.epoch = o.epoch, !.network = connected,
                            !.callsign = o.callsign, !.deferred = kept]
<1>1. kept \in Seq(Entries)
  BY BrainFields DEF Sound
<1>2. /\ o.epoch \in Nat /\ o.callsign \in Callsigns \cup {NoCallsign}
      /\ connected \in BOOLEAN
  BY ObservationFields
<1>3. Sound(m) /\ m.served = b.served
  BY MarkSound, MarkFrame DEF Sound
<1> HIDE DEF connected, kept, m
<1>4. now \in Brains
  BY <1>1, <1>2, <1>3, ZenonT(60) DEF Sound, Brains, Entries
<1>5. /\ now.build = m.build /\ now.pending = m.pending
      /\ now.request = m.request /\ now.served = m.served
  BY <1>3 DEF Sound, Brains
<1>6. Sound(now)
  BY <1>3, <1>4, <1>5 DEF Sound
<1> HIDE DEF now
<1>7. Sound(Unavailable(now)) /\ Unavailable(now).served = now.served
  BY <1>6, UnavailableSound
<1>8. ChangeConnection(b, o) = IF connected THEN now ELSE Unavailable(now)
  BY DEF ChangeConnection, connected, kept, m, now
<1> QED BY <1>3, <1>5, <1>6, <1>7, <1>8

\* Whatever is observed, a sound Brain stays sound.
LEMMA ObserveSound ==
    ASSUME NEW b, Sound(b), NEW o \in Proper
    PROVE  Sound(Observe(b, o)) /\ Observe(b, o).served = b.served
<1> DEFINE up == [b EXCEPT !.transport = TRUE]
           available == [b EXCEPT !.source = b.compatible]
<1>1. o \in Observation
  BY ProperObservation
<1>2. Sound(up) /\ up.served = b.served
  BY ZenonT(60) DEF Sound, Brains
<1>3. b.compatible \in BOOLEAN
  BY BrainFields DEF Sound
<1>4. Sound(available) /\ available.served = b.served
  BY <1>3, ZenonT(60) DEF Sound, Brains
<1>5. o.kind \in LiveKinds => /\ Sound(ApplyControllerEvent(b, o))
                              /\ ApplyControllerEvent(b, o).served = b.served
  BY <1>1, ControllerEventSound DEF Proper
<1>6. o.kind = "SnapshotEntry" => /\ Sound(AddSnapshotEntry(b, o))
                                  /\ AddSnapshotEntry(b, o).served = b.served
  BY <1>1, SnapshotEntrySound DEF Proper
<1>7. Sound(MarkRecoveryRequired(b)) /\ MarkRecoveryRequired(b).served = b.served
  BY MarkSound, MarkFrame DEF Sound
<1> HIDE DEF up, available
<1>8. \/ Observe(b, o) \in {up, available, LoseTransport(b), Hello(b, o),
                            ChangeConnection(b, o), BeginSnapshot(b, o),
                            CompleteSnapshot(b, o), MarkRecoveryRequired(b)}
      \/ o.kind = "SnapshotEntry" /\ Observe(b, o) = AddSnapshotEntry(b, o)
      \/ o.kind \in LiveKinds /\ Observe(b, o) = ApplyControllerEvent(b, o)
  <2>1. CASE o.kind \in LiveKinds
    BY <2>1 DEF Observe, LiveKinds
  <2>2. CASE o.kind = "SnapshotEntry"
    BY <2>2 DEF Observe
  <2>3. CASE o.kind \in {"TransportConnected", "SourceAvailable"}
    BY <2>3 DEF Observe, up, available
  <2>4. CASE o.kind \in {"TransportDisconnected", "SessionEnded", "Hello",
                         "ConnectionStateChanged"}
    BY <2>4 DEF Observe
  <2>5. CASE o.kind \in {"SnapshotStarted", "SnapshotCompleted"}
    BY <2>5 DEF Observe
  <2>6. CASE /\ o.kind \notin LiveKinds
             /\ o.kind \notin {"SnapshotEntry", "TransportConnected", "SourceAvailable",
                               "TransportDisconnected", "SessionEnded", "Hello",
                               "ConnectionStateChanged", "SnapshotStarted",
                               "SnapshotCompleted"}
    BY <2>6 DEF Observe
  <2> QED BY <2>1, <2>2, <2>3, <2>4, <2>5, <2>6
<1>9. /\ Sound(LoseTransport(b)) /\ LoseTransport(b).served = b.served
      /\ Sound(Hello(b, o)) /\ Hello(b, o).served = b.served
      /\ Sound(ChangeConnection(b, o)) /\ ChangeConnection(b, o).served = b.served
      /\ Sound(BeginSnapshot(b, o)) /\ BeginSnapshot(b, o).served = b.served
      /\ Sound(CompleteSnapshot(b, o)) /\ CompleteSnapshot(b, o).served = b.served
  BY <1>1, LoseTransportSound, HelloSound, ConnectionSound, BeginSnapshotSound,
     CompleteSnapshotSound
<1> HIDE DEF Sound, Observe
<1> QED BY ONLY <1>2, <1>4, <1>5, <1>6, <1>7, <1>8, <1>9

-----------------------------------------------------------------------------
(* Private messages and the service call *)

BrainInv == /\ Sound(brain)
            /\ inbox \in Seq(Observation)
            /\ flight \in Callsigns \cup {NoCallsign}

\* The deferred messages have nothing to do with the transfer.
LEMMA WithDeferredSound ==
    ASSUME NEW b, Sound(b), NEW d \in Seq(Entries)
    PROVE  Sound([b EXCEPT !.deferred = d])
<1> DEFINE c == [b EXCEPT !.deferred = d]
<1>1. c \in Brains
  BY ZenonT(60) DEF Sound, Brains, Entries
<1>2. c.build = b.build /\ c.pending = b.pending /\ c.request = b.request
  BY DEF Sound, Brains
<1> QED BY <1>1, <1>2 DEF Sound

\* Admission adds to the inbox and binds the flight.
LEMMA AdmitSound ==
    ASSUME NEW b, Sound(b), NEW messages \in Seq(Observation), BrainInv,
           Admit(b, messages)
    PROVE  Sound(brain') /\ inbox' \in Seq(Observation)
<1>1. InboxOfFlight(b) \in Seq(Observation)
  BY DEF InboxOfFlight, BrainInv
<1>2. inbox' \in Seq(Observation)
  BY <1>1, ConcatProperties DEF Admit
<1> DEFINE c == [b EXCEPT !.bound = flight]
<1>3. c \in Brains
  BY ZenonT(60) DEF Sound, Brains, BrainInv
<1>4. c.build = b.build /\ c.pending = b.pending /\ c.request = b.request
  BY DEF Sound, Brains
<1> QED BY <1>2, <1>3, <1>4 DEF Sound, Admit

\* A deferred message pushes out the oldest when there is no room.
LEMMA DeferSound ==
    ASSUME NEW b, Sound(b), NEW o \in Observation
    PROVE  Sound(Defer(b, o))
<1> DEFINE entry == [message |-> o, expired |-> FALSE]
           kept  == IF Len(b.deferred) >= MaximumDeferred THEN Tail(b.deferred)
                    ELSE b.deferred
<1>1. b.deferred \in Seq(Entries) /\ entry \in Entries
  BY BrainFields DEF Sound, Entries
<1>2. Len(b.deferred) >= MaximumDeferred => b.deferred # <<>>
  BY <1>1, BrainAssumption
<1>3. kept \in Seq(Entries)
  BY <1>1, <1>2, HeadTailProperties
<1> HIDE DEF kept, entry
<1>4. Append(kept, entry) \in Seq(Entries)
  BY <1>1, <1>3, AppendProperties
<1> QED BY <1>4, WithDeferredSound DEF Defer, kept, entry

\* A message is admitted, deferred or rejected.
LEMMA EvaluateSound ==
    ASSUME NEW b, Sound(b), NEW o \in Observation, BrainInv, EvaluateMessage(b, o)
    PROVE  Sound(brain') /\ inbox' \in Seq(Observation)
<1>1. CASE MatchesSession(b, o) /\ FlightReady(b)
  <2>1. Admit(b, <<o>>) /\ <<o>> \in Seq(Observation)
    BY <1>1 DEF EvaluateMessage
  <2> QED BY <2>1, AdmitSound
<1>2. CASE ~(MatchesSession(b, o) /\ FlightReady(b))
  <2>1. brain' = (IF MatchesSession(b, o) THEN Defer(b, o) ELSE b) /\ inbox' = inbox
    BY <1>2 DEF EvaluateMessage
  <2>2. Sound(Defer(b, o))
    BY DeferSound
  <2> QED BY <2>1, <2>2 DEF BrainInv
<1> QED BY <1>1, <1>2

\* What is left of the deferred messages is a sequence of them.
LEMMA AliveType ==
    ASSUME NEW b \in Brains
    PROVE  AliveDeferred(b) \in Seq(Entries)
<1> DEFINE dead == {i \in DOMAIN b.deferred : \A j \in 1 .. i : ~Alive(b, b.deferred[j])}
<1>1. b.deferred \in Seq(Entries)
  BY BrainFields
<1>2. DOMAIN b.deferred = 1 .. Len(b.deferred) /\ Len(b.deferred) \in Nat
  BY <1>1, LenProperties
<1>3. IsFiniteSet(1 .. Len(b.deferred)) /\ dead \subseteq 1 .. Len(b.deferred)
  BY <1>2, FS_Interval
<1>4. IsFiniteSet(dead)
  BY <1>3, FS_Subset
<1> DEFINE n == Cardinality(dead)
<1>5. n \in Nat
  BY <1>4, FS_CardinalityType
<1>6. AliveDeferred(b) = SubSeq(b.deferred, n + 1, Len(b.deferred))
  BY DEF AliveDeferred
<1> HIDE DEF n, dead
<1>7. \A i \in n + 1 .. Len(b.deferred) : b.deferred[i] \in Entries
  <2> TAKE i \in n + 1 .. Len(b.deferred)
  <2>1. i \in 1 .. Len(b.deferred)
    BY <1>2, <1>5
  <2> QED BY <1>1, <2>1, ElementOfSeq
<1>8. n + 1 \in Int /\ Len(b.deferred) \in Int
  BY <1>2, <1>5
<1>9. SubSeq(b.deferred, n + 1, Len(b.deferred)) \in Seq(Entries)
  BY ONLY <1>7, <1>8, SubSeqProperties
<1> QED BY <1>6, <1>9

\* Deferred messages are admitted together or stay.
LEMMA ReevaluateSound ==
    ASSUME NEW b, Sound(b), BrainInv, ReevaluateDeferred(b)
    PROVE  Sound(brain') /\ inbox' \in Seq(Observation)
<1> DEFINE alive == AliveDeferred(b)
           messages == [i \in DOMAIN alive |-> alive[i].message]
<1>1. alive \in Seq(Entries)
  BY AliveType DEF Sound
<1>2. DOMAIN alive = 1 .. Len(alive) /\ Len(alive) \in Nat
  BY <1>1, LenProperties
<1>3. \A i \in DOMAIN alive : alive[i].message \in Observation
  <2> HIDE DEF alive
  <2> TAKE i \in DOMAIN alive
  <2>1. alive[i] \in Entries
    BY <1>1, <1>2, ElementOfSeq
  <2> QED BY <2>1 DEF Entries
<1>4. messages \in Seq(Observation)
  BY <1>2, <1>3, SeqDef
<1>5. CASE alive # <<>> /\ FlightReady(b)
  <2> <<>> \in Seq(Entries)
    OBVIOUS
  <2>1. Sound(NoneDeferred(b))
    BY WithDeferredSound DEF NoneDeferred
  <2>2. Admit(NoneDeferred(b), messages)
    BY <1>5 DEF ReevaluateDeferred
  <2> HIDE DEF messages
  <2> QED BY <1>4, <2>1, <2>2, AdmitSound
<1>6. CASE ~(alive # <<>> /\ FlightReady(b))
  <2>1. brain' = [b EXCEPT !.deferred = alive] /\ inbox' = inbox
    BY <1>6 DEF ReevaluateDeferred
  <2> HIDE DEF alive
  <2> QED BY <1>1, <2>1, WithDeferredSound DEF BrainInv
<1> QED BY <1>5, <1>6

\* The count of a service call has nothing to do with the transfer.
LEMMA WithServedSound ==
    ASSUME NEW b, Sound(b), NEW n \in 0 .. MaximumObservations
    PROVE  Sound([b EXCEPT !.served = n])
<1> DEFINE c == [b EXCEPT !.served = n]
<1>1. c \in Brains
  BY ZenonT(60) DEF Sound, Brains
<1>2. c.build = b.build /\ c.pending = b.pending /\ c.request = b.request
  BY DEF Sound, Brains
<1> QED BY <1>1, <1>2 DEF Sound

\* One observation leaves the Brain sound.
LEMMA ConsumeStep ==
    ASSUME BrainInv, NEW o \in Proper, Consume(o)
    PROVE  BrainInv'
<1> DEFINE n == brain.served + 1
           b == [brain EXCEPT !.served = n]
           seen == ObserveSequence(b, o)
<1>1. brain.served \in 0 .. MaximumObservations /\ brain.served < MaximumObservations
  BY BrainFields DEF BrainInv, Sound, Consume, HasShare
<1>2. n \in 0 .. MaximumObservations
  BY <1>1, BrainAssumption
<1> HIDE DEF n
<1>3. Sound(b)
  BY <1>2, WithServedSound DEF BrainInv
<1>4. b = [brain EXCEPT !.served = @ + 1]
  BY DEF n
<1> HIDE DEF b
<1>5. o \in Observation
  BY ProperObservation
<1>6. Sound(seen)
  BY <1>3, <1>5, SequenceSound
<1> HIDE DEF seen
<1>7. Sound(Observe(seen, o))
  BY <1>6, ObserveSound
<1>8. /\ IF ~Belongs(b, o) \/ IsStale(b, o) THEN brain' = b /\ UNCHANGED inbox
         ELSE IF o.kind = "IncomingPrivateMessage" THEN EvaluateMessage(seen, o)
         ELSE brain' = Observe(seen, o) /\ UNCHANGED inbox
      /\ flight' = flight
  BY <1>4 DEF Consume, seen
<1>9. EvaluateMessage(seen, o) => Sound(brain') /\ inbox' \in Seq(Observation)
  BY <1>5, <1>6, EvaluateSound
<1> HIDE DEF Sound
<1> QED BY <1>3, <1>7, <1>8, <1>9 DEF BrainInv

\* A request is made only when no list is in transfer.
LEMMA RequestedSound ==
    ASSUME NEW b, Sound(b), ~b.build.active
    PROVE  Sound(Requested(b))
<1> DEFINE m == b.nextRequest + 1
           c == [b EXCEPT !.pending = TRUE, !.request = b.nextRequest, !.nextRequest = m]
<1>1. b.nextRequest \in Nat /\ m \in Nat
  BY BrainFields DEF Sound
<1> HIDE DEF m
<1>2. c \in Brains
  BY <1>1, ZenonT(60) DEF Sound, Brains
<1>3. c.build = b.build
  BY DEF Sound, Brains
<1>4. Sound(c)
  BY <1>2, <1>3, IdleSound
<1> QED BY <1>4 DEF Requested, m

\* The end of a service call leaves the Brain sound.
LEMMA EndServiceStep ==
    ASSUME BrainInv, NEW late \in BOOLEAN, NEW room \in BOOLEAN, EndService(late, room)
    PROVE  BrainInv'
<1> DEFINE ended == [brain EXCEPT !.served = 0]
           timed == TimeOut(ended, late)
           asked == IF NeedsSnapshot(timed) /\ room THEN Requested(timed) ELSE timed
<1>1. Sound(ended)
  BY WithServedSound, BrainAssumption DEF BrainInv
<1> HIDE DEF ended
<1>2. Sound(timed)
  BY <1>1, MarkSound DEF TimeOut
<1> HIDE DEF timed
<1>3. Sound(asked)
  BY <1>2, RequestedSound DEF NeedsSnapshot
<1>4. ReevaluateDeferred(asked) /\ flight' = flight
  BY DEF EndService, asked, timed, ended
<1> HIDE DEF asked
<1>5. Sound(brain') /\ inbox' \in Seq(Observation)
  BY <1>3, <1>4, ReevaluateSound
<1> QED BY <1>4, <1>5 DEF BrainInv

\* Age changes deferred messages only.
LEMMA ExpireStep ==
    ASSUME BrainInv, ExpireDeferred
    PROVE  BrainInv'
<1> DEFINE d == [i \in DOMAIN brain.deferred |-> [brain.deferred[i] EXCEPT !.expired = TRUE]]
<1>1. brain.deferred \in Seq(Entries)
  BY BrainFields DEF BrainInv, Sound
<1>2. DOMAIN brain.deferred = 1 .. Len(brain.deferred) /\ Len(brain.deferred) \in Nat
  BY <1>1, LenProperties
<1>3. \A i \in DOMAIN brain.deferred : [brain.deferred[i] EXCEPT !.expired = TRUE] \in Entries
  <2> TAKE i \in DOMAIN brain.deferred
  <2>1. brain.deferred[i] \in Entries
    BY <1>1, <1>2, ElementOfSeq
  <2> QED BY <2>1 DEF Entries
<1>4. d \in Seq(Entries)
  BY <1>2, <1>3, SeqDef
<1>5. brain' = [brain EXCEPT !.deferred = d] /\ inbox' = inbox /\ flight' = flight
  BY DEF ExpireDeferred
<1> HIDE DEF d
<1> QED BY <1>4, <1>5, WithDeferredSound DEF BrainInv

-----------------------------------------------------------------------------
(* The companion *)

XPilots == [process : Nat, session : BOOLEAN, callsign : Callsigns \cup {NoCallsign},
            controllers : SUBSET Controllers]
Phases  == {"None", "Started", "Entry", "Completed", "Failed"}
Answers == [phase : Phases, request : Nat,
            listed : SUBSET Controllers, left : SUBSET Controllers]
Runners == {"Closed", "Listening", "Greeting", "Connected", "Stopped"}
Companions ==
    [sequence : Nat, epoch : Nat, held : Proper, taken : Proper, queue : ProperQueues,
     runner : Runners, answer : Answers, stopping : BOOLEAN,
     raced : SUBSET (Controllers \cup {NoController})]
Pipes  == [live : BOOLEAN, toBrain : Seq(Proper), toCompanion : Seq(Nat)]
Spents == [messages : 0 .. MaxMessages, changes : 0 .. MaxChanges,
           connections : 0 .. MaxConnections, flights : 0 .. MaxFlights,
           disturbances : 0 .. MaxDisturbances]

\* An entry is numbered only while a controller is left to be listed.
AnswerInv(c) ==
    c.answer.phase = "Entry" /\ c.taken = Nothing => c.answer.left # {}

CompanionInv ==
    /\ xpilot \in XPilots
    /\ companion \in Companions /\ AnswerInv(companion)
    /\ pipe \in Pipes
    /\ spent \in Spents

\* What the fields of a well-typed companion are.
LEMMA CompanionFields ==
    ASSUME NEW c \in Companions
    PROVE  /\ c.sequence \in Nat /\ c.epoch \in Nat /\ c.held \in Proper
           /\ c.taken \in Proper /\ c.queue \in ProperQueues /\ c.answer \in Answers
           /\ c.runner \in Runners /\ c.stopping \in BOOLEAN
           /\ c.raced \in SUBSET (Controllers \cup {NoController})
  BY DEF Companions

\* The bounds of an instance are numbers.
LEMMA Bounds ==
    /\ MaxMessages \in Nat /\ MaxChanges \in Nat /\ MaxConnections \in Nat
    /\ MaxFlights \in Nat /\ MaxDisturbances \in Nat /\ QueueCapacity \in Nat
  BY CompanionAssumption

\* Every count of bounded events is within its bound.
LEMMA SpentFields ==
    ASSUME spent \in Spents
    PROVE  /\ spent.messages \in 0 .. MaxMessages /\ spent.changes \in 0 .. MaxChanges
           /\ spent.connections \in 0 .. MaxConnections
           /\ spent.flights \in 0 .. MaxFlights
           /\ spent.disturbances \in 0 .. MaxDisturbances
  BY DEF Spents

\* A count below its bound may grow by one.
LEMMA CountUp ==
    ASSUME NEW most \in Nat, NEW n \in 0 .. most, n < most
    PROVE  n + 1 \in 0 .. most
  OBVIOUS

\* A disturbance is counted within its bound.
LEMMA DisturbedType ==
    ASSUME spent \in Spents, NEW fault, Disturbed(fault)
    PROVE  spent' \in Spents
<1> DEFINE n == spent.disturbances + 1
<1>1. n \in 0 .. MaxDisturbances
  BY Bounds, SpentFields, CountUp DEF Disturbed
<1>2. spent' = [spent EXCEPT !.disturbances = n]
  BY DEF Disturbed
<1> HIDE DEF n
<1> QED BY <1>1, <1>2, ZenonT(60) DEF Spents

\* A numbered observation of a known kind is an observation.
LEMMA NumberedType ==
    ASSUME NEW process \in Nat, NEW sequence \in Nat, NEW epoch \in Nat,
           NEW c, c.sequence = sequence, c.epoch = epoch, NEW kind \in Kinds
    PROVE  LET o == NumberedIn(process, c, kind)
           IN  o \in Observation /\ o.kind = kind /\ o.sequence = sequence + 1
               /\ o.epoch = epoch
<1> DEFINE n == sequence + 1
<1>1. n \in Nat
  OBVIOUS
<1>2. NumberedIn(process, c, kind) =
        [Local(kind) EXCEPT !.process = process, !.epoch = epoch, !.sequence = n]
  BY DEF NumberedIn
<1>3. Local(kind) \in Observation /\ Local(kind).kind = kind
  BY LocalType
<1> HIDE DEF n
<1>4. NumberedIn(process, c, kind) \in Observation
  BY <1>1, <1>2, <1>3, ZenonT(60) DEF Observation
<1>5. /\ NumberedIn(process, c, kind).kind = kind
      /\ NumberedIn(process, c, kind).sequence = n
      /\ NumberedIn(process, c, kind).epoch = epoch
  BY <1>2 DEF Local
<1> QED BY <1>4, <1>5 DEF n

\* A new observation carries the companion's epoch and the next number.
LEMMA NewObservationType ==
    ASSUME CompanionInv, NEW kind \in Kinds
    PROVE  LET o == NewObservation(kind)
           IN  /\ o \in Observation /\ o.kind = kind
               /\ o.sequence = companion.sequence + 1 /\ o.epoch = companion.epoch
<1>1. /\ xpilot.process \in Nat /\ companion.sequence \in Nat
      /\ companion.epoch \in Nat
  BY CompanionFields DEF CompanionInv, XPilots
<1> QED BY <1>1, NumberedType DEF NewObservation

\* What is neither of a controller nor an entry is proper.
LEMMA OtherKindProper ==
    ASSUME NEW o \in Observation, o.kind \notin LiveKinds \cup {"SnapshotEntry"}
    PROVE  o \in Proper
  BY DEF Proper

\* A handler that raises a proper observation leaves the companion well typed.
LEMMA RaiseType ==
    ASSUME CompanionInv, NEW o \in Proper, Raise(o)
    PROVE  companion' \in Companions /\ AnswerInv(companion')
<1> DEFINE c == [companion EXCEPT !.sequence = o.sequence, !.epoch = o.epoch, !.held = o]
<1>1. o.sequence \in Nat /\ o.epoch \in Nat
  BY ProperObservation, ObservationFields
<1>2. c \in Companions
  BY <1>1, ZenonT(60) DEF CompanionInv, Companions
<1>3. c.answer = companion.answer /\ c.taken = companion.taken
  BY DEF CompanionInv, Companions
<1> QED BY <1>2, <1>3 DEF Raise, AnswerInv, CompanionInv

\* A report of losses leaves the answer alone and takes nothing out.
LEMMA MaterializeType ==
    ASSUME NEW c \in Companions, AnswerInv(c), xpilot \in XPilots
    PROVE  /\ MaterializeLoss(c) \in Companions /\ AnswerInv(MaterializeLoss(c))
           /\ c.queue.items # <<>> => MaterializeLoss(c).queue.items # <<>>
<1> DEFINE base == NumberedIn(xpilot.process, c, "CapacityLoss")
           report == [base EXCEPT !.epoch = c.queue.loss.epoch]
           queue == ReportLoss(c.queue, report)
           d == [c EXCEPT !.sequence = report.sequence, !.queue = queue]
<1>1. xpilot.process \in Nat /\ c.sequence \in Nat /\ c.epoch \in Nat
  BY CompanionFields DEF XPilots
<1>2. base \in Observation /\ base.kind = "CapacityLoss"
  BY <1>1, NumberedType DEF Kinds
<1>3. c.queue \in ProperQueues /\ c.queue.loss.epoch \in Nat
  BY CompanionFields DEF ProperQueues
<1> HIDE DEF base
<1>4. report \in Observation /\ report.kind = "CapacityLoss"
  BY <1>2, <1>3 DEF Observation
<1>5. report \in Proper /\ report.sequence \in Nat
  BY <1>4, OtherKindProper, ObservationFields DEF LiveKinds
<1> HIDE DEF report
<1>6. queue \in ProperQueues /\ queue.items # <<>>
  <2>1. queue \in ProperQueues
    BY <1>3, <1>5, ReportLossType
  <2>2. queue.items = Append(c.queue.items, report) /\ c.queue.items \in Seq(Proper)
    BY <1>3 DEF ReportLoss, ProperQueues
  <2>3. queue.items # <<>>
    BY <1>5, <2>2, AppendProperties
  <2> QED BY <2>1, <2>3
<1> HIDE DEF queue
<1>7. d \in Companions
  BY <1>5, <1>6, ZenonT(60) DEF Companions
<1>8. d.answer = c.answer /\ d.taken = c.taken /\ d.queue = queue
  BY DEF Companions
<1>9. MaterializeLoss(c) = IF ~LossIsDue(c.queue, QueueCapacity) THEN c ELSE d
  BY DEF MaterializeLoss, d, queue, report, base
<1> HIDE DEF d
<1> QED BY <1>6, <1>7, <1>8, <1>9 DEF AnswerInv

-----------------------------------------------------------------------------
(* Steps of the companion *)

\* The UI thread queues what it has numbered.
LEMMA CaptureHeldStep == ASSUME CompanionInv, CaptureHeld PROVE CompanionInv'
<1> DEFINE queue == Offer(companion.queue, companion.held, QueueCapacity)
           stopping == companion.stopping \/ companion.held.kind = "SessionEnded"
           raced == IF companion.answer.phase = "Started"
                    THEN companion.raced \cup {companion.held.controller}
                    ELSE companion.raced
           c == [companion EXCEPT !.queue = queue, !.stopping = stopping,
                                  !.raced = raced, !.held = Nothing]
<1>1. /\ companion.queue \in ProperQueues /\ companion.held \in Proper
      /\ companion.held.controller \in Controllers \cup {NoController}
      /\ companion.raced \in SUBSET (Controllers \cup {NoController})
      /\ companion.stopping \in BOOLEAN
  BY CompanionFields, ProperObservation, ObservationFields DEF CompanionInv
<1>2. queue \in ProperQueues
  BY <1>1, OfferType, CompanionAssumption
<1>3. raced \in SUBSET (Controllers \cup {NoController}) /\ stopping \in BOOLEAN
  BY <1>1
<1>4. companion' = c
  BY DEF CaptureHeld
<1> HIDE DEF queue, raced, stopping
<1>5. c \in Companions
  BY <1>2, <1>3, NothingProper, ZenonT(60) DEF CompanionInv, Companions
<1>6. c.answer = companion.answer /\ c.taken = companion.taken
  BY DEF CompanionInv, Companions
<1> QED BY <1>4, <1>5, <1>6 DEF CaptureHeld, CompanionInv, AnswerInv

\* The pilot connects under a callsign.
LEMMA ConnectedStep ==
    ASSUME CompanionInv, NEW callsign \in Callsigns, NetworkConnected(callsign)
    PROVE  CompanionInv'
<1> DEFINE base == NewObservation("ConnectionStateChanged")
           epoch == companion.epoch + 1
           o == [base EXCEPT !.epoch = epoch, !.callsign = callsign]
           n == spent.connections + 1
<1>1. base \in Observation /\ base.kind = "ConnectionStateChanged"
  BY NewObservationType DEF Kinds
<1>2. epoch \in Nat
  BY CompanionFields DEF CompanionInv
<1>3. n \in 0 .. MaxConnections
  BY Bounds, SpentFields, CountUp DEF NetworkConnected, CompanionInv
<1>4. /\ Raise(o) /\ xpilot' = [xpilot EXCEPT !.callsign = callsign]
      /\ spent' = [spent EXCEPT !.connections = n] /\ pipe' = pipe
  BY DEF NetworkConnected
<1> HIDE DEF base, epoch, n
<1>5. o \in Observation /\ o.kind = base.kind
  BY <1>1, <1>2 DEF Observation
<1>6. o \in Proper
  BY <1>1, <1>5, OtherKindProper DEF LiveKinds
<1> HIDE DEF o
<1>7. companion' \in Companions /\ AnswerInv(companion')
  BY <1>4, <1>6, RaiseType
<1>8. xpilot' \in XPilots /\ spent' \in Spents
  BY <1>3, <1>4, ZenonT(60) DEF CompanionInv, XPilots, Spents
<1> QED BY <1>4, <1>7, <1>8 DEF CompanionInv

\* The pilot disconnects, and xPilot shows no controller.
LEMMA DisconnectedStep == ASSUME CompanionInv, NetworkDisconnected PROVE CompanionInv'
<1> DEFINE o == NewObservation("ConnectionStateChanged")
<1>1. o \in Observation /\ o.kind = "ConnectionStateChanged"
  BY NewObservationType DEF Kinds
<1>2. Raise(o) /\ UNCHANGED <<pipe, spent>>
      /\ xpilot' = [xpilot EXCEPT !.callsign = NoCallsign, !.controllers = {}]
  BY DEF NetworkDisconnected
<1> HIDE DEF o
<1>3. o \in Proper
  BY <1>1, OtherKindProper DEF LiveKinds
<1>4. companion' \in Companions /\ AnswerInv(companion')
  BY <1>2, <1>3, RaiseType
<1>5. xpilot' \in XPilots
  BY <1>2, ZenonT(60) DEF CompanionInv, XPilots
<1> QED BY <1>2, <1>4, <1>5 DEF CompanionInv

\* A private message comes in.
LEMMA MessageStep == ASSUME CompanionInv, PrivateMessageReceived PROVE CompanionInv'
<1> DEFINE base == NewObservation("IncomingPrivateMessage")
           o == [base EXCEPT !.callsign = xpilot.callsign]
           n == spent.messages + 1
<1>1. base \in Observation /\ base.kind = "IncomingPrivateMessage"
  BY NewObservationType DEF Kinds
<1>2. xpilot.callsign \in Callsigns \cup {NoCallsign}
  BY DEF CompanionInv, XPilots
<1>3. n \in 0 .. MaxMessages
  BY Bounds, SpentFields, CountUp DEF PrivateMessageReceived, CompanionInv
<1>4. /\ Raise(o) /\ UNCHANGED <<xpilot, pipe>>
      /\ spent' = [spent EXCEPT !.messages = n]
  BY DEF PrivateMessageReceived
<1> HIDE DEF base, n
<1>5. o \in Observation /\ o.kind = base.kind
  BY <1>1, <1>2 DEF Observation
<1>6. o \in Proper
  BY <1>1, <1>5, OtherKindProper DEF LiveKinds
<1> HIDE DEF o
<1>7. companion' \in Companions /\ AnswerInv(companion')
  BY <1>4, <1>6, RaiseType
<1>8. spent' \in Spents
  BY <1>3, <1>4, ZenonT(60) DEF CompanionInv, Spents
<1> QED BY <1>4, <1>7, <1>8 DEF CompanionInv

\* An event of a controller names it.
LEMMA ControllerStep ==
    ASSUME CompanionInv, NEW kind \in LiveKinds, NEW controller \in Controllers,
           ControllerEvent(kind, controller)
    PROVE  CompanionInv'
<1> DEFINE base == NewObservation(kind)
           o == [base EXCEPT !.controller = controller]
           n == spent.changes + 1
           shown == IF kind = "ControllerDeleted" THEN xpilot.controllers \ {controller}
                    ELSE xpilot.controllers \cup {controller}
<1>1. base \in Observation
  BY NewObservationType DEF Kinds
<1>2. shown \in SUBSET Controllers
  BY DEF CompanionInv, XPilots
<1>3. n \in 0 .. MaxChanges
  BY Bounds, SpentFields, CountUp DEF ControllerEvent, CompanionInv
<1>4. /\ Raise(o) /\ UNCHANGED pipe
      /\ xpilot' = [xpilot EXCEPT !.controllers = shown]
      /\ spent' = [spent EXCEPT !.changes = n]
  BY DEF ControllerEvent
<1> HIDE DEF base, n, shown
<1>5. o \in Proper
  BY <1>1 DEF Observation, Proper
<1> HIDE DEF o
<1>6. companion' \in Companions /\ AnswerInv(companion')
  BY <1>4, <1>5, RaiseType
<1>7. spent' \in Spents /\ xpilot' \in XPilots
  BY <1>2, <1>3, <1>4, ZenonT(60) DEF CompanionInv, Spents, XPilots
<1> QED BY <1>4, <1>6, <1>7 DEF CompanionInv

\* xPilot's session ends.
LEMMA SessionEndedStep == ASSUME CompanionInv, SessionEnded PROVE CompanionInv'
<1> DEFINE o == NewObservation("SessionEnded")
<1>1. o \in Observation /\ o.kind = "SessionEnded"
  BY NewObservationType DEF Kinds
<1>2. /\ Raise(o) /\ pipe' = pipe /\ Disturbed("session ends")
      /\ xpilot' = [xpilot EXCEPT !.session = FALSE]
  BY DEF SessionEnded
<1> HIDE DEF o
<1>3. o \in Proper
  BY <1>1, OtherKindProper DEF LiveKinds
<1>4. companion' \in Companions /\ AnswerInv(companion')
  BY <1>2, <1>3, RaiseType
<1>5. xpilot' \in XPilots
  BY <1>2, ZenonT(60) DEF CompanionInv, XPilots
<1>6. spent' \in Spents
  BY <1>2, DisturbedType DEF CompanionInv
<1> QED BY <1>2, <1>4, <1>5, <1>6 DEF CompanionInv

\* A plugin that has just started is well typed.
LEMMA FreshCompanionType ==
    ASSUME NEW process \in Nat
    PROVE  FreshCompanion(process) \in Companions /\ AnswerInv(FreshCompanion(process))
<1> DEFINE idle == [sequence |-> 0, epoch |-> 0, held |-> Nothing, taken |-> Nothing,
                    queue |-> EmptyQueue, runner |-> "Closed", answer |-> NoAnswer,
                    stopping |-> FALSE, raced |-> {}]
           o == NumberedIn(process, idle, "SourceAvailable")
           c == [idle EXCEPT !.sequence = 1, !.held = o]
<1>1. idle.sequence = 0 /\ idle.epoch = 0
  OBVIOUS
<1>2. idle \in Companions
  BY NothingProper, EmptyQueueType DEF Companions, NoAnswer, Answers, Phases, Runners
<1>3. idle.answer.phase = "None"
  BY DEF NoAnswer
<1> HIDE DEF idle
<1>4. o \in Observation /\ o.kind = "SourceAvailable"
  BY <1>1, NumberedType DEF Kinds
<1> HIDE DEF o
<1>5. o \in Proper
  BY <1>4, OtherKindProper DEF LiveKinds
<1>6. c \in Companions
  BY <1>2, <1>5, ZenonT(60) DEF Companions
<1>7. c.answer = idle.answer
  BY <1>2 DEF Companions
<1>8. FreshCompanion(process) = c
  BY DEF FreshCompanion, c, o, idle
<1> QED BY <1>3, <1>6, <1>7, <1>8 DEF AnswerInv

\* A started xPilot and a closed pipe are well typed.
LEMMA FreshHostType ==
    /\ \A process \in Nat : FreshXPilot(process) \in XPilots
    /\ DeadPipe \in Pipes
  BY DEF FreshXPilot, XPilots, DeadPipe, Pipes

\* A new process starts with a new plugin and no pipe.
LEMMA RestartXPilotStep == ASSUME CompanionInv, RestartXPilot PROVE CompanionInv'
<1> DEFINE process == xpilot.process + 1
<1>1. process \in Nat
  BY DEF CompanionInv, XPilots
<1>2. /\ Disturbed("xPilot restarts") /\ pipe' = DeadPipe
      /\ xpilot' = FreshXPilot(process) /\ companion' = FreshCompanion(process)
  BY DEF RestartXPilot
<1> HIDE DEF process
<1>3. spent' \in Spents
  BY <1>2, DisturbedType DEF CompanionInv
<1> QED BY <1>1, <1>2, <1>3, FreshHostType, FreshCompanionType DEF CompanionInv

\* The companion's part of the invariant holds at the start.
LEMMA CompanionInitType == ASSUME CompanionInit PROVE CompanionInv
<1>1. spent \in Spents
  <2>1. /\ 0 \in 0 .. MaxMessages /\ 0 \in 0 .. MaxChanges
        /\ 0 \in 0 .. MaxConnections /\ 0 \in 0 .. MaxFlights
        /\ 0 \in 0 .. MaxDisturbances
    BY Bounds
  <2> QED BY <2>1, Zenon DEF CompanionInit, Spents
<1>2. /\ xpilot = FreshXPilot(1) /\ companion = FreshCompanion(1) /\ pipe = DeadPipe
  BY DEF CompanionInit
<1> QED BY <1>1, <1>2, FreshHostType, FreshCompanionType DEF CompanionInv

-----------------------------------------------------------------------------
(* Steps of the runner *)

\* The runner goes into another state and nothing else of the companion changes.
LEMMA RunnerType ==
    ASSUME NEW c \in Companions, AnswerInv(c), NEW runner \in Runners
    PROVE  LET d == [c EXCEPT !.runner = runner]
           IN  d \in Companions /\ AnswerInv(d)
<1> DEFINE d == [c EXCEPT !.runner = runner]
<1>1. d \in Companions
  BY ZenonT(60) DEF Companions
<1>2. d.answer = c.answer /\ d.taken = c.taken
  BY DEF Companions
<1> QED BY <1>1, <1>2 DEF AnswerInv

\* The runner waits for a client, or stops.
LEMMA CreatePipeStep == ASSUME CompanionInv, CreatePipe PROVE CompanionInv'
<1> DEFINE runner == IF companion.stopping THEN "Stopped" ELSE "Listening"
<1>1. runner \in Runners
  BY DEF Runners
<1>2. companion' = [companion EXCEPT !.runner = runner] /\ UNCHANGED <<xpilot, pipe, spent>>
  BY DEF CreatePipe
<1> HIDE DEF runner
<1> QED BY <1>1, <1>2, RunnerType DEF CompanionInv

\* The runner closes a pipe that failed.
LEMMA LosePipeStep == ASSUME CompanionInv, LosePipe PROVE CompanionInv'
<1>1. "Closed" \in Runners
  BY DEF Runners
<1>2. companion' = [companion EXCEPT !.runner = "Closed"] /\ UNCHANGED <<xpilot, pipe, spent>>
  BY DEF LosePipe
<1> QED BY <1>1, <1>2, RunnerType DEF CompanionInv

\* The runner stops when all is written and read.
LEMMA StopStep == ASSUME CompanionInv, StopGracefully PROVE CompanionInv'
<1>1. "Stopped" \in Runners
  BY DEF Runners
<1>2. /\ companion' = [companion EXCEPT !.runner = "Stopped"]
      /\ pipe' = DeadPipe /\ UNCHANGED <<xpilot, spent>>
  BY DEF StopGracefully
<1> QED BY <1>1, <1>2, RunnerType, FreshHostType DEF CompanionInv

\* An observation is put into the pipe.
LEMMA WrittenType ==
    ASSUME NEW p \in Pipes, NEW o \in Proper
    PROVE  [p EXCEPT !.toBrain = Append(@, o)] \in Pipes
<1> DEFINE written == Append(p.toBrain, o)
<1>1. written \in Seq(Proper)
  BY AppendProperties DEF Pipes
<1> HIDE DEF written
<1>2. [p EXCEPT !.toBrain = written] \in Pipes
  BY <1>1, ZenonT(60) DEF Pipes
<1> QED BY <1>2 DEF written

\* The greeting concerns no controller.
LEMMA WriteHelloStep == ASSUME CompanionInv, WriteHello PROVE CompanionInv'
<1> DEFINE base == Local("Hello")
           o == [base EXCEPT !.process = xpilot.process, !.epoch = companion.epoch]
<1>1. xpilot.process \in Nat /\ companion.epoch \in Nat
  BY CompanionFields DEF CompanionInv, XPilots
<1>2. base \in Observation /\ base.kind = "Hello"
  BY LocalType DEF Kinds
<1> HIDE DEF base
<1>3. o \in Observation /\ o.kind = "Hello"
  BY <1>1, <1>2 DEF Observation
<1>4. o \in Proper
  BY <1>3, OtherKindProper DEF LiveKinds
<1>5. /\ pipe' = [pipe EXCEPT !.toBrain = Append(@, o)] /\ UNCHANGED <<xpilot, spent>>
      /\ companion' = [companion EXCEPT !.runner = "Connected"]
  BY DEF WriteHello, base
<1> HIDE DEF o
<1>6. "Connected" \in Runners
  BY DEF Runners
<1>7. pipe' \in Pipes
  BY <1>4, <1>5, WrittenType DEF CompanionInv
<1> QED BY <1>5, <1>6, <1>7, RunnerType DEF CompanionInv

\* The oldest observation moves from the queue to the pipe.
LEMMA WriteObservationStep == ASSUME CompanionInv, WriteObservation PROVE CompanionInv'
<1> DEFINE peeked == MaterializeLoss(companion)
           queue == [peeked.queue EXCEPT !.items = Tail(peeked.queue.items)]
           committed == [peeked EXCEPT !.queue = queue]
<1>1. peeked \in Companions /\ AnswerInv(peeked)
  BY MaterializeType DEF CompanionInv
<1>2. peeked.queue.items # <<>>
  BY DEF WriteObservation
<1>3. /\ pipe' = [pipe EXCEPT !.toBrain = Append(@, Head(peeked.queue.items))]
      /\ companion' = MaterializeLoss([peeked EXCEPT !.queue.items = Tail(peeked.queue.items)])
      /\ UNCHANGED <<xpilot, spent>>
  BY DEF WriteObservation
<1> HIDE DEF peeked
<1>4. peeked.queue \in ProperQueues
  BY <1>1, CompanionFields
<1>5. Head(peeked.queue.items) \in Proper /\ queue \in ProperQueues
  BY <1>2, <1>4, DequeueType
<1>6. [peeked EXCEPT !.queue.items = Tail(peeked.queue.items)] = committed
  BY <1>1 DEF Companions
<1> HIDE DEF queue
<1>7. committed \in Companions
  BY <1>1, <1>5, ZenonT(60) DEF Companions
<1>8. committed.answer = peeked.answer /\ committed.taken = peeked.taken
  BY <1>1 DEF Companions
<1>9. AnswerInv(committed)
  BY <1>1, <1>8 DEF AnswerInv
<1> HIDE DEF committed
<1>10. companion' \in Companions /\ AnswerInv(companion')
  BY <1>3, <1>6, <1>7, <1>9, MaterializeType DEF CompanionInv
<1>11. pipe' \in Pipes
  BY <1>3, <1>5, WrittenType DEF CompanionInv
<1> QED BY <1>3, <1>10, <1>11 DEF CompanionInv

\* A request starts an answer, or its failure.
LEMMA ReadCommandStep ==
    ASSUME CompanionInv, NEW readable \in BOOLEAN, ReadCommand(readable)
    PROVE  CompanionInv'
<1> DEFINE answer == [phase |-> IF readable THEN "Started" ELSE "Failed",
                      request |-> Head(pipe.toCompanion),
                      listed |-> xpilot.controllers, left |-> xpilot.controllers]
           rest == Tail(pipe.toCompanion)
           c == [companion EXCEPT !.answer = answer, !.raced = {}]
<1>1. pipe.toCompanion \in Seq(Nat) /\ pipe.toCompanion # <<>>
  BY DEF CompanionInv, Pipes, ReadCommand
<1>2. Head(pipe.toCompanion) \in Nat /\ rest \in Seq(Nat)
  BY <1>1, HeadTailProperties
<1>3. xpilot.controllers \in SUBSET Controllers
  BY DEF CompanionInv, XPilots
<1>4. answer \in Answers /\ answer.phase # "Entry"
  BY <1>2, <1>3 DEF Answers, Phases
<1>5. /\ companion' = c /\ xpilot' = xpilot
      /\ pipe' = [pipe EXCEPT !.toCompanion = rest]
  BY DEF ReadCommand
<1>6. spent' \in Spents
  BY DisturbedType DEF ReadCommand, CompanionInv
<1> HIDE DEF answer, rest
<1>7. c \in Companions
  BY <1>4, ZenonT(60) DEF CompanionInv, Companions
<1>8. c.answer = answer
  BY DEF CompanionInv, Companions
<1>9. pipe' \in Pipes
  BY <1>2, <1>5, ZenonT(60) DEF CompanionInv, Pipes
<1> QED BY <1>4, <1>5, <1>6, <1>7, <1>8, <1>9 DEF CompanionInv, AnswerInv

\* An entry is one of the controllers left; the rest of an answer is none.
LEMMA NumberAnswerStep == ASSUME CompanionInv, NumberAnswer PROVE CompanionInv'
<1> DEFINE answer == companion.answer
           entry  == CHOOSE x \in answer.left : TRUE
           left   == IF answer.phase = "Entry" THEN answer.left \ {entry} ELSE answer.left
           kind   == CASE answer.phase = "Started"   -> "SnapshotStarted"
                       [] answer.phase = "Entry"     -> "SnapshotEntry"
                       [] answer.phase = "Completed" -> "SnapshotCompleted"
                       [] OTHER                      -> "CorruptEnvelope"
           controller == IF answer.phase = "Entry" THEN entry ELSE NoController
           base == NewObservation(kind)
           o == [base EXCEPT !.request = answer.request, !.listed = answer.listed,
                             !.controller = controller]
           next == [answer EXCEPT !.left = left]
           sequence == companion.sequence + 1
           c == [companion EXCEPT !.sequence = sequence, !.taken = o, !.answer = next]
<1>1. /\ companion' = c /\ UNCHANGED <<xpilot, pipe, spent>>
      /\ answer.phase # "None" /\ companion.taken = Nothing
  BY DEF NumberAnswer
<1>2. /\ answer \in Answers /\ sequence \in Nat
      /\ answer.phase = "Entry" => answer.left # {}
  BY <1>1, CompanionFields DEF CompanionInv, AnswerInv
<1>3. answer.phase = "Entry" => entry \in Controllers
  BY <1>2 DEF Answers
<1>4. /\ kind \in {"SnapshotStarted", "SnapshotEntry", "SnapshotCompleted", "CorruptEnvelope"}
      /\ kind = "SnapshotEntry" => answer.phase = "Entry"
  BY DEF Answers
<1>5. base \in Observation /\ base.kind = kind
  BY <1>4, NewObservationType DEF Kinds
<1>6. left \in SUBSET Controllers
  BY <1>2 DEF Answers
<1>7. /\ controller \in Controllers \cup {NoController}
      /\ kind = "SnapshotEntry" => controller \in Controllers
  BY <1>3, <1>4
<1>8. answer.request \in Nat /\ answer.listed \in SUBSET Controllers
  BY <1>2 DEF Answers
<1> HIDE DEF kind, controller, base, entry, left, sequence
<1>9. o \in Observation /\ o.kind = kind /\ o.controller = controller
  BY <1>5, <1>7, <1>8 DEF Observation
<1>10. o \in Proper /\ o.kind # "None"
  BY <1>4, <1>7, <1>9 DEF Proper, LiveKinds
<1> HIDE DEF o, answer
<1>11. next \in Answers
  BY <1>2, <1>6, ZenonT(60) DEF Answers
<1> HIDE DEF next
<1>12. c \in Companions
  BY <1>2, <1>10, <1>11, ZenonT(60) DEF CompanionInv, Companions
<1>13. c.taken = o
  BY DEF CompanionInv, Companions
<1>14. AnswerInv(c)
  BY <1>10, <1>13, NothingProper DEF AnswerInv
<1> QED BY <1>1, <1>12, <1>14 DEF CompanionInv

\* The answer goes on to an entry only while a controller is left.
LEMMA CaptureTakenStep == ASSUME CompanionInv, CaptureTaken PROVE CompanionInv'
<1> DEFINE answer == companion.answer
           next == NextPhase(answer.phase, answer.left)
           queue == Offer(companion.queue, companion.taken, QueueCapacity)
           following == IF next = "None" THEN NoAnswer ELSE [answer EXCEPT !.phase = next]
           c == [companion EXCEPT !.queue = queue, !.taken = Nothing, !.answer = following]
<1>1. companion' = c /\ UNCHANGED <<xpilot, pipe, spent>>
  BY DEF CaptureTaken
<1>2. /\ answer \in Answers /\ companion.queue \in ProperQueues
      /\ companion.taken \in Proper
  BY CompanionFields DEF CompanionInv
<1>3. queue \in ProperQueues
  BY <1>2, OfferType, Bounds
<1>4. next \in Phases /\ (next = "Entry" => answer.left # {})
  BY DEF NextPhase, Phases
<1> HIDE DEF answer, next, queue
<1>5. [answer EXCEPT !.phase = next] \in Answers
  BY <1>2, <1>4, ZenonT(60) DEF Answers
<1>6. NoAnswer \in Answers /\ NoAnswer.phase = "None"
  BY DEF NoAnswer, Answers, Phases
<1>7. /\ [answer EXCEPT !.phase = next].phase = next
      /\ [answer EXCEPT !.phase = next].left = answer.left
  BY <1>2 DEF Answers
<1>8. following \in Answers /\ (following.phase = "Entry" => following.left # {})
  BY <1>4, <1>5, <1>6, <1>7
<1> HIDE DEF following
<1>9. c \in Companions
  BY <1>3, <1>8, NothingProper, ZenonT(60) DEF CompanionInv, Companions
<1>10. c.answer = following
  BY DEF CompanionInv, Companions
<1> QED BY <1>1, <1>8, <1>9, <1>10 DEF CompanionInv, AnswerInv

-----------------------------------------------------------------------------
(* The whole bridge *)

Clients == [connected : BOOLEAN, incoming : ProperQueues, outgoing : Seq(Nat)]

IInv == CompanionInv /\ BrainInv /\ client \in Clients

otherVars == <<brain, inbox, flight, client>>

\* What the companion does leaves the Brain and the client alone.
LEMMA CompanionStepInv == ASSUME IInv, CompanionStep PROVE IInv'
<1>1. CompanionInv'
  <2>1. ASSUME Host PROVE CompanionInv'
    BY <2>1, ConnectedStep, DisconnectedStep, MessageStep, ControllerStep,
       SessionEndedStep DEF Host, IInv
  <2>2. ASSUME Runner PROVE CompanionInv'
    BY <2>2, CreatePipeStep, WriteHelloStep, WriteObservationStep, LosePipeStep,
       StopStep, ReadCommandStep, NumberAnswerStep, CaptureTakenStep DEF Runner, IInv
  <2> QED BY <2>1, <2>2, CaptureHeldStep, RestartXPilotStep DEF CompanionStep, IInv
<1>2. UNCHANGED otherVars
  BY DEF CompanionStep, otherVars
<1>3. BrainInv' /\ client' \in Clients
  BY <1>2 DEF otherVars, BrainInv, IInv
<1> QED BY <1>1, <1>3 DEF IInv

\* What the fields of a well-typed client are.
LEMMA ClientFields ==
    ASSUME NEW c \in Clients
    PROVE  /\ c.connected \in BOOLEAN /\ c.incoming \in ProperQueues
           /\ c.outgoing \in Seq(Nat)
  BY DEF Clients

\* A client starts disconnected and with empty queues.
LEMMA FreshClientType == FreshClient \in Clients
  BY EmptyQueueType DEF FreshClient, Clients

\* Connecting and disconnecting leave the queues alone.
LEMMA ConnectedClientType ==
    ASSUME NEW c \in Clients, NEW connected \in BOOLEAN
    PROVE  [c EXCEPT !.connected = connected] \in Clients
  BY ZenonT(60) DEF Clients

\* What is published enters the queue or its loss.
LEMMA PublishType ==
    ASSUME NEW c \in Clients, NEW o \in Proper
    PROVE  Publish(c, o) \in Clients
<1> DEFINE q == Offer(c.incoming, o, IncomingCapacity)
<1>1. q \in ProperQueues
  BY OfferType, ClientFields, BridgeAssumption
<1> HIDE DEF q
<1>2. [c EXCEPT !.incoming = q] \in Clients
  BY <1>1, ZenonT(60) DEF Clients
<1> QED BY <1>2 DEF Publish, q

\* What the client does leaves the Brain alone.
LEMMA BrainUntouched ==
    ASSUME BrainInv, UNCHANGED <<brain, inbox, flight>>
    PROVE  BrainInv'
  BY DEF BrainInv

\* The client opens the pipe and says so.
LEMMA ConnectClientStep == ASSUME IInv, ConnectClient PROVE IInv'
<1>1. /\ client' = Publish([client EXCEPT !.connected = TRUE], Local("TransportConnected"))
      /\ companion' = [companion EXCEPT !.runner = "Greeting"]
      /\ pipe' = [DeadPipe EXCEPT !.live = TRUE]
      /\ UNCHANGED <<xpilot, spent, brain, inbox, flight>>
  BY DEF ConnectClient
<1>2. [client EXCEPT !.connected = TRUE] \in Clients
  BY ConnectedClientType DEF IInv
<1>3. client' \in Clients
  BY <1>1, <1>2, PublishType, LocalProper DEF LocalKinds
<1>4. "Greeting" \in Runners
  BY DEF Runners
<1>5. companion' \in Companions /\ AnswerInv(companion')
  BY <1>1, <1>4, RunnerType DEF IInv, CompanionInv
<1>6. pipe' \in Pipes
  BY <1>1, FreshHostType, ZenonT(60) DEF Pipes
<1> QED BY <1>1, <1>3, <1>5, <1>6, BrainUntouched DEF IInv, CompanionInv

\* A command moves from the client to the pipe.
LEMMA FlushCommandStep == ASSUME IInv, FlushCommand PROVE IInv'
<1> DEFINE sent == Append(pipe.toCompanion, Head(client.outgoing))
           rest == Tail(client.outgoing)
<1>1. /\ pipe' = [pipe EXCEPT !.toCompanion = sent]
      /\ client' = [client EXCEPT !.outgoing = rest]
      /\ UNCHANGED <<xpilot, companion, spent, brain, inbox, flight>>
  BY DEF FlushCommand
<1>2. client.outgoing \in Seq(Nat) /\ client.outgoing # <<>> /\ pipe.toCompanion \in Seq(Nat)
  BY ClientFields DEF FlushCommand, IInv, CompanionInv, Pipes
<1>3. Head(client.outgoing) \in Nat /\ rest \in Seq(Nat)
  BY <1>2, HeadTailProperties
<1>4. sent \in Seq(Nat)
  BY <1>2, <1>3, AppendProperties
<1> HIDE DEF sent, rest
<1>5. pipe' \in Pipes
  BY <1>1, <1>4, ZenonT(60) DEF IInv, CompanionInv, Pipes
<1>6. client' \in Clients
  BY <1>1, <1>3, ZenonT(60) DEF IInv, Clients
<1> QED BY <1>1, <1>5, <1>6, BrainUntouched DEF IInv, CompanionInv

\* An observation moves from the pipe to the client's queue.
LEMMA ReadObservationStep == ASSUME IInv, ReadObservation PROVE IInv'
<1> DEFINE rest == Tail(pipe.toBrain)
<1>1. /\ client' = Publish(client, Head(pipe.toBrain))
      /\ pipe' = [pipe EXCEPT !.toBrain = rest]
      /\ UNCHANGED <<xpilot, companion, spent, brain, inbox, flight>>
  BY DEF ReadObservation
<1>2. pipe.toBrain \in Seq(Proper) /\ pipe.toBrain # <<>>
  BY DEF ReadObservation, IInv, CompanionInv, Pipes
<1>3. Head(pipe.toBrain) \in Proper /\ rest \in Seq(Proper)
  BY <1>2, HeadTailProperties
<1> HIDE DEF rest
<1>4. pipe' \in Pipes
  BY <1>1, <1>3, ZenonT(60) DEF IInv, CompanionInv, Pipes
<1>5. client' \in Clients
  BY <1>1, <1>3, PublishType DEF IInv
<1> QED BY <1>1, <1>4, <1>5, BrainUntouched DEF IInv, CompanionInv

\* The client reports a pipe that failed.
LEMMA NoticeStep == ASSUME IInv, NoticeDisconnect PROVE IInv'
<1>1. /\ client' = Publish([client EXCEPT !.connected = FALSE], Local("TransportDisconnected"))
      /\ UNCHANGED <<xpilot, companion, pipe, spent, brain, inbox, flight>>
  BY DEF NoticeDisconnect
<1>2. [client EXCEPT !.connected = FALSE] \in Clients
  BY ConnectedClientType DEF IInv
<1>3. client' \in Clients
  BY <1>1, <1>2, PublishType, LocalProper DEF LocalKinds
<1> QED BY <1>1, <1>3, BrainUntouched DEF IInv, CompanionInv

\* What was in a broken pipe is gone.
LEMMA BreakPipeStep == ASSUME IInv, BreakPipe PROVE IInv'
<1>1. /\ Disturbed("pipe breaks") /\ pipe' = DeadPipe
      /\ UNCHANGED <<xpilot, companion, brain, inbox, flight, client>>
  BY DEF BreakPipe
<1>2. spent' \in Spents /\ pipe' \in Pipes
  BY <1>1, DisturbedType, FreshHostType DEF IInv, CompanionInv
<1> QED BY <1>1, <1>2, BrainUntouched DEF IInv, CompanionInv

\* A reloaded plugin starts with a sound Brain.
LEMMA RestartPluginStep == ASSUME IInv, RestartPlugin PROVE IInv'
<1>1. /\ Disturbed("plugin restarts") /\ pipe' = DeadPipe
      /\ brain' = FreshBrain /\ inbox' = <<>> /\ flight' = NoCallsign
      /\ client' = FreshClient /\ UNCHANGED <<xpilot, companion>>
  BY DEF RestartPlugin
<1>2. spent' \in Spents /\ pipe' \in Pipes
  BY <1>1, DisturbedType, FreshHostType DEF IInv, CompanionInv
<1>3. CompanionInv'
  BY <1>1, <1>2 DEF IInv, CompanionInv
<1>4. Sound(brain')
  BY <1>1, FreshBrainSound, Zenon
<1>5. <<>> \in Seq(Observation)
  OBVIOUS
<1>6. BrainInv'
  BY <1>1, <1>4, <1>5 DEF BrainInv
<1> QED BY <1>1, <1>3, <1>6, FreshClientType DEF IInv

\* What the Brain does leaves the companion alone.
LEMMA CompanionUntouched ==
    ASSUME CompanionInv, UNCHANGED <<xpilot, companion, pipe>>, spent' \in Spents
    PROVE  CompanionInv'
  BY DEF CompanionInv

\* The Brain consumes the oldest observation of the client's queue.
LEMMA HarvestStep == ASSUME IInv, Harvest PROVE IInv'
<1> DEFINE o == Head(client.incoming.items)
           rest == [client.incoming EXCEPT !.items = Tail(client.incoming.items)]
           queue == IF LossIsDue(rest, IncomingCapacity)
                    THEN ReportLoss(rest, Local("LocalCapacityLoss")) ELSE rest
<1>1. /\ client.incoming.items # <<>> /\ Consume(o)
      /\ client' = [client EXCEPT !.incoming = queue]
      /\ UNCHANGED <<xpilot, companion, pipe, spent>>
  BY DEF Harvest, companionVars
<1>2. client.incoming \in ProperQueues
  BY ClientFields DEF IInv
<1>3. o \in Proper /\ rest \in ProperQueues
  BY <1>1, <1>2, DequeueType
<1> HIDE DEF o, rest
<1>4. Local("LocalCapacityLoss") \in Proper
  BY LocalProper DEF LocalKinds
<1>5. queue \in ProperQueues
  BY <1>3, <1>4, ReportLossType
<1> HIDE DEF queue
<1>6. BrainInv'
  BY <1>1, <1>3, ConsumeStep DEF IInv
<1>7. client' \in Clients
  BY <1>1, <1>5, ZenonT(60) DEF IInv, Clients
<1>8. CompanionInv'
  BY <1>1, CompanionUntouched DEF IInv, CompanionInv
<1> QED BY <1>6, <1>7, <1>8 DEF IInv

\* The end of a service call may put a request in the client's queue.
LEMMA ServeStep == ASSUME IInv, NEW late \in BOOLEAN, Serve(late) PROVE IInv'
<1> DEFINE room == /\ Len(client.outgoing) < OutgoingCapacity
                   /\ brain.nextRequest <= MaxRequests
           sent == Append(client.outgoing, brain.nextRequest)
<1>1. /\ EndService(late, room)
      /\ client' = IF RequestsSnapshot(late, room)
                   THEN [client EXCEPT !.outgoing = sent] ELSE client
      /\ UNCHANGED <<xpilot, companion, pipe>>
      /\ spent' = spent \/ Disturbed("answer is late")
  BY DEF Serve
<1>2. room \in BOOLEAN
  OBVIOUS
<1>3. client.outgoing \in Seq(Nat) /\ brain.nextRequest \in Nat
  BY ClientFields, BrainFields DEF IInv, BrainInv, Sound
<1>4. sent \in Seq(Nat)
  BY <1>3, AppendProperties
<1> HIDE DEF room, sent
<1>5. BrainInv'
  BY <1>1, <1>2, EndServiceStep DEF IInv
<1>6. [client EXCEPT !.outgoing = sent] \in Clients
  BY <1>4, ZenonT(60) DEF IInv, Clients
<1>7. client' \in Clients
  BY <1>1, <1>6 DEF IInv
<1>8. spent' \in Spents
  BY <1>1, DisturbedType DEF IInv, CompanionInv
<1> QED BY <1>1, <1>5, <1>7, <1>8, CompanionUntouched DEF IInv

\* A change of flight leaves the Brain's state alone.
LEMMA FlightStep ==
    ASSUME IInv, FlightChanges, UNCHANGED <<xpilot, companion, pipe, client>>
    PROVE  IInv'
<1> DEFINE n == spent.flights + 1
<1>1. n \in 0 .. MaxFlights
  BY Bounds, SpentFields, CountUp DEF FlightChanges, IInv, CompanionInv
<1>2. spent' = [spent EXCEPT !.flights = n]
  BY DEF FlightChanges
<1> HIDE DEF n
<1>3. spent' \in Spents
  BY <1>1, <1>2, ZenonT(60) DEF IInv, CompanionInv, Spents
<1>4. BrainInv'
  BY DEF FlightChanges, ChangeFlight, BrainInv, IInv
<1> QED BY <1>3, <1>4, CompanionUntouched DEF IInv

\* The age of deferred messages is a step of the Brain's.
LEMMA ExpiryStep ==
    ASSUME IInv, ExpireDeferred, Disturbed("messages expire"),
           UNCHANGED <<xpilot, companion, pipe, client>>
    PROVE  IInv'
<1>1. spent' \in Spents
  BY DisturbedType DEF IInv, CompanionInv
<1>2. BrainInv'
  BY ExpireStep DEF IInv
<1> QED BY <1>1, <1>2, CompanionUntouched DEF IInv

\* The invariant holds at the start.
LEMMA IInvInit == Init => IInv
<1> SUFFICES ASSUME Init PROVE IInv
  OBVIOUS
<1>1. CompanionInv
  BY CompanionInitType DEF Init
<1>2. BrainInv
  BY FreshBrainSound DEF Init, BrainInit, BrainInv
<1> QED BY <1>1, <1>2, FreshClientType DEF Init, IInv

\* Every step preserves the invariant.
LEMMA IInvStep == IInv /\ [Next]_vars => IInv'
<1> SUFFICES ASSUME IInv, [Next]_vars PROVE IInv'
  OBVIOUS
<1>1. CASE CompanionStep
  BY <1>1, CompanionStepInv
<1>2. CASE ClientStep
  BY <1>2, ConnectClientStep, FlushCommandStep, ReadObservationStep, NoticeStep
     DEF ClientStep
<1>3. CASE BrainStep
  BY <1>3, HarvestStep, ServeStep, FlightStep, ExpiryStep DEF BrainStep
<1>4. CASE BreakPipe
  BY <1>4, BreakPipeStep
<1>5. CASE RestartPlugin
  BY <1>5, RestartPluginStep
<1>6. CASE UNCHANGED vars
  BY <1>6, CompanionUntouched, BrainUntouched DEF vars, IInv, CompanionInv
<1> QED BY <1>1, <1>2, <1>3, <1>4, <1>5, <1>6 DEF Next

\* The inductive invariant holds in every reachable state of the bridge.
THEOREM BridgeInvariant == Spec => []IInv
  BY IInvInit, IInvStep, PTL DEF Spec

\* Every variable of the bridge keeps its type, for every size of its queues
\* and every number of callsigns, controllers, messages and disturbances.
THEOREM BridgeTypeCorrect == Spec => []TypeOK
<1>1. IInv => TypeOK
  <2> SUFFICES ASSUME IInv PROVE TypeOK
    OBVIOUS
  <2>1. Seq(Proper) \subseteq Seq(Observation)
    BY ProperObservation
  <2>2. /\ Companions \subseteq
             [sequence : Nat, epoch : Nat, held : Observation, taken : Observation,
              queue : Queues,
              runner : {"Closed", "Listening", "Greeting", "Connected", "Stopped"},
              answer : [phase : {"None", "Started", "Entry", "Completed", "Failed"},
                        request : Nat, listed : SUBSET Controllers,
                        left : SUBSET Controllers],
              stopping : BOOLEAN, raced : SUBSET (Controllers \cup {NoController})]
    BY ProperObservation DEF Companions, Answers, Phases, Runners
  <2>3. /\ Pipes \subseteq [live : BOOLEAN, toBrain : Seq(Observation), toCompanion : Seq(Nat)]
        /\ Clients \subseteq [connected : BOOLEAN, incoming : Queues, outgoing : Seq(Nat)]
    BY <2>1, ProperObservation DEF Pipes, Clients
  <2> QED BY <2>2, <2>3, Zenon DEF IInv, CompanionInv, BrainInv, Sound, TypeOK,
       XPilots, Spents
<1> QED BY <1>1, BridgeInvariant, PTL

\* The Brain never takes in a list for a request it has given up: gaps, losses,
\* reconnections, process changes, time-outs and late answers all leave the
\* transfer and the request in step (MarkRecoveryRequired and the snapshot
\* cases, BrainXPilot4BridgeRuntime.cpp:228-234 and 671-722).
THEOREM TransferAnswersRequest == Spec => []BuildAnswersRequest
<1>1. IInv => BuildAnswersRequest
  BY DEF IInv, BrainInv, Sound, BuildAnswersRequest
<1> QED BY <1>1, BridgeInvariant, PTL

-----------------------------------------------------------------------------
(* What is on its way to the Brain                                         *)

\* What the companion queues: a message has a number, and neither Hello nor what
\* XVatsim reports of itself is among it.
Captured == {o \in Proper : /\ o.kind \notin LocalKinds \cup {"Hello"}
                            /\ o.kind = "IncomingPrivateMessage" => o.sequence # 0}

\* What the pipe carries, and what the Brain is given.
Piped    == Captured \cup {o \in Proper : o.kind = "Hello"}
Arriving == Piped \cup {Local(kind) : kind \in LocalKinds}

OnTheWay ==
    /\ companion.held \in Captured /\ companion.taken \in Captured
    /\ companion.queue.items \in Seq(Captured)
    /\ pipe.toBrain \in Seq(Piped) /\ client.incoming.items \in Seq(Arriving)

\* The greetings in s are of the processes low .. high, in their order.
Greetings(s, low, high) ==
    \A i \in DOMAIN s : s[i].kind = "Hello" =>
        /\ low <= s[i].process /\ s[i].process <= high
        /\ \A j \in DOMAIN s : i < j /\ s[j].kind = "Hello" => s[i].process <= s[j].process

\* No process greets the Brain after a later one has.
ProcessesInOrder ==
    /\ brain.process <= xpilot.process
    /\ Greetings(pipe.toBrain, xpilot.process, xpilot.process)
    /\ Greetings(client.incoming.items, brain.process, xpilot.process)

Same(o, p) == o.process = p.process /\ o.sequence = p.sequence

\* The message has a number, and the Brain has seen that number.
Seen(b, o) ==
    /\ o.sequence # 0
    /\ o.process < b.process \/ (o.process = b.process /\ o.sequence <= b.last)

Once(s) == \A i, j \in DOMAIN s : Same(s[i], s[j]) => i = j

\* A message is in the inbox m or deferred, not both, and once.
AllSeenOnce(b, m) ==
    /\ \A i \in DOMAIN m : Seen(b, m[i])
    /\ \A i \in DOMAIN b.deferred : Seen(b, b.deferred[i].message)
    /\ Once(m)
    /\ \A i, j \in DOMAIN b.deferred :
           Same(b.deferred[i].message, b.deferred[j].message) => i = j
    /\ \A i \in DOMAIN m, j \in DOMAIN b.deferred : ~Same(m[i], b.deferred[j].message)

MessagesInv == OnTheWay /\ ProcessesInOrder /\ AllSeenOnce(brain, inbox)
\* The sets are sets of observations.
LEMMA CapturedIsProper ==
    /\ Captured \subseteq Piped /\ Piped \subseteq Arriving
    /\ Arriving \subseteq Proper /\ Arriving \subseteq Observation
<1>1. {Local(kind) : kind \in LocalKinds} \subseteq Proper
  BY LocalProper
<1> QED BY <1>1, ProperObservation DEF Captured, Piped, Arriving

\* A message that arrives has a number.
LEMMA MessageHasNumber ==
    ASSUME NEW o \in Arriving, o.kind = "IncomingPrivateMessage"
    PROVE  o.sequence # 0
<1>1. \A kind \in LocalKinds : Local(kind).kind # "IncomingPrivateMessage"
  BY DEF Local, LocalKinds
<1> QED BY <1>1 DEF Arriving, Piped, Captured

-----------------------------------------------------------------------------
(* Queues that carry what they are given                                   *)

\* What is offered enters the items or does not.
LEMMA OfferCarries ==
    ASSUME NEW q \in ProperQueues, NEW A, q.items \in Seq(A), NEW o \in A,
           NEW capacity \in Nat
    PROVE  Offer(q, o, capacity).items \in Seq(A)
<1>1. Append(q.items, o) \in Seq(A)
  BY AppendProperties
<1>2. /\ RecordLoss(q, o).items = q.items
      /\ [q EXCEPT !.items = Append(q.items, o)].items = Append(q.items, o)
  BY DEF RecordLoss, ProperQueues
<1> QED BY <1>1, <1>2 DEF Offer

\* A report of losses enters the queue like what it carries.
LEMMA MaterializeCarries ==
    ASSUME NEW c \in Companions, xpilot \in XPilots, NEW A, c.queue.items \in Seq(A),
           \A o \in Proper : o.kind = "CapacityLoss" => o \in A
    PROVE  MaterializeLoss(c).queue.items \in Seq(A)
<1> DEFINE base == NumberedIn(xpilot.process, c, "CapacityLoss")
           report == [base EXCEPT !.epoch = c.queue.loss.epoch]
           queue == ReportLoss(c.queue, report)
           d == [c EXCEPT !.sequence = report.sequence, !.queue = queue]
<1>1. xpilot.process \in Nat /\ c.sequence \in Nat /\ c.epoch \in Nat
  BY CompanionFields DEF XPilots
<1>2. base \in Observation /\ base.kind = "CapacityLoss"
  BY <1>1, NumberedType DEF Kinds
<1>3. c.queue \in ProperQueues /\ c.queue.loss.epoch \in Nat
  BY CompanionFields DEF ProperQueues
<1> HIDE DEF base
<1>4. report \in Observation /\ report.kind = "CapacityLoss"
  BY <1>2, <1>3 DEF Observation
<1>5. report \in A
  BY <1>4, OtherKindProper DEF LiveKinds
<1> HIDE DEF report
<1>6. Append(c.queue.items, report) \in Seq(A)
  BY <1>5, AppendProperties
<1>7. queue.items \in Seq(A)
  BY <1>6 DEF ReportLoss
<1> HIDE DEF queue
<1>8. d.queue = queue
  BY DEF Companions
<1>9. MaterializeLoss(c) = IF ~LossIsDue(c.queue, QueueCapacity) THEN c ELSE d
  BY DEF MaterializeLoss, d, queue, report, base
<1> HIDE DEF d
<1> QED BY <1>7, <1>8, <1>9

\* What the companion writes was the first of its queue, or the report of a
\* loss when the queue was empty.
LEMMA WriteCarries ==
    ASSUME CompanionInv, WriteObservation, NEW A, companion.queue.items \in Seq(A),
           \A o \in Proper : o.kind = "CapacityLoss" => o \in A
    PROVE  /\ companion'.queue.items \in Seq(A)
           /\ \E o \in A : pipe'.toBrain = Append(pipe.toBrain, o)
<1> DEFINE peeked == MaterializeLoss(companion)
           rest == Tail(peeked.queue.items)
           committed == [peeked EXCEPT !.queue.items = rest]
<1>1. /\ peeked.queue.items # <<>> /\ companion' = MaterializeLoss(committed)
      /\ pipe' = [pipe EXCEPT !.toBrain = Append(@, Head(peeked.queue.items))]
  BY DEF WriteObservation
<1>2. /\ companion \in Companions /\ AnswerInv(companion) /\ xpilot \in XPilots
      /\ pipe \in Pipes
  BY DEF CompanionInv
<1>3. peeked \in Companions /\ peeked.queue.items \in Seq(A)
  BY <1>2, MaterializeType, MaterializeCarries
<1> HIDE DEF peeked
<1>4. Head(peeked.queue.items) \in A /\ rest \in Seq(A)
  BY <1>1, <1>3, HeadTailProperties
<1>5. peeked.queue \in ProperQueues
  BY <1>3, CompanionFields
<1>6. [peeked.queue EXCEPT !.items = rest] \in ProperQueues
  BY <1>1, <1>5, DequeueType
<1> DEFINE queue == [peeked.queue EXCEPT !.items = rest]
<1>7. committed = [peeked EXCEPT !.queue = queue]
  BY DEF committed
<1>8. queue.items = rest
  BY <1>5 DEF ProperQueues
<1> HIDE DEF queue, rest
<1>9. committed \in Companions /\ committed.queue = queue
  BY <1>3, <1>6, <1>7, ZenonT(60) DEF Companions, queue
<1> HIDE DEF committed
<1>10. companion'.queue.items \in Seq(A)
  BY <1>1, <1>2, <1>4, <1>8, <1>9, MaterializeCarries
<1>11. pipe'.toBrain = Append(pipe.toBrain, Head(peeked.queue.items))
  BY <1>1, <1>2 DEF Pipes
<1> QED BY <1>4, <1>10, <1>11

-----------------------------------------------------------------------------
(* What a step of the companion adds                                       *)

\* What a handler raises is of xPilot as it is then.
Raised(o) ==
    /\ o.kind \notin LocalKinds \cup {"Hello"} /\ o.sequence # 0
    /\ o.process = xpilot.process /\ o.epoch = companion.epoch
    /\ o.kind \in {"IncomingPrivateMessage", "ConnectionStateChanged"}
           => o.callsign = xpilot.callsign
    /\ o.kind = "IncomingPrivateMessage" => o.callsign # NoCallsign

\* Connections are numbered, and so are the processes.
Connections ==
    \/ /\ xpilot'.process = xpilot.process /\ companion'.epoch = companion.epoch
       /\ xpilot'.callsign \in {xpilot.callsign, NoCallsign}
    \/ /\ xpilot'.process = xpilot.process /\ companion'.epoch = companion.epoch + 1
       /\ xpilot.callsign = NoCallsign
    \/ xpilot'.process = xpilot.process + 1 /\ xpilot'.callsign = NoCallsign

AnswerKinds == {"SnapshotStarted", "SnapshotEntry", "SnapshotCompleted", "CorruptEnvelope"}

\* What the two threads have in hand is what they had, nothing, or new.
HandsOK ==
    /\ companion'.held \in {companion.held, Nothing} \/ Raised(companion.held)'
    /\ companion'.taken \in {companion.taken, Nothing} \/ companion'.taken.kind \in AnswerKinds

\* The next number is not 0.
LEMMA NextNumber == CompanionInv => companion.sequence + 1 # 0
<1>1. CompanionInv => companion.sequence \in Nat
  BY CompanionFields DEF CompanionInv
<1> QED BY <1>1

\* What a handler raises is in its hand, and it leaves the rest alone.
LEMMA RaiseFields ==
    ASSUME CompanionInv, NEW o, Raise(o)
    PROVE  /\ companion'.held = o /\ companion'.epoch = o.epoch
           /\ companion'.queue = companion.queue /\ companion'.taken = companion.taken
           /\ companion'.runner = companion.runner
  BY DEF Raise, CompanionInv, Companions

\* The events of the host raise one observation and leave queue and pipe alone.
LEMMA HostAdds ==
    ASSUME CompanionInv, Host
    PROVE  /\ HandsOK /\ Connections /\ UNCHANGED pipe
           /\ companion'.queue = companion.queue /\ companion'.runner = companion.runner
<1>0. xpilot \in XPilots
  BY DEF CompanionInv
<1>1. CASE \E callsign \in Callsigns : NetworkConnected(callsign)
  <2> PICK callsign \in Callsigns : NetworkConnected(callsign)
    BY <1>1
  <2> DEFINE o == [NewObservation("ConnectionStateChanged") EXCEPT
                      !.epoch = companion.epoch + 1, !.callsign = callsign]
  <2>1. Raise(o) /\ UNCHANGED pipe /\ xpilot' = [xpilot EXCEPT !.callsign = callsign]
        /\ xpilot.callsign = NoCallsign
    BY DEF NetworkConnected
  <2>2. /\ o.epoch = companion.epoch + 1 /\ o.callsign = callsign
        /\ o.kind = "ConnectionStateChanged" /\ o.process = xpilot.process
        /\ o.sequence = companion.sequence + 1
    BY DEF NewObservation, NumberedIn, Local
  <2> HIDE DEF o
  <2>4. /\ companion'.held = o /\ companion'.epoch = o.epoch
        /\ companion'.queue = companion.queue /\ companion'.taken = companion.taken
        /\ companion'.runner = companion.runner
    BY <2>1, RaiseFields
  <2>5. xpilot'.process = xpilot.process /\ xpilot'.callsign = callsign
    BY <1>0, <2>1 DEF XPilots
  <2> QED BY <2>1, <2>2, <2>4, <2>5, NextNumber DEF HandsOK, Connections,
       Raised, LocalKinds
<1>2. CASE NetworkDisconnected
  <2> DEFINE o == NewObservation("ConnectionStateChanged")
  <2>1. /\ Raise(o) /\ UNCHANGED pipe
        /\ xpilot' = [xpilot EXCEPT !.callsign = NoCallsign, !.controllers = {}]
    BY <1>2 DEF NetworkDisconnected
  <2>2. /\ o.epoch = companion.epoch /\ o.callsign = NoCallsign
        /\ o.kind = "ConnectionStateChanged" /\ o.process = xpilot.process
        /\ o.sequence = companion.sequence + 1
    BY DEF NewObservation, NumberedIn, Local
  <2>3. /\ companion'.held = o /\ companion'.epoch = o.epoch
        /\ companion'.queue = companion.queue /\ companion'.taken = companion.taken
        /\ companion'.runner = companion.runner
    BY <2>1, RaiseFields
  <2> HIDE DEF o
  <2>4. xpilot'.process = xpilot.process /\ xpilot'.callsign = NoCallsign
    BY <1>0, <2>1 DEF XPilots
  <2> QED BY <2>1, <2>2, <2>3, <2>4, NextNumber DEF HandsOK, Connections,
       Raised, LocalKinds
<1>3. CASE PrivateMessageReceived
  <2> DEFINE o == [NewObservation("IncomingPrivateMessage") EXCEPT
                      !.callsign = xpilot.callsign]
  <2>1. Raise(o) /\ UNCHANGED <<xpilot, pipe>> /\ xpilot.callsign # NoCallsign
    BY <1>3 DEF PrivateMessageReceived
  <2>2. /\ o.epoch = companion.epoch /\ o.callsign = xpilot.callsign
        /\ o.kind = "IncomingPrivateMessage" /\ o.process = xpilot.process
        /\ o.sequence = companion.sequence + 1
    BY DEF NewObservation, NumberedIn, Local
  <2> HIDE DEF o
  <2>4. /\ companion'.held = o /\ companion'.epoch = o.epoch
        /\ companion'.queue = companion.queue /\ companion'.taken = companion.taken
        /\ companion'.runner = companion.runner
    BY <2>1, RaiseFields
  <2> QED BY <2>1, <2>2, <2>4, NextNumber DEF HandsOK, Connections, Raised, LocalKinds
<1>4. CASE \E kind \in LiveKinds, c \in Controllers : ControllerEvent(kind, c)
  <2> PICK kind \in LiveKinds, c \in Controllers : ControllerEvent(kind, c)
    BY <1>4
  <2> DEFINE o == [NewObservation(kind) EXCEPT !.controller = c]
             shown == IF kind = "ControllerDeleted" THEN xpilot.controllers \ {c}
                      ELSE xpilot.controllers \cup {c}
  <2>1. Raise(o) /\ UNCHANGED pipe /\ xpilot' = [xpilot EXCEPT !.controllers = shown]
    BY DEF ControllerEvent
  <2> HIDE DEF shown
  <2>2. /\ o.epoch = companion.epoch /\ o.kind = kind /\ o.process = xpilot.process
        /\ o.sequence = companion.sequence + 1
    BY DEF NewObservation, NumberedIn, Local
  <2>3. kind \in Kinds /\ kind \notin LocalKinds \cup {"Hello", "IncomingPrivateMessage",
                                                      "ConnectionStateChanged"}
    BY DEF Kinds, LiveKinds, LocalKinds
  <2> HIDE DEF o
  <2>5. /\ companion'.held = o /\ companion'.epoch = o.epoch
        /\ companion'.queue = companion.queue /\ companion'.taken = companion.taken
        /\ companion'.runner = companion.runner
    BY <2>1, RaiseFields
  <2>6. xpilot'.process = xpilot.process /\ xpilot'.callsign = xpilot.callsign
    BY <1>0, <2>1 DEF XPilots
  <2> QED BY <2>1, <2>2, <2>3, <2>5, <2>6, NextNumber DEF HandsOK, Connections,
       Raised, LocalKinds
<1>5. CASE SessionEnded
  <2> DEFINE o == NewObservation("SessionEnded")
  <2>1. Raise(o) /\ UNCHANGED pipe /\ xpilot' = [xpilot EXCEPT !.session = FALSE]
    BY <1>5 DEF SessionEnded
  <2>2. /\ o.epoch = companion.epoch
        /\ o.kind = "SessionEnded" /\ o.process = xpilot.process
        /\ o.sequence = companion.sequence + 1
    BY DEF NewObservation, NumberedIn, Local
  <2>3. /\ companion'.held = o /\ companion'.epoch = o.epoch
        /\ companion'.queue = companion.queue /\ companion'.taken = companion.taken
        /\ companion'.runner = companion.runner
    BY <2>1, RaiseFields
  <2> HIDE DEF o
  <2>4. xpilot'.process = xpilot.process /\ xpilot'.callsign = xpilot.callsign
    BY <1>0, <2>1 DEF XPilots
  <2> QED BY <2>1, <2>2, <2>3, <2>4, NextNumber DEF HandsOK, Connections,
       Raised, LocalKinds
<1> QED BY <1>1, <1>2, <1>3, <1>4, <1>5 DEF Host


-----------------------------------------------------------------------------
(* What an observation does to the Brain's idea of its source              *)

\* c is b as far as messages are concerned, or has dropped the deferred ones.
Keeps(b, c) ==
    /\ c.process = b.process /\ c.last = b.last /\ c.epoch = b.epoch
    /\ c.network = b.network /\ c.callsign = b.callsign /\ c.bound = b.bound
    /\ c.deferred = b.deferred

\* Marking is not about messages.
LEMMA MarkKeeps == ASSUME NEW b \in Brains PROVE Keeps(b, MarkRecoveryRequired(b))
  BY DEF Brains, MarkRecoveryRequired, Keeps

\* Nor is losing the list.
LEMMA UnavailableKeeps ==
    ASSUME NEW b, Sound(b)
    PROVE  Keeps(b, Unavailable(b)) /\ Unavailable(b) \in Brains
<1> DEFINE m == MarkRecoveryRequired(b)
<1>1. m \in Brains /\ Keeps(b, m)
  BY MarkSound, MarkKeeps DEF Sound
<1> HIDE DEF m
<1>2. Keeps(m, [m EXCEPT !.complete = FALSE])
  BY <1>1 DEF Brains, Keeps
<1>3. Unavailable(b) \in Brains
  BY UnavailableSound DEF Sound
<1> QED BY <1>1, <1>2, <1>3 DEF Unavailable, Keeps, m

\* A number is remembered, and nothing else about messages changes.
LEMMA SequenceKeeps ==
    ASSUME NEW b, Sound(b), NEW o \in Observation
    PROVE  LET c == ObserveSequence(b, o)
           IN  /\ c.process = b.process /\ c.epoch = b.epoch /\ c.network = b.network
               /\ c.callsign = b.callsign /\ c.bound = b.bound
               /\ c.deferred = b.deferred
               /\ c.last = IF o.sequence = 0 \/ o.kind \in LocalKinds \cup {"Hello"}
                              \/ o.sequence <= b.last
                           THEN b.last ELSE o.sequence
<1> DEFINE m == IF b.last # 0 /\ o.sequence > b.last + 1 THEN MarkRecoveryRequired(b) ELSE b
           n == IF o.sequence > b.last THEN o.sequence ELSE b.last
           c == [m EXCEPT !.last = n]
<1>1. m \in Brains /\ Keeps(b, m)
  BY MarkSound, MarkKeeps DEF Sound, Keeps
<1>2. o.sequence \in Nat /\ b.last \in Nat
  BY ObservationFields, BrainFields DEF Sound
<1>3. n = IF o.sequence <= b.last THEN b.last ELSE o.sequence
  BY <1>2
<1> HIDE DEF m, n
<1>4. /\ c.process = m.process /\ c.epoch = m.epoch /\ c.network = m.network
      /\ c.callsign = m.callsign /\ c.bound = m.bound /\ c.deferred = m.deferred
      /\ c.last = n
  BY <1>1 DEF Brains
<1> HIDE DEF c
<1>5. ObserveSequence(b, o) = IF o.sequence = 0 \/ o.kind \in LocalKinds \cup {"Hello"}
                              THEN b ELSE c
  BY DEF ObserveSequence, c, m, n
<1> QED BY <1>1, <1>3, <1>4, <1>5 DEF Keeps

\* What an observation that is no message does: only a greeting names another
\* process, and a connection change says the callsign.
Effect(b, o, c) ==
    /\ c.process = (IF o.kind = "Hello" THEN o.process ELSE b.process)
    /\ c.last = (IF o.kind = "Hello" THEN LastAfterHello(b, o) ELSE b.last)
    /\ c.epoch = (IF o.kind \in {"Hello", "ConnectionStateChanged"} THEN o.epoch
                  ELSE b.epoch)
    /\ c.callsign = (IF o.kind = "ConnectionStateChanged" THEN o.callsign ELSE b.callsign)
    /\ c.network = (IF o.kind \in {"TransportDisconnected", "SessionEnded"} THEN FALSE
                    ELSE IF o.kind = "ConnectionStateChanged" THEN o.callsign # NoCallsign
                    ELSE b.network)
    /\ c.deferred \in {b.deferred, <<>>} /\ c.bound = b.bound
    /\ o.kind \in {"TransportDisconnected", "SessionEnded"} => c.deferred = <<>>
    /\ o.kind = "ConnectionStateChanged" => c.deferred = <<>> \/ b.epoch \in {0, o.epoch}

\* A transport that is gone takes the deferred messages with it.
LEMMA LoseTransportEffect ==
    ASSUME NEW b, Sound(b), NEW o \in Observation,
           o.kind \in {"TransportDisconnected", "SessionEnded"}
    PROVE  Effect(b, o, LoseTransport(b))
<1> DEFINE m == Unavailable(b)
           c == [m EXCEPT !.transport = FALSE, !.source = FALSE,
                          !.network = FALSE, !.deferred = <<>>]
<1>1. m \in Brains /\ Keeps(b, m)
  BY UnavailableKeeps
<1> HIDE DEF m
<1>2. /\ c.process = m.process /\ c.epoch = m.epoch /\ c.network = FALSE
      /\ c.callsign = m.callsign /\ c.bound = m.bound /\ c.deferred = <<>>
      /\ c.last = m.last
  BY <1>1 DEF Brains
<1> HIDE DEF c
<1>3. LoseTransport(b) = c
  BY DEF LoseTransport, m, c
<1> QED BY <1>1, <1>2, <1>3 DEF Effect, Keeps

\* A greeting sets process and epoch; a new process starts from nothing.
LEMMA HelloEffect ==
    ASSUME NEW b, Sound(b), NEW o \in Observation, o.kind = "Hello"
    PROVE  Effect(b, o, Hello(b, o))
<1> DEFINE n == LastAfterHello(b, o)
           g == [b EXCEPT !.process = o.process, !.epoch = o.epoch,
                          !.compatible = TRUE, !.last = n]
           m == Unavailable(g)
           c == [m EXCEPT !.deferred = <<>>]
<1>1. b \in Brains /\ n \in Nat /\ o.process \in Nat /\ o.epoch \in Nat
  BY BrainFields, ObservationFields DEF Sound, LastAfterHello
<1> HIDE DEF n
<1>2. Sound(g)
  BY <1>1, ZenonT(60) DEF Sound, Brains
<1>3. /\ g.process = o.process /\ g.epoch = o.epoch /\ g.network = b.network
      /\ g.callsign = b.callsign /\ g.bound = b.bound /\ g.deferred = b.deferred
      /\ g.last = n
  BY <1>1 DEF Brains
<1> HIDE DEF g
<1>4. m \in Brains /\ Keeps(g, m)
  BY <1>2, UnavailableKeeps
<1> HIDE DEF m
<1>5. /\ c.process = m.process /\ c.epoch = m.epoch /\ c.network = m.network
      /\ c.callsign = m.callsign /\ c.bound = m.bound /\ c.deferred = <<>>
      /\ c.last = m.last
  BY <1>4 DEF Brains
<1> HIDE DEF c
<1>6. Hello(b, o) = IF b.process # 0 /\ b.process # o.process THEN c ELSE g
  BY DEF Hello, g, m, c, n
<1>7. Effect(b, o, g) /\ Effect(b, o, c)
  BY <1>3, <1>4, <1>5 DEF Effect, Keeps, n
<1> QED BY <1>6, <1>7

\* A connection change sets epoch and callsign.
LEMMA ConnectionEffect ==
    ASSUME NEW b, Sound(b), NEW o \in Observation, o.kind = "ConnectionStateChanged"
    PROVE  Effect(b, o, ChangeConnection(b, o))
<1> DEFINE connected == o.callsign # NoCallsign
           kept == IF ~connected \/ (b.epoch # 0 /\ b.epoch # o.epoch)
                   THEN <<>> ELSE b.deferred
           m == MarkRecoveryRequired(b)
           now == [m EXCEPT !.epoch = o.epoch, !.network = connected,
                            !.callsign = o.callsign, !.deferred = kept]
<1>1. /\ o.epoch \in Nat /\ o.callsign \in Callsigns \cup {NoCallsign}
      /\ connected \in BOOLEAN /\ kept \in {b.deferred, <<>>}
  BY ObservationFields
<1>2. kept \in Seq([message : Observation, expired : BOOLEAN])
  <2>1. <<>> \in Seq([message : Observation, expired : BOOLEAN])
    OBVIOUS
  <2>2. b.deferred \in Seq([message : Observation, expired : BOOLEAN])
    BY BrainFields DEF Sound, Entries
  <2> HIDE DEF kept
  <2> QED BY <1>1, <2>1, <2>2
<1>3. Sound(m) /\ Keeps(b, m)
  BY MarkSound, MarkKeeps DEF Sound
<1>4. /\ connected <=> o.callsign # NoCallsign
      /\ kept = <<>> \/ b.epoch \in {0, o.epoch}
  OBVIOUS
<1> HIDE DEF kept, connected, m
<1>5. Sound(now)
  BY <1>1, <1>2, <1>3, ZenonT(60) DEF Sound, Brains
<1>6. /\ now.process = m.process /\ now.epoch = o.epoch /\ now.network = connected
      /\ now.callsign = o.callsign /\ now.bound = m.bound /\ now.deferred = kept
      /\ now.last = m.last
  BY <1>3 DEF Sound, Brains
<1> HIDE DEF now
<1>7. Keeps(now, Unavailable(now))
  BY <1>5, UnavailableKeeps
<1>8. ChangeConnection(b, o) = IF connected THEN now ELSE Unavailable(now)
  BY DEF ChangeConnection, connected, kept, m, now
<1>9. Effect(b, o, now)
  BY <1>1, <1>3, <1>4, <1>6, Zenon DEF Effect, Keeps
<1>10. Effect(b, o, Unavailable(now))
  BY <1>7, <1>9, Zenon DEF Effect, Keeps
<1> QED BY <1>8, <1>9, <1>10

\* The steps of a transfer are not about messages.
LEMMA TransferKeeps ==
    ASSUME NEW b, Sound(b), NEW o \in Observation
    PROVE  /\ Keeps(b, BeginSnapshot(b, o)) /\ Keeps(b, AddSnapshotEntry(b, o))
           /\ Keeps(b, CompleteSnapshot(b, o)) /\ Keeps(b, ApplyControllerEvent(b, o))
<1>0. b \in Brains
  BY DEF Sound
<1>1. ASSUME NEW build PROVE Keeps(b, [b EXCEPT !.build = build])
  BY <1>0 DEF Brains, Keeps
<1>2. ASSUME NEW list, NEW build
      PROVE  Keeps(b, [b EXCEPT !.list = list, !.build = build])
  BY <1>0 DEF Brains, Keeps
<1>3. Keeps(b, b)
  BY DEF Keeps
<1>4. Keeps(b, BeginSnapshot(b, o)) /\ Keeps(b, AddSnapshotEntry(b, o))
  BY <1>1, <1>3 DEF BeginSnapshot, AddSnapshotEntry
<1>5. Keeps(b, ApplyControllerEvent(b, o))
  BY <1>2 DEF ApplyControllerEvent
<1> DEFINE idle == [b EXCEPT !.build = NoBuild, !.pending = FALSE, !.request = 0]
           final == FinalList(b.build)
           done == [idle EXCEPT !.list = final, !.complete = TRUE, !.recovery = FALSE]
<1>6. Keeps(b, idle)
  BY <1>0 DEF Brains, Keeps
<1> HIDE DEF final
<1>7. Keeps(b, done)
  BY <1>0 DEF Brains, Keeps
<1> HIDE DEF idle, done
<1>8. CompleteSnapshot(b, o) \in {MarkRecoveryRequired(b), idle, done}
  BY DEF CompleteSnapshot, idle, done, final
<1> QED BY <1>0, <1>4, <1>5, <1>6, <1>7, <1>8, MarkKeeps

\* What any observation other than a message does.
LEMMA ObserveEffect ==
    ASSUME NEW b, Sound(b), NEW o \in Observation
    PROVE  Effect(b, o, Observe(b, o))
<1>0. b \in Brains
  BY DEF Sound
<1>1. ASSUME NEW c, Keeps(b, c),
             o.kind \notin {"Hello", "ConnectionStateChanged", "TransportDisconnected",
                            "SessionEnded"}
      PROVE  Effect(b, o, c)
  BY <1>1, Zenon DEF Effect, Keeps
<1>2. CASE o.kind \in {"TransportDisconnected", "SessionEnded"}
  <2>1. Observe(b, o) = LoseTransport(b)
    BY <1>2 DEF Observe, LiveKinds
  <2> QED BY <1>2, <2>1, LoseTransportEffect
<1>3. CASE o.kind = "Hello"
  <2>1. Observe(b, o) = Hello(b, o)
    BY <1>3 DEF Observe, LiveKinds
  <2> QED BY <1>3, <2>1, HelloEffect
<1>4. CASE o.kind = "ConnectionStateChanged"
  <2>1. Observe(b, o) = ChangeConnection(b, o)
    BY <1>4 DEF Observe, LiveKinds
  <2> QED BY <1>4, <2>1, ConnectionEffect
<1>5. CASE o.kind \notin {"Hello", "ConnectionStateChanged", "TransportDisconnected",
                          "SessionEnded"}
  <2>1. /\ Keeps(b, [b EXCEPT !.transport = TRUE])
        /\ Keeps(b, [b EXCEPT !.source = b.compatible])
    BY <1>0 DEF Brains, Keeps
  <2>2. /\ Keeps(b, BeginSnapshot(b, o)) /\ Keeps(b, AddSnapshotEntry(b, o))
        /\ Keeps(b, CompleteSnapshot(b, o)) /\ Keeps(b, ApplyControllerEvent(b, o))
    BY TransferKeeps
  <2>3. Observe(b, o) \in
            {[b EXCEPT !.transport = TRUE], [b EXCEPT !.source = b.compatible],
             BeginSnapshot(b, o), AddSnapshotEntry(b, o), CompleteSnapshot(b, o),
             ApplyControllerEvent(b, o), MarkRecoveryRequired(b)}
    BY <1>5 DEF Observe
  <2>4. Keeps(b, Observe(b, o))
    BY <1>0, <2>1, <2>2, <2>3, MarkKeeps
  <2> QED BY <1>1, <1>5, <2>4
<1> QED BY <1>2, <1>3, <1>4, <1>5

-----------------------------------------------------------------------------
(* No message is in the inbox twice                                        *)

\* What the numbers of process and message say of c, when they said it of b.
Remembers(b, c) == b.process < c.process \/ (b.process = c.process /\ b.last <= c.last)

\* What was seen stays seen.
LEMMA SeenStays ==
    ASSUME NEW b \in Brains, NEW c \in Brains, Remembers(b, c), NEW o \in Observation,
           Seen(b, o)
    PROVE  Seen(c, o)
<1>1. /\ b.process \in Nat /\ b.last \in Nat /\ c.process \in Nat /\ c.last \in Nat
      /\ o.process \in Nat /\ o.sequence \in Nat
  BY BrainFields, ObservationFields
<1> QED BY ONLY <1>1, Remembers(b, c), Seen(b, o) DEF Remembers, Seen

\* The messages of a well-typed inbox and of the deferred ones are observations.
LEMMA MessagesTyped ==
    ASSUME NEW b \in Brains, NEW m \in Seq(Observation)
    PROVE  /\ DOMAIN m = 1 .. Len(m) /\ Len(m) \in Nat
           /\ \A i \in DOMAIN m : m[i] \in Observation
           /\ DOMAIN b.deferred = 1 .. Len(b.deferred) /\ Len(b.deferred) \in Nat
           /\ \A i \in DOMAIN b.deferred : b.deferred[i].message \in Observation
<1>1. b.deferred \in Seq(Entries)
  BY BrainFields
<1>2. DOMAIN m = 1 .. Len(m) /\ Len(m) \in Nat
      /\ DOMAIN b.deferred = 1 .. Len(b.deferred) /\ Len(b.deferred) \in Nat
  BY <1>1, LenProperties
<1>3. \A i \in DOMAIN m : m[i] \in Observation
  BY <1>2, ElementOfSeq
<1>4. \A i \in DOMAIN b.deferred : b.deferred[i] \in Entries
  BY <1>1, <1>2, ElementOfSeq
<1>5. \A i \in DOMAIN b.deferred : b.deferred[i].message \in Observation
  BY <1>4 DEF Entries
<1> QED BY <1>2, <1>3, <1>5

\* Nothing is shown: what is remembered only grows, and messages only go.
LEMMA NothingShown ==
    ASSUME NEW b \in Brains, NEW c \in Brains, NEW m \in Seq(Observation), NEW n,
           AllSeenOnce(b, m), Remembers(b, c),
           c.deferred \in {b.deferred, <<>>}, n \in {m, <<>>}
    PROVE  AllSeenOnce(c, n)
<1>1. /\ \A i \in DOMAIN m : Seen(c, m[i])
      /\ \A i \in DOMAIN b.deferred : Seen(c, b.deferred[i].message)
  BY MessagesTyped, SeenStays DEF AllSeenOnce
<1>2. DOMAIN <<>> = {}
  OBVIOUS
<1>3. /\ \A i \in DOMAIN n : n = m /\ i \in DOMAIN m
      /\ \A i \in DOMAIN c.deferred : c.deferred = b.deferred /\ i \in DOMAIN b.deferred
  BY <1>2
<1> QED BY <1>1, <1>3, Zenon DEF AllSeenOnce, Once

\* A message of the Brain's process that it has not seen.
New(b, o) == o.process = b.process /\ o.sequence # 0 /\ b.last < o.sequence

\* It is none of those seen.
LEMMA NewDiffers ==
    ASSUME NEW b \in Brains, NEW o \in Observation, New(b, o),
           NEW p \in Observation, Seen(b, p)
    PROVE  ~Same(p, o)
<1>1. /\ b.process \in Nat /\ b.last \in Nat /\ o.process \in Nat /\ o.sequence \in Nat
      /\ p.process \in Nat /\ p.sequence \in Nat
  BY BrainFields, ObservationFields
<1> QED BY ONLY <1>1, New(b, o), Seen(b, p) DEF New, Seen, Same

\* One more message that is none of the others.
LEMMA OnceAppend ==
    ASSUME NEW S, NEW s \in Seq(S), NEW o, Once(s), \A i \in DOMAIN s : ~Same(s[i], o)
    PROVE  Once(Append(s, o))
<1> DEFINE t == Append(s, o)
<1>1. DOMAIN s = 1 .. Len(s) /\ Len(s) \in Nat
  BY LenProperties
<1>2. DOMAIN t = 1 .. Len(s) + 1 /\ t[Len(s) + 1] = o
  BY <1>1
<1>3. \A i \in 1 .. Len(s) : t[i] = s[i]
  BY <1>1
<1> HIDE DEF t
<1>4. SUFFICES ASSUME NEW i \in DOMAIN t, NEW j \in DOMAIN t, Same(t[i], t[j])
               PROVE  i = j
  BY DEF Once, t
<1>5. CASE i \in 1 .. Len(s) /\ j \in 1 .. Len(s)
  BY <1>1, <1>3, <1>4, <1>5 DEF Once
<1>6. CASE i = Len(s) + 1 /\ j \in 1 .. Len(s)
  <2>1. Same(s[j], o)
    BY <1>2, <1>3, <1>4, <1>6 DEF Same
  <2> QED BY <1>1, <1>6, <2>1
<1>7. CASE i \in 1 .. Len(s) /\ j = Len(s) + 1
  <2>1. Same(s[i], o)
    BY <1>2, <1>3, <1>4, <1>7 DEF Same
  <2> QED BY <1>1, <1>7, <2>1
<1> QED BY <1>1, <1>2, <1>5, <1>6, <1>7

\* A new message may be shown at once.
LEMMA NewIsShown ==
    ASSUME NEW b \in Brains, NEW c \in Brains, NEW m \in Seq(Observation),
           NEW o \in Observation, AllSeenOnce(b, m), New(b, o),
           Remembers(b, c), Seen(c, o), c.deferred = b.deferred
    PROVE  AllSeenOnce(c, Append(m, o))
<1> DEFINE n == Append(m, o)
<1>1. AllSeenOnce(c, m)
  BY NothingShown
<1>2. \A i \in DOMAIN m : ~Same(m[i], o)
  BY NewDiffers, MessagesTyped DEF AllSeenOnce
<1>3. \A j \in DOMAIN b.deferred : ~Same(o, b.deferred[j].message)
  BY NewDiffers, MessagesTyped DEF AllSeenOnce, Same
<1>4. Once(n)
  BY <1>1, <1>2, OnceAppend DEF AllSeenOnce
<1>5. \A i \in DOMAIN n : n[i] = o \/ (i \in DOMAIN m /\ n[i] = m[i])
  BY MessagesTyped
<1> HIDE DEF n
<1>6. \A i \in DOMAIN n : Seen(c, n[i])
  BY <1>1, <1>5, Zenon DEF AllSeenOnce
<1>7. \A i \in DOMAIN n, j \in DOMAIN c.deferred : ~Same(n[i], c.deferred[j].message)
  BY <1>1, <1>3, <1>5, Zenon DEF AllSeenOnce
<1>8. AllSeenOnce(c, n)
  BY <1>1, <1>4, <1>6, <1>7, Zenon DEF AllSeenOnce
<1> QED BY <1>8 DEF n

\* The messages of the deferred entries d.
MessagesOf(d) == [i \in DOMAIN d |-> d[i].message]

\* They are a sequence of observations.
LEMMA MessagesOfType ==
    ASSUME NEW d \in Seq(Entries)
    PROVE  /\ MessagesOf(d) \in Seq(Observation) /\ DOMAIN MessagesOf(d) = DOMAIN d
           /\ \A i \in DOMAIN d : MessagesOf(d)[i] = d[i].message
<1>1. DOMAIN d = 1 .. Len(d) /\ Len(d) \in Nat
  BY LenProperties
<1>2. \A i \in DOMAIN d : d[i] \in Entries
  BY <1>1, ElementOfSeq
<1>3. \A i \in DOMAIN d : d[i].message \in Observation
  BY <1>2 DEF Entries
<1> QED BY <1>1, <1>3, SeqDef DEF MessagesOf

\* Some of the deferred messages, in the order they are in.
Among(d, e) ==
    \A i, j \in DOMAIN d :
        \E k, l \in DOMAIN e : /\ d[i].message = e[k].message /\ d[j].message = e[l].message
                               /\ k = l => i = j

\* Of the deferred messages, fewer.
LEMMA FewerDeferred ==
    ASSUME NEW b \in Brains, NEW c \in Brains, NEW m \in Seq(Observation),
           AllSeenOnce(b, m), Remembers(b, c), Among(c.deferred, b.deferred)
    PROVE  AllSeenOnce(c, m)
<1>1. /\ \A i \in DOMAIN m : Seen(c, m[i])
      /\ \A i \in DOMAIN b.deferred : Seen(c, b.deferred[i].message)
  BY MessagesTyped, SeenStays DEF AllSeenOnce
<1>2. \A i \in DOMAIN c.deferred :
          \E k \in DOMAIN b.deferred : c.deferred[i].message = b.deferred[k].message
  BY DEF Among
<1>3. \A i \in DOMAIN c.deferred : Seen(c, c.deferred[i].message)
  BY <1>1, <1>2
<1>4. \A i \in DOMAIN m, j \in DOMAIN c.deferred : ~Same(m[i], c.deferred[j].message)
  BY <1>2 DEF AllSeenOnce
<1>5. ASSUME NEW i \in DOMAIN c.deferred, NEW j \in DOMAIN c.deferred,
             Same(c.deferred[i].message, c.deferred[j].message)
      PROVE  i = j
  BY <1>5 DEF AllSeenOnce, Among
<1>6. Once(m)
  BY DEF AllSeenOnce
<1> QED BY <1>1, <1>3, <1>4, <1>5, <1>6 DEF AllSeenOnce

\* The deferred messages may be shown when they leave the deferred ones.
LEMMA DeferredAreShown ==
    ASSUME NEW b \in Brains, NEW c \in Brains, NEW m \in Seq(Observation),
           NEW n \in {m, <<>>}, NEW d \in Seq(Entries),
           AllSeenOnce(b, m), Remembers(b, c), Among(d, b.deferred), c.deferred = <<>>
    PROVE  AllSeenOnce(c, n \o MessagesOf(d))
<1> DEFINE s == MessagesOf(d)
           t == n \o s
<1>1. s \in Seq(Observation) /\ DOMAIN s = DOMAIN d /\ \A i \in DOMAIN d : s[i] = d[i].message
  BY MessagesOfType
<1>2. n \in Seq(Observation)
  <2>1. <<>> \in Seq(Observation)
    OBVIOUS
  <2> QED BY <2>1
<1>3. /\ DOMAIN s = 1 .. Len(s) /\ Len(s) \in Nat
      /\ DOMAIN n = 1 .. Len(n) /\ Len(n) \in Nat
  BY <1>1, <1>2, LenProperties
<1> HIDE DEF s
<1>4. /\ DOMAIN t = 1 .. Len(n) + Len(s)
      /\ \A i \in DOMAIN t : \/ i \in DOMAIN n /\ t[i] = n[i]
                             \/ i - Len(n) \in DOMAIN s /\ t[i] = s[i - Len(n)]
  <2>1. /\ t \in Seq(Observation) /\ Len(t) = Len(n) + Len(s)
        /\ \A i \in 1 .. Len(n) + Len(s) :
               t[i] = IF i <= Len(n) THEN n[i] ELSE s[i - Len(n)]
    BY <1>1, <1>2, ConcatProperties
  <2> HIDE DEF t
  <2>2. DOMAIN t = 1 .. Len(n) + Len(s)
    BY <2>1, LenProperties
  <2>3. ASSUME NEW i \in 1 .. Len(n) + Len(s), i <= Len(n)
        PROVE  i \in DOMAIN n /\ t[i] = n[i]
    BY <1>3, <2>1, <2>3
  <2>4. ASSUME NEW i \in 1 .. Len(n) + Len(s), ~(i <= Len(n))
        PROVE  i - Len(n) \in DOMAIN s /\ t[i] = s[i - Len(n)]
    BY <1>3, <2>1, <2>4
  <2> QED BY <2>2, <2>3, <2>4
<1> HIDE DEF t
<1>5. /\ \A i \in DOMAIN n : Seen(c, n[i])
      /\ Once(n)
      /\ \A i \in DOMAIN n, j \in DOMAIN b.deferred : ~Same(n[i], b.deferred[j].message)
  <2>1. AllSeenOnce(c, n)
    BY NothingShown
  <2>2. \A i \in DOMAIN n : n = m
    BY <1>3
  <2> QED BY <2>1, <2>2 DEF AllSeenOnce
<1>6. \A i \in DOMAIN d : \E k \in DOMAIN b.deferred : s[i] = b.deferred[k].message
  BY <1>1 DEF Among
<1>7. \A i \in DOMAIN s : Seen(c, s[i])
  BY <1>1, <1>6, MessagesTyped, SeenStays DEF AllSeenOnce
<1>8. \A i \in DOMAIN n, j \in DOMAIN s : ~Same(n[i], s[j])
  BY <1>1, <1>5, <1>6
<1>9. \A i, j \in DOMAIN s : Same(s[i], s[j]) => i = j
  <2> TAKE i, j \in DOMAIN s
  <2>1. PICK k, l \in DOMAIN b.deferred : /\ d[i].message = b.deferred[k].message
                                          /\ d[j].message = b.deferred[l].message
                                          /\ k = l => i = j
    BY <1>1 DEF Among
  <2>2. s[i] = b.deferred[k].message /\ s[j] = b.deferred[l].message
    BY <1>1, <2>1
  <2>3. Same(b.deferred[k].message, b.deferred[l].message) => k = l
    BY DEF AllSeenOnce
  <2> QED BY <2>1, <2>2, <2>3
<1>10. \A i, j \in DOMAIN t : Same(t[i], t[j]) => i = j
  <2> TAKE i, j \in DOMAIN t
  <2> HAVE Same(t[i], t[j])
  <2>1. CASE i \in DOMAIN n /\ t[i] = n[i] /\ j \in DOMAIN n /\ t[j] = n[j]
    BY <1>5, <2>1 DEF Once
  <2>2. CASE /\ i \in DOMAIN n /\ t[i] = n[i]
             /\ j - Len(n) \in DOMAIN s /\ t[j] = s[j - Len(n)]
    BY <1>8, <2>2
  <2>3. CASE /\ i - Len(n) \in DOMAIN s /\ t[i] = s[i - Len(n)]
             /\ j \in DOMAIN n /\ t[j] = n[j]
    BY <1>8, <2>3 DEF Same
  <2>4. CASE /\ i - Len(n) \in DOMAIN s /\ t[i] = s[i - Len(n)]
             /\ j - Len(n) \in DOMAIN s /\ t[j] = s[j - Len(n)]
    <3>1. i - Len(n) = j - Len(n)
      BY <1>9, <2>4
    <3>2. i \in Int /\ j \in Int
      BY <1>3, <1>4
    <3> QED BY <1>3, <3>1, <3>2
  <2> QED BY <1>4, <2>1, <2>2, <2>3, <2>4
<1>11. \A i \in DOMAIN t : Seen(c, t[i])
  BY <1>4, <1>5, <1>7
<1>12. DOMAIN c.deferred = {}
  OBVIOUS
<1>13. AllSeenOnce(c, t)
  BY <1>10, <1>11, <1>12 DEF AllSeenOnce, Once
<1> QED BY <1>13 DEF t, s

\* A part of the deferred messages from the n-th on.
LEMMA PartIsAmong ==
    ASSUME NEW d \in Seq(Entries), NEW e \in Seq(Entries), NEW n \in Nat,
           \A i \in DOMAIN d : i + n \in DOMAIN e /\ d[i].message = e[i + n].message
    PROVE  Among(d, e)
<1> SUFFICES ASSUME NEW i \in DOMAIN d, NEW j \in DOMAIN d
             PROVE  \E k, l \in DOMAIN e : /\ d[i].message = e[k].message
                                           /\ d[j].message = e[l].message
                                           /\ k = l => i = j
  BY DEF Among
<1>1. i \in Nat /\ j \in Nat
  BY LenProperties
<1>2. i + n = j + n => i = j
  BY <1>1
<1>3. i + n \in DOMAIN e /\ j + n \in DOMAIN e
  OBVIOUS
<1> QED BY <1>2, <1>3

\* All but the first.
LEMMA TailIsAmong ==
    ASSUME NEW e \in Seq(Entries), e # <<>>
    PROVE  Tail(e) \in Seq(Entries) /\ Among(Tail(e), e)
<1> DEFINE d == Tail(e)
<1>1. d \in Seq(Entries) /\ Len(d) = Len(e) - 1 /\ \A i \in 1 .. Len(d) : d[i] = e[i + 1]
  BY HeadTailProperties
<1>2. DOMAIN d = 1 .. Len(d) /\ DOMAIN e = 1 .. Len(e) /\ Len(e) \in Nat
  BY <1>1, LenProperties
<1> HIDE DEF d
<1>3. \A i \in DOMAIN d : i + 1 \in DOMAIN e /\ d[i].message = e[i + 1].message
  BY <1>1, <1>2
<1>4. Among(d, e)
  BY <1>1, <1>3, PartIsAmong
<1> QED BY <1>1, <1>4 DEF d

\* Those still alive.
LEMMA AliveIsAmong ==
    ASSUME NEW b \in Brains
    PROVE  AliveDeferred(b) \in Seq(Entries) /\ Among(AliveDeferred(b), b.deferred)
<1> DEFINE dead == {i \in DOMAIN b.deferred : \A j \in 1 .. i : ~Alive(b, b.deferred[j])}
           n == Cardinality(dead)
           d == SubSeq(b.deferred, n + 1, Len(b.deferred))
<1>1. b.deferred \in Seq(Entries)
  BY BrainFields
<1>2. DOMAIN b.deferred = 1 .. Len(b.deferred) /\ Len(b.deferred) \in Nat
  BY <1>1, LenProperties
<1>3. IsFiniteSet(1 .. Len(b.deferred)) /\ dead \subseteq 1 .. Len(b.deferred)
  BY <1>2, FS_Interval
<1>4. n \in Nat
  BY <1>3, FS_Subset, FS_CardinalityType
<1>5. AliveDeferred(b) = d
  BY DEF AliveDeferred
<1> HIDE DEF n, dead
<1>6. \A i \in n + 1 .. Len(b.deferred) : b.deferred[i] \in Entries
  <2> TAKE i \in n + 1 .. Len(b.deferred)
  <2>1. i \in 1 .. Len(b.deferred)
    BY <1>2, <1>4
  <2> QED BY <1>1, <2>1, ElementOfSeq
<1>7. n + 1 \in Int /\ Len(b.deferred) \in Int
  BY <1>2, <1>4
<1>8. /\ d \in Seq(Entries)
      /\ Len(d) = IF n + 1 <= Len(b.deferred) THEN Len(b.deferred) - (n + 1) + 1 ELSE 0
      /\ \A i \in 1 .. Len(b.deferred) - (n + 1) + 1 : d[i] = b.deferred[n + 1 + i - 1]
  BY ONLY <1>6, <1>7, SubSeqProperties
<1> HIDE DEF d
<1>9. DOMAIN d = 1 .. Len(d)
  BY <1>8, LenProperties
<1>10. ASSUME NEW i \in DOMAIN d
       PROVE  i + n \in DOMAIN b.deferred /\ d[i].message = b.deferred[i + n].message
  <2>1. i \in 1 .. Len(b.deferred) - (n + 1) + 1
    BY <1>2, <1>4, <1>8, <1>9
  <2>2. d[i] = b.deferred[n + 1 + i - 1] /\ i \in Int
    BY <1>8, <2>1
  <2>3. n + 1 + i - 1 = i + n /\ i + n \in 1 .. Len(b.deferred)
    BY <1>2, <1>4, <2>1
  <2> QED BY <1>2, <2>2, <2>3
<1>11. Among(d, b.deferred)
  BY <1>1, <1>4, <1>8, <1>10, PartIsAmong
<1> QED BY <1>5, <1>8, <1>11

\* A new message may be deferred.
LEMMA NewIsDeferred ==
    ASSUME NEW b \in Brains, NEW c \in Brains, NEW m \in Seq(Observation),
           NEW o \in Observation, AllSeenOnce(b, m), New(b, o),
           Remembers(b, c), Seen(c, o),
           NEW kept \in Seq(Entries), Among(kept, b.deferred),
           c.deferred = Append(kept, [message |-> o, expired |-> FALSE])
    PROVE  AllSeenOnce(c, m)
<1> DEFINE entry == [message |-> o, expired |-> FALSE]
           d == Append(kept, entry)
<1>1. DOMAIN kept = 1 .. Len(kept) /\ Len(kept) \in Nat /\ entry.message = o
  BY LenProperties
<1> HIDE DEF entry
<1>2. /\ DOMAIN d = 1 .. Len(kept) + 1 /\ d[Len(kept) + 1] = entry
      /\ \A i \in 1 .. Len(kept) : d[i] = kept[i]
  BY <1>1
<1>3. c.deferred = d
  BY DEF entry
<1> HIDE DEF d
<1>4. /\ \A i \in DOMAIN m : Seen(c, m[i])
      /\ \A i \in DOMAIN b.deferred : Seen(c, b.deferred[i].message)
  BY MessagesTyped, SeenStays DEF AllSeenOnce
<1>5. \A i \in DOMAIN m : ~Same(m[i], o)
  BY NewDiffers, MessagesTyped DEF AllSeenOnce
<1>6. \A j \in DOMAIN b.deferred : ~Same(b.deferred[j].message, o)
  BY NewDiffers, MessagesTyped DEF AllSeenOnce
<1>7. \A i \in DOMAIN kept : \E k \in DOMAIN b.deferred :
          kept[i].message = b.deferred[k].message
  BY DEF Among
<1>8. \A i \in DOMAIN d : \/ i = Len(kept) + 1 /\ d[i].message = o
                          \/ i \in DOMAIN kept /\ d[i].message = kept[i].message
  BY <1>1, <1>2
<1>9. \A i \in DOMAIN d : Seen(c, d[i].message)
  BY <1>4, <1>7, <1>8
<1>10. \A i \in DOMAIN m, j \in DOMAIN d : ~Same(m[i], d[j].message)
  BY <1>5, <1>7, <1>8 DEF AllSeenOnce
<1>11. \A i \in DOMAIN kept : ~Same(kept[i].message, o)
  BY <1>6, <1>7
<1>12. ASSUME NEW i \in DOMAIN d, NEW j \in DOMAIN d, Same(d[i].message, d[j].message)
       PROVE  i = j
  <2>1. CASE i \in DOMAIN kept /\ d[i].message = kept[i].message
             /\ j \in DOMAIN kept /\ d[j].message = kept[j].message
    BY <1>12, <2>1 DEF Among, AllSeenOnce
  <2>2. CASE i = Len(kept) + 1 /\ d[i].message = o
             /\ j \in DOMAIN kept /\ d[j].message = kept[j].message
    BY <1>11, <1>12, <2>2 DEF Same
  <2>3. CASE i \in DOMAIN kept /\ d[i].message = kept[i].message
             /\ j = Len(kept) + 1 /\ d[j].message = o
    BY <1>11, <1>12, <2>3
  <2> QED BY <1>8, <2>1, <2>2, <2>3
<1>13. Once(m)
  BY DEF AllSeenOnce
<1> QED BY <1>3, <1>4, <1>9, <1>10, <1>12, <1>13 DEF AllSeenOnce

\* The Brain knows the callsign the messages were shown for.
LEMMA AdmitFields ==
    ASSUME NEW b, Sound(b), NEW messages, Admit(b, messages), BrainInv
    PROVE  /\ inbox' = InboxOfFlight(b) \o messages /\ InboxOfFlight(b) \in {inbox, <<>>}
           /\ brain' \in Brains /\ brain'.bound = flight
           /\ brain'.process = b.process /\ brain'.last = b.last
           /\ brain'.epoch = b.epoch /\ brain'.network = b.network
           /\ brain'.callsign = b.callsign /\ brain'.deferred = b.deferred
<1>1. brain' = [b EXCEPT !.bound = flight] /\ flight \in Callsigns \cup {NoCallsign}
  BY DEF Admit, BrainInv
<1>2. brain' \in Brains
  BY <1>1, ZenonT(60) DEF Sound, Brains
<1>3. /\ brain'.bound = flight /\ brain'.process = b.process /\ brain'.last = b.last
      /\ brain'.epoch = b.epoch /\ brain'.network = b.network
      /\ brain'.callsign = b.callsign /\ brain'.deferred = b.deferred
  BY <1>1 DEF Sound, Brains
<1> QED BY <1>2, <1>3 DEF Admit, InboxOfFlight

\* Deferral changes nothing but the deferred messages.
LEMMA WithDeferredFields ==
    ASSUME NEW b \in Brains, NEW d
    PROVE  LET c == [b EXCEPT !.deferred = d]
           IN  /\ c.process = b.process /\ c.last = b.last /\ c.epoch = b.epoch
               /\ c.network = b.network /\ c.callsign = b.callsign /\ c.bound = b.bound
               /\ c.deferred = d
  BY DEF Brains

\* A new message is shown, deferred or dropped: none of it shows one twice.
LEMMA EvaluateOnce ==
    ASSUME NEW b, Sound(b), NEW s, Sound(s), NEW o \in Observation, BrainInv,
           AllSeenOnce(b, inbox), New(b, o), Remembers(b, s), Seen(s, o),
           s.deferred = b.deferred, EvaluateMessage(s, o)
    PROVE  AllSeenOnce(brain', inbox') /\ brain'.process = s.process
<1>1. b \in Brains /\ s \in Brains /\ inbox \in Seq(Observation)
  BY DEF Sound, BrainInv
<1>2. CASE MatchesSession(s, o) /\ FlightReady(s)
  <2> DEFINE n == InboxOfFlight(s)
  <2>1. Admit(s, <<o>>)
    BY <1>2 DEF EvaluateMessage
  <2>2. /\ inbox' = n \o <<o>> /\ n \in {inbox, <<>>} /\ brain' \in Brains
        /\ brain'.process = s.process /\ brain'.last = s.last
        /\ brain'.deferred = s.deferred
    BY <2>1, AdmitFields
  <2> HIDE DEF n
  <2>3. n \in Seq(Observation)
    <3>1. <<>> \in Seq(Observation)
      OBVIOUS
    <3> QED BY <1>1, <2>2, <3>1
  <2>4. n \o <<o>> = Append(n, o)
    BY <2>3
  <2>5. Remembers(b, b)
    BY <1>1, BrainFields DEF Remembers
  <2>6. AllSeenOnce(b, n)
    BY <1>1, <2>2, <2>5, NothingShown
  <2>7. Remembers(b, brain') /\ Seen(brain', o)
    BY <2>2 DEF Remembers, Seen
  <2>8. AllSeenOnce(brain', Append(n, o))
    BY <1>1, <2>2, <2>3, <2>6, <2>7, NewIsShown
  <2> QED BY <2>2, <2>4, <2>8
<1>3. CASE MatchesSession(s, o) /\ ~FlightReady(s)
  <2> DEFINE kept == IF Len(s.deferred) >= MaximumDeferred THEN Tail(s.deferred)
                     ELSE s.deferred
             d == Append(kept, [message |-> o, expired |-> FALSE])
  <2>1. brain' = Defer(s, o) /\ inbox' = inbox
    BY <1>3 DEF EvaluateMessage
  <2>2. s.deferred \in Seq(Entries)
    BY <1>1, BrainFields
  <2>3. Len(s.deferred) >= MaximumDeferred => s.deferred # <<>>
    BY <2>2, BrainAssumption
  <2>4. \A i \in DOMAIN s.deferred : i + 0 \in DOMAIN s.deferred
                                     /\ s.deferred[i].message = s.deferred[i + 0].message
    BY <2>2, LenProperties
  <2>5. Among(s.deferred, s.deferred)
    BY <2>2, <2>4, PartIsAmong
  <2>6. kept \in Seq(Entries) /\ Among(kept, s.deferred)
    BY <2>2, <2>3, <2>5, TailIsAmong
  <2>7. brain' = [s EXCEPT !.deferred = d]
    BY <2>1 DEF Defer
  <2> HIDE DEF kept
  <2>8. brain'.process = s.process /\ brain'.last = s.last /\ brain'.deferred = d
    BY <1>1, <2>7, WithDeferredFields
  <2>9. brain' \in Brains
    BY <2>1, DeferSound DEF Sound
  <2>10. Remembers(b, brain') /\ Seen(brain', o)
    BY <2>8 DEF Remembers, Seen
  <2>11. AllSeenOnce(brain', inbox)
    BY <1>1, <2>6, <2>8, <2>9, <2>10, NewIsDeferred
  <2> QED BY <2>1, <2>8, <2>11
<1>4. CASE ~MatchesSession(s, o)
  <2>1. brain' = s /\ inbox' = inbox
    BY <1>4 DEF EvaluateMessage
  <2> QED BY <1>1, <2>1, NothingShown
<1> QED BY <1>2, <1>3, <1>4

\* At the end of a service call the deferred messages are shown together or wait.
LEMMA ReevaluateOnce ==
    ASSUME NEW b, Sound(b), BrainInv, AllSeenOnce(b, inbox), ReevaluateDeferred(b)
    PROVE  AllSeenOnce(brain', inbox') /\ brain'.process = b.process
<1> DEFINE alive == AliveDeferred(b)
           messages == [i \in DOMAIN alive |-> alive[i].message]
<1>1. b \in Brains /\ inbox \in Seq(Observation)
  BY DEF Sound, BrainInv
<1>2. alive \in Seq(Entries) /\ Among(alive, b.deferred)
  BY <1>1, AliveIsAmong
<1> HIDE DEF alive
<1>3. CASE alive # <<>> /\ FlightReady(b)
  <2> DEFINE c == NoneDeferred(b)
             n == InboxOfFlight(c)
  <2>1. Admit(c, messages) /\ messages = MessagesOf(alive)
    BY <1>3 DEF ReevaluateDeferred, alive, MessagesOf
  <2>2. <<>> \in Seq(Entries)
    OBVIOUS
  <2>3. Sound(c) /\ c.process = b.process /\ c.last = b.last /\ c.deferred = <<>>
    BY <1>1, <2>2, WithDeferredSound, WithDeferredFields DEF NoneDeferred
  <2> HIDE DEF messages, c
  <2>4. /\ inbox' = n \o messages /\ n \in {inbox, <<>>} /\ brain' \in Brains
        /\ brain'.process = c.process /\ brain'.last = c.last
        /\ brain'.deferred = c.deferred
    BY <2>1, <2>3, AdmitFields
  <2> HIDE DEF n
  <2>5. Remembers(b, brain')
    BY <1>1, <2>3, <2>4, BrainFields DEF Remembers
  <2>6. AllSeenOnce(brain', n \o MessagesOf(alive))
    BY <1>1, <1>2, <2>3, <2>4, <2>5, DeferredAreShown
  <2> QED BY <2>1, <2>3, <2>4, <2>6
<1>4. CASE ~(alive # <<>> /\ FlightReady(b))
  <2>1. brain' = [b EXCEPT !.deferred = alive] /\ inbox' = inbox
    BY <1>4 DEF ReevaluateDeferred, alive
  <2>2. brain' \in Brains
    BY <1>2, <2>1, WithDeferredSound DEF Sound
  <2>3. brain'.process = b.process /\ brain'.last = b.last /\ brain'.deferred = alive
    BY <1>1, <2>1, WithDeferredFields
  <2>4. Remembers(b, brain')
    BY <1>1, <2>3, BrainFields DEF Remembers
  <2>5. AllSeenOnce(brain', inbox)
    BY <1>1, <1>2, <2>2, <2>3, <2>4, FewerDeferred
  <2> QED BY <2>1, <2>3, <2>5
<1> QED BY <1>3, <1>4

\* The count of a service call is not about messages.
LEMMA WithServedKeeps ==
    ASSUME NEW b \in Brains, NEW n
    PROVE  Keeps(b, [b EXCEPT !.served = n])
  BY DEF Brains, Keeps

\* A Brain that is the same about messages has seen the same ones.
LEMMA KeptOnce ==
    ASSUME NEW b, NEW c, Keeps(b, c), NEW m, AllSeenOnce(b, m)
    PROVE  AllSeenOnce(c, m)
  BY Zenon DEF Keeps, AllSeenOnce, Seen

\* An observation consumed shows no message twice, and only a greeting names
\* another process.
LEMMA ConsumeOnce ==
    ASSUME BrainInv, AllSeenOnce(brain, inbox), NEW o \in Arriving, Consume(o),
           o.kind = "Hello" => brain.process <= o.process
    PROVE  /\ AllSeenOnce(brain', inbox')
           /\ brain'.process = IF o.kind = "Hello" THEN o.process ELSE brain.process
<1> DEFINE n == brain.served + 1
           b == [brain EXCEPT !.served = n]
           seen == ObserveSequence(b, o)
<1>1. /\ brain.served \in 0 .. MaximumObservations /\ brain.served < MaximumObservations
      /\ brain \in Brains /\ inbox \in Seq(Observation)
  BY BrainFields DEF BrainInv, Sound, Consume, HasShare
<1>2. n \in 0 .. MaximumObservations
  BY <1>1, BrainAssumption
<1> HIDE DEF n
<1>3. Sound(b) /\ Keeps(brain, b)
  BY <1>1, <1>2, WithServedSound, WithServedKeeps DEF BrainInv
<1>4. b = [brain EXCEPT !.served = @ + 1]
  BY DEF n
<1> HIDE DEF b
<1>5. o \in Observation /\ o \in Proper
  BY CapturedIsProper
<1>6. /\ Sound(seen)
      /\ seen.process = b.process /\ seen.epoch = b.epoch /\ seen.network = b.network
      /\ seen.callsign = b.callsign /\ seen.bound = b.bound
      /\ seen.deferred = b.deferred
      /\ seen.last = IF o.sequence = 0 \/ o.kind \in LocalKinds \cup {"Hello"}
                        \/ o.sequence <= b.last
                     THEN b.last ELSE o.sequence
  BY <1>3, <1>5, SequenceSound, SequenceKeeps
<1>7. IF ~Belongs(b, o) \/ IsStale(b, o) THEN brain' = b /\ UNCHANGED inbox
      ELSE IF o.kind = "IncomingPrivateMessage" THEN EvaluateMessage(seen, o)
      ELSE brain' = Observe(seen, o) /\ UNCHANGED inbox
  BY <1>4 DEF Consume, seen
<1> HIDE DEF seen
<1>8. b \in Brains /\ AllSeenOnce(b, inbox) /\ b.process = brain.process
  BY <1>3, KeptOnce DEF Sound, Keeps
<1>9. /\ b.process \in Nat /\ b.last \in Nat /\ o.sequence \in Nat /\ o.process \in Nat
  BY <1>5, <1>8, BrainFields, ObservationFields
<1>10. o.kind = "Hello" => Belongs(b, o) /\ ~IsStale(b, o)
  BY DEF Belongs, IsStale
<1>11. CASE ~Belongs(b, o) \/ IsStale(b, o)
  BY <1>7, <1>8, <1>10, <1>11
<1>12. CASE /\ Belongs(b, o) /\ ~IsStale(b, o) /\ o.kind = "IncomingPrivateMessage"
  <2>1. o.sequence # 0
    BY <1>12, MessageHasNumber
  <2>2. New(b, o)
    BY <1>9, <1>12, <2>1 DEF New, Belongs, IsStale, LocalKinds
  <2>3. seen.last = o.sequence
    BY <1>6, <1>9, <1>12, <2>1, <2>2 DEF New, LocalKinds
  <2>4. Remembers(b, seen) /\ Seen(seen, o)
    BY <1>6, <1>9, <2>1, <2>2, <2>3 DEF New, Remembers, Seen
  <2>5. EvaluateMessage(seen, o)
    BY <1>7, <1>12
  <2>6. AllSeenOnce(brain', inbox') /\ brain'.process = seen.process
    BY <1>3, <1>5, <1>6, <1>8, <2>2, <2>4, <2>5, EvaluateOnce
  <2> QED BY <1>6, <1>8, <1>12, <2>6
<1>13. CASE /\ Belongs(b, o) /\ ~IsStale(b, o) /\ o.kind # "IncomingPrivateMessage"
  <2>1. brain' = Observe(seen, o) /\ inbox' = inbox
    BY <1>7, <1>13
  <2>2. Effect(seen, o, brain') /\ brain' \in Brains
    <3>1. Effect(seen, o, Observe(seen, o)) /\ Sound(Observe(seen, o))
      BY <1>5, <1>6, ObserveEffect, ObserveSound
    <3> QED BY <2>1, <3>1 DEF Sound
  <2>3. /\ brain'.process = (IF o.kind = "Hello" THEN o.process ELSE b.process)
        /\ brain'.deferred \in {b.deferred, <<>>}
        /\ brain'.last = (IF o.kind = "Hello" THEN LastAfterHello(seen, o) ELSE seen.last)
    BY <1>6, <2>2, Zenon DEF Effect
  <2>4. b.last <= seen.last
    BY <1>6, <1>9
  <2>5. Remembers(b, brain')
    <3>1. CASE o.kind # "Hello"
      BY <2>3, <2>4, <3>1 DEF Remembers
    <3>2. CASE o.kind = "Hello" /\ o.process = b.process
      BY <1>6, <2>3, <2>4, <3>2 DEF Remembers, LastAfterHello
    <3>3. CASE o.kind = "Hello" /\ o.process # b.process
      BY <1>8, <1>9, <2>3, <3>3 DEF Remembers
    <3> QED BY <3>1, <3>2, <3>3
  <2>6. AllSeenOnce(brain', inbox)
    BY <1>1, <1>8, <2>2, <2>3, <2>5, NothingShown
  <2> QED BY <1>8, <2>1, <2>3, <2>6
<1> QED BY <1>11, <1>12, <1>13

\* A request is not about messages.
LEMMA RequestedKeeps == ASSUME NEW b \in Brains PROVE Keeps(b, Requested(b))
<1> DEFINE m == b.nextRequest + 1
           c == [b EXCEPT !.pending = TRUE, !.request = b.nextRequest, !.nextRequest = m]
<1> HIDE DEF m
<1>1. Keeps(b, c)
  BY DEF Brains, Keeps
<1> QED BY <1>1 DEF Requested, m

\* The end of a service call shows no message twice.
LEMMA EndServiceOnce ==
    ASSUME BrainInv, AllSeenOnce(brain, inbox), NEW late \in BOOLEAN, NEW room \in BOOLEAN,
           EndService(late, room)
    PROVE  AllSeenOnce(brain', inbox') /\ brain'.process = brain.process
<1> DEFINE ended == [brain EXCEPT !.served = 0]
           timed == TimeOut(ended, late)
           asked == IF NeedsSnapshot(timed) /\ room THEN Requested(timed) ELSE timed
<1>1. Sound(ended) /\ Keeps(brain, ended)
  <2>1. 0 \in 0 .. MaximumObservations
    BY BrainAssumption
  <2>2. Sound(brain) /\ brain \in Brains
    BY DEF BrainInv, Sound
  <2> QED BY <2>1, <2>2, WithServedSound, WithServedKeeps
<1> HIDE DEF ended
<1>2. Sound(timed) /\ Keeps(ended, timed)
  BY <1>1, MarkSound, MarkKeeps DEF TimeOut, Sound, Keeps
<1> HIDE DEF timed
<1>3. Sound(asked) /\ Keeps(timed, asked)
  BY <1>2, RequestedSound, RequestedKeeps DEF NeedsSnapshot, Sound, Keeps
<1>4. ReevaluateDeferred(asked)
  BY DEF EndService, asked, timed, ended
<1> HIDE DEF asked
<1>5. AllSeenOnce(asked, inbox) /\ asked.process = brain.process
  BY <1>1, <1>2, <1>3, KeptOnce DEF Keeps
<1> QED BY <1>3, <1>4, <1>5, ReevaluateOnce

\* Age shows no message.
LEMMA ExpireOnce ==
    ASSUME BrainInv, AllSeenOnce(brain, inbox), ExpireDeferred
    PROVE  AllSeenOnce(brain', inbox') /\ brain'.process = brain.process
<1> DEFINE e == brain.deferred
           d == [i \in DOMAIN e |-> [e[i] EXCEPT !.expired = TRUE]]
<1>1. brain \in Brains /\ e \in Seq(Entries) /\ inbox \in Seq(Observation)
  BY BrainFields DEF BrainInv, Sound
<1>2. DOMAIN e = 1 .. Len(e) /\ Len(e) \in Nat
  BY <1>1, LenProperties
<1>3. brain' = [brain EXCEPT !.deferred = d] /\ inbox' = inbox
  BY DEF ExpireDeferred
<1> HIDE DEF e
<1>4. \A i \in DOMAIN e : e[i] \in Entries
  BY <1>1, <1>2, ElementOfSeq
<1>5. \A i \in DOMAIN e : [e[i] EXCEPT !.expired = TRUE] \in Entries
  BY <1>4 DEF Entries
<1>6. d \in Seq(Entries)
  BY <1>2, <1>5, SeqDef
<1>7. \A i \in DOMAIN e : [e[i] EXCEPT !.expired = TRUE].message = e[i].message
  BY <1>4 DEF Entries
<1>8. DOMAIN d = DOMAIN e /\ \A i \in DOMAIN e : d[i].message = e[i].message
  BY <1>7
<1> HIDE DEF d
<1>9. \A i \in DOMAIN d : i + 0 \in DOMAIN e /\ d[i].message = e[i + 0].message
  BY <1>2, <1>8
<1>10. Among(d, e)
  BY <1>1, <1>6, <1>9, PartIsAmong
<1>11. brain'.process = brain.process /\ brain'.last = brain.last /\ brain'.deferred = d
  BY <1>1, <1>3, WithDeferredFields
<1>12. brain' \in Brains
  BY <1>3, <1>6, WithDeferredSound DEF BrainInv, Sound
<1>13. Remembers(brain, brain')
  BY <1>1, <1>11, BrainFields DEF Remembers
<1>14. Among(brain'.deferred, brain.deferred)
  BY <1>10, <1>11 DEF e
<1>15. AllSeenOnce(brain', inbox)
  BY <1>1, <1>12, <1>13, <1>14, FewerDeferred
<1> QED BY <1>3, <1>11, <1>15

\* A Brain that starts has seen nothing.
LEMMA NothingSeen == AllSeenOnce(FreshBrain, <<>>) /\ FreshBrain.process = 0
<1>1. FreshBrain.deferred = <<>> /\ FreshBrain.process = 0 /\ DOMAIN <<>> = {}
  BY DEF FreshBrain
<1> QED BY <1>1, Zenon DEF AllSeenOnce, Once

-----------------------------------------------------------------------------
(* What the companion's threads move                                       *)

\* What the pipe has more, or it has lost everything.
PipeGets(A) ==
    \/ pipe'.toBrain \in {pipe.toBrain, <<>>}
    \/ \E o \in A : pipe'.toBrain = Append(pipe.toBrain, o)
    \/ /\ companion.runner = "Greeting" /\ pipe.live
       /\ \E o \in Observation : /\ o.kind = "Hello" /\ o.process = xpilot.process
                                 /\ o.epoch = companion.epoch
                                 /\ pipe'.toBrain = Append(pipe.toBrain, o)

\* Of A is what the queue holds and what the pipe has more.
Moves(A) ==
    /\ UNCHANGED xpilot /\ companion'.epoch = companion.epoch
    /\ companion'.held \in {companion.held, Nothing}
    /\ companion'.taken \in {companion.taken, Nothing} \/ companion'.taken.kind \in AnswerKinds
    /\ companion'.queue.items \in Seq(A)
    /\ PipeGets(A)
    /\ companion'.runner = "Greeting" => companion.runner = "Greeting" /\ UNCHANGED pipe

\* The UI thread queues what it has in hand.
LEMMA CaptureHeldMoves ==
    ASSUME CompanionInv, CaptureHeld, NEW A, companion.queue.items \in Seq(A),
           companion.held \in A
    PROVE  Moves(A)
<1> DEFINE queue == Offer(companion.queue, companion.held, QueueCapacity)
           stopping == companion.stopping \/ companion.held.kind = "SessionEnded"
           raced == IF companion.answer.phase = "Started"
                    THEN companion.raced \cup {companion.held.controller}
                    ELSE companion.raced
           c == [companion EXCEPT !.queue = queue, !.stopping = stopping,
                                  !.raced = raced, !.held = Nothing]
<1>1. companion' = c /\ UNCHANGED <<xpilot, pipe>>
  BY DEF CaptureHeld
<1>2. companion \in Companions /\ companion.queue \in ProperQueues
  BY CompanionFields DEF CompanionInv
<1>3. queue.items \in Seq(A)
  BY <1>2, OfferCarries, Bounds
<1> HIDE DEF queue, stopping, raced
<1>4. /\ c.queue = queue /\ c.held = Nothing /\ c.taken = companion.taken
      /\ c.epoch = companion.epoch /\ c.runner = companion.runner
  BY <1>2 DEF Companions
<1> QED BY <1>1, <1>3, <1>4 DEF Moves, PipeGets

\* The runner queues its answer.
LEMMA CaptureTakenMoves ==
    ASSUME CompanionInv, CaptureTaken, NEW A, companion.queue.items \in Seq(A),
           companion.taken \in A
    PROVE  Moves(A)
<1> DEFINE answer == companion.answer
           next == NextPhase(answer.phase, answer.left)
           queue == Offer(companion.queue, companion.taken, QueueCapacity)
           following == IF next = "None" THEN NoAnswer ELSE [answer EXCEPT !.phase = next]
           c == [companion EXCEPT !.queue = queue, !.taken = Nothing, !.answer = following]
<1>1. companion' = c /\ UNCHANGED <<xpilot, pipe>>
  BY DEF CaptureTaken
<1>2. companion \in Companions /\ companion.queue \in ProperQueues
  BY CompanionFields DEF CompanionInv
<1>3. queue.items \in Seq(A)
  BY <1>2, OfferCarries, Bounds
<1> HIDE DEF queue, following
<1>4. /\ c.queue = queue /\ c.taken = Nothing /\ c.held = companion.held
      /\ c.epoch = companion.epoch /\ c.runner = companion.runner
  BY <1>2 DEF Companions
<1> QED BY <1>1, <1>3, <1>4 DEF Moves, PipeGets

\* The runner numbers what it answers.
LEMMA NumberAnswerMoves ==
    ASSUME CompanionInv, NumberAnswer, NEW A, companion.queue.items \in Seq(A)
    PROVE  Moves(A)
<1> DEFINE answer == companion.answer
           entry  == CHOOSE x \in answer.left : TRUE
           left   == IF answer.phase = "Entry" THEN answer.left \ {entry} ELSE answer.left
           kind   == CASE answer.phase = "Started"   -> "SnapshotStarted"
                       [] answer.phase = "Entry"     -> "SnapshotEntry"
                       [] answer.phase = "Completed" -> "SnapshotCompleted"
                       [] OTHER                      -> "CorruptEnvelope"
           controller == IF answer.phase = "Entry" THEN entry ELSE NoController
           base == NewObservation(kind)
           o == [base EXCEPT !.request = answer.request, !.listed = answer.listed,
                             !.controller = controller]
           next == [answer EXCEPT !.left = left]
           sequence == companion.sequence + 1
           c == [companion EXCEPT !.sequence = sequence, !.taken = o, !.answer = next]
<1>1. companion' = c /\ UNCHANGED <<xpilot, pipe>>
  BY DEF NumberAnswer
<1>2. kind \in AnswerKinds
  BY DEF AnswerKinds
<1> HIDE DEF kind
<1>3. base.kind = kind
  BY DEF NewObservation, NumberedIn, Local
<1>4. o.kind = base.kind
  BY DEF NewObservation, NumberedIn, Local
<1> HIDE DEF base, controller, o, next, sequence
<1>5. /\ c.queue = companion.queue /\ c.taken = o /\ c.held = companion.held
      /\ c.epoch = companion.epoch /\ c.runner = companion.runner
  BY DEF CompanionInv, Companions
<1> QED BY <1>1, <1>2, <1>3, <1>4, <1>5 DEF Moves, PipeGets

\* The runner takes a request from the pipe.
LEMMA ReadCommandMoves ==
    ASSUME CompanionInv, NEW readable \in BOOLEAN, ReadCommand(readable), NEW A,
           companion.queue.items \in Seq(A)
    PROVE  Moves(A)
<1> DEFINE answer == [phase |-> IF readable THEN "Started" ELSE "Failed",
                      request |-> Head(pipe.toCompanion),
                      listed |-> xpilot.controllers, left |-> xpilot.controllers]
           rest == Tail(pipe.toCompanion)
           c == [companion EXCEPT !.answer = answer, !.raced = {}]
<1>1. /\ companion' = c /\ pipe' = [pipe EXCEPT !.toCompanion = rest]
      /\ UNCHANGED xpilot /\ companion.runner = "Connected"
  BY DEF ReadCommand, RunnerIdle
<1> HIDE DEF answer, rest
<1>2. /\ c.queue = companion.queue /\ c.taken = companion.taken /\ c.held = companion.held
      /\ c.epoch = companion.epoch /\ c.runner = companion.runner
  BY DEF CompanionInv, Companions
<1>3. pipe'.toBrain = pipe.toBrain
  BY <1>1 DEF CompanionInv, Pipes
<1> QED BY <1>1, <1>2, <1>3 DEF Moves, PipeGets

\* The runner opens and closes the pipe.
LEMMA RunnerMoves ==
    ASSUME CompanionInv, CreatePipe \/ LosePipe \/ StopGracefully, NEW A,
           companion.queue.items \in Seq(A)
    PROVE  Moves(A)
<1>1. /\ UNCHANGED xpilot /\ pipe' \in {pipe, DeadPipe}
      /\ \E r \in {"Stopped", "Listening", "Closed"} :
             companion' = [companion EXCEPT !.runner = r]
  BY DEF CreatePipe, LosePipe, StopGracefully
<1>2. PICK r \in {"Stopped", "Listening", "Closed"} :
             companion' = [companion EXCEPT !.runner = r]
  BY <1>1
<1>3. /\ companion'.queue = companion.queue /\ companion'.taken = companion.taken
      /\ companion'.held = companion.held /\ companion'.epoch = companion.epoch
      /\ companion'.runner = r
  BY <1>2 DEF CompanionInv, Companions
<1>4. pipe'.toBrain \in {pipe.toBrain, <<>>}
  BY <1>1 DEF DeadPipe
<1> QED BY <1>1, <1>3, <1>4 DEF Moves, PipeGets

\* The runner greets.
LEMMA WriteHelloMoves ==
    ASSUME CompanionInv, WriteHello, NEW A, companion.queue.items \in Seq(A)
    PROVE  Moves(A)
<1> DEFINE o == [Local("Hello") EXCEPT !.process = xpilot.process, !.epoch = companion.epoch]
           sent == Append(pipe.toBrain, o)
<1>1. /\ UNCHANGED xpilot /\ companion.runner = "Greeting" /\ pipe.live
      /\ companion' = [companion EXCEPT !.runner = "Connected"]
      /\ pipe' = [pipe EXCEPT !.toBrain = sent]
  BY DEF WriteHello
<1>2. Local("Hello") \in Observation
  BY LocalType DEF Kinds
<1>3. xpilot.process \in Nat /\ companion.epoch \in Nat
  BY CompanionFields DEF CompanionInv, XPilots
<1>4. /\ o \in Observation /\ o.kind = "Hello" /\ o.process = xpilot.process
      /\ o.epoch = companion.epoch
  BY <1>2, <1>3 DEF Local, Observation
<1> HIDE DEF o
<1>5. pipe'.toBrain = Append(pipe.toBrain, o)
  BY <1>1 DEF CompanionInv, Pipes
<1>6. /\ companion'.queue = companion.queue /\ companion'.taken = companion.taken
      /\ companion'.held = companion.held /\ companion'.epoch = companion.epoch
      /\ companion'.runner = "Connected"
  BY <1>1 DEF CompanionInv, Companions
<1>7. PipeGets(A)
  BY <1>1, <1>4, <1>5 DEF PipeGets
<1> QED BY <1>1, <1>6, <1>7 DEF Moves

\* A loss that is reported leaves what is in hand.
LEMMA MaterializeFields ==
    ASSUME NEW c \in Companions
    PROVE  LET d == MaterializeLoss(c)
           IN  /\ d.epoch = c.epoch /\ d.held = c.held /\ d.taken = c.taken
               /\ d.runner = c.runner
<1> DEFINE report == [NumberedIn(xpilot.process, c, "CapacityLoss") EXCEPT
                            !.epoch = c.queue.loss.epoch]
           queue == ReportLoss(c.queue, report)
           d == [c EXCEPT !.sequence = report.sequence, !.queue = queue]
<1>1. MaterializeLoss(c) = IF ~LossIsDue(c.queue, QueueCapacity) THEN c ELSE d
  BY DEF MaterializeLoss
<1> HIDE DEF report, queue
<1>2. /\ d.epoch = c.epoch /\ d.held = c.held /\ d.taken = c.taken /\ d.runner = c.runner
  BY DEF Companions
<1> HIDE DEF d
<1> QED BY <1>1, <1>2

\* The runner writes the first of its queue.
LEMMA WriteObservationMoves ==
    ASSUME CompanionInv, WriteObservation, NEW A, companion.queue.items \in Seq(A),
           \A o \in Proper : o.kind = "CapacityLoss" => o \in A
    PROVE  Moves(A)
<1> DEFINE peeked == MaterializeLoss(companion)
           rest == Tail(peeked.queue.items)
           committed == [peeked EXCEPT !.queue.items = rest]
<1>1. /\ companion' = MaterializeLoss(committed) /\ UNCHANGED xpilot
      /\ companion.runner = "Connected" /\ peeked.queue.items # <<>>
  BY DEF WriteObservation, RunnerIdle
<1>2. /\ companion'.queue.items \in Seq(A)
      /\ \E o \in A : pipe'.toBrain = Append(pipe.toBrain, o)
  BY WriteCarries
<1>3. /\ companion \in Companions /\ AnswerInv(companion) /\ xpilot \in XPilots
  BY DEF CompanionInv
<1>4. /\ peeked \in Companions /\ peeked.epoch = companion.epoch
      /\ peeked.held = companion.held /\ peeked.taken = companion.taken
      /\ peeked.runner = companion.runner
  BY <1>3, MaterializeType, MaterializeFields
<1> HIDE DEF peeked
<1>5. peeked.queue \in ProperQueues
  BY <1>4, CompanionFields
<1> DEFINE queue == [peeked.queue EXCEPT !.items = rest]
<1>6. queue \in ProperQueues
  BY <1>1, <1>5, DequeueType
<1>7. committed = [peeked EXCEPT !.queue = queue]
  BY DEF committed
<1> HIDE DEF queue, rest
<1>8. committed \in Companions
  BY <1>4, <1>6, <1>7, ZenonT(60) DEF Companions
<1>9. /\ committed.epoch = peeked.epoch /\ committed.held = peeked.held
      /\ committed.taken = peeked.taken /\ committed.runner = peeked.runner
  BY <1>4, <1>7 DEF Companions
<1> HIDE DEF committed
<1>10. /\ companion'.epoch = committed.epoch /\ companion'.held = committed.held
       /\ companion'.taken = committed.taken /\ companion'.runner = committed.runner
  BY <1>1, <1>8, MaterializeFields
<1> QED BY <1>1, <1>2, <1>4, <1>9, <1>10 DEF Moves, PipeGets

\* What the threads of the companion do between the host's events.
LEMMA ThreadsMove ==
    ASSUME CompanionInv, CaptureHeld \/ Runner, NEW A, companion.queue.items \in Seq(A),
           companion.held \in A, companion.taken \in A,
           \A o \in Proper : o.kind = "CapacityLoss" => o \in A
    PROVE  Moves(A)
<1>1. CASE CaptureHeld
  BY <1>1, CaptureHeldMoves
<1>2. CASE CreatePipe \/ LosePipe \/ StopGracefully
  BY <1>2, RunnerMoves
<1>3. CASE WriteHello
  BY <1>3, WriteHelloMoves
<1>4. CASE WriteObservation
  BY <1>4, WriteObservationMoves
<1>5. CASE \E readable \in BOOLEAN : ReadCommand(readable)
  BY <1>5, ReadCommandMoves
<1>6. CASE NumberAnswer
  BY <1>6, NumberAnswerMoves
<1>7. CASE CaptureTaken
  BY <1>7, CaptureTakenMoves
<1> QED BY <1>1, <1>2, <1>3, <1>4, <1>5, <1>6, <1>7 DEF Runner

\* A new xPilot has one observation in hand and nothing on its way.
LEMMA RestartFields ==
    ASSUME CompanionInv, RestartXPilot
    PROVE  /\ Connections /\ xpilot'.process = xpilot.process + 1
           /\ Raised(companion.held)' /\ companion'.held.kind = "SourceAvailable"
           /\ companion'.taken = Nothing /\ companion'.queue.items = <<>>
           /\ companion'.runner = "Closed" /\ pipe'.toBrain = <<>> /\ ~pipe'.live
<1> DEFINE process == xpilot.process + 1
<1>1. /\ xpilot' = FreshXPilot(process) /\ companion' = FreshCompanion(process)
      /\ pipe' = DeadPipe
  BY DEF RestartXPilot
<1> HIDE DEF process
<1>2. xpilot'.process = process /\ xpilot'.callsign = NoCallsign
  BY <1>1 DEF FreshXPilot
<1>3. pipe'.toBrain = <<>> /\ ~pipe'.live
  BY <1>1 DEF DeadPipe
<1>4. /\ companion'.held = NumberedIn(process, [sequence |-> 0, epoch |-> 0,
             held |-> Nothing, taken |-> Nothing, queue |-> EmptyQueue,
             runner |-> "Closed", answer |-> NoAnswer, stopping |-> FALSE,
             raced |-> {}], "SourceAvailable")
      /\ companion'.taken = Nothing /\ companion'.queue = EmptyQueue
      /\ companion'.runner = "Closed" /\ companion'.epoch = 0
  BY <1>1 DEF FreshCompanion
<1>5. /\ companion'.held.process = process /\ companion'.held.epoch = 0
      /\ companion'.held.sequence = 1 /\ companion'.held.kind = "SourceAvailable"
  BY <1>4 DEF NumberedIn, Local
<1>6. companion'.queue.items = <<>>
  BY <1>4 DEF EmptyQueue
<1> QED BY <1>2, <1>3, <1>4, <1>5, <1>6 DEF Connections, Raised, LocalKinds, process

-----------------------------------------------------------------------------
(* The invariant of the messages                                           *)

\* What the threads have in hand is what the companion queues.
LEMMA HandsCaptured ==
    ASSUME NEW o \in Proper, o = Nothing \/ o.kind \in AnswerKinds \cup {"CapacityLoss"}
                             \/ (o.kind \notin LocalKinds \cup {"Hello"} /\ o.sequence # 0)
    PROVE  o \in Captured
  BY NothingProper DEF Captured, AnswerKinds, LocalKinds

\* A greeting joins the others.
LEMMA GreetingsAppend ==
    ASSUME NEW s \in Seq(Observation), NEW o \in Observation, NEW low \in Nat,
           NEW high \in Nat, low <= high, Greetings(s, low, high),
           o.kind = "Hello" => o.process = high
    PROVE  Greetings(Append(s, o), low, high)
<1> DEFINE t == Append(s, o)
<1>1. DOMAIN s = 1 .. Len(s) /\ Len(s) \in Nat
  BY LenProperties
<1>2. /\ DOMAIN t = 1 .. Len(s) + 1 /\ t[Len(s) + 1] = o
      /\ \A i \in 1 .. Len(s) : t[i] = s[i]
  BY <1>1
<1> HIDE DEF t
<1>3. \A i \in DOMAIN s : s[i] \in Observation
  BY <1>1, ElementOfSeq
<1>4. \A i \in DOMAIN t : t[i].process \in Nat
  BY <1>1, <1>2, <1>3, ObservationFields
<1>5. ASSUME NEW i \in DOMAIN t, t[i].kind = "Hello"
      PROVE  /\ low <= t[i].process /\ t[i].process <= high
             /\ \A j \in DOMAIN t : i < j /\ t[j].kind = "Hello"
                                        => t[i].process <= t[j].process
  <2>1. low <= t[i].process /\ t[i].process <= high
    BY <1>1, <1>2, <1>5 DEF Greetings
  <2>2. ASSUME NEW j \in DOMAIN t, i < j, t[j].kind = "Hello"
        PROVE  t[i].process <= t[j].process
    <3>1. CASE j = Len(s) + 1
      BY <1>2, <2>1, <2>2, <3>1
    <3>2. CASE j \in 1 .. Len(s)
      BY <1>1, <1>2, <1>5, <2>2, <3>2 DEF Greetings
    <3> QED BY <1>1, <1>2, <3>1, <3>2
  <2> QED BY <2>1, <2>2
<1> QED BY <1>5 DEF Greetings, t

\* A greeting that is taken is the earliest.
LEMMA GreetingsTail ==
    ASSUME NEW s \in Seq(Observation), s # <<>>, NEW low, NEW high, Greetings(s, low, high)
    PROVE  Greetings(Tail(s), IF Head(s).kind = "Hello" THEN Head(s).process ELSE low, high)
<1> DEFINE t == Tail(s)
<1>1. t \in Seq(Observation) /\ Len(t) = Len(s) - 1 /\ \A i \in 1 .. Len(t) : t[i] = s[i + 1]
  BY HeadTailProperties
<1>2. /\ DOMAIN s = 1 .. Len(s) /\ Len(s) \in Nat /\ DOMAIN t = 1 .. Len(t)
      /\ s[1] = Head(s)
  BY <1>1, LenProperties
<1> HIDE DEF t
<1>3. 1 \in DOMAIN s
  BY <1>2
<1>4. \A i \in DOMAIN t : i + 1 \in DOMAIN s /\ t[i] = s[i + 1] /\ i \in Nat /\ 1 < i + 1
  BY <1>1, <1>2
<1>5. ASSUME NEW i \in DOMAIN t, t[i].kind = "Hello"
      PROVE  /\ low <= t[i].process /\ t[i].process <= high
             /\ Head(s).kind = "Hello" => Head(s).process <= t[i].process
             /\ \A j \in DOMAIN t : i < j /\ t[j].kind = "Hello"
                                        => t[i].process <= t[j].process
  <2>1. /\ low <= t[i].process /\ t[i].process <= high
        /\ Head(s).kind = "Hello" => Head(s).process <= t[i].process
    BY <1>2, <1>3, <1>4, <1>5 DEF Greetings
  <2>2. ASSUME NEW j \in DOMAIN t, i < j, t[j].kind = "Hello"
        PROVE  t[i].process <= t[j].process
    <3>1. i + 1 < j + 1
      BY <1>4, <2>2
    <3> QED BY <1>4, <1>5, <2>2, <3>1 DEF Greetings
  <2> QED BY <2>1, <2>2
<1> QED BY <1>5 DEF Greetings, t

\* A later process may greet.
LEMMA GreetingsWiden ==
    ASSUME NEW s \in Seq(Observation), NEW low \in Nat, NEW high \in Nat, NEW more \in Nat,
           high <= more, Greetings(s, low, high)
    PROVE  Greetings(s, low, more)
<1>1. DOMAIN s = 1 .. Len(s)
  BY LenProperties
<1>2. \A i \in DOMAIN s : s[i].process \in Nat
  BY <1>1, ElementOfSeq, ObservationFields
<1> QED BY <1>2 DEF Greetings

\* The client's queue has the observation more, or is as it was.
LEMMA PublishFields ==
    ASSUME NEW c \in Clients, NEW o
    PROVE  /\ Publish(c, o).incoming.items \in {c.incoming.items, Append(c.incoming.items, o)}
           /\ Publish(c, o).connected = c.connected /\ Publish(c, o).outgoing = c.outgoing
<1> DEFINE q == Offer(c.incoming, o, IncomingCapacity)
<1>1. c.incoming \in ProperQueues
  BY ClientFields
<1>2. RecordLoss(c.incoming, o).items = c.incoming.items
  BY <1>1 DEF RecordLoss, ProperQueues
<1>3. [c.incoming EXCEPT !.items = Append(c.incoming.items, o)].items
          = Append(c.incoming.items, o)
  BY <1>1 DEF ProperQueues
<1>4. q.items \in {c.incoming.items, Append(c.incoming.items, o)}
  BY <1>2, <1>3 DEF Offer
<1> HIDE DEF q
<1>5. /\ [c EXCEPT !.incoming = q].incoming = q
      /\ [c EXCEPT !.incoming = q].connected = c.connected
      /\ [c EXCEPT !.incoming = q].outgoing = c.outgoing
  BY DEF Clients
<1> QED BY <1>4, <1>5 DEF Publish, q

\* Connecting leaves the queue alone.
LEMMA ConnectedFields ==
    ASSUME NEW c \in Clients, NEW connected
    PROVE  /\ [c EXCEPT !.connected = connected].incoming = c.incoming
           /\ [c EXCEPT !.connected = connected].connected = connected
  BY DEF Clients

\* The queue has one observation less, and perhaps a report.
LEMMA HarvestFields ==
    ASSUME IInv, Harvest
    PROVE  /\ client.incoming.items # <<>> /\ Consume(Head(client.incoming.items))
           /\ client'.connected = client.connected
           /\ client'.incoming.items \in
                  {Tail(client.incoming.items),
                   Append(Tail(client.incoming.items), Local("LocalCapacityLoss"))}
           /\ UNCHANGED companionVars
<1> DEFINE rest == [client.incoming EXCEPT !.items = Tail(client.incoming.items)]
           queue == IF LossIsDue(rest, IncomingCapacity)
                    THEN ReportLoss(rest, Local("LocalCapacityLoss")) ELSE rest
<1>1. /\ client.incoming.items # <<>> /\ Consume(Head(client.incoming.items))
      /\ client' = [client EXCEPT !.incoming = queue]
      /\ UNCHANGED companionVars
  BY DEF Harvest
<1>2. client.incoming \in ProperQueues
  BY ClientFields DEF IInv
<1>3. rest.items = Tail(client.incoming.items)
  BY <1>2 DEF ProperQueues
<1> HIDE DEF rest
<1>4. queue.items \in {rest.items, Append(rest.items, Local("LocalCapacityLoss"))}
  BY DEF ReportLoss
<1> HIDE DEF queue
<1>5. client'.incoming = queue /\ client'.connected = client.connected
  BY <1>1 DEF IInv, Clients
<1> QED BY <1>1, <1>3, <1>4, <1>5

\* What XVatsim reports of itself is no message and no greeting.
LEMMA LocalArrives ==
    ASSUME NEW kind \in LocalKinds
    PROVE  Local(kind) \in Arriving /\ Local(kind).kind = kind /\ kind # "Hello"
<1>1. Local(kind).kind = kind
  BY DEF Local
<1> QED BY <1>1 DEF Arriving, LocalKinds

\* The companion adds to what is on its way.
LEMMA CompanionMessages ==
    ASSUME IInv, MessagesInv, CompanionStep
    PROVE  MessagesInv'
<1>0. /\ CompanionInv /\ CompanionInv' /\ BrainInv /\ client \in Clients
      /\ UNCHANGED <<brain, inbox, client>>
  BY CompanionStepInv DEF IInv, CompanionStep
<1>1. /\ xpilot.process \in Nat /\ xpilot'.process \in Nat /\ brain.process \in Nat
      /\ companion'.held \in Proper /\ companion'.taken \in Proper
      /\ pipe.toBrain \in Seq(Observation)
      /\ client.incoming.items \in Seq(Observation)
  <2>1. pipe.toBrain \in Seq(Proper) /\ client.incoming.items \in Seq(Proper)
    BY <1>0, ClientFields DEF CompanionInv, Pipes, ProperQueues
  <2>2. Seq(Proper) \subseteq Seq(Observation)
    BY ProperObservation
  <2> QED BY <1>0, <2>1, <2>2, CompanionFields, BrainFields
          DEF CompanionInv, BrainInv, Sound, XPilots
<1>2. \A o \in Proper : o.kind = "CapacityLoss" => o \in Captured
  BY HandsCaptured
<1>3. CASE CaptureHeld \/ Runner
  <2>1. Moves(Captured)
    BY <1>0, <1>2, <1>3, ThreadsMove DEF MessagesInv, OnTheWay
  <2>2. /\ companion'.held \in {companion.held, Nothing}
        /\ companion'.taken \in {companion.taken, Nothing} \/ companion'.taken.kind \in AnswerKinds
        /\ companion'.queue.items \in Seq(Captured) /\ xpilot' = xpilot
        /\ PipeGets(Captured)
    BY <2>1 DEF Moves
  <2>3. companion'.held \in Captured /\ companion'.taken \in Captured
    BY <1>1, <2>2, HandsCaptured DEF MessagesInv, OnTheWay
  <2>4. \/ pipe'.toBrain \in {pipe.toBrain, <<>>}
        \/ \E o \in Piped : /\ pipe'.toBrain = Append(pipe.toBrain, o)
                            /\ o.kind = "Hello" => o.process = xpilot.process
    <3>1. CASE \E o \in Captured : pipe'.toBrain = Append(pipe.toBrain, o)
      BY <3>1, CapturedIsProper DEF Captured
    <3>2. CASE \E o \in Observation : /\ o.kind = "Hello" /\ o.process = xpilot.process
                                      /\ o.epoch = companion.epoch
                                      /\ pipe'.toBrain = Append(pipe.toBrain, o)
      <4>1. \A o \in Observation : o.kind = "Hello" => o \in Piped
        BY DEF Piped, Proper, LiveKinds
      <4> QED BY <3>2, <4>1
    <3> QED BY <2>2, <3>1, <3>2 DEF PipeGets
  <2>5. /\ pipe'.toBrain \in Seq(Piped)
        /\ Greetings(pipe'.toBrain, xpilot.process, xpilot.process)
    <3>1. CASE pipe'.toBrain = pipe.toBrain
      BY <3>1 DEF MessagesInv, OnTheWay, ProcessesInOrder
    <3>2. CASE pipe'.toBrain = <<>>
      <4>1. <<>> \in Seq(Piped) /\ DOMAIN <<>> = {}
        OBVIOUS
      <4> QED BY <3>2, <4>1 DEF Greetings
    <3>3. ASSUME NEW o \in Piped, pipe'.toBrain = Append(pipe.toBrain, o),
                 o.kind = "Hello" => o.process = xpilot.process
          PROVE  /\ pipe'.toBrain \in Seq(Piped)
                 /\ Greetings(pipe'.toBrain, xpilot.process, xpilot.process)
      <4>1. pipe.toBrain \in Seq(Piped)
            /\ Greetings(pipe.toBrain, xpilot.process, xpilot.process)
        BY DEF MessagesInv, OnTheWay, ProcessesInOrder
      <4>2. Append(pipe.toBrain, o) \in Seq(Piped)
        BY <4>1, AppendProperties
      <4>3. o \in Observation
        BY CapturedIsProper
      <4>4. Greetings(Append(pipe.toBrain, o), xpilot.process, xpilot.process)
        BY <1>1, <3>3, <4>1, <4>3, GreetingsAppend
      <4> QED BY <3>3, <4>2, <4>4
    <3>4. CASE \E o \in Piped : /\ pipe'.toBrain = Append(pipe.toBrain, o)
                                /\ o.kind = "Hello" => o.process = xpilot.process
      <4> PICK o \in Piped : /\ pipe'.toBrain = Append(pipe.toBrain, o)
                             /\ o.kind = "Hello" => o.process = xpilot.process
        BY <3>4
      <4> QED BY <3>3
    <3>5. pipe'.toBrain \in {pipe.toBrain, <<>>} => pipe'.toBrain = pipe.toBrain
                                                    \/ pipe'.toBrain = <<>>
      OBVIOUS
    <3> QED BY <2>4, <3>1, <3>2, <3>4, <3>5, Zenon
  <2> QED BY <1>0, <2>2, <2>3, <2>5 DEF MessagesInv, OnTheWay, ProcessesInOrder
<1>4. CASE Host
  <2>1. /\ HandsOK /\ Connections /\ UNCHANGED pipe /\ companion'.queue = companion.queue
    BY <1>0, <1>4, HostAdds
  <2>2. xpilot'.process = xpilot.process
    <3>1. xpilot \in XPilots
      BY <1>0 DEF CompanionInv
    <3> QED BY <1>4, <3>1 DEF Host, NetworkConnected, NetworkDisconnected,
               PrivateMessageReceived, ControllerEvent, SessionEnded, XPilots
  <2>3. companion'.held \in Captured /\ companion'.taken \in Captured
    BY <1>1, <2>1, HandsCaptured DEF HandsOK, Raised, MessagesInv, OnTheWay
  <2> QED BY <1>0, <2>1, <2>2, <2>3 DEF MessagesInv, OnTheWay, ProcessesInOrder
<1>5. CASE RestartXPilot
  <2>1. /\ xpilot'.process = xpilot.process + 1 /\ Raised(companion.held)'
        /\ companion'.taken = Nothing /\ companion'.queue.items = <<>>
        /\ pipe'.toBrain = <<>>
    BY <1>0, <1>5, RestartFields
  <2>2. companion'.held \in Captured /\ companion'.taken \in Captured
    BY <1>1, <2>1, HandsCaptured DEF Raised
  <2>3. <<>> \in Seq(Captured) /\ <<>> \in Seq(Piped) /\ DOMAIN <<>> = {}
    OBVIOUS
  <2>4. Greetings(pipe'.toBrain, xpilot'.process, xpilot'.process)
    BY <2>1, <2>3 DEF Greetings
  <2>5. xpilot.process <= xpilot'.process /\ brain.process <= xpilot'.process
    BY <1>1, <2>1 DEF MessagesInv, ProcessesInOrder
  <2>6. Greetings(client.incoming.items, brain.process, xpilot'.process)
    BY <1>1, <2>5, GreetingsWiden DEF MessagesInv, ProcessesInOrder
  <2> QED BY <1>0, <2>1, <2>2, <2>3, <2>4, <2>5, <2>6
          DEF MessagesInv, OnTheWay, ProcessesInOrder
<1> QED BY <1>3, <1>4, <1>5 DEF CompanionStep

\* What is in the client's queue is on its way, with one more.
LEMMA QueueMessages ==
    ASSUME IInv, MessagesInv, NEW o \in Arriving, o.kind = "Hello" => o.process = xpilot.process,
           NEW s \in {client.incoming.items, Append(client.incoming.items, o)}
    PROVE  s \in Seq(Arriving) /\ Greetings(s, brain.process, xpilot.process)
<1>1. /\ client.incoming.items \in Seq(Arriving)
      /\ Greetings(client.incoming.items, brain.process, xpilot.process)
      /\ brain.process <= xpilot.process
  BY DEF MessagesInv, OnTheWay, ProcessesInOrder
<1>2. xpilot.process \in Nat /\ brain.process \in Nat
  BY BrainFields DEF IInv, CompanionInv, XPilots, BrainInv, Sound
<1>3. Seq(Arriving) \subseteq Seq(Observation) /\ o \in Observation
  BY CapturedIsProper
<1>4. Append(client.incoming.items, o) \in Seq(Arriving)
  BY <1>1, AppendProperties
<1>5. Greetings(Append(client.incoming.items, o), brain.process, xpilot.process)
  BY <1>1, <1>2, <1>3, GreetingsAppend
<1> QED BY <1>1, <1>4, <1>5

\* What the client does moves observations towards the Brain.
LEMMA ClientMessages ==
    ASSUME IInv, MessagesInv, ClientStep
    PROVE  MessagesInv'
<1>0. /\ client \in Clients /\ pipe \in Pipes /\ companion \in Companions
      /\ UNCHANGED <<xpilot, brain, inbox>>
      /\ <<>> \in Seq(Piped) /\ DOMAIN <<>> = {}
  BY DEF IInv, CompanionInv, ClientStep, ConnectClient, FlushCommand, ReadObservation,
     NoticeDisconnect
<1>1. CASE ConnectClient
  <2> DEFINE c == [client EXCEPT !.connected = TRUE]
             o == Local("TransportConnected")
  <2>1. /\ client' = Publish(c, o) /\ companion' = [companion EXCEPT !.runner = "Greeting"]
        /\ pipe' = [DeadPipe EXCEPT !.live = TRUE]
    BY <1>1 DEF ConnectClient
  <2>2. c \in Clients /\ c.incoming = client.incoming
    BY <1>0, ConnectedClientType, ConnectedFields
  <2>3. o \in Arriving /\ o.kind # "Hello"
    BY LocalArrives DEF LocalKinds
  <2> HIDE DEF c, o
  <2>4. client'.incoming.items \in {client.incoming.items, Append(client.incoming.items, o)}
    BY <2>1, <2>2, PublishFields
  <2>5. /\ client'.incoming.items \in Seq(Arriving)
        /\ Greetings(client'.incoming.items, brain.process, xpilot.process)
    BY <2>3, <2>4, QueueMessages
  <2>6. /\ companion'.held = companion.held /\ companion'.taken = companion.taken
        /\ companion'.queue = companion.queue
    BY <1>0, <2>1 DEF Companions
  <2>7. pipe'.toBrain = <<>>
    BY <2>1 DEF DeadPipe
  <2> QED BY <1>0, <2>5, <2>6, <2>7 DEF MessagesInv, OnTheWay, ProcessesInOrder,
       Greetings
<1>2. CASE FlushCommand
  <2> DEFINE sent == Append(pipe.toCompanion, Head(client.outgoing))
             rest == Tail(client.outgoing)
  <2>1. /\ pipe' = [pipe EXCEPT !.toCompanion = sent] /\ companion' = companion
        /\ client' = [client EXCEPT !.outgoing = rest]
    BY <1>2 DEF FlushCommand
  <2> HIDE DEF sent, rest
  <2>2. pipe'.toBrain = pipe.toBrain /\ client'.incoming = client.incoming
    BY <1>0, <2>1 DEF Pipes, Clients
  <2> QED BY <1>0, <2>1, <2>2 DEF MessagesInv, OnTheWay, ProcessesInOrder
<1>3. CASE ReadObservation
  <2> DEFINE o == Head(pipe.toBrain)
             rest == Tail(pipe.toBrain)
  <2>1. /\ client' = Publish(client, o) /\ pipe' = [pipe EXCEPT !.toBrain = rest]
        /\ companion' = companion /\ pipe.toBrain # <<>>
    BY <1>3 DEF ReadObservation
  <2>2. /\ pipe.toBrain \in Seq(Piped)
        /\ Greetings(pipe.toBrain, xpilot.process, xpilot.process)
    BY DEF MessagesInv, OnTheWay, ProcessesInOrder
  <2>3. o \in Piped /\ o \in Arriving /\ rest \in Seq(Piped)
    BY <2>1, <2>2, HeadTailProperties, CapturedIsProper
  <2>4. o.kind = "Hello" => o.process = xpilot.process
    <3>1. 1 \in DOMAIN pipe.toBrain /\ pipe.toBrain[1] = o
      BY <2>1, <2>2, LenProperties
    <3>2. o.process \in Nat /\ xpilot.process \in Nat
      BY <2>3, CapturedIsProper, ObservationFields DEF IInv, CompanionInv, XPilots
    <3> HIDE DEF o
    <3> QED BY <2>2, <3>1, <3>2 DEF Greetings
  <2>5. Greetings(rest, xpilot.process, xpilot.process)
    <3>1. pipe.toBrain \in Seq(Observation)
      BY <2>2, CapturedIsProper
    <3>2. Greetings(rest, IF o.kind = "Hello" THEN o.process ELSE xpilot.process,
                    xpilot.process)
      BY <2>1, <2>2, <3>1, GreetingsTail
    <3> HIDE DEF o, rest
    <3>3. (IF o.kind = "Hello" THEN o.process ELSE xpilot.process) = xpilot.process
      BY <2>4
    <3> QED BY <3>2, <3>3
  <2> HIDE DEF o, rest
  <2>6. client'.incoming.items \in {client.incoming.items, Append(client.incoming.items, o)}
    BY <1>0, <2>1, PublishFields
  <2>7. /\ client'.incoming.items \in Seq(Arriving)
        /\ Greetings(client'.incoming.items, brain.process, xpilot.process)
    BY <2>3, <2>4, <2>6, QueueMessages
  <2>8. pipe'.toBrain = rest
    BY <1>0, <2>1 DEF Pipes
  <2> QED BY <1>0, <2>1, <2>3, <2>5, <2>7, <2>8 DEF MessagesInv, OnTheWay,
       ProcessesInOrder
<1>4. CASE NoticeDisconnect
  <2> DEFINE c == [client EXCEPT !.connected = FALSE]
             o == Local("TransportDisconnected")
  <2>1. client' = Publish(c, o) /\ companion' = companion /\ pipe' = pipe
    BY <1>4 DEF NoticeDisconnect
  <2>2. c \in Clients /\ c.incoming = client.incoming
    BY <1>0, ConnectedClientType, ConnectedFields
  <2>3. o \in Arriving /\ o.kind # "Hello"
    BY LocalArrives DEF LocalKinds
  <2> HIDE DEF c, o
  <2>4. client'.incoming.items \in {client.incoming.items, Append(client.incoming.items, o)}
    BY <2>1, <2>2, PublishFields
  <2>5. /\ client'.incoming.items \in Seq(Arriving)
        /\ Greetings(client'.incoming.items, brain.process, xpilot.process)
    BY <2>3, <2>4, QueueMessages
  <2> QED BY <1>0, <2>1, <2>5 DEF MessagesInv, OnTheWay, ProcessesInOrder
<1> QED BY <1>1, <1>2, <1>3, <1>4 DEF ClientStep

\* The Brain takes an observation, and shows no message twice.
LEMMA HarvestMessages ==
    ASSUME IInv, MessagesInv, Harvest
    PROVE  MessagesInv'
<1> DEFINE items == client.incoming.items
           o == Head(items)
           rest == Tail(items)
           low == IF o.kind = "Hello" THEN o.process ELSE brain.process
           report == Local("LocalCapacityLoss")
<1>1. /\ items # <<>> /\ Consume(o) /\ UNCHANGED companionVars
      /\ client'.incoming.items \in {rest, Append(rest, report)}
  BY HarvestFields
<1>2. /\ items \in Seq(Arriving) /\ Greetings(items, brain.process, xpilot.process)
      /\ brain.process <= xpilot.process /\ AllSeenOnce(brain, inbox)
  BY DEF MessagesInv, OnTheWay, ProcessesInOrder
<1>3. o \in Arriving /\ rest \in Seq(Arriving)
  BY <1>1, <1>2, HeadTailProperties
<1>4. o.kind = "Hello" => brain.process <= o.process /\ o.process <= xpilot.process
  <2>1. 1 \in DOMAIN items /\ items[1] = o
    BY <1>1, <1>2, LenProperties
  <2> QED BY <1>2, <2>1 DEF Greetings
<1>5. Greetings(rest, low, xpilot.process)
  <2>1. items \in Seq(Observation)
    BY <1>2, CapturedIsProper
  <2> QED BY <1>1, <1>2, <2>1, GreetingsTail
<1> HIDE DEF items, o, rest, low
<1>6. AllSeenOnce(brain', inbox') /\ brain'.process = low
  BY <1>1, <1>2, <1>3, <1>4, ConsumeOnce DEF IInv, low
<1>7. low \in Nat /\ xpilot.process \in Nat /\ low <= xpilot.process
  <2>1. o.process \in Nat /\ brain.process \in Nat /\ xpilot.process \in Nat
    BY <1>3, CapturedIsProper, ObservationFields, BrainFields
       DEF IInv, CompanionInv, XPilots, BrainInv, Sound
  <2> QED BY <1>2, <1>4, <2>1 DEF low
<1>8. report \in Arriving /\ report.kind # "Hello"
  BY LocalArrives DEF LocalKinds
<1> HIDE DEF report
<1>9. Append(rest, report) \in Seq(Arriving)
  BY <1>3, <1>8, AppendProperties
<1>10. Greetings(Append(rest, report), low, xpilot.process)
  <2>1. rest \in Seq(Observation) /\ report \in Observation
    BY <1>3, <1>8, CapturedIsProper
  <2> QED BY <1>5, <1>7, <1>8, <2>1, GreetingsAppend
<1>11. /\ client'.incoming.items \in Seq(Arriving)
       /\ Greetings(client'.incoming.items, low, xpilot.process)
  BY <1>1, <1>3, <1>5, <1>9, <1>10
<1> QED BY <1>1, <1>6, <1>7, <1>11
        DEF MessagesInv, OnTheWay, ProcessesInOrder, companionVars

\* What is on its way stays when the Brain serves, and waits while its flight changes.
LEMMA BrainMessages ==
    ASSUME IInv, MessagesInv, BrainStep
    PROVE  MessagesInv'
<1>1. CASE Harvest
  BY <1>1, HarvestMessages
<1>2. CASE \E late \in BOOLEAN : Serve(late)
  <2> PICK late \in BOOLEAN : Serve(late)
    BY <1>2
  <2> DEFINE room == /\ Len(client.outgoing) < OutgoingCapacity
                     /\ brain.nextRequest <= MaxRequests
             sent == Append(client.outgoing, brain.nextRequest)
  <2>1. /\ EndService(late, room)
        /\ client' = IF RequestsSnapshot(late, room)
                     THEN [client EXCEPT !.outgoing = sent] ELSE client
        /\ UNCHANGED <<xpilot, companion, pipe>>
    BY DEF Serve
  <2>2. room \in BOOLEAN
    OBVIOUS
  <2> HIDE DEF room, sent
  <2>3. AllSeenOnce(brain', inbox') /\ brain'.process = brain.process
    BY <2>1, <2>2, EndServiceOnce DEF IInv, MessagesInv
  <2>4. client'.incoming = client.incoming
    BY <2>1 DEF IInv, Clients
  <2> QED BY <2>1, <2>3, <2>4 DEF MessagesInv, OnTheWay, ProcessesInOrder
<1>3. CASE FlightChanges /\ UNCHANGED <<xpilot, companion, pipe, client>>
  BY <1>3 DEF FlightChanges, ChangeFlight, MessagesInv, OnTheWay, ProcessesInOrder
<1>4. CASE ExpireDeferred /\ UNCHANGED <<xpilot, companion, pipe, client>>
  <2>1. AllSeenOnce(brain', inbox') /\ brain'.process = brain.process
    BY <1>4, ExpireOnce DEF IInv, MessagesInv
  <2> QED BY <1>4, <2>1 DEF MessagesInv, OnTheWay, ProcessesInOrder
<1> QED BY <1>1, <1>2, <1>3, <1>4 DEF BrainStep

\* A broken pipe and a reloaded plugin lose what was on its way.
LEMMA FaultMessages ==
    ASSUME IInv, MessagesInv, BreakPipe \/ RestartPlugin
    PROVE  MessagesInv'
<1>1. UNCHANGED <<xpilot, companion>> /\ pipe' = DeadPipe
  BY DEF BreakPipe, RestartPlugin
<1>2. /\ <<>> \in Seq(Piped) /\ <<>> \in Seq(Arriving) /\ DOMAIN <<>> = {}
      /\ pipe'.toBrain = <<>>
  BY <1>1 DEF DeadPipe
<1>3. Greetings(pipe'.toBrain, xpilot.process, xpilot.process)
  BY <1>2 DEF Greetings
<1>4. CASE BreakPipe
  <2>1. UNCHANGED <<brain, inbox, client>>
    BY <1>4 DEF BreakPipe
  <2> QED BY <1>1, <1>2, <1>3, <2>1 DEF MessagesInv, OnTheWay, ProcessesInOrder
<1>5. CASE RestartPlugin
  <2>1. brain' = FreshBrain /\ inbox' = <<>> /\ client' = FreshClient
    BY <1>5 DEF RestartPlugin
  <2>2. client'.incoming.items = <<>>
    BY <2>1 DEF FreshClient, EmptyQueue
  <2>3. AllSeenOnce(brain', inbox') /\ brain'.process = 0
    BY <2>1, NothingSeen
  <2>4. Greetings(client'.incoming.items, brain'.process, xpilot.process)
    BY <1>2, <2>2 DEF Greetings
  <2>5. 0 <= xpilot.process
    BY DEF IInv, CompanionInv, XPilots
  <2> QED BY <1>1, <1>2, <1>3, <2>2, <2>3, <2>4, <2>5
          DEF MessagesInv, OnTheWay, ProcessesInOrder
<1> QED BY <1>4, <1>5

\* At the start nothing is on its way but the source's first word.
LEMMA MessagesInit == Init => MessagesInv
<1> SUFFICES ASSUME Init PROVE MessagesInv
  OBVIOUS
<1>1. /\ xpilot = FreshXPilot(1) /\ companion = FreshCompanion(1) /\ pipe = DeadPipe
      /\ brain = FreshBrain /\ inbox = <<>> /\ client = FreshClient
  BY DEF Init, CompanionInit, BrainInit
<1>2. /\ <<>> \in Seq(Piped) /\ <<>> \in Seq(Arriving) /\ <<>> \in Seq(Captured)
      /\ DOMAIN <<>> = {}
      /\ pipe.toBrain = <<>> /\ client.incoming.items = <<>> /\ xpilot.process = 1
  BY <1>1 DEF DeadPipe, FreshClient, EmptyQueue, FreshXPilot
<1>3. /\ companion.held = NumberedIn(1, [sequence |-> 0, epoch |-> 0,
             held |-> Nothing, taken |-> Nothing, queue |-> EmptyQueue,
             runner |-> "Closed", answer |-> NoAnswer, stopping |-> FALSE,
             raced |-> {}], "SourceAvailable")
      /\ companion.taken = Nothing /\ companion.queue = EmptyQueue
  BY <1>1 DEF FreshCompanion
<1>4. companion.held.kind \notin LocalKinds \cup {"Hello"} /\ companion.held.sequence # 0
  BY <1>3 DEF NumberedIn, Local, LocalKinds
<1>5. companion.held \in Proper /\ companion.taken \in Proper
  BY CompanionInitType, CompanionFields DEF Init, CompanionInv
<1>6. companion.held \in Captured /\ companion.taken \in Captured
  BY <1>3, <1>4, <1>5, HandsCaptured
<1>7. companion.queue.items = <<>>
  BY <1>3 DEF EmptyQueue
<1>8. AllSeenOnce(brain, inbox) /\ brain.process = 0
  BY <1>1, NothingSeen
<1>9. /\ Greetings(pipe.toBrain, xpilot.process, xpilot.process)
      /\ Greetings(client.incoming.items, brain.process, xpilot.process)
  BY <1>2 DEF Greetings
<1> QED BY <1>2, <1>6, <1>7, <1>8, <1>9 DEF MessagesInv, OnTheWay, ProcessesInOrder

\* Every step preserves the invariant of the messages.
LEMMA MessagesStep == IInv /\ MessagesInv /\ [Next]_vars => MessagesInv'
<1> SUFFICES ASSUME IInv, MessagesInv, [Next]_vars PROVE MessagesInv'
  OBVIOUS
<1>1. CASE UNCHANGED vars
  BY <1>1 DEF vars, MessagesInv, OnTheWay, ProcessesInOrder
<1> QED BY <1>1, CompanionMessages, ClientMessages, BrainMessages, FaultMessages
  DEF Next

\* Deferral, an expiry, a broken pipe, and restarts of xPilot and of the plugin
\* show no message of one xPilot twice: its number is seen before it is shown
\* or deferred, and what was seen is stale (BrainXPilot4BridgeRuntime.cpp:573-580
\* and EvaluatePrivateMessage, 395-413).
THEOREM NoMessageIsShownTwice == Spec => []EachMessageOnce
<1>1. MessagesInv => EachMessageOnce
  BY DEF MessagesInv, AllSeenOnce, Once, Same, EachMessageOnce
<1>2. Spec => []MessagesInv
  BY BridgeInvariant, MessagesInit, MessagesStep, PTL DEF Spec
<1> QED BY <1>1, <1>2, PTL

-----------------------------------------------------------------------------
(* Under which callsign a message came                                     *)

\* What says a callsign: a message, and a connection.
Tells(o) == \/ o.kind = "IncomingPrivateMessage"
            \/ o.kind = "ConnectionStateChanged" /\ o.callsign # NoCallsign

\* A connection of process p or one before it, the e-th of p at the latest.
Past(process, epoch, p, e) ==
    epoch # 0 /\ (process < p \/ (process = p /\ epoch <= e))

\* The callsign of every connection there may be.
Callsigning == [Nat \X Nat -> Callsigns \cup {NoCallsign}]

\* What agrees with f about the callsign of the connection it is of.
Told(f, p, e) ==
    {o \in Observation : Tells(o) =>
        /\ Past(o.process, o.epoch, p, e)
        /\ o.callsign # NoCallsign /\ o.callsign = f[<<o.process, o.epoch>>]}

Everywhere(A) ==
    /\ companion.held \in A /\ companion.taken \in A /\ companion.queue.items \in Seq(A)
    /\ pipe.toBrain \in Seq(A) /\ client.incoming.items \in Seq(A)

XPilotAgrees(f) ==
    xpilot.callsign # NoCallsign =>
        /\ companion.epoch # 0
        /\ xpilot.callsign = f[<<xpilot.process, companion.epoch>>]

\* The Brain that is connected knows the callsign of its connection, and what it
\* has deferred came on that connection.
Knows(b, f, p, e) ==
    /\ b.network => /\ Past(b.process, b.epoch, p, e)
                    /\ b.callsign # NoCallsign /\ b.callsign = f[<<b.process, b.epoch>>]
    /\ \A i \in DOMAIN b.deferred :
           /\ b.deferred[i].message \in Told(f, p, e)
           /\ b.deferred[i].message.kind = "IncomingPrivateMessage"
           /\ b.deferred[i].message.process = b.process
           /\ b.deferred[i].message.epoch = b.epoch

\* All agree about the callsigns.
Agrees(f) ==
    /\ Everywhere(Told(f, xpilot.process, companion.epoch))
    /\ XPilotAgrees(f)
    /\ Knows(brain, f, xpilot.process, companion.epoch)

\* The inbox m is of the flight it is bound to.
Bound(b, m) ==
    /\ \A i \in DOMAIN m : m[i].callsign = b.bound
    /\ b.bound = NoCallsign => m = <<>>

\* A Brain that is connected to nothing.
Out(b) == ~b.network /\ b.deferred = <<>>

Cuts == {"TransportDisconnected", "TransportConnected"}

\* The Brain is connected to nothing when it has consumed s; out says it is now.
Offline(out, s) == IF s = <<>> THEN out ELSE s[Len(s)].kind \in Cuts

\* It is so wherever a transport connects or a process greets in s.
CutBefore(out, s) ==
    \A i \in DOMAIN s : s[i].kind \in {"Hello", "TransportConnected"} =>
        IF i = 1 THEN out ELSE s[i - 1].kind \in Cuts

\* The pipe's greeting is its first word, and cut says nothing is still to be
\* heard of the pipe before it.
GreetsFirst(cut) ==
    /\ \A i \in DOMAIN pipe.toBrain : pipe.toBrain[i].kind = "Hello" => i = 1 /\ cut
    /\ companion.runner = "Greeting" /\ pipe.live => pipe.toBrain = <<>> /\ cut

\* Without a loss in the client's queue the Brain hears of every pipe it has lost
\* before the next one greets.
Reconnects ==
    /\ CutBefore(Out(brain), client.incoming.items)
    /\ GreetsFirst(Offline(Out(brain), client.incoming.items))
    /\ ~client.connected => Offline(Out(brain), client.incoming.items)

CallsignInv ==
    /\ \E f \in Callsigning : Agrees(f)
    /\ Bound(brain, inbox) /\ Reconnects

\* The client's queue has always had room.
NoLocalLoss == client.incoming.loss.count = 0

-----------------------------------------------------------------------------
(* The callsigns told                                                      *)

\* What tells no callsign agrees with all.
LEMMA SilentAgrees ==
    ASSUME NEW o \in Observation, o.kind \notin {"IncomingPrivateMessage", "ConnectionStateChanged"},
           NEW f, NEW p, NEW e
    PROVE  o \in Told(f, p, e)
  BY DEF Told, Tells

\* A callsign that is told stays told when connections and processes are added.
LEMMA ToldStays ==
    ASSUME NEW f \in Callsigning, NEW g \in Callsigning,
           NEW p \in Nat, NEW e \in Nat, NEW q \in Nat, NEW d \in Nat,
           p < q \/ (p = q /\ e <= d),
           \A x, y \in Nat : Past(x, y, p, e) => g[<<x, y>>] = f[<<x, y>>]
    PROVE  /\ \A x, y \in Nat : Past(x, y, p, e) => Past(x, y, q, d)
           /\ Told(f, p, e) \subseteq Told(g, q, d)
<1>1. \A x, y \in Nat : Past(x, y, p, e) => Past(x, y, q, d)
  BY DEF Past
<1>2. \A o \in Observation : o.process \in Nat /\ o.epoch \in Nat
  BY ObservationFields
<1>3. Told(f, p, e) \subseteq Told(g, q, d)
  BY <1>1, <1>2 DEF Told
<1> QED BY <1>1, <1>3

\* So what is known stays known.
LEMMA KnowsStays ==
    ASSUME NEW b \in Brains, NEW f \in Callsigning, NEW g \in Callsigning,
           NEW p \in Nat, NEW e \in Nat, NEW q \in Nat, NEW d \in Nat,
           p < q \/ (p = q /\ e <= d),
           \A x, y \in Nat : Past(x, y, p, e) => g[<<x, y>>] = f[<<x, y>>],
           Knows(b, f, p, e)
    PROVE  Knows(b, g, q, d)
<1>1. b.process \in Nat /\ b.epoch \in Nat
  BY BrainFields
<1>2. /\ \A x, y \in Nat : Past(x, y, p, e) => Past(x, y, q, d)
      /\ Told(f, p, e) \subseteq Told(g, q, d)
  BY ToldStays
<1> QED BY <1>1, <1>2 DEF Knows

\* The events of the host leave the process.
LEMMA HostProcess == ASSUME CompanionInv, Host PROVE xpilot'.process = xpilot.process
<1>1. xpilot \in XPilots
  BY DEF CompanionInv
<1> QED BY <1>1 DEF Host, NetworkConnected, NetworkDisconnected,
           PrivateMessageReceived, ControllerEvent, SessionEnded, XPilots

\* What is raised agrees when the host does.
LEMMA RaisedAgrees ==
    ASSUME NEW f, Raised(companion.held)', XPilotAgrees(f)',
           xpilot'.process \in Nat, companion'.epoch \in Nat,
           companion'.held \in Observation
    PROVE  companion'.held \in Told(f, xpilot'.process, companion'.epoch)
<1>1. /\ companion'.held.process = xpilot'.process
      /\ companion'.held.epoch = companion'.epoch
      /\ companion'.held.kind \in {"IncomingPrivateMessage", "ConnectionStateChanged"}
             => companion'.held.callsign = xpilot'.callsign
      /\ companion'.held.kind = "IncomingPrivateMessage"
             => companion'.held.callsign # NoCallsign
  BY DEF Raised
<1>2. xpilot'.callsign # NoCallsign =>
          /\ companion'.epoch # 0
          /\ xpilot'.callsign = f[<<xpilot'.process, companion'.epoch>>]
  BY DEF XPilotAgrees
<1> QED BY <1>1, <1>2 DEF Told, Tells, Past

\* All agree when the companion and the pipe do with what the Brain has.
LEMMA CompanionAgrees ==
    ASSUME IInv, NEW f \in Callsigning, Agrees(f), CompanionStep
    PROVE  \E g \in Callsigning : Agrees(g)'
<1> DEFINE p == xpilot.process
           e == companion.epoch
           q == xpilot'.process
           d == companion'.epoch
<1>0. /\ CompanionInv /\ CompanionInv' /\ brain \in Brains
      /\ UNCHANGED <<brain, inbox, client>>
  BY CompanionStepInv DEF IInv, CompanionStep, BrainInv, Sound
<1>1. /\ p \in Nat /\ e \in Nat /\ q \in Nat /\ d \in Nat
      /\ companion'.held \in Proper /\ companion'.taken \in Proper
      /\ companion'.held \in Observation /\ companion'.taken \in Observation
      /\ xpilot'.callsign \in Callsigns \cup {NoCallsign}
  <2>1. companion \in Companions /\ companion' \in Companions /\ xpilot \in XPilots
        /\ xpilot' \in XPilots
    BY <1>0 DEF CompanionInv
  <2>2. companion'.held \in Proper /\ companion'.taken \in Proper /\ e \in Nat /\ d \in Nat
    BY <2>1, CompanionFields
  <2> QED BY <2>1, <2>2, ProperObservation DEF XPilots
<1>2. /\ Everywhere(Told(f, p, e)) /\ XPilotAgrees(f) /\ Knows(brain, f, p, e)
  BY DEF Agrees
<1>3. ASSUME NEW A PROVE <<>> \in Seq(A)
  OBVIOUS
<1>4. CASE CaptureHeld \/ Runner
  <2> DEFINE A == Told(f, p, e)
  <2>1. \A o \in Observation : o.kind \notin {"IncomingPrivateMessage", "ConnectionStateChanged"}
                                   => o \in A
    BY SilentAgrees
  <2>2. \A o \in Proper : o.kind = "CapacityLoss" => o \in A
    BY <2>1, ProperObservation
  <2>3. Nothing \in A
    BY <2>1, NothingProper, ProperObservation
  <2> HIDE DEF A
  <2>4. Moves(A)
    BY <1>0, <1>2, <1>4, <2>2, ThreadsMove DEF Everywhere, A
  <2>5. /\ companion'.held \in {companion.held, Nothing}
        /\ companion'.taken \in {companion.taken, Nothing} \/ companion'.taken.kind \in AnswerKinds
        /\ companion'.queue.items \in Seq(A) /\ xpilot' = xpilot
        /\ companion'.epoch = companion.epoch /\ PipeGets(A)
    BY <2>4 DEF Moves
  <2>6. companion'.held \in A /\ companion'.taken \in A
    <3>1. companion'.taken.kind \in AnswerKinds => companion'.taken \in A
      BY <1>1, <2>1 DEF AnswerKinds
    <3> QED BY <1>2, <2>3, <2>5, <3>1 DEF Everywhere, A
  <2>7. pipe'.toBrain \in Seq(A)
    <3>1. pipe.toBrain \in Seq(A)
      BY <1>2 DEF Everywhere, A
    <3>2. \A o \in A : Append(pipe.toBrain, o) \in Seq(A)
      BY <3>1, AppendProperties
    <3>3. CASE pipe'.toBrain \in {pipe.toBrain, <<>>}
      BY <1>3, <3>1, <3>3
    <3>4. CASE \E o \in A : pipe'.toBrain = Append(pipe.toBrain, o)
      BY <3>2, <3>4
    <3>5. CASE \E o \in Observation : /\ o.kind = "Hello" /\ o.process = xpilot.process
                                      /\ o.epoch = companion.epoch
                                      /\ pipe'.toBrain = Append(pipe.toBrain, o)
      <4>1. PICK o \in Observation : /\ o.kind = "Hello"
                                     /\ pipe'.toBrain = Append(pipe.toBrain, o)
        BY <3>5
      <4>2. o \in A
        BY <2>1, <4>1
      <4> QED BY <3>2, <4>1, <4>2
    <3> QED BY <2>5, <3>3, <3>4, <3>5 DEF PipeGets
  <2>8. Agrees(f)'
    BY <1>0, <1>2, <2>5, <2>6, <2>7 DEF Agrees, Everywhere, XPilotAgrees, A
  <2> QED BY <2>8
<1>5. CASE Host
  <2>1. /\ HandsOK /\ Connections /\ UNCHANGED pipe /\ companion'.queue = companion.queue
        /\ q = p
    BY <1>0, <1>5, HostAdds, HostProcess
  <2>2. ASSUME NEW g \in Callsigning, p = q /\ e <= d,
               \A x, y \in Nat : Past(x, y, p, e) => g[<<x, y>>] = f[<<x, y>>],
               XPilotAgrees(g)'
        PROVE  Agrees(g)'
    <3> DEFINE A == Told(f, p, e)
               B == Told(g, q, d)
    <3>1. A \subseteq B
      BY <1>1, <2>2, ToldStays
    <3>2. Knows(brain, g, q, d)
      BY <1>0, <1>1, <1>2, <2>2, KnowsStays
    <3>3. Nothing \in B /\ (companion'.taken.kind \in AnswerKinds => companion'.taken \in B)
      <4>1. Nothing \in B
        BY SilentAgrees, NothingProper, ProperObservation
      <4>2. companion'.taken.kind \in AnswerKinds => companion'.taken \in B
        BY <1>1, SilentAgrees DEF AnswerKinds
      <4> QED BY <4>1, <4>2
    <3>4. Raised(companion.held)' => companion'.held \in B
      BY <1>1, <2>2, RaisedAgrees
    <3> HIDE DEF A, B
    <3>5. companion'.held \in B /\ companion'.taken \in B
      BY <1>2, <2>1, <3>1, <3>3, <3>4 DEF HandsOK, Everywhere, A
    <3>6. Seq(A) \subseteq Seq(B)
      BY <3>1
    <3>7. /\ companion'.queue.items \in Seq(B) /\ pipe'.toBrain \in Seq(B)
          /\ client'.incoming.items \in Seq(B)
      BY <1>0, <1>2, <2>1, <3>6 DEF Everywhere, A
    <3> QED BY <1>0, <2>2, <3>2, <3>5, <3>7 DEF Agrees, Everywhere, B
  <2>3. CASE companion'.epoch = companion.epoch /\ xpilot'.callsign \in {xpilot.callsign, NoCallsign}
    <3>1. XPilotAgrees(f)'
      BY <1>2, <2>1, <2>3 DEF XPilotAgrees
    <3> QED BY <1>1, <2>1, <2>2, <2>3, <3>1
  <2>4. CASE companion'.epoch = companion.epoch + 1
    <3>0. PICK m \in Nat, n \in Nat, callsign \in Callsigns \cup {NoCallsign} :
              m = q /\ n = d /\ callsign = xpilot'.callsign
      BY <1>1
    <3> DEFINE g == [x \in Nat \X Nat |-> IF x = <<m, n>> THEN callsign ELSE f[x]]
    <3>1. g \in Callsigning
      BY DEF Callsigning
    <3>2. g[<<q, d>>] = xpilot'.callsign
      BY <3>0
    <3>3. ASSUME NEW x \in Nat, NEW y \in Nat, Past(x, y, p, e)
          PROVE  g[<<x, y>>] = f[<<x, y>>]
      <4>1. ~(x = q /\ y = d)
        BY <1>1, <2>1, <2>4, <3>3 DEF Past
      <4> QED BY <3>0, <4>1
    <3> HIDE DEF g
    <3>4. d # 0 /\ e <= d
      BY <1>1, <2>4
    <3>5. XPilotAgrees(g)'
      BY <3>2, <3>4 DEF XPilotAgrees
    <3>6. Agrees(g)'
      BY <2>1, <2>2, <3>1, <3>3, <3>4, <3>5
    <3> QED BY <3>1, <3>6
  <2> QED BY <1>1, <2>1, <2>3, <2>4 DEF Connections
<1>6. CASE RestartXPilot
  <2> DEFINE B == Told(f, q, d)
  <2>1. /\ q = p + 1 /\ companion'.held.kind = "SourceAvailable"
        /\ companion'.taken = Nothing /\ companion'.queue.items = <<>>
        /\ pipe'.toBrain = <<>> /\ xpilot'.callsign = NoCallsign
    BY <1>0, <1>6, RestartFields DEF RestartXPilot, FreshXPilot
  <2>2. p < q
    BY <1>1, <2>1
  <2>3. Told(f, p, e) \subseteq B /\ Knows(brain, f, q, d)
    BY <1>0, <1>1, <1>2, <2>2, ToldStays, KnowsStays
  <2>4. companion'.held \in B /\ companion'.taken \in B
    BY <1>1, <2>1, SilentAgrees, NothingProper
  <2> HIDE DEF B
  <2>5. client'.incoming.items \in Seq(B)
    <3>1. Seq(Told(f, p, e)) \subseteq Seq(B)
      BY <2>3
    <3> QED BY <1>0, <1>2, <3>1 DEF Everywhere
  <2>6. XPilotAgrees(f)'
    BY <2>1 DEF XPilotAgrees
  <2>7. Agrees(f)'
    BY <1>0, <1>3, <2>1, <2>3, <2>4, <2>5, <2>6 DEF Agrees, Everywhere, B
  <2> QED BY <2>7
<1> QED BY <1>4, <1>5, <1>6 DEF CompanionStep

\* What the client moves and reports agrees.
LEMMA ClientAgrees ==
    ASSUME IInv, NEW f \in Callsigning, Agrees(f), ClientStep
    PROVE  Agrees(f)'
<1> DEFINE A == Told(f, xpilot.process, companion.epoch)
           items == client.incoming.items
<1>0. /\ client \in Clients /\ pipe \in Pipes /\ companion \in Companions
      /\ UNCHANGED <<xpilot, brain, inbox>>
  BY DEF IInv, CompanionInv, ClientStep, ConnectClient, FlushCommand, ReadObservation,
     NoticeDisconnect
<1>1. Everywhere(A) /\ XPilotAgrees(f) /\ Knows(brain, f, xpilot.process, companion.epoch)
  BY DEF Agrees
<1>2. \A kind \in LocalKinds : Local(kind) \in A
  <2> TAKE kind \in LocalKinds
  <2>1. Local(kind) \in Observation /\ Local(kind).kind = kind
    BY LocalType DEF Kinds
  <2>2. kind \notin {"IncomingPrivateMessage", "ConnectionStateChanged"}
    BY DEF LocalKinds
  <2> QED BY <2>1, <2>2, SilentAgrees
<1>3. items \in Seq(A) /\ pipe.toBrain \in Seq(A)
  BY <1>1 DEF Everywhere
<1>4. \A o \in A : Append(items, o) \in Seq(A)
  BY <1>3, AppendProperties
<1>5. <<>> \in Seq(A)
  OBVIOUS
<1> HIDE DEF A
<1>6. ASSUME companion'.held = companion.held, companion'.taken = companion.taken,
             companion'.queue = companion.queue, companion'.epoch = companion.epoch,
             client'.incoming.items \in Seq(A), pipe'.toBrain \in Seq(A)
      PROVE  Agrees(f)'
  BY <1>0, <1>1, <1>6 DEF Agrees, Everywhere, XPilotAgrees, A
<1>7. CASE ConnectClient
  <2> DEFINE c == [client EXCEPT !.connected = TRUE]
             o == Local("TransportConnected")
  <2>1. /\ client' = Publish(c, o) /\ companion' = [companion EXCEPT !.runner = "Greeting"]
        /\ pipe' = [DeadPipe EXCEPT !.live = TRUE]
    BY <1>7 DEF ConnectClient
  <2>2. c \in Clients /\ c.incoming = client.incoming /\ o \in A
    BY <1>0, <1>2, ConnectedClientType, ConnectedFields DEF LocalKinds
  <2> HIDE DEF c, o
  <2>3. client'.incoming.items \in {items, Append(items, o)}
    BY <2>1, <2>2, PublishFields
  <2>4. /\ companion'.held = companion.held /\ companion'.taken = companion.taken
        /\ companion'.queue = companion.queue /\ companion'.epoch = companion.epoch
    BY <1>0, <2>1 DEF Companions
  <2>5. pipe'.toBrain = <<>>
    BY <2>1 DEF DeadPipe
  <2>6. client'.incoming.items \in Seq(A)
    BY <1>3, <1>4, <2>2, <2>3
  <2> QED BY <1>5, <1>6, <2>4, <2>5, <2>6
<1>8. CASE FlushCommand
  <2> DEFINE sent == Append(pipe.toCompanion, Head(client.outgoing))
             rest == Tail(client.outgoing)
  <2>1. /\ pipe' = [pipe EXCEPT !.toCompanion = sent] /\ companion' = companion
        /\ client' = [client EXCEPT !.outgoing = rest]
    BY <1>8 DEF FlushCommand
  <2> HIDE DEF sent, rest
  <2>2. pipe'.toBrain = pipe.toBrain /\ client'.incoming = client.incoming
    BY <1>0, <2>1 DEF Pipes, Clients
  <2> QED BY <1>3, <1>6, <2>1, <2>2
<1>9. CASE ReadObservation
  <2> DEFINE o == Head(pipe.toBrain)
             rest == Tail(pipe.toBrain)
  <2>1. /\ client' = Publish(client, o) /\ pipe' = [pipe EXCEPT !.toBrain = rest]
        /\ companion' = companion /\ pipe.toBrain # <<>>
    BY <1>9 DEF ReadObservation
  <2>2. o \in A /\ rest \in Seq(A)
    BY <1>3, <2>1, HeadTailProperties
  <2> HIDE DEF o, rest
  <2>3. client'.incoming.items \in {items, Append(items, o)}
    BY <1>0, <2>1, PublishFields
  <2>4. pipe'.toBrain = rest
    BY <1>0, <2>1 DEF Pipes
  <2>5. client'.incoming.items \in Seq(A)
    BY <1>3, <1>4, <2>2, <2>3
  <2> QED BY <1>6, <2>1, <2>2, <2>4, <2>5
<1>10. CASE NoticeDisconnect
  <2> DEFINE c == [client EXCEPT !.connected = FALSE]
             o == Local("TransportDisconnected")
  <2>1. client' = Publish(c, o) /\ companion' = companion /\ pipe' = pipe
    BY <1>10 DEF NoticeDisconnect
  <2>2. c \in Clients /\ c.incoming = client.incoming /\ o \in A
    BY <1>0, <1>2, ConnectedClientType, ConnectedFields DEF LocalKinds
  <2> HIDE DEF c, o
  <2>3. client'.incoming.items \in {items, Append(items, o)}
    BY <2>1, <2>2, PublishFields
  <2>4. client'.incoming.items \in Seq(A)
    BY <1>3, <1>4, <2>2, <2>3
  <2> QED BY <1>3, <1>6, <2>1, <2>4
<1> QED BY <1>7, <1>8, <1>9, <1>10 DEF ClientStep

-----------------------------------------------------------------------------
(* The Brain and its callsign                                              *)

\* A Brain that is the same about messages knows and shows the same.
LEMMA KeptKnows ==
    ASSUME NEW b, NEW c, Keeps(b, c)
    PROVE  /\ \A f, p, e : Knows(b, f, p, e) => Knows(c, f, p, e)
           /\ \A m : Bound(b, m) => Bound(c, m)
           /\ Out(b) <=> Out(c)
  BY Zenon DEF Keeps, Knows, Bound, Out

\* Nothing is deferred that is not known.
LEMMA KnowsDeferred ==
    ASSUME NEW b, NEW c, NEW f, NEW p, NEW e, Knows(b, f, p, e),
           c.process = b.process, c.epoch = b.epoch, c.network = b.network,
           c.callsign = b.callsign,
           \A i \in DOMAIN c.deferred : \E k \in DOMAIN b.deferred :
               c.deferred[i].message = b.deferred[k].message
    PROVE  Knows(c, f, p, e)
<1>1. ASSUME NEW i \in DOMAIN c.deferred
      PROVE  /\ c.deferred[i].message \in Told(f, p, e)
             /\ c.deferred[i].message.kind = "IncomingPrivateMessage"
             /\ c.deferred[i].message.process = b.process
             /\ c.deferred[i].message.epoch = b.epoch
  <2>1. PICK k \in DOMAIN b.deferred : c.deferred[i].message = b.deferred[k].message
    OBVIOUS
  <2> QED BY <2>1 DEF Knows
<1> QED BY <1>1 DEF Knows

\* What is admitted is of the flight, and so is the inbox it joins.
LEMMA AdmitBound ==
    ASSUME NEW b, Sound(b), NEW messages \in Seq(Observation), BrainInv,
           Bound(b, inbox), Admit(b, messages), flight # NoCallsign,
           \A i \in DOMAIN messages : messages[i].callsign = flight
    PROVE  Bound(brain', inbox')
<1> DEFINE n == InboxOfFlight(b)
           t == n \o messages
<1>1. inbox' = t /\ brain'.bound = flight
  BY AdmitFields
<1>2. n = IF b.bound \in {flight, NoCallsign} THEN inbox ELSE <<>>
  BY DEF InboxOfFlight
<1>3. <<>> \in Seq(Observation) /\ DOMAIN <<>> = {}
  OBVIOUS
<1>4. n \in Seq(Observation) /\ \A i \in DOMAIN n : n[i].callsign = flight
  BY <1>2, <1>3 DEF Bound, BrainInv
<1> HIDE DEF n
<1>5. /\ DOMAIN messages = 1 .. Len(messages) /\ Len(messages) \in Nat
      /\ DOMAIN n = 1 .. Len(n) /\ Len(n) \in Nat
  BY <1>4, LenProperties
<1>6. /\ t \in Seq(Observation) /\ Len(t) = Len(n) + Len(messages)
      /\ \A i \in 1 .. Len(n) + Len(messages) :
             t[i] = IF i <= Len(n) THEN n[i] ELSE messages[i - Len(n)]
  BY <1>4, ConcatProperties
<1> HIDE DEF t
<1>7. DOMAIN t = 1 .. Len(n) + Len(messages)
  BY <1>6, LenProperties
<1>8. ASSUME NEW i \in DOMAIN t PROVE t[i].callsign = flight
  <2>1. CASE i <= Len(n)
    <3>1. i \in DOMAIN n /\ t[i] = n[i]
      BY <1>5, <1>6, <1>7, <2>1
    <3> QED BY <1>4, <3>1
  <2>2. CASE ~(i <= Len(n))
    <3>1. i - Len(n) \in DOMAIN messages /\ t[i] = messages[i - Len(n)]
      BY <1>5, <1>6, <1>7, <2>2
    <3> QED BY <3>1
  <2> QED BY <2>1, <2>2
<1> QED BY <1>1, <1>8 DEF Bound

\* A message of the Brain's connection came under the callsign of its flight.
LEMMA FlightCallsign ==
    ASSUME NEW b, NEW f, NEW p, NEW e, Knows(b, f, p, e), FlightReady(b),
           NEW o \in Told(f, p, e), o.kind = "IncomingPrivateMessage",
           o.process = b.process, o.epoch = b.epoch
    PROVE  o.callsign = flight /\ flight # NoCallsign
  BY DEF Knows, FlightReady, Available, Told, Tells

\* A message is shown under the callsign it came under.
LEMMA EvaluateKnows ==
    ASSUME NEW b, Sound(b), NEW o \in Observation, BrainInv, NEW f, NEW p, NEW e,
           o \in Told(f, p, e), o.kind = "IncomingPrivateMessage",
           Knows(b, f, p, e), Bound(b, inbox), EvaluateMessage(b, o)
    PROVE  /\ Knows(brain', f, p, e) /\ Bound(brain', inbox')
<1>1. b \in Brains
  BY DEF Sound
<1>2. CASE MatchesSession(b, o) /\ FlightReady(b)
  <2>1. Admit(b, <<o>>)
    BY <1>2 DEF EvaluateMessage
  <2>2. o.callsign = flight /\ flight # NoCallsign
    BY <1>2, FlightCallsign DEF MatchesSession
  <2>3. <<o>> \in Seq(Observation) /\ \A i \in DOMAIN <<o>> : <<o>>[i] = o
    OBVIOUS
  <2>4. Bound(brain', inbox')
    BY <2>1, <2>2, <2>3, AdmitBound
  <2>5. /\ brain'.process = b.process /\ brain'.epoch = b.epoch
        /\ brain'.network = b.network /\ brain'.callsign = b.callsign
        /\ brain'.deferred = b.deferred
    BY <2>1, AdmitFields
  <2>6. Knows(brain', f, p, e)
    BY <2>5, KnowsDeferred
  <2> QED BY <2>4, <2>6
<1>3. CASE MatchesSession(b, o) /\ ~FlightReady(b)
  <2> DEFINE kept == IF Len(b.deferred) >= MaximumDeferred THEN Tail(b.deferred)
                     ELSE b.deferred
             entry == [message |-> o, expired |-> FALSE]
             d == Append(kept, entry)
  <2>1. brain' = Defer(b, o) /\ inbox' = inbox
    BY <1>3 DEF EvaluateMessage
  <2>2. b.deferred \in Seq(Entries) /\ entry.message = o
    BY <1>1, BrainFields
  <2>3. Len(b.deferred) >= MaximumDeferred => b.deferred # <<>>
    BY <2>2, BrainAssumption
  <2>4. brain' = [b EXCEPT !.deferred = d]
    BY <2>1 DEF Defer
  <2> HIDE DEF entry
  <2>5. /\ kept \in Seq(Entries)
        /\ \A i \in DOMAIN kept : \E k \in DOMAIN b.deferred :
               kept[i].message = b.deferred[k].message
    <3>1. CASE Len(b.deferred) >= MaximumDeferred
      <4>1. Tail(b.deferred) \in Seq(Entries) /\ Among(Tail(b.deferred), b.deferred)
        BY <2>2, <2>3, <3>1, TailIsAmong
      <4> QED BY <3>1, <4>1 DEF Among
    <3>2. CASE ~(Len(b.deferred) >= MaximumDeferred)
      BY <2>2, <3>2
    <3> QED BY <3>1, <3>2
  <2> HIDE DEF kept
  <2>6. DOMAIN kept = 1 .. Len(kept) /\ Len(kept) \in Nat
    BY <2>5, LenProperties
  <2>7. \A i \in DOMAIN d : d[i] = entry \/ (i \in DOMAIN kept /\ d[i] = kept[i])
    BY <2>6
  <2> HIDE DEF d
  <2>8. /\ brain'.process = b.process /\ brain'.epoch = b.epoch
        /\ brain'.network = b.network /\ brain'.callsign = b.callsign
        /\ brain'.deferred = d /\ brain'.bound = b.bound
    BY <1>1, <2>4, WithDeferredFields
  <2>9. ASSUME NEW i \in DOMAIN d
        PROVE  /\ d[i].message \in Told(f, p, e)
               /\ d[i].message.kind = "IncomingPrivateMessage"
               /\ d[i].message.process = b.process /\ d[i].message.epoch = b.epoch
    <3>1. CASE d[i] = entry
      BY <1>3, <2>2, <3>1 DEF MatchesSession
    <3>2. CASE i \in DOMAIN kept /\ d[i] = kept[i]
      <4>1. PICK k \in DOMAIN b.deferred : kept[i].message = b.deferred[k].message
        BY <2>5, <3>2
      <4> QED BY <3>2, <4>1 DEF Knows
    <3> QED BY <2>7, <3>1, <3>2
  <2>10. Knows(brain', f, p, e)
    BY <2>8, <2>9 DEF Knows
  <2>11. Bound(brain', inbox')
    BY <2>1, <2>8 DEF Bound
  <2> QED BY <2>10, <2>11
<1>4. CASE ~MatchesSession(b, o)
  <2>1. brain' = b /\ inbox' = inbox
    BY <1>4 DEF EvaluateMessage
  <2> QED BY <2>1
<1> QED BY <1>2, <1>3, <1>4

\* So are the deferred ones.
LEMMA ReevaluateKnows ==
    ASSUME NEW b, Sound(b), BrainInv, NEW f, NEW p, NEW e,
           Knows(b, f, p, e), Bound(b, inbox), ReevaluateDeferred(b)
    PROVE  /\ Knows(brain', f, p, e) /\ Bound(brain', inbox')
           /\ Out(b) => Out(brain')
<1> DEFINE alive == AliveDeferred(b)
           messages == [i \in DOMAIN alive |-> alive[i].message]
<1>1. b \in Brains
  BY DEF Sound
<1>2. /\ alive \in Seq(Entries)
      /\ \A i \in DOMAIN alive : \E k \in DOMAIN b.deferred :
             alive[i].message = b.deferred[k].message
  <2>1. alive \in Seq(Entries) /\ Among(alive, b.deferred)
    BY <1>1, AliveIsAmong
  <2> HIDE DEF alive
  <2> QED BY <2>1 DEF Among
<1> HIDE DEF alive
<1>3. CASE alive # <<>> /\ FlightReady(b)
  <2> DEFINE c == NoneDeferred(b)
  <2>1. Admit(c, messages) /\ messages = MessagesOf(alive)
    BY <1>3 DEF ReevaluateDeferred, alive, MessagesOf
  <2>2. <<>> \in Seq(Entries) /\ DOMAIN <<>> = {}
    OBVIOUS
  <2>3. /\ Sound(c) /\ c.process = b.process /\ c.epoch = b.epoch /\ c.network = b.network
        /\ c.callsign = b.callsign /\ c.bound = b.bound /\ c.deferred = <<>>
    BY <1>1, <2>2, WithDeferredSound, WithDeferredFields DEF NoneDeferred
  <2>4. /\ messages \in Seq(Observation) /\ DOMAIN messages = DOMAIN alive
        /\ \A i \in DOMAIN alive : messages[i] = alive[i].message
    BY <1>2, <2>1, MessagesOfType
  <2> HIDE DEF messages, c
  <2>5. ASSUME NEW i \in DOMAIN messages
        PROVE  messages[i].callsign = flight /\ flight # NoCallsign
    <3>1. PICK k \in DOMAIN b.deferred : messages[i] = b.deferred[k].message
      BY <1>2, <2>4
    <3>2. /\ messages[i] \in Told(f, p, e) /\ messages[i].kind = "IncomingPrivateMessage"
          /\ messages[i].process = b.process /\ messages[i].epoch = b.epoch
      BY <3>1 DEF Knows
    <3> QED BY <1>3, <3>2, FlightCallsign
  <2>6. flight # NoCallsign
    BY <1>3 DEF FlightReady
  <2>7. Bound(c, inbox)
    BY <2>3 DEF Bound
  <2>8. Bound(brain', inbox')
    BY <2>1, <2>3, <2>4, <2>5, <2>6, <2>7, AdmitBound
  <2>9. /\ brain'.process = b.process /\ brain'.epoch = b.epoch
        /\ brain'.network = b.network /\ brain'.callsign = b.callsign
        /\ brain'.deferred = <<>>
    BY <2>1, <2>3, AdmitFields
  <2>10. Knows(brain', f, p, e) /\ (Out(b) => Out(brain'))
    BY <2>2, <2>9 DEF Knows, Out
  <2> QED BY <2>8, <2>10
<1>4. CASE ~(alive # <<>> /\ FlightReady(b))
  <2>1. brain' = [b EXCEPT !.deferred = alive] /\ inbox' = inbox
    BY <1>4 DEF ReevaluateDeferred, alive
  <2>2. /\ brain'.process = b.process /\ brain'.epoch = b.epoch
        /\ brain'.network = b.network /\ brain'.callsign = b.callsign
        /\ brain'.deferred = alive /\ brain'.bound = b.bound
    BY <1>1, <2>1, WithDeferredFields
  <2>3. Knows(brain', f, p, e)
    BY <1>2, <2>2, KnowsDeferred
  <2>4. Bound(brain', inbox')
    BY <2>1, <2>2 DEF Bound
  <2>5. b.deferred = <<>> => alive = <<>>
    <3> SUFFICES ASSUME b.deferred = <<>> PROVE alive = <<>>
      OBVIOUS
    <3>0. DOMAIN <<>> = {}
      OBVIOUS
    <3>1. DOMAIN alive = {}
      <4>1. \A i \in DOMAIN alive : \E k \in DOMAIN b.deferred : TRUE
        BY <1>2
      <4>2. DOMAIN b.deferred = {}
        BY <3>0
      <4> QED BY <4>1, <4>2
    <3>2. DOMAIN alive = 1 .. Len(alive) /\ Len(alive) \in Nat
      BY <1>2, LenProperties
    <3>3. Len(alive) = 0
      BY <3>1, <3>2
    <3> QED BY <1>2, <3>3, EmptySeq
  <2>6. Out(b) => Out(brain')
    BY <2>2, <2>5 DEF Out
  <2> QED BY <2>3, <2>4, <2>6
<1> QED BY <1>3, <1>4

\* An observation consumed is known for what it tells. A greeting finds the Brain
\* connected to nothing, and what a transport loses leaves it so.
LEMMA ConsumeKnows ==
    ASSUME BrainInv, NEW f, NEW p, NEW e, NEW o \in Arriving, o \in Told(f, p, e),
           Consume(o), Knows(brain, f, p, e), Bound(brain, inbox),
           o.kind = "Hello" => Out(brain)
    PROVE  /\ Knows(brain', f, p, e) /\ Bound(brain', inbox')
           /\ o.kind = "TransportDisconnected" => Out(brain')
           /\ o.kind = "TransportConnected" /\ Out(brain) => Out(brain')
<1> DEFINE n == brain.served + 1
           b == [brain EXCEPT !.served = n]
           seen == ObserveSequence(b, o)
<1>1. /\ brain.served \in 0 .. MaximumObservations /\ brain.served < MaximumObservations
      /\ brain \in Brains /\ inbox \in Seq(Observation)
  BY BrainFields DEF BrainInv, Sound, Consume, HasShare
<1>2. n \in 0 .. MaximumObservations
  BY <1>1, BrainAssumption
<1> HIDE DEF n
<1>3. Sound(b) /\ Keeps(brain, b)
  BY <1>1, <1>2, WithServedSound, WithServedKeeps DEF BrainInv
<1>4. b = [brain EXCEPT !.served = @ + 1]
  BY DEF n
<1> HIDE DEF b
<1>5. o \in Observation /\ o \in Proper
  BY CapturedIsProper
<1>6. /\ Sound(seen)
      /\ seen.process = b.process /\ seen.epoch = b.epoch /\ seen.network = b.network
      /\ seen.callsign = b.callsign /\ seen.bound = b.bound
      /\ seen.deferred = b.deferred
  BY <1>3, <1>5, SequenceSound, SequenceKeeps
<1>7. IF ~Belongs(b, o) \/ IsStale(b, o) THEN brain' = b /\ UNCHANGED inbox
      ELSE IF o.kind = "IncomingPrivateMessage" THEN EvaluateMessage(seen, o)
      ELSE brain' = Observe(seen, o) /\ UNCHANGED inbox
  BY <1>4 DEF Consume, seen
<1> HIDE DEF seen
<1>8. Knows(b, f, p, e) /\ Bound(b, inbox) /\ (Out(brain) <=> Out(b))
  BY <1>3, KeptKnows
<1>9. Knows(seen, f, p, e) /\ Bound(seen, inbox)
  <2>1. Knows(seen, f, p, e)
    BY <1>6, <1>8, KnowsDeferred
  <2> QED BY <1>6, <1>8, <2>1 DEF Bound
<1>10. o.kind = "TransportDisconnected" => Belongs(b, o) /\ ~IsStale(b, o)
  <2> SUFFICES ASSUME o.kind = "TransportDisconnected"
               PROVE  Belongs(b, o) /\ ~IsStale(b, o)
    OBVIOUS
  <2>1. o \in {Local(kind) : kind \in LocalKinds}
    BY DEF Arriving, Piped, Captured, LocalKinds
  <2>2. o.sequence = 0
    BY <2>1 DEF Local
  <2> QED BY <2>2 DEF Belongs, IsStale, LocalKinds
<1>11. CASE ~Belongs(b, o) \/ IsStale(b, o)
  BY <1>7, <1>8, <1>10, <1>11
<1>12. CASE /\ Belongs(b, o) /\ ~IsStale(b, o) /\ o.kind = "IncomingPrivateMessage"
  <2>1. EvaluateMessage(seen, o)
    BY <1>7, <1>12
  <2> QED BY <1>5, <1>6, <1>9, <1>12, <2>1, EvaluateKnows
<1>13. CASE /\ Belongs(b, o) /\ ~IsStale(b, o) /\ o.kind # "IncomingPrivateMessage"
  <2>1. brain' = Observe(seen, o) /\ inbox' = inbox
    BY <1>7, <1>13
  <2>2. Effect(seen, o, brain')
    BY <1>5, <1>6, <2>1, ObserveEffect
  <2>3. Bound(brain', inbox')
    BY <1>9, <2>1, <2>2, Zenon DEF Bound, Effect
  <2>4. DOMAIN <<>> = {}
    OBVIOUS
  <2>5. brain'.deferred = <<>> => \A i \in DOMAIN brain'.deferred : FALSE
    BY <2>4
  <2>6. CASE o.kind \in {"TransportDisconnected", "SessionEnded"}
    <3>1. ~brain'.network /\ brain'.deferred = <<>>
      BY <2>2, <2>6 DEF Effect
    <3> QED BY <2>3, <2>5, <2>6, <3>1 DEF Knows, Out
  <2>7. CASE o.kind = "Hello"
    <3>1. ~seen.network /\ seen.deferred = <<>>
      BY <1>6, <1>8, <2>7 DEF Out
    <3>2. ~brain'.network /\ brain'.deferred = <<>>
      BY <2>2, <2>7, <3>1 DEF Effect
    <3> QED BY <2>3, <2>5, <2>7, <3>2 DEF Knows
  <2>8. CASE o.kind = "ConnectionStateChanged"
    <3>1. o.process = b.process
      BY <1>13, <2>8 DEF Belongs, LocalKinds
    <3>2. /\ brain'.process = o.process /\ brain'.epoch = o.epoch
          /\ brain'.callsign = o.callsign /\ brain'.network = (o.callsign # NoCallsign)
          /\ brain'.deferred \in {b.deferred, <<>>}
          /\ brain'.deferred = <<>> \/ b.epoch \in {0, o.epoch}
      BY <1>6, <2>2, <2>8, <3>1 DEF Effect
    <3>3. brain'.network => /\ Past(brain'.process, brain'.epoch, p, e)
                            /\ brain'.callsign # NoCallsign
                            /\ brain'.callsign = f[<<brain'.process, brain'.epoch>>]
      BY <2>8, <3>2 DEF Told, Tells
    <3>4. ASSUME NEW i \in DOMAIN brain'.deferred
          PROVE  /\ brain'.deferred[i].message \in Told(f, p, e)
                 /\ brain'.deferred[i].message.kind = "IncomingPrivateMessage"
                 /\ brain'.deferred[i].message.process = brain'.process
                 /\ brain'.deferred[i].message.epoch = brain'.epoch
      <4>1. brain'.deferred = b.deferred /\ b.epoch \in {0, o.epoch}
        BY <2>5, <3>2
      <4>2. /\ b.deferred[i].message \in Told(f, p, e)
            /\ b.deferred[i].message.kind = "IncomingPrivateMessage"
            /\ b.deferred[i].message.process = b.process
            /\ b.deferred[i].message.epoch = b.epoch
        BY <1>8, <4>1 DEF Knows
      <4>3. b.epoch # 0
        BY <4>2 DEF Told, Tells, Past
      <4> QED BY <3>1, <3>2, <4>1, <4>2, <4>3
    <3>5. Knows(brain', f, p, e)
      BY <3>3, <3>4 DEF Knows
    <3> QED BY <2>3, <2>8, <3>5
  <2>9. CASE o.kind \notin {"TransportDisconnected", "SessionEnded", "Hello",
                            "ConnectionStateChanged"}
    <3>1. /\ brain'.process = seen.process /\ brain'.epoch = seen.epoch
          /\ brain'.network = seen.network /\ brain'.callsign = seen.callsign
          /\ brain'.deferred \in {seen.deferred, <<>>}
      BY <2>2, <2>9 DEF Effect
    <3>2. \A i \in DOMAIN brain'.deferred : \E k \in DOMAIN seen.deferred :
              brain'.deferred[i].message = seen.deferred[k].message
      BY <2>5, <3>1
    <3>3. Knows(brain', f, p, e)
      BY <1>9, <3>1, <3>2, KnowsDeferred
    <3>4. Out(brain) => Out(brain')
      BY <1>6, <1>8, <3>1 DEF Out
    <3> QED BY <2>3, <2>9, <3>3, <3>4
  <2> QED BY <2>6, <2>7, <2>8, <2>9
<1> QED BY <1>11, <1>12, <1>13

\* The end of a service call shows deferred messages under their callsign.
LEMMA EndServiceKnows ==
    ASSUME BrainInv, NEW f, NEW p, NEW e, NEW late \in BOOLEAN, NEW room \in BOOLEAN,
           EndService(late, room), Knows(brain, f, p, e), Bound(brain, inbox)
    PROVE  /\ Knows(brain', f, p, e) /\ Bound(brain', inbox')
           /\ Out(brain) => Out(brain')
<1> DEFINE ended == [brain EXCEPT !.served = 0]
           timed == TimeOut(ended, late)
           asked == IF NeedsSnapshot(timed) /\ room THEN Requested(timed) ELSE timed
<1>1. Sound(ended) /\ Keeps(brain, ended)
  <2>1. 0 \in 0 .. MaximumObservations
    BY BrainAssumption
  <2>2. Sound(brain) /\ brain \in Brains
    BY DEF BrainInv, Sound
  <2> QED BY <2>1, <2>2, WithServedSound, WithServedKeeps
<1> HIDE DEF ended
<1>2. Sound(timed) /\ Keeps(ended, timed)
  BY <1>1, MarkSound, MarkKeeps DEF TimeOut, Sound, Keeps
<1> HIDE DEF timed
<1>3. Sound(asked) /\ Keeps(timed, asked)
  BY <1>2, RequestedSound, RequestedKeeps DEF NeedsSnapshot, Sound, Keeps
<1>4. ReevaluateDeferred(asked)
  BY DEF EndService, asked, timed, ended
<1> HIDE DEF asked
<1>5. Keeps(brain, asked)
  BY <1>1, <1>2, <1>3 DEF Keeps
<1>6. Knows(asked, f, p, e) /\ Bound(asked, inbox) /\ (Out(brain) <=> Out(asked))
  BY <1>5, KeptKnows
<1> QED BY <1>3, <1>4, <1>6, ReevaluateKnows

\* Age changes nothing of what is known.
LEMMA ExpireKnows ==
    ASSUME BrainInv, NEW f, NEW p, NEW e, ExpireDeferred, Knows(brain, f, p, e),
           Bound(brain, inbox)
    PROVE  Knows(brain', f, p, e) /\ Bound(brain', inbox') /\ ~Out(brain)
<1> DEFINE s == brain.deferred
           d == [i \in DOMAIN s |-> [s[i] EXCEPT !.expired = TRUE]]
<1>1. brain \in Brains /\ s \in Seq(Entries)
  BY BrainFields DEF BrainInv, Sound
<1>2. DOMAIN s = 1 .. Len(s) /\ Len(s) \in Nat
  BY <1>1, LenProperties
<1>3. brain' = [brain EXCEPT !.deferred = d] /\ inbox' = inbox /\ s # <<>>
  BY DEF ExpireDeferred
<1> HIDE DEF s
<1>4. \A i \in DOMAIN s : s[i] \in Entries
  BY <1>1, <1>2, ElementOfSeq
<1>5. \A i \in DOMAIN s : [s[i] EXCEPT !.expired = TRUE].message = s[i].message
  BY <1>4 DEF Entries
<1>6. DOMAIN d = DOMAIN s /\ \A i \in DOMAIN s : d[i].message = s[i].message
  BY <1>5
<1> HIDE DEF d
<1>7. /\ brain'.process = brain.process /\ brain'.epoch = brain.epoch
      /\ brain'.network = brain.network /\ brain'.callsign = brain.callsign
      /\ brain'.deferred = d /\ brain'.bound = brain.bound
  BY <1>1, <1>3, WithDeferredFields
<1>8. Knows(brain', f, p, e)
  BY <1>6, <1>7, KnowsDeferred DEF s
<1> QED BY <1>3, <1>7, <1>8 DEF Bound, Out, s

-----------------------------------------------------------------------------
(* The Brain hears of every pipe it has lost                               *)

\* An observation joins the queue: what greets or connects finds it cut.
LEMMA CutAppend ==
    ASSUME NEW s \in Seq(Observation), NEW o \in Observation, NEW out \in BOOLEAN,
           CutBefore(out, s),
           o.kind \in {"Hello", "TransportConnected"} => Offline(out, s)
    PROVE  /\ CutBefore(out, Append(s, o))
           /\ Offline(out, Append(s, o)) <=> o.kind \in Cuts
<1> DEFINE t == Append(s, o)
<1>1. DOMAIN s = 1 .. Len(s) /\ Len(s) \in Nat
  BY LenProperties
<1>2. /\ DOMAIN t = 1 .. Len(s) + 1 /\ t[Len(s) + 1] = o /\ Len(t) = Len(s) + 1
      /\ t # <<>> /\ \A i \in 1 .. Len(s) : t[i] = s[i]
  BY <1>1
<1>3. s = <<>> <=> Len(s) = 0
  BY <1>1
<1> HIDE DEF t
<1>4. Offline(out, t) <=> o.kind \in Cuts
  BY <1>2 DEF Offline
<1>5. ASSUME NEW i \in DOMAIN t, t[i].kind \in {"Hello", "TransportConnected"}
      PROVE  IF i = 1 THEN out ELSE t[i - 1].kind \in Cuts
  <2>1. CASE i = Len(s) + 1
    <3>1. Offline(out, s)
      BY <1>2, <1>5, <2>1
    <3>2. CASE Len(s) = 0
      BY <1>3, <2>1, <3>1, <3>2 DEF Offline
    <3>3. CASE Len(s) # 0
      <4>1. i # 1 /\ i - 1 = Len(s) /\ Len(s) \in 1 .. Len(s)
        BY <1>1, <2>1, <3>3
      <4> QED BY <1>2, <1>3, <3>1, <3>3, <4>1 DEF Offline
    <3> QED BY <3>2, <3>3
  <2>2. CASE i \in 1 .. Len(s)
    <3>1. i # 1 => i - 1 \in 1 .. Len(s)
      BY <1>1, <2>2
    <3> QED BY <1>1, <1>2, <1>5, <2>2, <3>1 DEF CutBefore
  <2> QED BY <1>1, <1>2, <2>1, <2>2
<1>6. CutBefore(out, t)
  BY <1>5 DEF CutBefore
<1> QED BY <1>4, <1>6 DEF t

\* The first observation leaves the queue, and the Brain has heard of the cut.
LEMMA CutTail ==
    ASSUME NEW s \in Seq(Observation), s # <<>>, NEW out \in BOOLEAN, NEW new \in BOOLEAN,
           CutBefore(out, s),
           Head(s).kind = "TransportDisconnected" => new,
           Head(s).kind = "TransportConnected" /\ out => new
    PROVE  CutBefore(new, Tail(s)) /\ (Offline(out, s) => Offline(new, Tail(s)))
<1> DEFINE t == Tail(s)
<1>1. t \in Seq(Observation) /\ Len(t) = Len(s) - 1 /\ \A i \in 1 .. Len(t) : t[i] = s[i + 1]
  BY HeadTailProperties
<1>2. /\ DOMAIN s = 1 .. Len(s) /\ Len(s) \in Nat /\ DOMAIN t = 1 .. Len(t)
      /\ Len(t) \in Nat /\ s[1] = Head(s) /\ Len(s) # 0
  BY <1>1, LenProperties, EmptySeq
<1> HIDE DEF t
<1>3. t = <<>> <=> Len(t) = 0
  BY <1>1, EmptySeq
<1>4. s[1].kind \in Cuts => new
  BY <1>1, <1>2 DEF CutBefore, Cuts
<1>5. Offline(out, s) => Offline(new, t)
  <2>1. CASE Len(t) = 0
    BY <1>1, <1>2, <1>3, <1>4, <2>1 DEF Offline
  <2>2. CASE Len(t) # 0
    <3>1. t[Len(t)] = s[Len(s)]
      BY <1>1, <1>2, <2>2
    <3> QED BY <1>3, <2>2, <3>1 DEF Offline
  <2> QED BY <2>1, <2>2
<1>6. ASSUME NEW i \in DOMAIN t, t[i].kind \in {"Hello", "TransportConnected"}
      PROVE  IF i = 1 THEN new ELSE t[i - 1].kind \in Cuts
  <2>1. i \in Nat /\ i + 1 \in DOMAIN s /\ t[i] = s[i + 1] /\ i + 1 # 1 /\ (i + 1) - 1 = i
    BY <1>1, <1>2
  <2>2. s[i].kind \in Cuts
    BY <1>6, <2>1 DEF CutBefore
  <2>3. i # 1 => t[i - 1] = s[i]
    BY <1>1, <1>2
  <2> QED BY <1>4, <2>2, <2>3
<1>7. CutBefore(new, t)
  BY <1>6 DEF CutBefore
<1> QED BY <1>5, <1>7 DEF t

\* Without a loss, what the client publishes is queued.
LEMMA PublishAppends ==
    ASSUME NEW c \in Clients, NEW o, Publish(c, o).incoming.loss.count = 0
    PROVE  Publish(c, o).incoming.items = Append(c.incoming.items, o)
<1> DEFINE q == Offer(c.incoming, o, IncomingCapacity)
<1>1. c.incoming \in ProperQueues
  BY ClientFields
<1>2. c.incoming.loss.count \in Nat
  BY <1>1 DEF ProperQueues
<1>3. [c EXCEPT !.incoming = q].incoming = q
  <2> HIDE DEF q
  <2> QED BY DEF Clients
<1>4. q.loss.count = 0
  BY <1>3 DEF Publish
<1>5. RecordLoss(c.incoming, o).loss.count = c.incoming.loss.count + 1
  BY <1>1 DEF RecordLoss, ProperQueues
<1>6. q = [c.incoming EXCEPT !.items = Append(c.incoming.items, o)]
  BY <1>2, <1>4, <1>5 DEF Offer
<1>7. q.items = Append(c.incoming.items, o)
  <2> DEFINE items == Append(c.incoming.items, o)
  <2> HIDE DEF items, q
  <2>1. q = [c.incoming EXCEPT !.items = items]
    BY <1>6 DEF items
  <2>2. q.items = items
    BY <1>1, <2>1 DEF ProperQueues
  <2> QED BY <2>2 DEF items
<1> QED BY <1>3, <1>7 DEF Publish

\* Without a loss, harvesting only takes.
LEMMA HarvestTakes ==
    ASSUME IInv, NoLocalLoss, Harvest
    PROVE  client'.incoming.items = Tail(client.incoming.items)
<1> DEFINE rest == [client.incoming EXCEPT !.items = Tail(client.incoming.items)]
<1>1. client.incoming \in ProperQueues
  BY ClientFields DEF IInv
<1>2. rest.items = Tail(client.incoming.items) /\ rest.loss = client.incoming.loss
  BY <1>1 DEF ProperQueues
<1>3. ~LossIsDue(rest, IncomingCapacity)
  BY <1>2 DEF LossIsDue, NoLocalLoss
<1>4. client' = [client EXCEPT !.incoming =
                    IF LossIsDue(rest, IncomingCapacity)
                    THEN ReportLoss(rest, Local("LocalCapacityLoss")) ELSE rest]
  BY DEF Harvest
<1> HIDE DEF rest
<1>5. client'.incoming = rest
  BY <1>3, <1>4 DEF IInv, Clients
<1> QED BY <1>2, <1>5

\* The companion greets once, and first.
LEMMA CompanionReconnects ==
    ASSUME IInv, MessagesInv, Reconnects, CompanionStep
    PROVE  Reconnects'
<1> DEFINE cut == Offline(Out(brain), client.incoming.items)
<1>0. /\ CompanionInv /\ UNCHANGED <<brain, client>>
      /\ pipe.toBrain \in Seq(Piped)
  BY DEF IInv, CompanionStep, MessagesInv, OnTheWay
<1>1. GreetsFirst(cut) /\ cut' = cut
  BY <1>0 DEF Reconnects
<1> HIDE DEF cut
<1>2. SUFFICES GreetsFirst(cut)'
  BY <1>0 DEF Reconnects, cut
<1>3. DOMAIN <<>> = {}
  OBVIOUS
<1>4. CASE CaptureHeld \/ Runner
  <2>1. \A o \in Proper : o.kind = "CapacityLoss" => o \in Captured
    BY HandsCaptured
  <2>2. Moves(Captured)
    BY <1>0, <1>4, <2>1, ThreadsMove DEF MessagesInv, OnTheWay
  <2>3. /\ PipeGets(Captured)
        /\ companion'.runner = "Greeting" => companion.runner = "Greeting" /\ UNCHANGED pipe
    BY <2>2 DEF Moves
  <2>4. companion'.runner = "Greeting" /\ pipe'.live => pipe'.toBrain = <<>> /\ cut'
    BY <1>1, <2>3 DEF GreetsFirst
  <2>5. ASSUME NEW i \in DOMAIN pipe'.toBrain, pipe'.toBrain[i].kind = "Hello"
        PROVE  i = 1 /\ cut'
    <3>1. CASE pipe'.toBrain = pipe.toBrain
      BY <1>1, <2>5, <3>1 DEF GreetsFirst
    <3>2. CASE pipe'.toBrain = <<>>
      BY <1>3, <2>5, <3>2
    <3>3. CASE \E o \in Captured : pipe'.toBrain = Append(pipe.toBrain, o)
      <4>1. PICK o \in Captured : pipe'.toBrain = Append(pipe.toBrain, o)
        BY <3>3
      <4>2. o.kind # "Hello"
        BY DEF Captured
      <4>3. i \in DOMAIN pipe.toBrain /\ pipe'.toBrain[i] = pipe.toBrain[i]
        BY <1>0, <2>5, <4>1, <4>2
      <4> QED BY <1>1, <2>5, <4>3 DEF GreetsFirst
    <3>4. CASE /\ companion.runner = "Greeting" /\ pipe.live
               /\ \E o \in Observation : pipe'.toBrain = Append(pipe.toBrain, o)
      <4>1. pipe.toBrain = <<>> /\ cut
        BY <1>1, <3>4 DEF GreetsFirst
      <4>2. PICK o \in Observation : pipe'.toBrain = Append(<<>>, o)
        BY <3>4, <4>1
      <4>3. i = 1
        BY <2>5, <4>2
      <4> QED BY <1>1, <4>1, <4>3
    <3> QED BY <2>3, <3>1, <3>2, <3>3, <3>4 DEF PipeGets
  <2> QED BY <2>4, <2>5 DEF GreetsFirst
<1>5. CASE Host
  <2>1. UNCHANGED pipe /\ companion'.runner = companion.runner
    BY <1>0, <1>5, HostAdds
  <2> QED BY <1>1, <2>1 DEF GreetsFirst
<1>6. CASE RestartXPilot
  <2>1. pipe'.toBrain = <<>> /\ ~pipe'.live
    BY <1>0, <1>6, RestartFields
  <2> QED BY <1>3, <2>1 DEF GreetsFirst
<1> QED BY <1>4, <1>5, <1>6 DEF CompanionStep

\* The client tells the Brain of the pipe it loses before it opens another.
LEMMA ClientReconnects ==
    ASSUME IInv, MessagesInv, Reconnects, NoLocalLoss', ClientStep
    PROVE  Reconnects'
<1> DEFINE items == client.incoming.items
           out == Out(brain)
           cut == Offline(out, items)
<1>0. /\ client \in Clients /\ pipe \in Pipes /\ companion \in Companions
      /\ pipe.toBrain \in Seq(Piped) /\ out' = out /\ out \in BOOLEAN
  BY DEF IInv, CompanionInv, ClientStep, ConnectClient, FlushCommand, ReadObservation,
     NoticeDisconnect, MessagesInv, OnTheWay, Out
<1>1. items \in Seq(Observation)
  BY CapturedIsProper DEF MessagesInv, OnTheWay
<1>2. CutBefore(out, items) /\ GreetsFirst(cut) /\ (~client.connected => cut)
  BY DEF Reconnects
<1>3. <<>> \in Seq(Observation) /\ DOMAIN <<>> = {}
  OBVIOUS
<1> HIDE DEF out
<1>4. ASSUME NEW o \in Observation, items' = Append(items, o),
             o.kind \in {"Hello", "TransportConnected"} => cut
      PROVE  CutBefore(out, items)' /\ (cut' <=> o.kind \in Cuts)
  BY <1>0, <1>1, <1>2, <1>4, CutAppend
<1>5. ASSUME CutBefore(out, items)', GreetsFirst(cut)', ~client'.connected => cut'
      PROVE  Reconnects'
  BY <1>5 DEF Reconnects, out
<1> HIDE DEF cut
<1>6. CASE ConnectClient
  <2> DEFINE c == [client EXCEPT !.connected = TRUE]
             o == Local("TransportConnected")
  <2>1. /\ client' = Publish(c, o) /\ ~client.connected
        /\ pipe' = [DeadPipe EXCEPT !.live = TRUE]
    BY <1>6 DEF ConnectClient
  <2>2. c \in Clients /\ c.incoming = client.incoming
    BY <1>0, ConnectedClientType, ConnectedFields
  <2>3. o \in Observation /\ o.kind = "TransportConnected"
    BY LocalArrives, CapturedIsProper DEF LocalKinds
  <2> HIDE DEF c, o
  <2>4. items' = Append(items, o)
    BY <2>1, <2>2, PublishAppends DEF NoLocalLoss
  <2>5. CutBefore(out, items)' /\ cut'
    BY <1>2, <1>4, <2>1, <2>3, <2>4 DEF Cuts
  <2>6. pipe'.toBrain = <<>>
    BY <2>1 DEF DeadPipe
  <2>7. GreetsFirst(cut)'
    BY <1>3, <2>5, <2>6 DEF GreetsFirst
  <2> QED BY <1>5, <2>5, <2>7
<1>7. CASE FlushCommand
  <2> DEFINE sent == Append(pipe.toCompanion, Head(client.outgoing))
             rest == Tail(client.outgoing)
  <2>1. /\ pipe' = [pipe EXCEPT !.toCompanion = sent] /\ companion' = companion
        /\ client' = [client EXCEPT !.outgoing = rest]
    BY <1>7 DEF FlushCommand
  <2> HIDE DEF sent, rest
  <2>2. /\ pipe'.toBrain = pipe.toBrain /\ pipe'.live = pipe.live
        /\ client'.incoming = client.incoming /\ client'.connected = client.connected
    BY <1>0, <2>1 DEF Pipes, Clients
  <2>3. cut' = cut
    BY <1>0, <2>2 DEF cut
  <2>4. GreetsFirst(cut)'
    BY <1>2, <2>1, <2>2, <2>3 DEF GreetsFirst
  <2> QED BY <1>0, <1>2, <1>5, <2>2, <2>3, <2>4
<1>8. CASE ReadObservation
  <2> DEFINE o == Head(pipe.toBrain)
             rest == Tail(pipe.toBrain)
  <2>1. /\ client' = Publish(client, o) /\ pipe' = [pipe EXCEPT !.toBrain = rest]
        /\ companion' = companion /\ pipe.toBrain # <<>> /\ client.connected
    BY <1>8 DEF ReadObservation
  <2>2. o \in Piped /\ rest \in Seq(Piped)
    BY <1>0, <2>1, HeadTailProperties
  <2>3. /\ 1 \in DOMAIN pipe.toBrain /\ pipe.toBrain[1] = o
        /\ \A i \in DOMAIN rest : /\ i + 1 \in DOMAIN pipe.toBrain /\ i + 1 # 1
                                  /\ rest[i] = pipe.toBrain[i + 1]
    <3>1. /\ Len(rest) = Len(pipe.toBrain) - 1
          /\ \A i \in 1 .. Len(rest) : rest[i] = pipe.toBrain[i + 1]
      BY <1>0, <2>1, HeadTailProperties
    <3>2. /\ DOMAIN pipe.toBrain = 1 .. Len(pipe.toBrain) /\ Len(pipe.toBrain) \in Nat
          /\ DOMAIN rest = 1 .. Len(rest) /\ Len(pipe.toBrain) # 0 /\ Len(rest) \in Nat
      <4> HIDE DEF rest
      <4> QED BY <1>0, <2>1, <2>2, LenProperties, EmptySeq
    <3>3. pipe.toBrain[1] = o
      OBVIOUS
    <3> HIDE DEF o, rest
    <3> QED BY <3>1, <3>2, <3>3
  <2> HIDE DEF o, rest
  <2>4. o \in Observation /\ o.kind \notin LocalKinds
    BY <2>2, CapturedIsProper DEF Piped, Captured, LocalKinds
  <2>5. o.kind \in {"Hello", "TransportConnected"} => cut
    BY <1>2, <2>3, <2>4 DEF GreetsFirst, LocalKinds
  <2>6. items' = Append(items, o) /\ client'.connected
    BY <1>0, <2>1, PublishAppends, PublishFields DEF NoLocalLoss
  <2>7. CutBefore(out, items)'
    BY <1>4, <2>4, <2>5, <2>6
  <2>8. pipe'.toBrain = rest /\ pipe'.live = pipe.live
    BY <1>0, <2>1 DEF Pipes
  <2>9. \A i \in DOMAIN rest : rest[i].kind # "Hello"
    BY <1>2, <2>3 DEF GreetsFirst
  <2>10. GreetsFirst(cut)'
    BY <1>2, <2>1, <2>8, <2>9 DEF GreetsFirst
  <2> QED BY <1>5, <2>6, <2>7, <2>10
<1>9. CASE NoticeDisconnect
  <2> DEFINE c == [client EXCEPT !.connected = FALSE]
             o == Local("TransportDisconnected")
  <2>1. client' = Publish(c, o) /\ companion' = companion /\ pipe' = pipe
    BY <1>9 DEF NoticeDisconnect
  <2>2. c \in Clients /\ c.incoming = client.incoming
    BY <1>0, ConnectedClientType, ConnectedFields
  <2>3. o \in Observation /\ o.kind = "TransportDisconnected"
    BY LocalArrives, CapturedIsProper DEF LocalKinds
  <2> HIDE DEF c, o
  <2>4. items' = Append(items, o)
    BY <2>1, <2>2, PublishAppends DEF NoLocalLoss
  <2>5. CutBefore(out, items)' /\ cut'
    BY <1>4, <2>3, <2>4 DEF Cuts
  <2>6. GreetsFirst(cut)'
    BY <1>2, <2>1, <2>5 DEF GreetsFirst
  <2> QED BY <1>5, <2>5, <2>6
<1> QED BY <1>6, <1>7, <1>8, <1>9 DEF ClientStep

-----------------------------------------------------------------------------
(* The invariant of the callsigns                                          *)

\* The Brain takes an observation.
LEMMA HarvestCallsigns ==
    ASSUME IInv, MessagesInv, CallsignInv, NoLocalLoss, Harvest
    PROVE  CallsignInv'
<1> DEFINE items == client.incoming.items
           o == Head(items)
           out == Out(brain)
           p == xpilot.process
           e == companion.epoch
<1>0. PICK f \in Callsigning : Agrees(f)
  BY DEF CallsignInv
<1> DEFINE A == Told(f, p, e)
<1>1. /\ items # <<>> /\ Consume(o) /\ UNCHANGED <<xpilot, companion, pipe>>
      /\ items' = Tail(items) /\ client'.connected = client.connected
  BY HarvestFields, HarvestTakes DEF companionVars
<1>2. /\ items \in Seq(Arriving) /\ items \in Seq(A) /\ items \in Seq(Observation)
  BY <1>0, CapturedIsProper DEF MessagesInv, OnTheWay, Agrees, Everywhere
<1>3. /\ CutBefore(out, items) /\ GreetsFirst(Offline(out, items))
      /\ ~client.connected => Offline(out, items)
  BY DEF CallsignInv, Reconnects
<1>4. out \in BOOLEAN /\ out' \in BOOLEAN
  BY DEF Out
<1>5. o.kind = "Hello" => out
  <2>1. 1 \in DOMAIN items /\ items[1] = o
    BY <1>1, <1>2, LenProperties
  <2> QED BY <1>3, <2>1 DEF CutBefore
<1>6. o \in Arriving /\ o \in A /\ Tail(items) \in Seq(A)
  BY <1>1, <1>2, HeadTailProperties
<1>7. /\ Knows(brain', f, p, e) /\ Bound(brain', inbox')
      /\ o.kind = "TransportDisconnected" => out'
      /\ o.kind = "TransportConnected" /\ out => out'
  BY <1>0, <1>1, <1>5, <1>6, ConsumeKnows DEF IInv, CallsignInv, Agrees
<1>8. CutBefore(out', Tail(items)) /\ (Offline(out, items) => Offline(out', Tail(items)))
  BY <1>1, <1>2, <1>3, <1>4, <1>7, CutTail
<1>9. Agrees(f)'
  BY <1>0, <1>1, <1>6, <1>7 DEF Agrees, Everywhere, XPilotAgrees
<1>10. Reconnects'
  BY <1>1, <1>3, <1>8 DEF Reconnects, GreetsFirst
<1> QED BY <1>0, <1>7, <1>9, <1>10 DEF CallsignInv

\* The queue is as it was, and the Brain connected to nothing if it was.
LEMMA QuietCallsigns ==
    ASSUME CallsignInv, UNCHANGED <<xpilot, companion, pipe>>,
           client'.incoming = client.incoming, client'.connected = client.connected,
           \A f \in Callsigning : Knows(brain, f, xpilot.process, companion.epoch)
               => Knows(brain', f, xpilot.process, companion.epoch),
           Bound(brain', inbox'), Out(brain) => Out(brain')
    PROVE  CallsignInv'
<1>1. PICK f \in Callsigning : Agrees(f)
  BY DEF CallsignInv
<1>2. Agrees(f)'
  BY <1>1 DEF Agrees, Everywhere, XPilotAgrees
<1>3. CutBefore(Out(brain), client.incoming.items)'
  BY DEF CallsignInv, Reconnects, CutBefore
<1>4. Offline(Out(brain), client.incoming.items) => Offline(Out(brain), client.incoming.items)'
  BY DEF Offline
<1>5. Reconnects'
  BY <1>3, <1>4 DEF CallsignInv, Reconnects, GreetsFirst
<1> QED BY <1>1, <1>2, <1>5 DEF CallsignInv

\* The Brain's steps keep the callsigns apart.
LEMMA BrainCallsigns ==
    ASSUME IInv, MessagesInv, CallsignInv, NoLocalLoss, BrainStep
    PROVE  CallsignInv'
<1>1. CASE Harvest
  BY <1>1, HarvestCallsigns
<1>2. CASE \E late \in BOOLEAN : Serve(late)
  <2> PICK late \in BOOLEAN : Serve(late)
    BY <1>2
  <2> DEFINE room == /\ Len(client.outgoing) < OutgoingCapacity
                     /\ brain.nextRequest <= MaxRequests
             sent == Append(client.outgoing, brain.nextRequest)
  <2>1. /\ EndService(late, room)
        /\ client' = IF RequestsSnapshot(late, room)
                     THEN [client EXCEPT !.outgoing = sent] ELSE client
        /\ UNCHANGED <<xpilot, companion, pipe>>
    BY DEF Serve
  <2>2. room \in BOOLEAN
    OBVIOUS
  <2> HIDE DEF room, sent
  <2>3. client'.incoming = client.incoming /\ client'.connected = client.connected
    BY <2>1 DEF IInv, Clients
  <2>4. ASSUME NEW f \in Callsigning, Knows(brain, f, xpilot.process, companion.epoch)
        PROVE  /\ Knows(brain', f, xpilot.process, companion.epoch)
               /\ Bound(brain', inbox') /\ (Out(brain) => Out(brain'))
    BY <2>1, <2>2, <2>4, EndServiceKnows DEF IInv, CallsignInv
  <2>5. \E f \in Callsigning : Knows(brain, f, xpilot.process, companion.epoch)
    BY DEF CallsignInv, Agrees
  <2> QED BY <2>1, <2>3, <2>4, <2>5, QuietCallsigns
<1>3. CASE FlightChanges /\ UNCHANGED <<xpilot, companion, pipe, client>>
  BY <1>3, QuietCallsigns DEF FlightChanges, ChangeFlight, CallsignInv
<1>4. CASE ExpireDeferred /\ UNCHANGED <<xpilot, companion, pipe, client>>
  <2>1. ASSUME NEW f \in Callsigning, Knows(brain, f, xpilot.process, companion.epoch)
        PROVE  /\ Knows(brain', f, xpilot.process, companion.epoch)
               /\ Bound(brain', inbox') /\ ~Out(brain)
    BY <1>4, <2>1, ExpireKnows DEF IInv, CallsignInv
  <2>2. \E f \in Callsigning : Knows(brain, f, xpilot.process, companion.epoch)
    BY DEF CallsignInv, Agrees
  <2> QED BY <1>4, <2>1, <2>2, QuietCallsigns
<1> QED BY <1>1, <1>2, <1>3, <1>4 DEF BrainStep

\* A Brain that starts knows nothing.
LEMMA NothingKnown ==
    /\ Out(FreshBrain) /\ Bound(FreshBrain, <<>>)
    /\ \A f, p, e : Knows(FreshBrain, f, p, e)
<1>1. /\ FreshBrain.deferred = <<>> /\ ~FreshBrain.network /\ DOMAIN <<>> = {}
  BY DEF FreshBrain
<1> QED BY <1>1, Zenon DEF Out, Bound, Knows

\* A broken pipe and a reloaded plugin keep the callsigns apart.
LEMMA FaultCallsigns ==
    ASSUME IInv, CallsignInv, BreakPipe \/ RestartPlugin
    PROVE  CallsignInv'
<1>0. PICK f \in Callsigning : Agrees(f)
  BY DEF CallsignInv
<1>1. UNCHANGED <<xpilot, companion>> /\ pipe' = DeadPipe
  BY DEF BreakPipe, RestartPlugin
<1>2. /\ pipe'.toBrain = <<>> /\ ~pipe'.live /\ DOMAIN <<>> = {}
      /\ \A A : <<>> \in Seq(A)
  BY <1>1 DEF DeadPipe
<1>3. GreetsFirst(Offline(Out(brain), client.incoming.items))'
  BY <1>2 DEF GreetsFirst
<1>4. CASE BreakPipe
  <2>1. UNCHANGED <<brain, inbox, client>>
    BY <1>4 DEF BreakPipe
  <2>2. Agrees(f)'
    BY <1>0, <1>1, <1>2, <2>1 DEF Agrees, Everywhere, XPilotAgrees
  <2> QED BY <1>0, <1>3, <2>1, <2>2 DEF CallsignInv, Reconnects
<1>5. CASE RestartPlugin
  <2>1. brain' = FreshBrain /\ inbox' = <<>> /\ client' = FreshClient
    BY <1>5 DEF RestartPlugin
  <2>2. client'.incoming.items = <<>>
    BY <2>1 DEF FreshClient, EmptyQueue
  <2>3. Agrees(f)'
    BY <1>0, <1>1, <1>2, <2>1, <2>2, NothingKnown DEF Agrees, Everywhere, XPilotAgrees
  <2>4. Reconnects'
    BY <1>2, <1>3, <2>1, <2>2, NothingKnown DEF Reconnects, CutBefore, Offline
  <2> QED BY <1>0, <2>1, <2>3, <2>4, NothingKnown DEF CallsignInv
<1> QED BY <1>4, <1>5

\* At the start no callsign is told.
LEMMA CallsignInit == Init => CallsignInv
<1> SUFFICES ASSUME Init PROVE CallsignInv
  OBVIOUS
<1>1. /\ xpilot = FreshXPilot(1) /\ companion = FreshCompanion(1) /\ pipe = DeadPipe
      /\ brain = FreshBrain /\ inbox = <<>> /\ client = FreshClient
  BY DEF Init, CompanionInit, BrainInit
<1>2. /\ pipe.toBrain = <<>> /\ ~pipe.live /\ client.incoming.items = <<>>
      /\ xpilot.callsign = NoCallsign /\ DOMAIN <<>> = {} /\ \A A : <<>> \in Seq(A)
  BY <1>1 DEF DeadPipe, FreshClient, EmptyQueue, FreshXPilot
<1>3. /\ companion.held = NumberedIn(1, [sequence |-> 0, epoch |-> 0,
             held |-> Nothing, taken |-> Nothing, queue |-> EmptyQueue,
             runner |-> "Closed", answer |-> NoAnswer, stopping |-> FALSE,
             raced |-> {}], "SourceAvailable")
      /\ companion.taken = Nothing /\ companion.queue = EmptyQueue
  BY <1>1 DEF FreshCompanion
<1>4. companion.held.kind = "SourceAvailable" /\ companion.queue.items = <<>>
  BY <1>3 DEF NumberedIn, Local, EmptyQueue
<1>5. companion.held \in Observation
  BY CompanionInitType, CompanionFields, ProperObservation DEF Init, CompanionInv
<1> DEFINE f == [x \in Nat \X Nat |-> NoCallsign]
<1>6. f \in Callsigning
  BY DEF Callsigning
<1> HIDE DEF f
<1>7. /\ companion.held \in Told(f, xpilot.process, companion.epoch)
      /\ companion.taken \in Told(f, xpilot.process, companion.epoch)
  BY <1>3, <1>4, <1>5, SilentAgrees, NothingProper, ProperObservation
<1>8. Agrees(f)
  BY <1>1, <1>2, <1>4, <1>7, NothingKnown DEF Agrees, Everywhere, XPilotAgrees
<1>9. Reconnects
  BY <1>1, <1>2, NothingKnown DEF Reconnects, GreetsFirst, CutBefore, Offline
<1> QED BY <1>1, <1>6, <1>8, <1>9, NothingKnown DEF CallsignInv

\* Every step preserves it that loses nothing in the client's queue.
LEMMA CallsignStep ==
    IInv /\ MessagesInv /\ CallsignInv /\ NoLocalLoss /\ NoLocalLoss' /\ [Next]_vars
        => CallsignInv'
<1> SUFFICES ASSUME IInv, MessagesInv, CallsignInv, NoLocalLoss, NoLocalLoss', [Next]_vars
             PROVE  CallsignInv'
  OBVIOUS
<1>0. PICK f \in Callsigning : Agrees(f)
  BY DEF CallsignInv
<1>1. CASE UNCHANGED vars
  <2>1. UNCHANGED <<xpilot, companion, pipe, client, brain, inbox>>
    BY <1>1 DEF vars
  <2> QED BY <2>1, QuietCallsigns DEF CallsignInv
<1>2. CASE CompanionStep
  <2>1. \E g \in Callsigning : Agrees(g)'
    BY <1>0, <1>2, CompanionAgrees
  <2>2. Reconnects'
    BY <1>2, CompanionReconnects DEF CallsignInv
  <2>3. Bound(brain, inbox)'
    BY <1>2 DEF CompanionStep, CallsignInv
  <2> QED BY <2>1, <2>2, <2>3 DEF CallsignInv
<1>3. CASE ClientStep
  <2>1. Agrees(f)'
    BY <1>0, <1>3, ClientAgrees
  <2>2. Reconnects'
    BY <1>3, ClientReconnects DEF CallsignInv
  <2>3. Bound(brain, inbox)'
    BY <1>3 DEF ClientStep, ConnectClient, FlushCommand, ReadObservation,
       NoticeDisconnect, CallsignInv
  <2> QED BY <1>0, <2>1, <2>2, <2>3 DEF CallsignInv
<1> QED BY <1>1, <1>2, <1>3, BrainCallsigns, FaultCallsigns DEF Next

\* While the client's queue has room, a message received under one callsign is
\* never shown for a flight under another (ObservationMatchesCurrentSession,
\* BrainXPilot4BridgeRuntime.cpp:307-313): no observation passes the Brain
\* between the pipe it loses and the greeting of the next.
THEOREM MessagesReachTheirCallsign == Spec /\ []NoLocalLoss => []MessageReachesItsCallsign
<1>1. CallsignInv => MessageReachesItsCallsign
  BY DEF CallsignInv, Bound, MessageReachesItsCallsign
<1>2. Spec => []MessagesInv
  BY BridgeInvariant, MessagesInit, MessagesStep, PTL DEF Spec
<1>3. Spec /\ []NoLocalLoss => []CallsignInv
  BY <1>2, BridgeInvariant, CallsignInit, CallsignStep, PTL DEF Spec
<1> QED BY <1>1, <1>3, PTL

-----------------------------------------------------------------------------
(* What the Brain must come to know                                        *)

Items(s) == {s[i] : i \in DOMAIN s}

\* All that is on its way to the Brain.
OnWay == (Items(client.incoming.items) \cup Items(pipe.toBrain))
             \cup Items(companion.queue.items)

\* The end of a list, a report of losses, and a companion that owes one.
Completes(o) == o.kind = "SnapshotCompleted"
Reports(o)   == o.kind = "CapacityLoss"
Losing(c)    == c.queue.loss.count > 0

\* An observation of process n that the companion c has numbered, or one without
\* a number; the Brain that is greeted knows no process yet.
Placed(b, c, n, o) ==
    /\ o.sequence <= c.sequence /\ o.epoch <= c.epoch
    /\ o.sequence # 0 => o.kind \notin LocalKinds \cup {"Hello"} /\ o.process = n
    /\ o.sequence = c.sequence /\ ~Reports(o) => o.epoch = c.epoch
    /\ Completes(o) => o.request < b.nextRequest
    /\ o.kind = "Hello" => o.process = n /\ b.process = 0

\* x may arrive before y: a report of losses is of the epoch of every list that
\* ended before it or of a later one, and lists that end after it have a later
\* number.
InOrder(x, y) ==
    /\ Completes(x) /\ Reports(y) => x.epoch <= y.epoch
    /\ Reports(x) /\ Completes(y) => x.sequence < y.sequence
    /\ ~(x.kind = "Hello" /\ y.kind = "Hello")

Orderly(s)  == \A i, j \in DOMAIN s : i < j => InOrder(s[i], s[j])
Ahead(X, Y) == \A x \in X, y \in Y : InOrder(x, y)

\* The client's queue, the pipe and the companion's queue are in order.
Line(a, p, q) ==
    /\ Orderly(a) /\ Orderly(p) /\ Orderly(q)
    /\ Ahead(Items(a), Items(p)) /\ Ahead(Items(a), Items(q)) /\ Ahead(Items(p), Items(q))

\* The Brain is not ahead of the companion, and one that was never greeted has
\* asked for nothing.
Counting(b, c, n) ==
    /\ n # 0 /\ c.sequence >= 1 /\ b.last <= c.sequence /\ b.epoch <= c.epoch
    /\ b.process \in {0, n}
    /\ b.process = 0 => /\ b.recovery /\ ~b.pending /\ ~b.compatible
                        /\ b.last = 0 /\ b.epoch = 0

\* What the two threads have in hand.
Hands(c) ==
    /\ c.held # Nothing =>
         /\ c.held.kind \notin {"SnapshotCompleted", "CapacityLoss", "Hello"}
         /\ c.held.epoch = c.epoch
    /\ c.taken # Nothing =>
         /\ c.taken.kind \notin {"CapacityLoss", "Hello"}
         /\ c.answer.phase # "None"

\* A Brain that is past the epoch of a loss will ask for a list, and no list that
\* ends before it hears of the loss can stop it: it is of an earlier epoch.
Reported(b, c, F) ==
    /\ \A o \in F : Reports(o) /\ b.epoch > o.epoch => b.recovery
    /\ Losing(c) =>
         /\ Len(c.queue.items) >= QueueCapacity /\ c.queue.loss.epoch <= c.epoch
         /\ b.epoch > c.queue.loss.epoch => b.recovery
         /\ \A o \in F : Completes(o) => o.epoch <= c.queue.loss.epoch
    /\ c.taken # Nothing =>
         /\ b.epoch > c.taken.epoch => b.recovery
         /\ \A o \in F : /\ Completes(o) => o.epoch <= c.taken.epoch
                         /\ Reports(o) => o.sequence < c.taken.sequence

\* The last number is in hand, on its way, about to be reported, or known.
Tracked(b, c, F) ==
    \/ c.held.sequence = c.sequence \/ c.taken.sequence = c.sequence
    \/ \E o \in F : o.sequence = c.sequence
    \/ Losing(c) \/ b.last >= c.sequence

\* The Brain does not wait for o.
Void(b, o) == ~(b.pending /\ b.request = o.request)

\* The Brain will hear of the last number, or it will ask for a list, and none
\* that is on its way is the one it asked for.
Known(b, c, F) ==
    \/ Tracked(b, c, F)
    \/ b.recovery /\ \A o \in F \cup {c.taken} : Completes(o) => Void(b, o)

Sure(b, c, n, F) ==
    /\ Counting(b, c, n) /\ Hands(c) /\ Reported(b, c, F)
    /\ \A o \in F \cup {c.held, c.taken} : Placed(b, c, n, o)

\* Requests are numbered in turn.
Asked(b, c, p, l) ==
    /\ \A r \in Items(p.toCompanion) \cup Items(l.outgoing) : r < b.nextRequest
    /\ c.answer.phase # "None" => c.answer.request < b.nextRequest

\* The client has lost something itself, and the Brain is yet to hear of it.
Spoilt(l, F) == l.incoming.loss.count > 0 \/ \E o \in F : o.kind = "LocalCapacityLoss"

\* Before the companion has greeted, the Brain knows no process; its pipe lasts.
Greeted(b, c, p, F) ==
    /\ c.runner \in {"Closed", "Listening", "Greeting"} =>
         /\ b.process = 0 /\ p.toBrain = <<>>
         /\ \A o \in F : o.kind # "Hello"
    /\ c.runner \in {"Greeting", "Connected"} => p.live

\* The Brain and the companion agree about what the Brain must come to know; a
\* loss of the client's own lets it off until it hears of that one.
LossBody ==
    /\ Sure(brain, companion, xpilot.process, OnWay)
    /\ Asked(brain, companion, pipe, client)
    /\ Greeted(brain, companion, pipe, OnWay)
    /\ Line(client.incoming.items, pipe.toBrain, companion.queue.items)
    /\ Spoilt(client, OnWay) \/ Known(brain, companion, OnWay)

LossInv == companion.runner # "Stopped" => LossBody

-----------------------------------------------------------------------------
(* Sequences and what is in them                                           *)

\* What is in a sequence is what it is a sequence of.
LEMMA ItemsType ==
    /\ Items(<<>>) = {}
    /\ \A S : \A s \in Seq(S) : Items(s) \subseteq S
<1>1. DOMAIN <<>> = {}
  OBVIOUS
<1>2. ASSUME NEW S, NEW s \in Seq(S) PROVE Items(s) \subseteq S
  <2>1. \A i \in DOMAIN s : s[i] \in S
    BY ElementOfSeq, LenProperties
  <2> QED BY <2>1 DEF Items
<1> QED BY <1>1, <1>2 DEF Items

\* One more.
LEMMA ItemsAppend ==
    ASSUME NEW S, NEW s \in Seq(S), NEW o \in S
    PROVE  Items(Append(s, o)) = Items(s) \cup {o}
<1> DEFINE t == Append(s, o)
<1>1. /\ Len(s) \in Nat /\ DOMAIN s = 1 .. Len(s) /\ DOMAIN t = 1 .. Len(s) + 1
      /\ t[Len(s) + 1] = o /\ \A i \in 1 .. Len(s) : t[i] = s[i]
  BY AppendProperties, LenProperties
<1> HIDE DEF t
<1>2. ASSUME NEW x \in Items(t) PROVE x \in Items(s) \cup {o}
  <2>1. PICK i \in 1 .. Len(s) + 1 : x = t[i]
    BY <1>1 DEF Items
  <2>2. CASE i = Len(s) + 1
    BY <1>1, <2>1, <2>2
  <2>3. CASE i # Len(s) + 1
    <3>1. i \in 1 .. Len(s)
      BY <1>1, <2>3
    <3> QED BY <1>1, <2>1, <3>1 DEF Items
  <2> QED BY <2>2, <2>3
<1>3. ASSUME NEW x \in Items(s) PROVE x \in Items(t)
  <2>1. PICK i \in 1 .. Len(s) : x = s[i]
    BY <1>1 DEF Items
  <2>2. i \in DOMAIN t
    BY <1>1
  <2> QED BY <1>1, <2>1, <2>2 DEF Items
<1>4. o \in Items(t)
  <2>1. Len(s) + 1 \in DOMAIN t
    BY <1>1
  <2> QED BY <1>1, <2>1 DEF Items
<1> QED BY <1>2, <1>3, <1>4 DEF t

\* One less.
LEMMA ItemsTake ==
    ASSUME NEW S, NEW s \in Seq(S), s # <<>>
    PROVE  /\ Head(s) \in S /\ Tail(s) \in Seq(S)
           /\ Items(s) = {Head(s)} \cup Items(Tail(s))
<1> DEFINE h == Head(s)
           t == Tail(s)
<1>1. /\ h \in S /\ t \in Seq(S) /\ Len(s) \in Nat \ {0} /\ DOMAIN s = 1 .. Len(s)
      /\ DOMAIN t = 1 .. Len(s) - 1 /\ h = s[1]
      /\ \A i \in 1 .. Len(s) - 1 : t[i] = s[i + 1]
  <2>1. /\ h \in S /\ t \in Seq(S) /\ Len(t) = Len(s) - 1
        /\ \A i \in 1 .. Len(t) : t[i] = s[i + 1]
    BY HeadTailProperties
  <2>2. Len(s) \in Nat \ {0} /\ DOMAIN s = 1 .. Len(s) /\ DOMAIN t = 1 .. Len(t)
    BY <2>1, LenProperties, EmptySeq
  <2>3. h = s[1]
    OBVIOUS
  <2> QED BY <2>1, <2>2, <2>3
<1> HIDE DEF h, t
<1>2. ASSUME NEW x \in Items(s) PROVE x \in {h} \cup Items(t)
  <2>1. PICK i \in 1 .. Len(s) : x = s[i]
    BY <1>1 DEF Items
  <2>2. CASE i = 1
    BY <1>1, <2>1, <2>2
  <2>3. CASE i # 1
    <3>1. i - 1 \in DOMAIN t /\ t[i - 1] = s[i]
      BY <1>1, <2>3
    <3> QED BY <2>1, <3>1 DEF Items
  <2> QED BY <2>2, <2>3
<1>3. ASSUME NEW x \in Items(t) PROVE x \in Items(s)
  <2>1. PICK i \in 1 .. Len(s) - 1 : x = t[i]
    BY <1>1 DEF Items
  <2>2. i + 1 \in DOMAIN s /\ x = s[i + 1]
    BY <1>1, <2>1
  <2> QED BY <2>2 DEF Items
<1>4. h \in Items(s)
  <2>1. 1 \in DOMAIN s
    BY <1>1
  <2> QED BY <1>1, <2>1 DEF Items
<1> QED BY <1>1, <1>2, <1>3, <1>4 DEF h, t

\* What may come after all that is in a sequence may join it.
LEMMA OrderlyAppend ==
    ASSUME NEW S, NEW s \in Seq(S), NEW o \in S, Orderly(s), Ahead(Items(s), {o})
    PROVE  Orderly(Append(s, o))
<1> DEFINE t == Append(s, o)
<1>1. /\ Len(s) \in Nat /\ DOMAIN s = 1 .. Len(s) /\ DOMAIN t = 1 .. Len(s) + 1
      /\ t[Len(s) + 1] = o /\ \A i \in 1 .. Len(s) : t[i] = s[i]
  BY AppendProperties, LenProperties
<1> HIDE DEF t
<1>2. ASSUME NEW i \in DOMAIN t, NEW j \in DOMAIN t, i < j PROVE InOrder(t[i], t[j])
  <2>1. i \in 1 .. Len(s) /\ t[i] = s[i]
    BY <1>1, <1>2
  <2>2. s[i] \in Items(s)
    BY <1>1, <2>1 DEF Items
  <2>3. CASE j = Len(s) + 1
    BY <1>1, <2>1, <2>2, <2>3 DEF Ahead
  <2>4. CASE j # Len(s) + 1
    <3>1. j \in 1 .. Len(s) /\ t[j] = s[j]
      BY <1>1, <2>4
    <3> QED BY <1>1, <1>2, <2>1, <3>1 DEF Orderly
  <2> QED BY <2>3, <2>4
<1> QED BY <1>2 DEF Orderly, t

\* The first of an orderly sequence may come before the others.
LEMMA OrderlyTake ==
    ASSUME NEW S, NEW s \in Seq(S), s # <<>>, Orderly(s)
    PROVE  Orderly(Tail(s)) /\ Ahead({Head(s)}, Items(Tail(s)))
<1> DEFINE h == Head(s)
           t == Tail(s)
<1>1. /\ Len(s) \in Nat \ {0} /\ DOMAIN s = 1 .. Len(s)
      /\ DOMAIN t = 1 .. Len(s) - 1 /\ h = s[1]
      /\ \A i \in 1 .. Len(s) - 1 : t[i] = s[i + 1]
  <2>1. /\ h \in S /\ t \in Seq(S) /\ Len(t) = Len(s) - 1
        /\ \A i \in 1 .. Len(t) : t[i] = s[i + 1]
    BY HeadTailProperties
  <2>2. Len(s) \in Nat \ {0} /\ DOMAIN s = 1 .. Len(s) /\ DOMAIN t = 1 .. Len(t)
    BY <2>1, LenProperties, EmptySeq
  <2>3. h = s[1]
    OBVIOUS
  <2> QED BY <2>1, <2>2, <2>3
<1> HIDE DEF h, t
<1>2. ASSUME NEW i \in DOMAIN t, NEW j \in DOMAIN t, i < j PROVE InOrder(t[i], t[j])
  <2>1. /\ i + 1 \in DOMAIN s /\ j + 1 \in DOMAIN s /\ i + 1 < j + 1
        /\ t[i] = s[i + 1] /\ t[j] = s[j + 1]
    BY <1>1, <1>2
  <2> QED BY <2>1 DEF Orderly
<1>3. ASSUME NEW x \in Items(t) PROVE InOrder(h, x)
  <2>1. PICK i \in DOMAIN t : x = t[i]
    BY DEF Items
  <2>2. 1 \in DOMAIN s /\ i + 1 \in DOMAIN s /\ 1 < i + 1 /\ x = s[i + 1]
    BY <1>1, <2>1
  <2> QED BY <1>1, <2>2 DEF Orderly
<1> QED BY <1>2, <1>3 DEF Orderly, Ahead, h, t

-----------------------------------------------------------------------------
(* The three queues                                                        *)

\* An observation may join the companion's queue when all may come before it.
LEMMA LineAppend ==
    ASSUME NEW S, NEW a \in Seq(S), NEW p \in Seq(S), NEW q \in Seq(S), NEW o \in S,
           Line(a, p, q), Ahead((Items(a) \cup Items(p)) \cup Items(q), {o})
    PROVE  Line(a, p, Append(q, o))
<1>1. Ahead(Items(a), {o}) /\ Ahead(Items(p), {o}) /\ Ahead(Items(q), {o})
  BY DEF Ahead
<1>2. Orderly(Append(q, o))
  BY <1>1, OrderlyAppend DEF Line
<1>3. Items(Append(q, o)) = Items(q) \cup {o}
  BY ItemsAppend
<1> QED BY <1>1, <1>2, <1>3 DEF Line, Ahead

\* What moves from one queue to the one before it stays in line.
LEMMA MoveOn ==
    ASSUME NEW S, NEW s \in Seq(S), NEW t \in Seq(S), t # <<>>,
           Orderly(s), Orderly(t), Ahead(Items(s), Items(t))
    PROVE  LET u == Append(s, Head(t))
               v == Tail(t)
           IN  /\ Orderly(u) /\ Orderly(v) /\ Ahead(Items(u), Items(v))
               /\ Items(u) = Items(s) \cup {Head(t)}
               /\ Items(t) = {Head(t)} \cup Items(v)
<1> DEFINE h == Head(t)
           u == Append(s, h)
           v == Tail(t)
<1>1. h \in S /\ v \in Seq(S) /\ Items(t) = {h} \cup Items(v)
  BY ItemsTake
<1>2. Orderly(v) /\ Ahead({h}, Items(v))
  BY OrderlyTake
<1> HIDE DEF h, v
<1>3. Ahead(Items(s), {h}) /\ Ahead(Items(s), Items(v))
  BY <1>1 DEF Ahead
<1>4. Orderly(u) /\ Items(u) = Items(s) \cup {h}
  BY <1>1, <1>3, OrderlyAppend, ItemsAppend
<1>5. Ahead(Items(u), Items(v))
  BY <1>2, <1>3, <1>4 DEF Ahead
<1> QED BY <1>1, <1>2, <1>4, <1>5 DEF h, v

\* The companion writes to the pipe.
LEMMA LineWrites ==
    ASSUME NEW S, NEW a \in Seq(S), NEW p \in Seq(S), NEW q \in Seq(S), q # <<>>,
           Line(a, p, q)
    PROVE  Line(a, Append(p, Head(q)), Tail(q))
<1> DEFINE h == Head(q)
           u == Append(p, h)
           v == Tail(q)
<1>1. /\ Orderly(u) /\ Orderly(v) /\ Ahead(Items(u), Items(v))
      /\ Items(u) = Items(p) \cup {h} /\ Items(q) = {h} \cup Items(v)
  BY MoveOn DEF Line
<1> HIDE DEF h, u, v
<1>2. Ahead(Items(a), Items(u)) /\ Ahead(Items(a), Items(v))
  BY <1>1 DEF Line, Ahead
<1>3. Line(a, u, v)
  BY <1>1, <1>2 DEF Line
<1> QED BY <1>3 DEF h, u, v

\* The client reads from the pipe.
LEMMA LineReads ==
    ASSUME NEW S, NEW a \in Seq(S), NEW p \in Seq(S), NEW q \in Seq(S), p # <<>>,
           Line(a, p, q)
    PROVE  Line(Append(a, Head(p)), Tail(p), q) /\ Line(a, Tail(p), q)
<1> DEFINE h == Head(p)
           u == Append(a, h)
           v == Tail(p)
<1>1. /\ Orderly(u) /\ Orderly(v) /\ Ahead(Items(u), Items(v))
      /\ Items(u) = Items(a) \cup {h} /\ Items(p) = {h} \cup Items(v)
  BY MoveOn DEF Line
<1> HIDE DEF h, u, v
<1>2. /\ Ahead(Items(u), Items(q)) /\ Ahead(Items(v), Items(q))
      /\ Ahead(Items(a), Items(v))
  BY <1>1 DEF Line, Ahead
<1>3. Line(u, v, q) /\ Line(a, v, q)
  BY <1>1, <1>2 DEF Line
<1> QED BY <1>3 DEF h, u, v

\* The Brain takes the first.
LEMMA LineTakes ==
    ASSUME NEW S, NEW a \in Seq(S), NEW p \in Seq(S), NEW q \in Seq(S), a # <<>>,
           Line(a, p, q)
    PROVE  /\ Line(Tail(a), p, q)
           /\ Ahead({Head(a)}, (Items(Tail(a)) \cup Items(p)) \cup Items(q))
<1> DEFINE h == Head(a)
           v == Tail(a)
<1>1. Items(a) = {h} \cup Items(v)
  BY ItemsTake
<1>2. Orderly(v) /\ Ahead({h}, Items(v))
  BY OrderlyTake DEF Line
<1> HIDE DEF h, v
<1>3. /\ Ahead(Items(v), Items(p)) /\ Ahead(Items(v), Items(q))
      /\ Ahead({h}, Items(p)) /\ Ahead({h}, Items(q))
  BY <1>1 DEF Line, Ahead
<1>4. Line(v, p, q) /\ Ahead({h}, (Items(v) \cup Items(p)) \cup Items(q))
  BY <1>2, <1>3 DEF Line, Ahead
<1> QED BY <1>4 DEF h, v

\* What has nothing to do with losses and lists may come anywhere.
LEMMA AnywhereInOrder ==
    ASSUME NEW o, ~Completes(o), ~Reports(o), NEW F,
           o.kind = "Hello" => \A x \in F : x.kind # "Hello"
    PROVE  Ahead(F, {o}) /\ Ahead({o}, F)
  BY DEF Ahead, InOrder

\* What XVatsim reports of itself joins the client's queue.
LEMMA LineReports ==
    ASSUME NEW S, NEW a \in Seq(S), NEW p \in Seq(S), NEW q \in Seq(S), NEW o \in S,
           o.kind \in LocalKinds, Line(a, p, q)
    PROVE  Line(Append(a, o), p, q)
<1>1. ~Completes(o) /\ ~Reports(o) /\ o.kind # "Hello"
  BY DEF LocalKinds, Completes, Reports
<1>2. Ahead(Items(a), {o}) /\ Ahead({o}, Items(p)) /\ Ahead({o}, Items(q))
  BY <1>1, AnywhereInOrder
<1>3. Orderly(Append(a, o)) /\ Items(Append(a, o)) = Items(a) \cup {o}
  BY <1>2, OrderlyAppend, ItemsAppend DEF Line
<1> QED BY <1>2, <1>3 DEF Line, Ahead

\* The greeting joins the pipe when none is on its way.
LEMMA LineGreets ==
    ASSUME NEW S, NEW a \in Seq(S), NEW p \in Seq(S), NEW q \in Seq(S), NEW o \in S,
           o.kind = "Hello", Line(a, p, q),
           \A x \in (Items(a) \cup Items(p)) \cup Items(q) : x.kind # "Hello"
    PROVE  Line(a, Append(p, o), q)
<1>1. ~Completes(o) /\ ~Reports(o)
  BY DEF Completes, Reports
<1>2. Ahead(Items(a), {o}) /\ Ahead(Items(p), {o}) /\ Ahead({o}, Items(q))
  BY <1>1, AnywhereInOrder
<1>3. Orderly(Append(p, o)) /\ Items(Append(p, o)) = Items(p) \cup {o}
  BY <1>2, OrderlyAppend, ItemsAppend DEF Line
<1> QED BY <1>2, <1>3 DEF Line, Ahead

-----------------------------------------------------------------------------
(* What the companion's threads do to what the Brain must come to know     *)

\* The mark of an empty hand is in its place.
LEMMA NothingPlaced ==
    ASSUME NEW b, NEW c \in Companions, NEW n, Counting(b, c, n)
    PROVE  Placed(b, c, n, Nothing) /\ Nothing.sequence = 0
<1>1. /\ Nothing.sequence = 0 /\ Nothing.epoch = 0 /\ Nothing.kind = "None"
  BY DEF Nothing, Local
<1>2. c.sequence \in Nat /\ c.epoch \in Nat
  BY CompanionFields
<1> QED BY <1>1, <1>2 DEF Placed, Counting, Completes

\* The fields that are numbers.
LEMMA Numbers ==
    /\ \A c \in Companions : c.sequence \in Nat /\ c.epoch \in Nat
                             /\ c.queue.loss.count \in Nat /\ c.queue.loss.epoch \in Nat
                             /\ c.queue.items \in Seq(Proper)
                             /\ c.held \in Proper /\ c.taken \in Proper
                             /\ c.answer.request \in Nat
    /\ \A o \in Proper : o.sequence \in Nat /\ o.epoch \in Nat /\ o.request \in Nat
                         /\ o.process \in Nat
    /\ \A b \in Brains : b.last \in Nat /\ b.epoch \in Nat /\ b.request \in Nat
                         /\ b.nextRequest \in Nat /\ b.process \in Nat
                         /\ b.pending \in BOOLEAN /\ b.recovery \in BOOLEAN
                         /\ b.compatible \in BOOLEAN
<1>1. ASSUME NEW c \in Companions
      PROVE  /\ c.sequence \in Nat /\ c.epoch \in Nat
             /\ c.queue.loss.count \in Nat /\ c.queue.loss.epoch \in Nat
             /\ c.queue.items \in Seq(Proper)
             /\ c.held \in Proper /\ c.taken \in Proper /\ c.answer.request \in Nat
  <2>1. c.queue \in ProperQueues /\ c.answer \in Answers
    BY CompanionFields
  <2>2. c.answer.request \in Nat
    BY <2>1 DEF Answers
  <2>3. /\ c.queue.loss.count \in Nat /\ c.queue.loss.epoch \in Nat
        /\ c.queue.items \in Seq(Proper)
    BY <2>1 DEF ProperQueues
  <2> QED BY <2>2, <2>3, CompanionFields
<1>2. ASSUME NEW o \in Proper
      PROVE  o.sequence \in Nat /\ o.epoch \in Nat /\ o.request \in Nat /\ o.process \in Nat
  <2>1. o \in Observation
    BY ProperObservation
  <2> QED BY <2>1, ObservationFields
<1>3. ASSUME NEW b \in Brains
      PROVE  /\ b.last \in Nat /\ b.epoch \in Nat /\ b.request \in Nat
             /\ b.nextRequest \in Nat /\ b.process \in Nat
             /\ b.pending \in BOOLEAN /\ b.recovery \in BOOLEAN
             /\ b.compatible \in BOOLEAN
  <2>1. b.recovery \in BOOLEAN
    BY DEF Brains
  <2> QED BY <2>1, BrainFields
<1> QED BY <1>1, <1>2, <1>3

\* A handler raises an observation: its number is the last.
LEMMA RaiseSure ==
    ASSUME NEW b \in Brains, NEW c \in Companions, NEW d \in Companions, NEW n \in Nat,
           NEW F \in SUBSET Proper, Sure(b, c, n, F),
           d.sequence = c.sequence + 1, d.epoch \in {c.epoch, c.epoch + 1},
           d.held.sequence = d.sequence, d.held.epoch = d.epoch, d.held.process = n,
           d.held.kind \notin LocalKinds \cup {"Hello", "SnapshotCompleted", "CapacityLoss"},
           d.taken = c.taken, d.queue = c.queue, d.answer = c.answer
    PROVE  Sure(b, d, n, F) /\ Known(b, d, F)
<1> USE Numbers
<1>1. Counting(b, d, n)
  BY DEF Sure, Counting
<1>2. Hands(d)
  BY DEF Sure, Hands
<1>3. Reported(b, d, F)
  BY DEF Sure, Reported, Losing
<1>4. ASSUME NEW o \in F \cup {d.taken} PROVE Placed(b, d, n, o)
  <2>1. Placed(b, c, n, o) /\ o \in Proper
    BY DEF Sure
  <2> QED BY <2>1 DEF Placed
<1>5. Placed(b, d, n, d.held)
  BY DEF Placed, Completes
<1>6. Known(b, d, F)
  BY DEF Known, Tracked
<1> QED BY <1>1, <1>2, <1>3, <1>4, <1>5, <1>6 DEF Sure

\* The runner numbers an observation of its answer.
LEMMA NumberSure ==
    ASSUME NEW b \in Brains, NEW c \in Companions, NEW d \in Companions, NEW n \in Nat,
           NEW F \in SUBSET Proper, Sure(b, c, n, F), c.taken = Nothing,
           d.sequence = c.sequence + 1, d.epoch = c.epoch,
           d.taken.sequence = d.sequence, d.taken.epoch = d.epoch, d.taken.process = n,
           d.taken.kind \in AnswerKinds, d.taken.request < b.nextRequest,
           d.held = c.held, d.queue = c.queue, d.answer.phase # "None"
    PROVE  Sure(b, d, n, F) /\ Known(b, d, F)
<1> USE Numbers
<1>1. Counting(b, d, n)
  BY DEF Sure, Counting
<1>2. Hands(d)
  BY DEF Sure, Hands, AnswerKinds
<1>3. Reported(b, d, F)
  <2>1. /\ b.epoch <= d.taken.epoch
        /\ \A o \in F : o.epoch <= d.taken.epoch /\ o.sequence < d.taken.sequence
    BY DEF Sure, Counting, Placed
  <2> QED BY <2>1 DEF Sure, Reported, Losing
<1>4. ASSUME NEW o \in F \cup {d.held} PROVE Placed(b, d, n, o)
  <2>1. Placed(b, c, n, o) /\ o \in Proper
    BY DEF Sure
  <2> QED BY <2>1 DEF Placed
<1>5. Placed(b, d, n, d.taken)
  BY DEF Placed, Completes, AnswerKinds, LocalKinds
<1>6. Known(b, d, F)
  BY DEF Known, Tracked
<1> QED BY <1>1, <1>2, <1>3, <1>4, <1>5, <1>6 DEF Sure

\* An observation o is offered to queue q of the companion: it joins what is on
\* its way, or it is lost, and the loss is of its epoch if it is the first.
Offered(q, r, o, F, G) ==
    \/ /\ Len(q.items) < QueueCapacity /\ r.loss = q.loss /\ G = F \cup {o}
       /\ r.items = Append(q.items, o)
    \/ /\ Len(q.items) >= QueueCapacity /\ r.items = q.items /\ G = F
       /\ r.loss.count = q.loss.count + 1
       /\ r.loss.epoch = IF q.loss.count = 0 THEN o.epoch ELSE q.loss.epoch

\* The UI thread queues what it has numbered.
LEMMA CaptureHeldSure ==
    ASSUME NEW b \in Brains, NEW c \in Companions, NEW d \in Companions, NEW n \in Nat,
           NEW F \in SUBSET Proper, NEW G, Sure(b, c, n, F), c.held # Nothing,
           Offered(c.queue, d.queue, c.held, F, G),
           d.sequence = c.sequence, d.epoch = c.epoch, d.held = Nothing,
           d.taken = c.taken, d.answer = c.answer
    PROVE  /\ Sure(b, d, n, G) /\ (Known(b, c, F) => Known(b, d, G))
           /\ Ahead(F, {c.held})
<1> USE Numbers
<1>1. Counting(b, d, n)
  BY DEF Sure, Counting
<1>2. Hands(d)
  BY DEF Sure, Hands
<1>3. /\ ~Completes(c.held) /\ ~Reports(c.held) /\ c.held.kind # "Hello"
      /\ c.held.epoch = c.epoch
  BY DEF Sure, Hands, Completes, Reports
<1>4. \A o \in F : Completes(o) => o.epoch <= c.epoch
  BY DEF Sure, Placed
<1>5. Reported(b, d, G)
  <2>1. CASE Len(c.queue.items) < QueueCapacity
    <3>1. /\ ~Losing(c) /\ ~Losing(d) /\ G = F \cup {c.held}
      <4>1. Len(c.queue.items) \in Nat /\ QueueCapacity \in Nat
        BY LenProperties, CompanionAssumption
      <4> QED BY <2>1, <4>1 DEF Sure, Reported, Losing, Offered
    <3> QED BY <3>1, <1>3 DEF Sure, Reported
  <2>2. CASE ~(Len(c.queue.items) < QueueCapacity)
    <3>1. /\ G = F /\ Len(d.queue.items) >= QueueCapacity
          /\ d.queue.loss.epoch = IF Losing(c) THEN c.queue.loss.epoch ELSE c.epoch
      BY <2>2, <1>3 DEF Offered, Losing
    <3>2. b.epoch <= c.epoch
      BY DEF Sure, Counting
    <3>3. CASE Losing(c)
      BY <3>1, <3>3 DEF Sure, Reported
    <3>4. CASE ~Losing(c)
      BY <3>1, <3>2, <3>4, <1>4 DEF Sure, Reported
    <3> QED BY <3>3, <3>4
  <2> QED BY <2>1, <2>2
<1>6. \A o \in G \cup {d.held, d.taken} : Placed(b, d, n, o)
  <2>1. \A o \in (F \cup {c.held}) \cup {d.taken} : Placed(b, d, n, o)
    BY DEF Sure, Placed
  <2>2. Placed(b, d, n, d.held)
    BY <1>1, NothingPlaced
  <2>3. G \subseteq F \cup {c.held}
    BY DEF Offered
  <2> QED BY <2>1, <2>2, <2>3
<1>7. ASSUME Known(b, c, F) PROVE Known(b, d, G)
  <2>1. Losing(c) => Losing(d)
    BY DEF Offered, Losing
  <2>2. \/ G = F \cup {c.held}
        \/ G = F /\ Losing(d)
    BY DEF Offered, Losing
  <2>3. CASE Tracked(b, c, F)
    BY <2>1, <2>2, <2>3 DEF Tracked, Known
  <2>4. CASE ~Tracked(b, c, F)
    BY <2>2, <2>4, <1>3, <1>7 DEF Known
  <2> QED BY <2>3, <2>4
<1>8. Ahead(F, {c.held})
  BY <1>3, AnywhereInOrder
<1> QED BY <1>1, <1>2, <1>5, <1>6, <1>7, <1>8 DEF Sure

\* The runner queues what it has numbered.
LEMMA CaptureTakenSure ==
    ASSUME NEW b \in Brains, NEW c \in Companions, NEW d \in Companions, NEW n \in Nat,
           NEW F \in SUBSET Proper, NEW G, Sure(b, c, n, F), c.taken # Nothing,
           Offered(c.queue, d.queue, c.taken, F, G),
           d.sequence = c.sequence, d.epoch = c.epoch, d.taken = Nothing,
           d.held = c.held
    PROVE  /\ Sure(b, d, n, G) /\ (Known(b, c, F) => Known(b, d, G))
           /\ Ahead(F, {c.taken})
<1> USE Numbers
<1>1. Counting(b, d, n)
  BY DEF Sure, Counting
<1>2. Hands(d)
  BY DEF Sure, Hands
<1>3. /\ ~Reports(c.taken) /\ c.taken.kind # "Hello"
      /\ b.epoch > c.taken.epoch => b.recovery
      /\ \A o \in F : /\ Completes(o) => o.epoch <= c.taken.epoch
                      /\ Reports(o) => o.sequence < c.taken.sequence
  BY DEF Sure, Hands, Reports, Reported
<1>4. c.taken.epoch <= c.epoch
  BY DEF Sure, Placed
<1>5. Reported(b, d, G)
  <2>1. CASE Len(c.queue.items) < QueueCapacity
    <3>1. /\ ~Losing(c) /\ ~Losing(d) /\ G = F \cup {c.taken}
      <4>1. Len(c.queue.items) \in Nat /\ QueueCapacity \in Nat
        BY LenProperties, CompanionAssumption
      <4> QED BY <2>1, <4>1 DEF Sure, Reported, Losing, Offered
    <3> QED BY <3>1, <1>3 DEF Sure, Reported
  <2>2. CASE ~(Len(c.queue.items) < QueueCapacity)
    <3>1. /\ G = F /\ Len(d.queue.items) >= QueueCapacity
          /\ d.queue.loss.epoch = IF Losing(c) THEN c.queue.loss.epoch ELSE c.taken.epoch
      BY <2>2 DEF Offered, Losing
    <3>2. CASE Losing(c)
      BY <3>1, <3>2 DEF Sure, Reported
    <3>3. CASE ~Losing(c)
      BY <3>1, <3>3, <1>3, <1>4 DEF Sure, Reported
    <3> QED BY <3>2, <3>3
  <2> QED BY <2>1, <2>2
<1>6. \A o \in G \cup {d.held, d.taken} : Placed(b, d, n, o)
  <2>1. \A o \in (F \cup {c.taken}) \cup {d.held} : Placed(b, d, n, o)
    BY DEF Sure, Placed
  <2>2. Placed(b, d, n, d.taken)
    BY <1>1, NothingPlaced
  <2>3. G \subseteq F \cup {c.taken}
    BY DEF Offered
  <2> QED BY <2>1, <2>2, <2>3
<1>7. ASSUME Known(b, c, F) PROVE Known(b, d, G)
  <2>1. Losing(c) => Losing(d)
    BY DEF Offered, Losing
  <2>2. \/ G = F \cup {c.taken}
        \/ G = F /\ Losing(d)
    BY DEF Offered, Losing
  <2>3. CASE Tracked(b, c, F)
    BY <2>1, <2>2, <2>3 DEF Tracked, Known
  <2>4. CASE ~Tracked(b, c, F)
    <3>1. /\ b.recovery /\ \A o \in F \cup {c.taken} : Completes(o) => Void(b, o)
          /\ ~Completes(d.taken)
      BY <1>7, <2>4 DEF Known, Nothing, Local, Completes
    <3>2. G \cup {d.taken} \subseteq (F \cup {c.taken}) \cup {d.taken}
      BY <2>2
    <3> QED BY <3>1, <3>2 DEF Known
  <2> QED BY <2>3, <2>4
<1>8. Ahead(F, {c.taken})
  <2>1. ASSUME NEW x \in F PROVE InOrder(x, c.taken)
    BY <1>3 DEF InOrder
  <2> QED BY <2>1 DEF Ahead
<1> QED BY <1>1, <1>2, <1>5, <1>6, <1>7, <1>8 DEF Sure

\* What is written leaves room for the report of a loss, which takes the last
\* number, or no loss is to be reported, or there is still no room.
Wrote(c, d, n, F, G) ==
    \/ /\ d.sequence = c.sequence /\ d.queue.loss = c.queue.loss /\ G = F
       /\ Losing(c) => Len(d.queue.items) >= QueueCapacity
    \/ /\ Losing(c) /\ ~Losing(d) /\ d.sequence = c.sequence + 1
       /\ \E o \in Proper :
              /\ Reports(o) /\ o.process = n /\ o.sequence = d.sequence
              /\ o.epoch = c.queue.loss.epoch /\ G = F \cup {o}

\* The runner writes while it answers nothing.
LEMMA WriteSure ==
    ASSUME NEW b \in Brains, NEW c \in Companions, NEW d \in Companions, NEW n \in Nat,
           NEW F \in SUBSET Proper, NEW G, Sure(b, c, n, F), c.answer.phase = "None",
           Wrote(c, d, n, F, G),
           d.epoch = c.epoch, d.held = c.held, d.taken = c.taken
    PROVE  Sure(b, d, n, G) /\ (Known(b, c, F) => Known(b, d, G))
<1> USE Numbers
<1>1. Counting(b, d, n)
  BY DEF Sure, Counting, Wrote
<1>2. c.taken = Nothing
  BY DEF Sure, Hands
<1>3. Hands(d)
  BY <1>2 DEF Sure, Hands
<1>4. ASSUME d.sequence = c.sequence, d.queue.loss = c.queue.loss, G = F,
             Losing(c) => Len(d.queue.items) >= QueueCapacity
      PROVE  Sure(b, d, n, G) /\ (Known(b, c, F) => Known(b, d, G))
  <2>1. Losing(d) <=> Losing(c)
    BY <1>4 DEF Losing
  <2>2. Reported(b, d, G)
    BY <2>1, <1>2, <1>4 DEF Sure, Reported
  <2>3. \A o \in G \cup {d.held, d.taken} : Placed(b, d, n, o)
    BY <1>4 DEF Sure, Placed
  <2>4. Known(b, c, F) => Known(b, d, G)
    BY <2>1, <1>4 DEF Known, Tracked
  <2> QED BY <1>1, <1>3, <2>2, <2>3, <2>4 DEF Sure
<1>5. ASSUME Losing(c), ~Losing(d), d.sequence = c.sequence + 1, NEW o \in Proper,
             Reports(o), o.process = n, o.sequence = d.sequence,
             o.epoch = c.queue.loss.epoch, G = F \cup {o}
      PROVE  Sure(b, d, n, G) /\ Known(b, d, G)
  <2>1. /\ o.epoch <= c.epoch
        /\ b.epoch > o.epoch => b.recovery
        /\ \A x \in F : Completes(x) => x.epoch <= o.epoch
    BY <1>5 DEF Sure, Reported
  <2>2. Reported(b, d, G)
    BY <2>1, <1>2, <1>5 DEF Sure, Reported
  <2>3. \A x \in F \cup {d.held, d.taken} : Placed(b, d, n, x)
    <3>1. \A x \in F \cup {d.held, d.taken} : x \in Proper /\ Placed(b, c, n, x)
      BY DEF Sure
    <3> QED BY <3>1, <1>5 DEF Placed
  <2>4. Placed(b, d, n, o)
    BY <2>1, <1>5 DEF Placed, Reports, Completes, LocalKinds
  <2>5. Known(b, d, G)
    BY <1>5 DEF Known, Tracked
  <2> QED BY <1>1, <1>3, <1>5, <2>2, <2>3, <2>4, <2>5 DEF Sure
<1> QED BY <1>4, <1>5 DEF Wrote

\* The runner goes on with what does not concern the queue.
LEMMA RunSure ==
    ASSUME NEW b \in Brains, NEW c \in Companions, NEW d \in Companions, NEW n \in Nat,
           NEW F \in SUBSET Proper, Sure(b, c, n, F),
           d.sequence = c.sequence, d.epoch = c.epoch, d.held = c.held,
           d.taken = c.taken, d.queue = c.queue,
           d.answer = c.answer \/ c.answer.phase = "None"
    PROVE  Sure(b, d, n, F) /\ (Known(b, c, F) => Known(b, d, F))
<1>1. Counting(b, d, n) /\ Hands(d)
  BY DEF Sure, Counting, Hands
<1>2. Reported(b, d, F)
  BY DEF Sure, Reported, Losing
<1>3. \A o \in F \cup {d.held, d.taken} : Placed(b, d, n, o)
  BY DEF Sure, Placed
<1>4. Known(b, c, F) => Known(b, d, F)
  BY DEF Known, Tracked, Losing
<1> QED BY <1>1, <1>2, <1>3, <1>4 DEF Sure

\* What XVatsim reports of itself may be anywhere on the way, and so may a
\* greeting before the Brain has heard one. What is on its way may get lost.
LEMMA OtherSure ==
    ASSUME NEW b \in Brains, NEW c \in Companions, NEW n \in Nat,
           NEW F \in SUBSET Proper, NEW G \in SUBSET Proper, Sure(b, c, n, F),
           \A o \in G \ F : /\ o.kind \in LocalKinds \cup {"Hello"}
                            /\ o.sequence = 0 /\ o.epoch <= c.epoch
                            /\ o.kind = "Hello" => o.process = n /\ b.process = 0
    PROVE  /\ Sure(b, c, n, G)
           /\ F \subseteq G /\ Known(b, c, F) => Known(b, c, G)
<1> USE Numbers
<1>1. ASSUME NEW o \in G \ F
      PROVE  Placed(b, c, n, o) /\ ~Reports(o) /\ ~Completes(o)
  <2>1. c.sequence # 0 /\ c.sequence >= 0
    BY DEF Sure, Counting
  <2> QED BY <1>1, <2>1 DEF Placed, Reports, Completes, LocalKinds
<1>2. Reported(b, c, G)
  BY <1>1 DEF Sure, Reported
<1>3. \A o \in G \cup {c.held, c.taken} : Placed(b, c, n, o)
  BY <1>1 DEF Sure
<1>4. F \subseteq G /\ Known(b, c, F) => Known(b, c, G)
  BY <1>1 DEF Known, Tracked
<1> QED BY <1>2, <1>3, <1>4 DEF Sure

-----------------------------------------------------------------------------
(* What an observation does to the list the Brain waits for                *)

\* c waits for no list that b does not wait for, and still needs one if b does.
Waits(b, c) ==
    /\ c.nextRequest = b.nextRequest
    /\ c.pending => b.pending /\ c.request = b.request
    /\ b.recovery => c.recovery

\* A Brain that needs a list and waits for none.
Needs(c) == c.recovery /\ ~c.pending

\* To wait is to wait no longer than before.
LEMMA WaitsOn ==
    /\ \A b : Waits(b, b)
    /\ \A b, c, d : Waits(b, c) /\ Waits(c, d) => Waits(b, d)
    /\ \A b, c : Needs(b) /\ Waits(b, c) => Needs(c)
  BY DEF Waits, Needs

\* Marking abandons the list.
LEMMA MarkWaits ==
    ASSUME NEW b, Sound(b)
    PROVE  LET m == MarkRecoveryRequired(b)
           IN  Waits(b, m) /\ Needs(m) /\ m.compatible = b.compatible
<1>1. b \in Brains
  BY DEF Sound
<1> QED BY <1>1 DEF MarkRecoveryRequired, Brains, Waits, Needs

\* So does losing the source.
LEMMA UnavailableWaits ==
    ASSUME NEW b, Sound(b)
    PROVE  LET m == Unavailable(b)
           IN  Waits(b, m) /\ Needs(m) /\ m.compatible = b.compatible
<1> DEFINE m == MarkRecoveryRequired(b)
           u == [m EXCEPT !.complete = FALSE]
<1>1. m \in Brains /\ Waits(b, m) /\ Needs(m) /\ m.compatible = b.compatible
  BY MarkSound, MarkWaits DEF Sound
<1> HIDE DEF m
<1>2. /\ u.nextRequest = m.nextRequest /\ u.pending = m.pending
      /\ u.request = m.request /\ u.recovery = m.recovery /\ u.compatible = m.compatible
  BY <1>1 DEF Brains
<1>3. Unavailable(b) = u
  BY DEF Unavailable, u, m
<1> HIDE DEF u
<1>4. Waits(m, u) /\ Needs(u)
  BY <1>1, <1>2 DEF Waits, Needs
<1> QED BY <1>1, <1>2, <1>3, <1>4, WaitsOn

\* A gap in the numbers abandons the list, too.
LEMMA SequenceWaits ==
    ASSUME NEW b, Sound(b), NEW o \in Observation
    PROVE  LET c == ObserveSequence(b, o)
           IN  Waits(b, c) /\ c.compatible = b.compatible
<1> DEFINE m == IF b.last # 0 /\ o.sequence > b.last + 1 THEN MarkRecoveryRequired(b) ELSE b
           n == IF o.sequence > b.last THEN o.sequence ELSE b.last
           c == [m EXCEPT !.last = n]
<1>1. m \in Brains /\ Waits(b, m) /\ m.compatible = b.compatible
  BY MarkSound, MarkWaits, WaitsOn DEF Sound
<1> HIDE DEF m, n
<1>2. /\ c.nextRequest = m.nextRequest /\ c.pending = m.pending
      /\ c.request = m.request /\ c.recovery = m.recovery /\ c.compatible = m.compatible
  BY <1>1 DEF Brains
<1> HIDE DEF c
<1>3. ObserveSequence(b, o) = IF o.sequence = 0 \/ o.kind \in LocalKinds \cup {"Hello"}
                              THEN b ELSE c
  BY DEF ObserveSequence, c, m, n
<1>4. Waits(m, c)
  BY <1>2 DEF Waits
<1> QED BY <1>1, <1>2, <1>3, <1>4, WaitsOn

\* With the transport goes the list.
LEMMA LoseTransportWaits ==
    ASSUME NEW b, Sound(b)
    PROVE  LET c == LoseTransport(b)
           IN  Waits(b, c) /\ Needs(c) /\ c.compatible = b.compatible
<1> DEFINE m == Unavailable(b)
           c == [m EXCEPT !.transport = FALSE, !.source = FALSE,
                          !.network = FALSE, !.deferred = <<>>]
<1>1. m \in Brains /\ Waits(b, m) /\ Needs(m) /\ m.compatible = b.compatible
  BY UnavailableSound, UnavailableWaits DEF Sound
<1> HIDE DEF m
<1>2. /\ c.nextRequest = m.nextRequest /\ c.pending = m.pending
      /\ c.request = m.request /\ c.recovery = m.recovery /\ c.compatible = m.compatible
  BY <1>1 DEF Brains
<1> HIDE DEF c
<1>3. LoseTransport(b) = c
  BY DEF LoseTransport, m, c
<1>4. Waits(m, c) /\ Needs(c)
  BY <1>1, <1>2 DEF Waits, Needs
<1> QED BY <1>1, <1>2, <1>3, <1>4, WaitsOn

\* A greeting asks for nothing.
LEMMA HelloWaits ==
    ASSUME NEW b, Sound(b), NEW o \in Observation
    PROVE  Waits(b, Hello(b, o))
<1> DEFINE n == LastAfterHello(b, o)
           g == [b EXCEPT !.process = o.process, !.epoch = o.epoch,
                          !.compatible = TRUE, !.last = n]
           m == Unavailable(g)
           c == [m EXCEPT !.deferred = <<>>]
<1>1. b \in Brains /\ n \in Nat /\ o.process \in Nat /\ o.epoch \in Nat
  BY BrainFields, ObservationFields DEF Sound, LastAfterHello
<1> HIDE DEF n
<1>2. Sound(g)
  BY <1>1, ZenonT(60) DEF Sound, Brains
<1>3. Waits(b, g)
  BY <1>1 DEF Brains, Waits
<1> HIDE DEF g
<1>4. m \in Brains /\ Waits(g, m)
  BY <1>2, UnavailableSound, UnavailableWaits DEF Sound
<1> HIDE DEF m
<1>5. Waits(m, c)
  BY <1>4 DEF Brains, Waits
<1> HIDE DEF c
<1>6. Hello(b, o) = IF b.process # 0 /\ b.process # o.process THEN c ELSE g
  BY DEF Hello, g, m, c, n
<1> QED BY <1>3, <1>4, <1>5, <1>6, WaitsOn

\* A change of connection abandons the list.
LEMMA ConnectionWaits ==
    ASSUME NEW b, Sound(b), NEW o \in Observation
    PROVE  LET c == ChangeConnection(b, o)
           IN  Waits(b, c) /\ Needs(c) /\ c.compatible = b.compatible
<1> DEFINE connected == o.callsign # NoCallsign
           kept == IF ~connected \/ (b.epoch # 0 /\ b.epoch # o.epoch)
                   THEN <<>> ELSE b.deferred
           m == MarkRecoveryRequired(b)
           now == [m EXCEPT !.epoch = o.epoch, !.network = connected,
                            !.callsign = o.callsign, !.deferred = kept]
<1>1. /\ o.epoch \in Nat /\ o.callsign \in Callsigns \cup {NoCallsign}
      /\ connected \in BOOLEAN /\ kept \in {b.deferred, <<>>}
  BY ObservationFields
<1>2. kept \in Seq([message : Observation, expired : BOOLEAN])
  <2>1. <<>> \in Seq([message : Observation, expired : BOOLEAN])
    OBVIOUS
  <2>2. b.deferred \in Seq([message : Observation, expired : BOOLEAN])
    BY BrainFields DEF Sound, Entries
  <2> HIDE DEF kept
  <2> QED BY <1>1, <2>1, <2>2
<1>3. Sound(m) /\ Waits(b, m) /\ Needs(m) /\ m.compatible = b.compatible
  BY MarkSound, MarkWaits
<1> HIDE DEF kept, connected, m
<1>5. Sound(now)
  BY <1>1, <1>2, <1>3, ZenonT(60) DEF Sound, Brains
<1>6. /\ now.nextRequest = m.nextRequest /\ now.pending = m.pending
      /\ now.request = m.request /\ now.recovery = m.recovery
      /\ now.compatible = m.compatible
  BY <1>3 DEF Sound, Brains
<1> HIDE DEF now
<1>7. Waits(m, now) /\ Needs(now)
  BY <1>3, <1>6 DEF Waits, Needs
<1>8. /\ Waits(now, Unavailable(now)) /\ Needs(Unavailable(now))
      /\ Unavailable(now).compatible = now.compatible
  BY <1>5, UnavailableWaits
<1>9. ChangeConnection(b, o) = IF connected THEN now ELSE Unavailable(now)
  BY DEF ChangeConnection, connected, kept, m, now
<1> QED BY <1>3, <1>6, <1>7, <1>8, <1>9, WaitsOn

\* The end of the list the Brain waits for may end its need.
LEMMA CompleteWaits ==
    ASSUME NEW b, Sound(b), NEW o \in Observation, o.request = b.request => ~b.pending
    PROVE  LET c == CompleteSnapshot(b, o)
           IN  Waits(b, c) /\ c.compatible = b.compatible
<1>1. ~(b.build.active /\ o.request = b.build.request)
  BY DEF Sound
<1>2. CompleteSnapshot(b, o) = MarkRecoveryRequired(b)
  BY <1>1 DEF CompleteSnapshot
<1> QED BY <1>2, MarkWaits

\* It asks for nothing in any case.
LEMMA CompleteAsks ==
    ASSUME NEW b, Sound(b), NEW o \in Observation
    PROVE  LET c == CompleteSnapshot(b, o)
           IN  /\ c.nextRequest = b.nextRequest /\ c.compatible = b.compatible
               /\ ~c.pending
<1>0. b \in Brains
  BY DEF Sound
<1> DEFINE idle == [b EXCEPT !.build = NoBuild, !.pending = FALSE, !.request = 0]
           final == FinalList(b.build)
           done == [idle EXCEPT !.list = final, !.complete = TRUE, !.recovery = FALSE]
<1>1. idle.nextRequest = b.nextRequest /\ idle.compatible = b.compatible /\ ~idle.pending
  BY <1>0 DEF Brains
<1> HIDE DEF final
<1>2. done.nextRequest = b.nextRequest /\ done.compatible = b.compatible /\ ~done.pending
  BY <1>0 DEF Brains
<1> HIDE DEF idle, done
<1>3. CompleteSnapshot(b, o) \in {MarkRecoveryRequired(b), idle, done}
  BY DEF CompleteSnapshot, idle, done, final
<1> QED BY <1>1, <1>2, <1>3, MarkWaits DEF Waits, Needs

\* What any observation other than a message does to the list the Brain waits for.
Listens(b, o, c) ==
    /\ c.nextRequest = b.nextRequest
    /\ c.pending => b.pending /\ c.request = b.request
    /\ b.recovery => c.recovery \/ (Completes(o) /\ b.pending /\ b.request = o.request)
    /\ o.kind # "Hello" => c.compatible = b.compatible
    /\ o.kind \in {"ConnectionStateChanged", "CapacityLoss", "LocalCapacityLoss"} => Needs(c)

\* Whatever the observation is, the Brain listens.
LEMMA ObserveListens ==
    ASSUME NEW b, Sound(b), NEW o \in Observation
    PROVE  Listens(b, o, Observe(b, o))
<1>0. b \in Brains
  BY DEF Sound
<1>1. ASSUME NEW c, Waits(b, c), c.compatible = b.compatible,
             o.kind \notin {"ConnectionStateChanged", "CapacityLoss", "LocalCapacityLoss"}
      PROVE  Listens(b, o, c)
  BY <1>1 DEF Waits, Listens
<1>2. ASSUME NEW c, Waits(b, c), c.compatible = b.compatible, Needs(c)
      PROVE  Listens(b, o, c)
  BY <1>2 DEF Waits, Listens
<1>3. CASE o.kind \in {"TransportDisconnected", "SessionEnded"}
  <2>1. Observe(b, o) = LoseTransport(b)
    BY <1>3 DEF Observe, LiveKinds
  <2> QED BY <1>2, <2>1, LoseTransportWaits
<1>4. CASE o.kind = "Hello"
  <2>1. Observe(b, o) = Hello(b, o)
    BY <1>4 DEF Observe, LiveKinds
  <2>2. Waits(b, Hello(b, o))
    BY HelloWaits
  <2> QED BY <1>4, <2>1, <2>2 DEF Waits, Listens
<1>5. CASE o.kind = "ConnectionStateChanged"
  <2>1. Observe(b, o) = ChangeConnection(b, o)
    BY <1>5 DEF Observe, LiveKinds
  <2> QED BY <1>2, <2>1, ConnectionWaits
<1>6. CASE o.kind = "SnapshotCompleted"
  <2>1. Observe(b, o) = CompleteSnapshot(b, o)
    BY <1>6 DEF Observe, LiveKinds
  <2>2. CASE o.request = b.request => ~b.pending
    BY <1>1, <1>6, <2>1, <2>2, CompleteWaits
  <2>3. CASE ~(o.request = b.request => ~b.pending)
    BY <1>6, <2>1, <2>3, CompleteAsks DEF Listens, Completes
  <2> QED BY <2>2, <2>3
<1>7. CASE o.kind \in {"TransportConnected", "SourceAvailable", "SnapshotStarted",
                       "SnapshotEntry"} \cup LiveKinds
  <2>1. ASSUME NEW build
        PROVE  /\ Waits(b, [b EXCEPT !.build = build])
               /\ [b EXCEPT !.build = build].compatible = b.compatible
    BY <1>0 DEF Brains, Waits
  <2>2. ASSUME NEW list, NEW build
        PROVE  LET c == [b EXCEPT !.list = list, !.build = build]
               IN  Waits(b, c) /\ c.compatible = b.compatible
    BY <1>0 DEF Brains, Waits
  <2>3. LET c == [b EXCEPT !.transport = TRUE]
            d == [b EXCEPT !.source = b.compatible]
        IN  /\ Waits(b, c) /\ c.compatible = b.compatible
            /\ Waits(b, d) /\ d.compatible = b.compatible
    BY <1>0 DEF Brains, Waits
  <2>4. LET c == BeginSnapshot(b, o)
            d == AddSnapshotEntry(b, o)
        IN  /\ Waits(b, c) /\ c.compatible = b.compatible
            /\ Waits(b, d) /\ d.compatible = b.compatible
    BY <2>1, WaitsOn DEF BeginSnapshot, AddSnapshotEntry
  <2>5. LET c == ApplyControllerEvent(b, o)
        IN  Waits(b, c) /\ c.compatible = b.compatible
    BY <2>2 DEF ApplyControllerEvent
  <2>6. Observe(b, o) \in
            {[b EXCEPT !.transport = TRUE], [b EXCEPT !.source = b.compatible],
             BeginSnapshot(b, o), AddSnapshotEntry(b, o), ApplyControllerEvent(b, o)}
    BY <1>7 DEF Observe, LiveKinds
  <2>7. Waits(b, Observe(b, o)) /\ Observe(b, o).compatible = b.compatible
    BY <2>3, <2>4, <2>5, <2>6
  <2>8. o.kind \notin {"ConnectionStateChanged", "CapacityLoss", "LocalCapacityLoss"}
    BY <1>7 DEF LiveKinds
  <2> QED BY <1>1, <2>7, <2>8
<1>8. CASE o.kind \notin {"TransportConnected", "TransportDisconnected", "SessionEnded",
                          "Hello", "SourceAvailable", "ConnectionStateChanged",
                          "SnapshotStarted", "SnapshotEntry", "SnapshotCompleted"}
                         \cup LiveKinds
  <2>1. Observe(b, o) = MarkRecoveryRequired(b)
    BY <1>8 DEF Observe
  <2> QED BY <1>2, <2>1, MarkWaits
<1> QED BY <1>3, <1>4, <1>5, <1>6, <1>7, <1>8

\* c is b as far as the list and the numbers are concerned.
Alike(b, c) ==
    /\ c.nextRequest = b.nextRequest /\ c.pending = b.pending /\ c.request = b.request
    /\ c.recovery = b.recovery /\ c.compatible = b.compatible
    /\ c.process = b.process /\ c.epoch = b.epoch /\ c.last = b.last

\* Deferred messages, their flight and the share of a call are not about them.
LEMMA OthersAlike ==
    ASSUME NEW b \in Brains
    PROVE  /\ \A d : Alike(b, [b EXCEPT !.deferred = d])
           /\ \A n : Alike(b, [b EXCEPT !.served = n])
           /\ \A f : Alike(b, [b EXCEPT !.bound = f])
           /\ Alike(b, b) /\ \A c, d : Alike(b, c) /\ Alike(c, d) => Alike(b, d)
<1>1. ASSUME NEW d PROVE Alike(b, [b EXCEPT !.deferred = d])
  BY DEF Brains, Alike
<1>2. ASSUME NEW n PROVE Alike(b, [b EXCEPT !.served = n])
  BY DEF Brains, Alike
<1>3. ASSUME NEW f PROVE Alike(b, [b EXCEPT !.bound = f])
  BY DEF Brains, Alike
<1>4. Alike(b, b) /\ \A c, d : Alike(b, c) /\ Alike(c, d) => Alike(b, d)
  BY DEF Alike
<1> QED BY <1>1, <1>2, <1>3, <1>4

\* A message is not about them.
LEMMA EvaluateAlike ==
    ASSUME NEW b, Sound(b), NEW o, EvaluateMessage(b, o)
    PROVE  Alike(b, brain')
<1>1. b \in Brains
  BY DEF Sound
<1>2. brain' \in {b, [b EXCEPT !.bound = flight], Defer(b, o)}
  BY DEF EvaluateMessage, Admit
<1>3. Alike(b, Defer(b, o))
  BY <1>1, OthersAlike DEF Defer
<1> QED BY <1>1, <1>2, <1>3, OthersAlike

\* Nor are the deferred ones.
LEMMA ReevaluateAlike ==
    ASSUME NEW b, Sound(b), ReevaluateDeferred(b)
    PROVE  Alike(b, brain')
<1>1. b \in Brains
  BY DEF Sound
<1> DEFINE none == NoneDeferred(b)
           alive == AliveDeferred(b)
<1>2. Alike(b, none) /\ none \in Brains
  <2>1. <<>> \in Seq(Entries)
    OBVIOUS
  <2> QED BY <1>1, <2>1, OthersAlike, WithDeferredSound DEF NoneDeferred, Sound
<1>3. brain' \in {[none EXCEPT !.bound = flight], [b EXCEPT !.deferred = alive]}
  BY DEF ReevaluateDeferred, Admit
<1> HIDE DEF none, alive
<1>4. Alike(none, [none EXCEPT !.bound = flight]) /\ Alike(b, [b EXCEPT !.deferred = alive])
  BY <1>1, <1>2, OthersAlike
<1> QED BY <1>1, <1>2, <1>3, <1>4, OthersAlike

\* The observation is of the Brain's source, and not an old one.
Accepts(b, o) == Belongs(b, o) /\ ~IsStale(b, o)

\* What an observation o makes of a Brain b: its number is the last one if it is
\* accepted, and only an accepted end of the list it waits for ends its need.
Hears(b, o, c) ==
    /\ c.nextRequest = b.nextRequest
    /\ c.pending => b.pending /\ c.request = b.request
    /\ b.recovery => \/ c.recovery
                     \/ Accepts(b, o) /\ Completes(o) /\ b.pending /\ b.request = o.request
    /\ o.kind # "Hello" => c.compatible = b.compatible
    /\ ~Accepts(b, o) => c.process = b.process /\ c.epoch = b.epoch /\ c.last = b.last
    /\ Accepts(b, o) =>
         /\ c.process = IF o.kind = "Hello" THEN o.process ELSE b.process
         /\ c.epoch = IF o.kind \in {"Hello", "ConnectionStateChanged"} THEN o.epoch
                      ELSE b.epoch
         /\ c.last = IF o.kind = "Hello" THEN LastAfterHello(b, o)
                     ELSE IF o.sequence = 0 \/ o.kind \in LocalKinds \/ o.sequence <= b.last
                     THEN b.last ELSE o.sequence
         /\ o.kind \in {"ConnectionStateChanged", "CapacityLoss", "LocalCapacityLoss"}
                => Needs(c)

\* The Brain hears what it consumes.
LEMMA ConsumeHears ==
    ASSUME BrainInv, NEW o \in Proper, Consume(o)
    PROVE  Hears(brain, o, brain')
<1> DEFINE n == brain.served + 1
           b == [brain EXCEPT !.served = n]
           seen == ObserveSequence(b, o)
<1>1. /\ brain.served \in 0 .. MaximumObservations /\ brain.served < MaximumObservations
      /\ brain \in Brains
  BY BrainFields DEF BrainInv, Sound, Consume, HasShare
<1>2. n \in 0 .. MaximumObservations
  BY <1>1, BrainAssumption
<1> HIDE DEF n
<1>3. Sound(b) /\ Alike(brain, b)
  BY <1>1, <1>2, WithServedSound, OthersAlike DEF BrainInv
<1>4. b = [brain EXCEPT !.served = @ + 1]
  BY DEF n
<1> HIDE DEF b
<1>5. o \in Observation
  BY ProperObservation
<1>6. /\ Sound(seen) /\ Waits(b, seen) /\ seen.compatible = b.compatible
      /\ seen.process = b.process /\ seen.epoch = b.epoch
      /\ seen.last = IF o.sequence = 0 \/ o.kind \in LocalKinds \cup {"Hello"}
                        \/ o.sequence <= b.last
                     THEN b.last ELSE o.sequence
  BY <1>3, <1>5, SequenceSound, SequenceKeeps, SequenceWaits
<1>7. IF ~Belongs(b, o) \/ IsStale(b, o) THEN brain' = b
      ELSE IF o.kind = "IncomingPrivateMessage" THEN EvaluateMessage(seen, o)
      ELSE brain' = Observe(seen, o)
  BY <1>4 DEF Consume, seen
<1> HIDE DEF seen
<1>8. /\ Accepts(b, o) <=> Belongs(b, o) /\ ~IsStale(b, o)
      /\ Accepts(b, o) <=> Accepts(brain, o)
      /\ LastAfterHello(b, o) = LastAfterHello(brain, o)
  BY <1>3 DEF Accepts, Belongs, IsStale, Alike, LastAfterHello
<1>9. CASE ~Accepts(b, o)
  <2>1. brain' = b
    BY <1>7, <1>8, <1>9
  <2> QED BY <1>3, <1>8, <1>9, <2>1 DEF Hears, Alike
<1>10. CASE Accepts(b, o) /\ o.kind = "IncomingPrivateMessage"
  <2>1. Alike(seen, brain')
    BY <1>6, <1>7, <1>8, <1>10, EvaluateAlike
  <2> QED BY <1>3, <1>6, <1>8, <1>10, <2>1 DEF Hears, Alike, Waits, LocalKinds
<1>11. CASE Accepts(b, o) /\ o.kind # "IncomingPrivateMessage"
  <2>1. brain' = Observe(seen, o)
    BY <1>7, <1>8, <1>11
  <2>2. Listens(seen, o, brain')
    BY <1>5, <1>6, <2>1, ObserveListens
  <2>3. Effect(seen, o, brain')
    BY <1>5, <1>6, <2>1, ObserveEffect
  <2>4. /\ brain'.process = (IF o.kind = "Hello" THEN o.process ELSE seen.process)
        /\ brain'.last = (IF o.kind = "Hello" THEN LastAfterHello(seen, o) ELSE seen.last)
        /\ brain'.epoch = (IF o.kind \in {"Hello", "ConnectionStateChanged"} THEN o.epoch
                           ELSE seen.epoch)
    BY <2>3, Zenon DEF Effect
  <2>5. o.kind = "Hello" => LastAfterHello(seen, o) = LastAfterHello(brain, o)
    BY <1>3, <1>6 DEF LastAfterHello, Alike
  <2>6. /\ brain'.nextRequest = brain.nextRequest
        /\ brain'.pending => brain.pending /\ brain'.request = brain.request
        /\ brain.recovery => \/ brain'.recovery
                             \/ Completes(o) /\ brain.pending /\ brain.request = o.request
        /\ o.kind # "Hello" => brain'.compatible = brain.compatible
    BY <1>3, <1>6, <2>2 DEF Alike, Waits, Listens
  <2>7. o.kind \in {"ConnectionStateChanged", "CapacityLoss", "LocalCapacityLoss"}
            => Needs(brain')
    BY <2>2 DEF Listens
  <2>8. /\ brain'.process = IF o.kind = "Hello" THEN o.process ELSE brain.process
        /\ brain'.epoch = IF o.kind \in {"Hello", "ConnectionStateChanged"} THEN o.epoch
                          ELSE brain.epoch
    BY <1>3, <1>6, <2>4 DEF Alike
  <2>9. brain'.last = IF o.kind = "Hello" THEN LastAfterHello(brain, o)
                      ELSE IF o.sequence = 0 \/ o.kind \in LocalKinds
                              \/ o.sequence <= brain.last
                      THEN brain.last ELSE o.sequence
    BY <1>3, <1>6, <2>4, <2>5 DEF Alike
  <2> QED BY <1>8, <1>11, <2>6, <2>7, <2>8, <2>9 DEF Hears
<1> QED BY <1>9, <1>10, <1>11

\* A Brain hears the first observation on its way.
LEMMA HearsSure ==
    ASSUME NEW b \in Brains, NEW d \in Brains, NEW c \in Companions, NEW n \in Nat,
           NEW o \in Proper, NEW F \in SUBSET Proper,
           Sure(b, c, n, {o} \cup F), Ahead({o}, F), Hears(b, o, d)
    PROVE  Sure(d, c, n, F)
<1> USE Numbers
<1>1. Counting(b, c, n) /\ Placed(b, c, n, o)
  BY DEF Sure
<1>2. Counting(d, c, n)
  <2>1. d.last <= c.sequence
    BY <1>1 DEF Counting, Placed, Hears, LastAfterHello
  <2>2. d.epoch <= c.epoch
    BY <1>1 DEF Counting, Placed, Hears
  <2>3. d.process \in {0, n}
    BY <1>1 DEF Counting, Placed, Hears
  <2>4. ASSUME d.process = 0
        PROVE  d.recovery /\ ~d.pending /\ ~d.compatible /\ d.last = 0 /\ d.epoch = 0
    <3>1. o.kind = "Hello" => Accepts(b, o)
      BY DEF Accepts, Belongs, IsStale
    <3>2. o.kind # "Hello" /\ b.process = 0
      BY <1>1, <2>4, <3>1 DEF Counting, Placed, Hears
    <3>3. b.recovery /\ ~b.pending /\ ~b.compatible /\ b.last = 0 /\ b.epoch = 0
      BY <1>1, <3>2 DEF Counting
    <3>4. Accepts(b, o) => o.kind \in LocalKinds
      BY <3>2 DEF Accepts, Belongs
    <3> QED BY <3>2, <3>3, <3>4 DEF Hears, LocalKinds
  <2> QED BY <1>1, <2>1, <2>2, <2>3, <2>4 DEF Counting
<1>3. d.epoch > b.epoch => d.recovery
  <2>1. Accepts(b, o) /\ o.kind = "Hello" => b.recovery
    BY <1>1 DEF Counting, Placed
  <2> QED BY <2>1 DEF Hears, Needs, Completes
<1>4. \A e \in Nat : (b.epoch > e => b.recovery) /\ (Completes(o) => o.epoch <= e)
                         => (d.epoch > e => d.recovery)
  <2>1. ASSUME NEW e \in Nat, b.epoch > e => b.recovery, Completes(o) => o.epoch <= e,
               d.epoch > e
        PROVE  d.recovery
    <3>1. CASE d.epoch > b.epoch
      BY <1>3, <3>1
    <3>2. CASE ~(d.epoch > b.epoch)
      <4>1. b.epoch > e /\ b.recovery
        BY <2>1, <3>2
      <4>2. ~(Accepts(b, o) /\ Completes(o))
        BY <2>1, <4>1 DEF Accepts, Belongs, LocalKinds, Completes
      <4> QED BY <4>1, <4>2 DEF Hears
    <3> QED BY <3>1, <3>2
  <2> QED BY <2>1
<1>5. Reported(d, c, F)
  <2>1. ASSUME NEW x \in F, Reports(x), d.epoch > x.epoch PROVE d.recovery
    <3>1. Completes(o) => o.epoch <= x.epoch
      BY <2>1 DEF Ahead, InOrder
    <3>2. (b.epoch > x.epoch => b.recovery) /\ x.epoch \in Nat
      BY <2>1 DEF Sure, Reported
    <3> QED BY <1>4, <2>1, <3>1, <3>2
  <2>2. ASSUME Losing(c)
        PROVE  d.epoch > c.queue.loss.epoch => d.recovery
    <3>1. /\ b.epoch > c.queue.loss.epoch => b.recovery
          /\ Completes(o) => o.epoch <= c.queue.loss.epoch
          /\ c.queue.loss.epoch \in Nat
      BY <2>2 DEF Sure, Reported
    <3> QED BY <1>4, <3>1
  <2>3. ASSUME c.taken # Nothing
        PROVE  d.epoch > c.taken.epoch => d.recovery
    <3>1. /\ b.epoch > c.taken.epoch => b.recovery
          /\ Completes(o) => o.epoch <= c.taken.epoch
          /\ c.taken.epoch \in Nat
      BY <2>3 DEF Sure, Reported
    <3> QED BY <1>4, <3>1
  <2> QED BY <2>1, <2>2, <2>3 DEF Sure, Reported
<1>6. ASSUME NEW x \in F \cup {c.held, c.taken} PROVE Placed(d, c, n, x)
  <2>1. Placed(b, c, n, x) /\ d.nextRequest = b.nextRequest
    BY DEF Sure, Hears
  <2>2. x.kind = "Hello" => o.kind # "Hello"
    <3>1. x.kind = "Hello" => x \in F
      BY DEF Sure, Hands, Nothing, Local
    <3> QED BY <3>1 DEF Ahead, InOrder
  <2>3. x.kind = "Hello" => d.process = 0
    BY <2>1, <2>2 DEF Placed, Hears
  <2> QED BY <2>1, <2>3 DEF Placed
<1> QED BY <1>2, <1>5, <1>6 DEF Sure

\* When the last number is the one it hears, a Brain knows it; when it drops the
\* report that has it, it needs a list, and none that it waits for is on its way.
LEMMA HearsKnown ==
    ASSUME NEW b \in Brains, NEW d \in Brains, NEW c \in Companions, NEW n \in Nat,
           NEW o \in Proper, NEW F \in SUBSET Proper,
           Sure(b, c, n, {o} \cup F), Ahead({o}, F), Hears(b, o, d),
           Known(b, c, {o} \cup F) \/ o.kind = "LocalCapacityLoss"
    PROVE  Known(d, c, F)
<1> USE Numbers
<1>1. Counting(b, c, n) /\ Placed(b, c, n, o)
  BY DEF Sure
<1>2. \A x : Void(b, x) => Void(d, x)
  BY DEF Void, Hears
<1>3. CASE o.kind = "LocalCapacityLoss"
  <2>1. o.sequence = 0
    BY <1>1, <1>3 DEF Placed, LocalKinds
  <2>2. Accepts(b, o)
    BY <1>3, <2>1 DEF Accepts, Belongs, IsStale, LocalKinds
  <2>3. Needs(d)
    BY <1>3, <2>2 DEF Hears
  <2> QED BY <2>3 DEF Known, Needs, Void
<1>4. CASE Tracked(b, c, F)
  <2>1. CASE b.last >= c.sequence
    <3>1. o.kind = "Hello" => b.last = 0
      BY <1>1 DEF Counting, Placed
    <3>2. d.last >= c.sequence
      BY <1>1, <2>1, <3>1 DEF Counting, Hears
    <3> QED BY <3>2 DEF Known, Tracked
  <2>2. CASE ~(b.last >= c.sequence)
    BY <1>4, <2>2 DEF Known, Tracked
  <2> QED BY <2>1, <2>2
<1>5. CASE o.sequence = c.sequence
  <2>1. /\ o.sequence # 0 /\ o.kind \notin LocalKinds \cup {"Hello"} /\ o.process = n
        /\ ~Reports(o) => o.epoch = c.epoch
    BY <1>1, <1>5 DEF Counting, Placed
  <2>2. CASE b.process = 0
    <3>1. ~Accepts(b, o) /\ Needs(b)
      BY <1>1, <2>1, <2>2 DEF Accepts, Belongs, Counting, Needs
    <3>2. Needs(d)
      BY <3>1 DEF Hears, Needs
    <3> QED BY <3>2 DEF Known, Needs, Void
  <2>3. CASE b.process = n /\ b.process # 0 /\ Belongs(b, o)
    <3>1. d.last >= c.sequence
      BY <1>5, <2>1, <2>3 DEF Hears, Accepts, IsStale
    <3> QED BY <3>1 DEF Known, Tracked
  <2>4. CASE b.process = n /\ b.process # 0 /\ ~Belongs(b, o)
    <3>1. b.epoch > o.epoch
      BY <2>1, <2>4 DEF Belongs
    <3>2. Reports(o) /\ b.recovery
      BY <1>1, <2>1, <3>1 DEF Counting, Sure, Reported
    <3>3. d.recovery
      BY <2>4, <3>2 DEF Hears, Accepts
    <3>4. ASSUME NEW x \in F, Completes(x) PROVE FALSE
      <4>1. o.sequence < x.sequence
        BY <3>2, <3>4 DEF Ahead, InOrder
      <4>2. x.sequence <= c.sequence
        BY DEF Sure, Placed
      <4> QED BY <1>5, <4>1, <4>2
    <3>5. ~Completes(c.taken)
      <4>1. CASE c.taken = Nothing
        BY <4>1 DEF Nothing, Local, Completes
      <4>2. CASE c.taken # Nothing
        <5>1. o.sequence < c.taken.sequence
          BY <3>2, <4>2 DEF Sure, Reported
        <5>2. c.taken.sequence <= c.sequence
          BY DEF Sure, Placed
        <5> QED BY <1>5, <5>1, <5>2
      <4> QED BY <4>1, <4>2
    <3> QED BY <3>3, <3>4, <3>5 DEF Known
  <2> QED BY <1>1, <2>2, <2>3, <2>4 DEF Counting
<1>6. CASE /\ Known(b, c, {o} \cup F) /\ ~Tracked(b, c, F) /\ o.sequence # c.sequence
  <2>1. /\ b.recovery
        /\ \A x \in ({o} \cup F) \cup {c.taken} : Completes(x) => Void(b, x)
    BY <1>6 DEF Known, Tracked
  <2>2. d.recovery
    BY <2>1 DEF Hears, Void
  <2> QED BY <1>2, <2>1, <2>2 DEF Known
<1> QED BY <1>3, <1>4, <1>5, <1>6

-----------------------------------------------------------------------------
(* The end of a service call                                               *)

\* c is b at the end of a service call: it waits for no other list, or for one
\* with the next number.
Serves(b, c, asks) ==
    /\ c.process = b.process /\ c.epoch = b.epoch /\ c.last = b.last
    /\ c.compatible = b.compatible /\ (b.recovery => c.recovery)
    /\ ~asks => /\ c.nextRequest = b.nextRequest
                /\ c.pending => b.pending /\ c.request = b.request
    /\ asks => /\ c.nextRequest = b.nextRequest + 1 /\ c.request = b.nextRequest
               /\ b.compatible

\* A request takes the next number.
LEMMA EndServes ==
    ASSUME BrainInv, NEW late \in BOOLEAN, NEW room \in BOOLEAN, EndService(late, room)
    PROVE  Serves(brain, brain', RequestsSnapshot(late, room))
<1> DEFINE ended == [brain EXCEPT !.served = 0]
           timed == TimeOut(ended, late)
           asked == IF NeedsSnapshot(timed) /\ room THEN Requested(timed) ELSE timed
           asks == NeedsSnapshot(timed) /\ room
<1>1. Sound(ended) /\ Alike(brain, ended)
  <2>1. 0 \in 0 .. MaximumObservations
    BY BrainAssumption
  <2>2. Sound(brain) /\ brain \in Brains
    BY DEF BrainInv, Sound
  <2> QED BY <2>1, <2>2, WithServedSound, OthersAlike
<1>2. RequestsSnapshot(late, room) = asks
  BY DEF RequestsSnapshot
<1> HIDE DEF ended
<1>3. /\ Sound(timed) /\ Waits(ended, timed) /\ timed.compatible = ended.compatible
      /\ timed.process = ended.process /\ timed.epoch = ended.epoch
      /\ timed.last = ended.last
  <2>1. ended \in Brains
    BY <1>1 DEF Sound
  <2> QED BY <1>1, <2>1, MarkSound, MarkWaits, MarkKeeps, WaitsOn DEF TimeOut, Keeps
<1> HIDE DEF timed
<1>4. CASE asks
  <2>1. asked = [timed EXCEPT !.pending = TRUE, !.request = timed.nextRequest,
                              !.nextRequest = timed.nextRequest + 1]
    BY <1>4 DEF Requested
  <2>2. timed \in Brains
    BY <1>3 DEF Sound
  <2>3. /\ asked.request = timed.nextRequest /\ asked.nextRequest = timed.nextRequest + 1
        /\ asked.process = timed.process /\ asked.epoch = timed.epoch
        /\ asked.last = timed.last /\ asked.compatible = timed.compatible
        /\ asked.recovery = timed.recovery
    BY <2>1, <2>2 DEF Brains
  <2>4. timed.compatible /\ Sound(asked)
    BY <1>3, <1>4, RequestedSound DEF NeedsSnapshot, Available
  <2>5. ReevaluateDeferred(asked)
    BY DEF EndService, asked, timed, ended
  <2> HIDE DEF asked
  <2>6. Alike(asked, brain')
    BY <2>4, <2>5, ReevaluateAlike
  <2> QED BY <1>1, <1>2, <1>3, <1>4, <2>3, <2>4, <2>6 DEF Alike, Waits, Serves
<1>5. CASE ~asks
  <2>1. ReevaluateDeferred(timed)
    BY <1>5 DEF EndService, timed, ended
  <2>2. Alike(timed, brain')
    BY <1>3, <2>1, ReevaluateAlike
  <2> QED BY <1>1, <1>2, <1>3, <1>5, <2>2 DEF Alike, Waits, Serves
<1> QED BY <1>4, <1>5

\* It asks under a number that no list on its way has.
LEMMA ServesSure ==
    ASSUME NEW b \in Brains, NEW d \in Brains, NEW c \in Companions, NEW n \in Nat,
           NEW F \in SUBSET Proper, Sure(b, c, n, F), NEW asks \in BOOLEAN,
           Serves(b, d, asks)
    PROVE  Sure(d, c, n, F) /\ (Known(b, c, F) => Known(d, c, F))
<1> USE Numbers
<1>1. b.nextRequest <= d.nextRequest
  BY DEF Serves
<1>2. Counting(d, c, n)
  BY DEF Sure, Counting, Serves
<1>3. Reported(d, c, F)
  BY DEF Sure, Reported, Serves
<1>4. \A x \in F \cup {c.held, c.taken} : Placed(d, c, n, x)
  <2>1. \A x \in F \cup {c.held, c.taken} : Placed(b, c, n, x) /\ x \in Proper
    BY DEF Sure
  <2> QED BY <1>1, <2>1 DEF Placed, Serves
<1>5. ASSUME Known(b, c, F) PROVE Known(d, c, F)
  <2>1. Tracked(b, c, F) => Tracked(d, c, F)
    BY DEF Tracked, Serves
  <2>2. ASSUME NEW x \in F \cup {c.taken}, Completes(x), Void(b, x) PROVE Void(d, x)
    <3>1. x.request < b.nextRequest /\ x \in Proper
      BY <2>2 DEF Sure, Placed
    <3> QED BY <2>2, <3>1 DEF Void, Serves
  <2> QED BY <1>5, <2>1, <2>2 DEF Known, Serves
<1> QED BY <1>2, <1>3, <1>4, <1>5 DEF Sure

-----------------------------------------------------------------------------
(* The steps of the companion                                              *)

\* What is on its way are observations.
LEMMA FlowTyped ==
    ASSUME NEW c \in Companions, NEW p \in Pipes, NEW l \in Clients
    PROVE  /\ c.queue.items \in Seq(Proper) /\ p.toBrain \in Seq(Proper)
           /\ l.incoming.items \in Seq(Proper)
           /\ p.toCompanion \in Seq(Nat) /\ l.outgoing \in Seq(Nat)
           /\ c.queue \in ProperQueues /\ l.incoming \in ProperQueues
           /\ l.incoming.loss.count \in Nat /\ Len(c.queue.items) \in Nat
           /\ (Items(l.incoming.items) \cup Items(p.toBrain)) \cup Items(c.queue.items)
                  \in SUBSET Proper
<1>1. c.queue \in ProperQueues /\ l.incoming \in ProperQueues
  BY CompanionFields, ClientFields
<1>2. /\ c.queue.items \in Seq(Proper) /\ p.toBrain \in Seq(Proper)
      /\ l.incoming.items \in Seq(Proper)
      /\ p.toCompanion \in Seq(Nat) /\ l.outgoing \in Seq(Nat)
      /\ l.incoming.loss.count \in Nat
  BY <1>1 DEF ProperQueues, Pipes, Clients
<1>3. Len(c.queue.items) \in Nat
  BY <1>2, LenProperties
<1> QED BY <1>1, <1>2, <1>3, ItemsType

\* So it is in every state.
LEMMA LossTyped ==
    ASSUME IInv
    PROVE  /\ brain \in Brains /\ companion \in Companions /\ xpilot \in XPilots
           /\ xpilot.process \in Nat /\ pipe \in Pipes /\ client \in Clients
           /\ OnWay \in SUBSET Proper
<1>1. /\ brain \in Brains /\ companion \in Companions /\ xpilot \in XPilots
      /\ pipe \in Pipes /\ client \in Clients
  BY DEF IInv, CompanionInv, BrainInv, Sound
<1>2. xpilot.process \in Nat
  BY <1>1 DEF XPilots
<1> QED BY <1>1, <1>2, FlowTyped DEF OnWay

\* An observation that is offered is queued, or it is lost.
LEMMA OfferCases ==
    ASSUME NEW q \in ProperQueues, NEW o \in Proper, NEW F
    PROVE  LET r == Offer(q, o, QueueCapacity)
           IN  \/ /\ Offered(q, r, o, F, F \cup {o})
                  /\ r.items = Append(q.items, o)
               \/ Offered(q, r, o, F, F) /\ r.items = q.items
<1>1. Len(q.items) \in Nat /\ QueueCapacity \in Nat
  BY LenProperties, Bounds DEF ProperQueues
<1> DEFINE items == Append(q.items, o)
           loss == [count |-> q.loss.count + 1,
                    epoch |-> IF q.loss.count = 0 THEN o.epoch ELSE q.loss.epoch]
           more == [q EXCEPT !.items = items]
           lost == [q EXCEPT !.loss = loss]
<1>2. Offer(q, o, QueueCapacity) = IF Len(q.items) >= QueueCapacity THEN lost ELSE more
  BY DEF Offer, RecordLoss
<1>3. /\ loss.count = q.loss.count + 1
      /\ loss.epoch = IF q.loss.count = 0 THEN o.epoch ELSE q.loss.epoch
  OBVIOUS
<1> HIDE DEF items, loss
<1>4. more.items = items /\ more.loss = q.loss /\ lost.items = q.items /\ lost.loss = loss
  BY DEF ProperQueues
<1>5. items = Append(q.items, o)
  BY DEF items
<1> HIDE DEF more, lost
<1>6. CASE Len(q.items) >= QueueCapacity
  BY <1>2, <1>3, <1>4, <1>6 DEF Offered
<1>7. CASE ~(Len(q.items) >= QueueCapacity)
  <2>1. Len(q.items) < QueueCapacity
    BY <1>1, <1>7
  <2> QED BY <1>2, <1>4, <1>5, <1>7, <2>1 DEF Offered
<1> QED BY <1>6, <1>7

\* What a handler raises takes the next number and is in its hand.
LEMMA RaisedFields ==
    ASSUME CompanionInv, NEW o, Raise(o)
    PROVE  /\ companion'.sequence = o.sequence /\ companion'.epoch = o.epoch
           /\ companion'.held = o /\ companion'.taken = companion.taken
           /\ companion'.queue = companion.queue /\ companion'.answer = companion.answer
           /\ companion'.runner = companion.runner
  BY DEF Raise, CompanionInv, Companions

\* The events of the host raise one observation, which ends no list.
RaisedOne ==
    /\ companion'.sequence = companion.sequence + 1
    /\ companion'.epoch \in {companion.epoch, companion.epoch + 1}
    /\ companion'.held.sequence = companion'.sequence
    /\ companion'.held.epoch = companion'.epoch
    /\ companion'.held.process = xpilot.process
    /\ companion'.held.kind \notin
           LocalKinds \cup {"Hello", "SnapshotCompleted", "CapacityLoss"}
    /\ companion'.taken = companion.taken /\ companion'.queue = companion.queue
    /\ companion'.answer = companion.answer /\ companion'.runner = companion.runner
    /\ UNCHANGED pipe

\* So does each of its handlers.
LEMMA HostRaises ==
    ASSUME CompanionInv, Host
    PROVE  RaisedOne
<1>0. xpilot \in XPilots
  BY DEF CompanionInv
<1>1. ASSUME NEW o, Raise(o), UNCHANGED pipe, o.sequence = companion.sequence + 1,
             o.epoch \in {companion.epoch, companion.epoch + 1},
             o.process = xpilot.process,
             o.kind \in LiveKinds \cup {"ConnectionStateChanged",
                                        "IncomingPrivateMessage", "SessionEnded"}
      PROVE  RaisedOne
  <2>1. o.kind \notin LocalKinds \cup {"Hello", "SnapshotCompleted", "CapacityLoss"}
    BY <1>1 DEF LiveKinds, LocalKinds
  <2> QED BY <1>1, <2>1, RaisedFields DEF RaisedOne
<1>2. CASE \E callsign \in Callsigns : NetworkConnected(callsign)
  <2> PICK callsign \in Callsigns : NetworkConnected(callsign)
    BY <1>2
  <2> DEFINE o == [NewObservation("ConnectionStateChanged") EXCEPT
                      !.epoch = companion.epoch + 1, !.callsign = callsign]
  <2>1. Raise(o) /\ UNCHANGED pipe
    BY DEF NetworkConnected
  <2>2. /\ o.epoch = companion.epoch + 1 /\ o.kind = "ConnectionStateChanged"
        /\ o.process = xpilot.process /\ o.sequence = companion.sequence + 1
    BY DEF NewObservation, NumberedIn, Local
  <2> HIDE DEF o
  <2> QED BY <2>1, <2>2, <1>1
<1>3. CASE NetworkDisconnected
  <2> DEFINE o == NewObservation("ConnectionStateChanged")
  <2>1. Raise(o) /\ UNCHANGED pipe
    BY <1>3 DEF NetworkDisconnected
  <2>2. /\ o.epoch = companion.epoch /\ o.kind = "ConnectionStateChanged"
        /\ o.process = xpilot.process /\ o.sequence = companion.sequence + 1
    BY DEF NewObservation, NumberedIn, Local
  <2> HIDE DEF o
  <2> QED BY <2>1, <2>2, <1>1
<1>4. CASE PrivateMessageReceived
  <2> DEFINE o == [NewObservation("IncomingPrivateMessage") EXCEPT
                      !.callsign = xpilot.callsign]
  <2>1. Raise(o) /\ UNCHANGED pipe
    BY <1>4 DEF PrivateMessageReceived
  <2>2. /\ o.epoch = companion.epoch /\ o.kind = "IncomingPrivateMessage"
        /\ o.process = xpilot.process /\ o.sequence = companion.sequence + 1
    BY DEF NewObservation, NumberedIn, Local
  <2> HIDE DEF o
  <2> QED BY <2>1, <2>2, <1>1
<1>5. CASE \E kind \in LiveKinds, c \in Controllers : ControllerEvent(kind, c)
  <2> PICK kind \in LiveKinds, c \in Controllers : ControllerEvent(kind, c)
    BY <1>5
  <2> DEFINE o == [NewObservation(kind) EXCEPT !.controller = c]
  <2>1. Raise(o) /\ UNCHANGED pipe
    BY DEF ControllerEvent
  <2>2. /\ o.epoch = companion.epoch /\ o.kind = kind
        /\ o.process = xpilot.process /\ o.sequence = companion.sequence + 1
    BY DEF NewObservation, NumberedIn, Local
  <2> HIDE DEF o
  <2> QED BY <2>1, <2>2, <1>1
<1>6. CASE SessionEnded
  <2> DEFINE o == NewObservation("SessionEnded")
  <2>1. Raise(o) /\ UNCHANGED pipe
    BY <1>6 DEF SessionEnded
  <2>2. /\ o.epoch = companion.epoch /\ o.kind = "SessionEnded"
        /\ o.process = xpilot.process /\ o.sequence = companion.sequence + 1
    BY DEF NewObservation, NumberedIn, Local
  <2> HIDE DEF o
  <2> QED BY <2>1, <2>2, <1>1
<1> QED BY <1>2, <1>3, <1>4, <1>5, <1>6 DEF Host

\* A handler raises an observation.
LEMMA HostLoss ==
    ASSUME IInv, IInv', LossBody, Host, UNCHANGED otherVars
    PROVE  LossBody'
<1>0. CompanionInv
  BY DEF IInv
<1>1. /\ brain \in Brains /\ companion \in Companions /\ companion' \in Companions
      /\ xpilot.process \in Nat /\ OnWay \in SUBSET Proper
  BY LossTyped DEF IInv, CompanionInv
<1>2. RaisedOne /\ xpilot'.process = xpilot.process
  BY <1>0, HostRaises, HostProcess
<1>3. OnWay' = OnWay /\ client' = client /\ brain' = brain
  BY <1>2 DEF OnWay, RaisedOne, otherVars
<1>4. Sure(brain, companion, xpilot.process, OnWay)
  BY DEF LossBody
<1>5. /\ Sure(brain, companion', xpilot.process, OnWay)
      /\ Known(brain, companion', OnWay)
  <2> HIDE DEF OnWay
  <2> QED BY <1>1, <1>2, <1>4, RaiseSure DEF RaisedOne
<1>6. Asked(brain, companion', pipe', client)
  BY <1>2 DEF LossBody, Asked, RaisedOne
<1>7. Greeted(brain, companion', pipe', OnWay)
  BY <1>2 DEF LossBody, Greeted, RaisedOne
<1>8. Line(client.incoming.items, pipe'.toBrain, companion'.queue.items)
  BY <1>2 DEF LossBody, RaisedOne
<1> QED BY <1>2, <1>3, <1>5, <1>6, <1>7, <1>8 DEF LossBody

\* One of the threads queues the observation o: it joins what is on its way, or
\* it is lost.
QueuedOne(o) ==
    \/ /\ Offered(companion.queue, companion'.queue, o, OnWay, OnWay')
       /\ OnWay' = OnWay \cup {o}
       /\ companion'.queue.items = Append(companion.queue.items, o)
    \/ /\ Offered(companion.queue, companion'.queue, o, OnWay, OnWay')
       /\ OnWay' = OnWay /\ companion'.queue.items = companion.queue.items

\* What is offered to the companion's queue is either.
LEMMA QueueOne ==
    ASSUME IInv, NEW o \in Proper, UNCHANGED <<pipe, client>>,
           companion'.queue = Offer(companion.queue, o, QueueCapacity)
    PROVE  QueuedOne(o)
<1>1. companion.queue \in ProperQueues /\ companion.queue.items \in Seq(Proper)
  BY LossTyped, FlowTyped
<1> DEFINE r == Offer(companion.queue, o, QueueCapacity)
           ahead == Items(client.incoming.items) \cup Items(pipe.toBrain)
           F == ahead \cup Items(companion.queue.items)
<1>2. OnWay = F /\ OnWay' = ahead \cup Items(companion'.queue.items)
  BY DEF OnWay
<1>3. Items(Append(companion.queue.items, o)) = Items(companion.queue.items) \cup {o}
  BY <1>1, ItemsAppend
<1>4. \/ /\ Offered(companion.queue, r, o, F, F \cup {o})
         /\ r.items = Append(companion.queue.items, o)
      \/ Offered(companion.queue, r, o, F, F) /\ r.items = companion.queue.items
  BY <1>1, OfferCases
<1>5. companion'.queue = r
  OBVIOUS
<1> HIDE DEF ahead, r
<1>6. CASE /\ Offered(companion.queue, r, o, F, F \cup {o})
           /\ r.items = Append(companion.queue.items, o)
  <2>1. OnWay' = F \cup {o}
    BY <1>2, <1>3, <1>5, <1>6
  <2> HIDE DEF F
  <2> QED BY <1>2, <1>5, <1>6, <2>1 DEF QueuedOne
<1>7. CASE Offered(companion.queue, r, o, F, F) /\ r.items = companion.queue.items
  <2>1. OnWay' = F
    BY <1>2, <1>5, <1>7
  <2> HIDE DEF F
  <2> QED BY <1>2, <1>5, <1>7, <2>1 DEF QueuedOne
<1> QED BY <1>4, <1>6, <1>7

\* In the line of queues it is the last.
LEMMA QueuedLine ==
    ASSUME IInv, NEW o \in Proper, UNCHANGED <<pipe, client>>, QueuedOne(o),
           Line(client.incoming.items, pipe.toBrain, companion.queue.items),
           Ahead(OnWay, {o})
    PROVE  Line(client'.incoming.items, pipe'.toBrain, companion'.queue.items)
<1>1. /\ companion.queue.items \in Seq(Proper) /\ pipe.toBrain \in Seq(Proper)
      /\ client.incoming.items \in Seq(Proper)
  BY LossTyped, FlowTyped
<1>2. Line(client.incoming.items, pipe.toBrain, Append(companion.queue.items, o))
  BY <1>1, LineAppend DEF OnWay
<1>3. companion'.queue.items \in {companion.queue.items, Append(companion.queue.items, o)}
  BY DEF QueuedOne
<1> QED BY <1>2, <1>3

\* The UI thread queues what it has in hand.
LEMMA CaptureHeldLoss ==
    ASSUME IInv, IInv', LossBody, CaptureHeld, UNCHANGED otherVars
    PROVE  LossBody'
<1> DEFINE o == companion.held
           queue == Offer(companion.queue, o, QueueCapacity)
           stopping == companion.stopping \/ companion.held.kind = "SessionEnded"
           raced == IF companion.answer.phase = "Started"
                    THEN companion.raced \cup {companion.held.controller}
                    ELSE companion.raced
           c == [companion EXCEPT !.queue = queue, !.stopping = stopping,
                                  !.raced = raced, !.held = Nothing]
<1>1. companion' = c /\ UNCHANGED <<xpilot, pipe>> /\ companion.held # Nothing
  BY DEF CaptureHeld
<1>2. /\ brain \in Brains /\ companion \in Companions /\ companion' \in Companions
      /\ xpilot.process \in Nat /\ OnWay \in SUBSET Proper /\ o \in Proper
  BY LossTyped, CompanionFields DEF IInv, CompanionInv
<1> HIDE DEF stopping, raced
<1>3. companion'.queue = queue
  <2> HIDE DEF queue
  <2> QED BY <1>1, <1>2 DEF Companions
<1>4. /\ companion'.sequence = companion.sequence /\ companion'.epoch = companion.epoch
      /\ companion'.held = Nothing /\ companion'.taken = companion.taken
      /\ companion'.answer = companion.answer /\ companion'.runner = companion.runner
  <2> HIDE DEF queue
  <2> QED BY <1>1, <1>2 DEF Companions
<1> HIDE DEF c
<1>5. UNCHANGED <<pipe, client, brain, xpilot>>
  BY <1>1 DEF otherVars
<1>6. QueuedOne(o)
  BY <1>2, <1>3, <1>5, QueueOne
<1> HIDE DEF queue
<1>7. Sure(brain, companion, xpilot.process, OnWay)
  BY DEF LossBody
<1>8. /\ Sure(brain, companion', xpilot.process, OnWay')
      /\ Known(brain, companion, OnWay) => Known(brain, companion', OnWay')
      /\ Ahead(OnWay, {o})
  <2>1. Offered(companion.queue, companion'.queue, o, OnWay, OnWay')
    BY <1>6 DEF QueuedOne
  <2> HIDE DEF OnWay
  <2> QED BY <1>1, <1>2, <1>4, <1>7, <2>1, CaptureHeldSure
<1>9. Line(client'.incoming.items, pipe'.toBrain, companion'.queue.items)
  BY <1>2, <1>5, <1>6, <1>8, QueuedLine DEF LossBody
<1>10. Asked(brain, companion', pipe', client)
  BY <1>4, <1>5 DEF LossBody, Asked
<1>11. OnWay \subseteq OnWay' /\ OnWay' \subseteq OnWay \cup {o}
  BY <1>6 DEF QueuedOne
<1>12. Greeted(brain, companion', pipe', OnWay')
  <2>1. o.kind # "Hello"
    BY <1>1, <1>7 DEF Sure, Hands
  <2> HIDE DEF OnWay
  <2> QED BY <1>4, <1>5, <1>11, <2>1 DEF LossBody, Greeted
<1>13. Spoilt(client, OnWay) => Spoilt(client, OnWay')
  <2> HIDE DEF OnWay
  <2> QED BY <1>11 DEF Spoilt
<1> HIDE DEF OnWay
<1> QED BY <1>5, <1>8, <1>9, <1>10, <1>12, <1>13 DEF LossBody

\* The runner queues what it has in hand.
LEMMA CaptureTakenLoss ==
    ASSUME IInv, IInv', LossBody, CaptureTaken, UNCHANGED otherVars
    PROVE  LossBody'
<1> DEFINE o == companion.taken
           queue == Offer(companion.queue, o, QueueCapacity)
           answer == companion.answer
           next == NextPhase(answer.phase, answer.left)
           following == IF next = "None" THEN NoAnswer ELSE [answer EXCEPT !.phase = next]
           c == [companion EXCEPT !.queue = queue, !.taken = Nothing, !.answer = following]
<1>1. companion' = c /\ UNCHANGED <<xpilot, pipe>> /\ companion.taken # Nothing
  BY DEF CaptureTaken
<1>2. /\ brain \in Brains /\ companion \in Companions /\ companion' \in Companions
      /\ xpilot.process \in Nat /\ OnWay \in SUBSET Proper /\ o \in Proper
      /\ answer \in Answers
  BY LossTyped, CompanionFields DEF IInv, CompanionInv
<1>3. companion'.queue = queue
  <2> HIDE DEF queue, following
  <2> QED BY <1>1, <1>2 DEF Companions
<1>4. /\ companion'.sequence = companion.sequence /\ companion'.epoch = companion.epoch
      /\ companion'.taken = Nothing /\ companion'.held = companion.held
      /\ companion'.answer = following /\ companion'.runner = companion.runner
  <2> HIDE DEF queue, following
  <2> QED BY <1>1, <1>2 DEF Companions
<1>5. UNCHANGED <<pipe, client, brain, xpilot>>
  BY <1>1 DEF otherVars
<1>6. QueuedOne(o)
  BY <1>2, <1>3, <1>5, QueueOne
<1> HIDE DEF queue, c
<1>7. Sure(brain, companion, xpilot.process, OnWay)
  BY DEF LossBody
<1>8. /\ Sure(brain, companion', xpilot.process, OnWay')
      /\ Known(brain, companion, OnWay) => Known(brain, companion', OnWay')
      /\ Ahead(OnWay, {o})
  <2>1. Offered(companion.queue, companion'.queue, o, OnWay, OnWay')
    BY <1>6 DEF QueuedOne
  <2> HIDE DEF OnWay
  <2> QED BY <1>1, <1>2, <1>4, <1>7, <2>1, CaptureTakenSure
<1>9. Line(client'.incoming.items, pipe'.toBrain, companion'.queue.items)
  BY <1>2, <1>5, <1>6, <1>8, QueuedLine DEF LossBody
<1>10. Asked(brain, companion', pipe', client)
  <2>1. following.phase # "None" => following.request = answer.request
    BY <1>2 DEF NoAnswer, Answers
  <2>2. companion.answer.phase # "None"
    BY <1>1, <1>7 DEF Sure, Hands
  <2> HIDE DEF following
  <2> QED BY <1>4, <1>5, <2>1, <2>2 DEF LossBody, Asked
<1>11. OnWay \subseteq OnWay' /\ OnWay' \subseteq OnWay \cup {o}
  BY <1>6 DEF QueuedOne
<1>12. Greeted(brain, companion', pipe', OnWay')
  <2>1. o.kind # "Hello"
    BY <1>1, <1>7 DEF Sure, Hands
  <2> HIDE DEF OnWay
  <2> QED BY <1>4, <1>5, <1>11, <2>1 DEF LossBody, Greeted
<1>13. Spoilt(client, OnWay) => Spoilt(client, OnWay')
  <2> HIDE DEF OnWay
  <2> QED BY <1>11 DEF Spoilt
<1> HIDE DEF OnWay
<1> QED BY <1>5, <1>8, <1>9, <1>10, <1>12, <1>13 DEF LossBody

\* The runner numbers an observation of its answer.
LEMMA NumberAnswerLoss ==
    ASSUME IInv, IInv', LossBody, NumberAnswer, UNCHANGED otherVars
    PROVE  LossBody'
<1> DEFINE answer == companion.answer
           entry  == CHOOSE x \in answer.left : TRUE
           left   == IF answer.phase = "Entry" THEN answer.left \ {entry} ELSE answer.left
           kind   == CASE answer.phase = "Started"   -> "SnapshotStarted"
                       [] answer.phase = "Entry"     -> "SnapshotEntry"
                       [] answer.phase = "Completed" -> "SnapshotCompleted"
                       [] OTHER                      -> "CorruptEnvelope"
           controller == IF answer.phase = "Entry" THEN entry ELSE NoController
           base == NewObservation(kind)
           o == [base EXCEPT !.request = answer.request, !.listed = answer.listed,
                             !.controller = controller]
           next == [answer EXCEPT !.left = left]
           sequence == companion.sequence + 1
           c == [companion EXCEPT !.sequence = sequence, !.taken = o, !.answer = next]
<1>1. /\ companion' = c /\ UNCHANGED <<xpilot, pipe>> /\ companion.taken = Nothing
      /\ answer.phase # "None"
  BY DEF NumberAnswer
<1>2. kind \in AnswerKinds
  BY DEF AnswerKinds
<1> HIDE DEF kind, controller, left
<1>3. /\ o.kind = kind /\ o.sequence = companion.sequence + 1 /\ o.epoch = companion.epoch
      /\ o.process = xpilot.process /\ o.request = answer.request
  BY DEF NewObservation, NumberedIn, Local
<1>4. /\ brain \in Brains /\ companion \in Companions /\ companion' \in Companions
      /\ xpilot.process \in Nat /\ OnWay \in SUBSET Proper /\ answer \in Answers
  BY LossTyped, CompanionFields DEF IInv, CompanionInv
<1>5. next.phase = answer.phase /\ next.request = answer.request
  BY <1>4 DEF Answers
<1>6. sequence = companion.sequence + 1
  OBVIOUS
<1> HIDE DEF o, next, sequence
<1>7. /\ companion'.sequence = sequence /\ companion'.epoch = companion.epoch
      /\ companion'.taken = o /\ companion'.held = companion.held
      /\ companion'.queue = companion.queue
      /\ companion'.answer = next /\ companion'.runner = companion.runner
  BY <1>1, <1>4 DEF Companions
<1> HIDE DEF c
<1>8. UNCHANGED <<pipe, client, brain, xpilot>>
  BY <1>1 DEF otherVars
<1>9. OnWay' = OnWay
  BY <1>7, <1>8 DEF OnWay
<1>10. Sure(brain, companion, xpilot.process, OnWay) /\ answer.request < brain.nextRequest
  BY <1>1 DEF LossBody, Asked
<1>11. /\ Sure(brain, companion', xpilot.process, OnWay)
       /\ Known(brain, companion', OnWay)
  <2> HIDE DEF OnWay
  <2> QED BY <1>1, <1>2, <1>3, <1>4, <1>5, <1>6, <1>7, <1>10, NumberSure
<1>12. Asked(brain, companion', pipe, client)
  BY <1>1, <1>5, <1>7 DEF LossBody, Asked
<1>13. Greeted(brain, companion', pipe, OnWay)
  BY <1>7 DEF LossBody, Greeted
<1> HIDE DEF OnWay
<1> QED BY <1>7, <1>8, <1>9, <1>11, <1>12, <1>13 DEF LossBody

\* The runner goes on: nothing is queued, and nothing is written.
LEMMA RunnerGoesOn ==
    ASSUME IInv, IInv', LossBody, UNCHANGED otherVars, UNCHANGED xpilot,
           companion'.sequence = companion.sequence, companion'.epoch = companion.epoch,
           companion'.held = companion.held, companion'.taken = companion.taken,
           companion'.queue = companion.queue, pipe'.toBrain = pipe.toBrain,
           companion'.answer = companion.answer \/ companion.answer.phase = "None",
           Asked(brain, companion', pipe', client),
           Greeted(brain, companion', pipe', OnWay)
    PROVE  LossBody'
<1>1. /\ brain \in Brains /\ companion \in Companions /\ companion' \in Companions
      /\ xpilot.process \in Nat /\ OnWay \in SUBSET Proper
  BY LossTyped DEF IInv, CompanionInv
<1>2. UNCHANGED <<client, brain, xpilot>> /\ OnWay' = OnWay
  BY DEF otherVars, OnWay
<1> HIDE DEF OnWay
<1>3. /\ Sure(brain, companion', xpilot.process, OnWay)
      /\ Known(brain, companion, OnWay) => Known(brain, companion', OnWay)
  BY <1>1, RunSure DEF LossBody
<1> QED BY <1>2, <1>3 DEF LossBody

\* The runner waits for a client.
LEMMA CreatePipeLoss ==
    ASSUME IInv, IInv', LossBody, CreatePipe, UNCHANGED otherVars,
           companion'.runner # "Stopped"
    PROVE  LossBody'
<1> DEFINE r == IF companion.stopping THEN "Stopped" ELSE "Listening"
           c == [companion EXCEPT !.runner = r]
<1>1. /\ companion.runner = "Closed" /\ companion' = c /\ UNCHANGED <<xpilot, pipe>>
      /\ companion \in Companions
  BY DEF CreatePipe, IInv, CompanionInv
<1>2. /\ c.sequence = companion.sequence /\ c.epoch = companion.epoch
      /\ c.held = companion.held /\ c.taken = companion.taken
      /\ c.queue = companion.queue /\ c.answer = companion.answer /\ c.runner = r
  <2> HIDE DEF r
  <2> QED BY <1>1 DEF Companions
<1>3. r = "Listening"
  BY <1>1, <1>2
<1> HIDE DEF c, r
<1>4. Asked(brain, companion', pipe', client)
  BY <1>1, <1>2 DEF LossBody, Asked
<1>5. Greeted(brain, companion', pipe', OnWay)
  BY <1>1, <1>2, <1>3 DEF LossBody, Greeted
<1> QED BY <1>1, <1>2, <1>4, <1>5, RunnerGoesOn

\* The runner takes a request from the pipe.
LEMMA ReadCommandLoss ==
    ASSUME IInv, IInv', LossBody, NEW readable \in BOOLEAN, ReadCommand(readable),
           UNCHANGED otherVars
    PROVE  LossBody'
<1> DEFINE request == Head(pipe.toCompanion)
           phase == IF readable THEN "Started" ELSE "Failed"
           answer == [phase |-> phase, request |-> request,
                      listed |-> xpilot.controllers, left |-> xpilot.controllers]
           rest == Tail(pipe.toCompanion)
           c == [companion EXCEPT !.answer = answer, !.raced = {}]
<1>1. /\ companion' = c /\ pipe' = [pipe EXCEPT !.toCompanion = rest]
      /\ UNCHANGED xpilot /\ companion.answer.phase = "None"
      /\ pipe.toCompanion # <<>>
  BY DEF ReadCommand, RunnerIdle
<1>2. companion \in Companions /\ pipe \in Pipes
  BY LossTyped
<1>3. answer.request = request
  OBVIOUS
<1>4. /\ request \in Items(pipe.toCompanion)
      /\ Items(rest) \subseteq Items(pipe.toCompanion)
  <2>1. pipe.toCompanion \in Seq(Nat)
    BY <1>2 DEF Pipes
  <2> QED BY <1>1, <2>1, ItemsTake
<1> HIDE DEF answer, rest, request
<1>5. /\ c.sequence = companion.sequence /\ c.epoch = companion.epoch
      /\ c.held = companion.held /\ c.taken = companion.taken
      /\ c.queue = companion.queue /\ c.answer = answer /\ c.runner = companion.runner
  BY <1>2 DEF Companions
<1>6. /\ pipe'.toBrain = pipe.toBrain /\ pipe'.live = pipe.live
      /\ pipe'.toCompanion = rest
  BY <1>1, <1>2 DEF Pipes
<1> HIDE DEF c
<1>7. Asked(brain, companion', pipe', client)
  BY <1>1, <1>3, <1>4, <1>5, <1>6 DEF LossBody, Asked
<1>8. Greeted(brain, companion', pipe', OnWay)
  BY <1>1, <1>5, <1>6 DEF LossBody, Greeted
<1> QED BY <1>1, <1>5, <1>6, <1>7, <1>8, RunnerGoesOn

\* The runner greets.
LEMMA WriteHelloLoss ==
    ASSUME IInv, IInv', LossBody, WriteHello, UNCHANGED otherVars
    PROVE  LossBody'
<1> DEFINE o == [Local("Hello") EXCEPT !.process = xpilot.process, !.epoch = companion.epoch]
           sent == Append(pipe.toBrain, o)
           c == [companion EXCEPT !.runner = "Connected"]
<1>1. /\ UNCHANGED xpilot /\ companion.runner = "Greeting" /\ pipe.live
      /\ companion' = c /\ pipe' = [pipe EXCEPT !.toBrain = sent]
  BY DEF WriteHello
<1>2. /\ brain \in Brains /\ companion \in Companions /\ companion' \in Companions
      /\ xpilot.process \in Nat /\ OnWay \in SUBSET Proper /\ pipe \in Pipes
      /\ client \in Clients
  BY LossTyped DEF IInv, CompanionInv
<1>3. companion.epoch \in Nat
  BY <1>2, CompanionFields
<1>4. /\ o.kind = "Hello" /\ o.process = xpilot.process /\ o.sequence = 0
      /\ o.epoch = companion.epoch
  BY DEF Local
<1>5. o \in Proper
  <2>1. Local("Hello") \in Observation
    BY LocalType DEF Kinds
  <2>2. o \in Observation
    BY <1>2, <1>3, <2>1 DEF Local, Observation
  <2> QED BY <1>4, <2>2, OtherKindProper DEF LiveKinds
<1> HIDE DEF o
<1>6. /\ c.sequence = companion.sequence /\ c.epoch = companion.epoch
      /\ c.held = companion.held /\ c.taken = companion.taken
      /\ c.queue = companion.queue /\ c.answer = companion.answer
      /\ c.runner = "Connected"
  BY <1>2 DEF Companions
<1>7. /\ pipe'.toBrain = sent /\ pipe'.live = pipe.live
      /\ pipe'.toCompanion = pipe.toCompanion
  <2> HIDE DEF sent
  <2> QED BY <1>1, <1>2 DEF Pipes
<1> HIDE DEF c
<1>8. /\ companion.queue.items \in Seq(Proper) /\ pipe.toBrain \in Seq(Proper)
      /\ client.incoming.items \in Seq(Proper)
  BY <1>2, FlowTyped
<1>9. UNCHANGED <<client, brain, xpilot>>
  BY <1>1 DEF otherVars
<1>10. OnWay' = OnWay \cup {o}
  <2>1. Items(sent) = Items(pipe.toBrain) \cup {o}
    BY <1>5, <1>8, ItemsAppend
  <2> HIDE DEF sent
  <2> QED BY <1>1, <1>6, <1>7, <1>9, <2>1 DEF OnWay
<1>11. /\ Sure(brain, companion, xpilot.process, OnWay)
       /\ brain.process = 0 /\ \A x \in OnWay : x.kind # "Hello"
  BY <1>1 DEF LossBody, Greeted
<1>12. Line(client.incoming.items, sent, companion.queue.items)
  <2>1. \A x \in (Items(client.incoming.items) \cup Items(pipe.toBrain))
                     \cup Items(companion.queue.items) : x.kind # "Hello"
    BY <1>11 DEF OnWay
  <2> QED BY <1>4, <1>5, <1>8, <2>1, LineGreets DEF LossBody
<1> HIDE DEF OnWay, sent
<1> DEFINE G == OnWay \cup {o}
<1>13. G \in SUBSET Proper /\ OnWay \subseteq G /\ \A x \in G \ OnWay : x = o
  BY <1>2, <1>5
<1> HIDE DEF G
<1>14. /\ Sure(brain, companion, xpilot.process, G)
       /\ Known(brain, companion, OnWay) => Known(brain, companion, G)
  <2>1. \A x \in G \ OnWay : /\ x.kind \in LocalKinds \cup {"Hello"}
                             /\ x.sequence = 0 /\ x.epoch <= companion.epoch
                             /\ x.kind = "Hello" => /\ x.process = xpilot.process
                                                    /\ brain.process = 0
    BY <1>3, <1>4, <1>11, <1>13
  <2> QED BY <1>2, <1>11, <1>13, <2>1, OtherSure
<1>15. /\ Sure(brain, companion', xpilot.process, G)
       /\ Known(brain, companion, OnWay) => Known(brain, companion', G)
  BY <1>1, <1>2, <1>6, <1>13, <1>14, RunSure
<1>16. Asked(brain, companion', pipe', client)
  BY <1>1, <1>6, <1>7 DEF LossBody, Asked
<1>17. Greeted(brain, companion', pipe', G)
  BY <1>1, <1>6, <1>7 DEF Greeted
<1>18. Spoilt(client, OnWay) => Spoilt(client, G)
  BY <1>13 DEF Spoilt
<1>19. OnWay' = G
  BY <1>10 DEF G
<1> QED BY <1>1, <1>6, <1>7, <1>9, <1>12, <1>15, <1>16, <1>17, <1>18, <1>19 DEF LossBody

\* A loss that is due is reported under the next number, in its own epoch.
LEMMA MaterializeReports ==
    ASSUME NEW c \in Companions, xpilot \in XPilots, LossIsDue(c.queue, QueueCapacity)
    PROVE  LET d == MaterializeLoss(c)
           IN  /\ d.sequence = c.sequence + 1 /\ ~Losing(d) /\ d.answer = c.answer
               /\ \E o \in Proper :
                      /\ Reports(o) /\ o.process = xpilot.process
                      /\ o.sequence = c.sequence + 1 /\ o.epoch = c.queue.loss.epoch
                      /\ d.queue.items = Append(c.queue.items, o)
<1> DEFINE base == NumberedIn(xpilot.process, c, "CapacityLoss")
           report == [base EXCEPT !.epoch = c.queue.loss.epoch]
           queue == ReportLoss(c.queue, report)
           d == [c EXCEPT !.sequence = report.sequence, !.queue = queue]
<1>1. xpilot.process \in Nat /\ c.sequence \in Nat /\ c.epoch \in Nat
  BY CompanionFields DEF XPilots
<1>2. /\ base \in Observation /\ base.kind = "CapacityLoss"
      /\ base.sequence = c.sequence + 1
  BY <1>1, NumberedType DEF Kinds
<1>3. c.queue \in ProperQueues /\ c.queue.loss.epoch \in Nat
  BY CompanionFields DEF ProperQueues
<1>4. base.process = xpilot.process
  BY DEF NumberedIn, Local
<1>5. MaterializeLoss(c) = d
  BY DEF MaterializeLoss
<1> HIDE DEF base
<1>6. /\ report \in Observation /\ report.kind = "CapacityLoss"
      /\ report.sequence = c.sequence + 1 /\ report.process = xpilot.process
      /\ report.epoch = c.queue.loss.epoch
  BY <1>2, <1>3, <1>4 DEF Observation
<1>7. report \in Proper /\ Reports(report)
  BY <1>6, OtherKindProper DEF LiveKinds, Reports
<1> HIDE DEF report
<1>8. queue.items = Append(c.queue.items, report) /\ queue.loss.count = 0
  BY DEF ReportLoss, NoLoss
<1> HIDE DEF queue
<1>9. d.queue = queue /\ d.sequence = report.sequence /\ d.answer = c.answer
  BY DEF Companions
<1> HIDE DEF d
<1> QED BY <1>5, <1>6, <1>7, <1>8, <1>9 DEF Losing

\* The runner writes the first of its queue, and reports a loss when that leaves
\* the queue room.
LEMMA WriteObservationLoss ==
    ASSUME IInv, IInv', LossBody, WriteObservation, UNCHANGED otherVars
    PROVE  LossBody'
<1> DEFINE q == companion.queue.items
           p == pipe.toBrain
           a == client.incoming.items
           rest == Tail(q)
           sent == Append(p, Head(q))
           queue == [companion.queue EXCEPT !.items = rest]
           c == [companion EXCEPT !.queue = queue]
           d == MaterializeLoss(c)
<1>1. /\ brain \in Brains /\ companion \in Companions /\ companion' \in Companions
      /\ xpilot \in XPilots /\ xpilot.process \in Nat /\ OnWay \in SUBSET Proper
      /\ pipe \in Pipes /\ client \in Clients /\ AnswerInv(companion)
  BY LossTyped DEF IInv, CompanionInv
<1>2. /\ q \in Seq(Proper) /\ p \in Seq(Proper) /\ a \in Seq(Proper)
      /\ companion.queue \in ProperQueues /\ Len(q) \in Nat
  BY <1>1, FlowTyped
<1>3. Sure(brain, companion, xpilot.process, OnWay) /\ Line(a, p, q)
  BY DEF LossBody
<1>4. MaterializeLoss(companion) = companion
  <2>1. ~LossIsDue(companion.queue, QueueCapacity)
    BY <1>2, <1>3, Bounds DEF Sure, Reported, Losing, LossIsDue
  <2> QED BY <2>1 DEF MaterializeLoss
<1>5. /\ q # <<>> /\ UNCHANGED xpilot /\ companion.answer.phase = "None"
      /\ pipe' = [pipe EXCEPT !.toBrain = sent]
      /\ companion' = MaterializeLoss([companion EXCEPT !.queue.items = rest])
  BY <1>4 DEF WriteObservation, RunnerIdle
<1>6. companion' = d
  BY <1>5
<1>7. /\ Head(q) \in Proper /\ rest \in Seq(Proper) /\ queue \in ProperQueues
      /\ Items(q) = {Head(q)} \cup Items(rest) /\ Items(sent) = Items(p) \cup {Head(q)}
  <2>1. queue \in ProperQueues
    BY <1>2, <1>5, DequeueType
  <2> QED BY <1>2, <1>5, <2>1, ItemsTake, ItemsAppend
<1>8. queue.items = rest /\ queue.loss = companion.queue.loss
  <2> HIDE DEF rest
  <2> QED BY <1>2 DEF ProperQueues
<1>9. Line(a, sent, rest) /\ sent \in Seq(Proper)
  BY <1>2, <1>3, <1>5, <1>7, LineWrites, AppendProperties
<1>10. OnWay = (Items(a) \cup Items(sent)) \cup Items(rest)
  BY <1>7 DEF OnWay
<1> HIDE DEF sent, rest
<1>11. pipe'.toBrain = sent /\ pipe'.live = pipe.live /\ pipe'.toCompanion = pipe.toCompanion
  BY <1>1, <1>5 DEF Pipes
<1> HIDE DEF queue
<1>12. /\ c \in Companions /\ c.queue = queue /\ c.sequence = companion.sequence
       /\ c.epoch = companion.epoch /\ c.held = companion.held
       /\ c.taken = companion.taken /\ c.answer = companion.answer
       /\ c.runner = companion.runner
  <2>1. c \in Companions
    BY <1>1, <1>7, ZenonT(60) DEF Companions
  <2> QED BY <1>1, <2>1 DEF Companions
<1> HIDE DEF c
<1>13. /\ d.epoch = companion.epoch /\ d.held = companion.held
       /\ d.taken = companion.taken /\ d.runner = companion.runner
  BY <1>12, MaterializeFields
<1>14. Losing(c) <=> Losing(companion)
  BY <1>8, <1>12 DEF Losing
<1> DEFINE F == OnWay
           G == (Items(a) \cup Items(sent)) \cup Items(d.queue.items)
<1>15. /\ d.answer = companion.answer
       /\ \/ /\ Wrote(companion, d, xpilot.process, F, G) /\ G = F
             /\ d.queue.items = rest
          \/ /\ Wrote(companion, d, xpilot.process, F, G)
             /\ \E o \in Proper : /\ Reports(o) /\ G = F \cup {o} /\ Ahead(F, {o})
                                  /\ d.queue.items = Append(rest, o)
  <2>1. CASE LossIsDue(c.queue, QueueCapacity)
    <3>1. /\ d.sequence = companion.sequence + 1 /\ ~Losing(d)
          /\ d.answer = companion.answer
      BY <1>1, <1>12, <2>1, MaterializeReports
    <3>2. PICK o \in Proper :
              /\ Reports(o) /\ o.process = xpilot.process
              /\ o.sequence = companion.sequence + 1
              /\ o.epoch = companion.queue.loss.epoch
              /\ d.queue.items = Append(rest, o)
      BY <1>1, <1>8, <1>12, <2>1, MaterializeReports
    <3>3. Losing(companion)
      BY <1>12, <1>14, <2>1 DEF LossIsDue, Losing
    <3>4. Items(d.queue.items) = Items(rest) \cup {o}
      BY <1>7, <3>2, ItemsAppend
    <3>5. G = F \cup {o}
      BY <1>10, <3>4
    <3> HIDE DEF F, G, d
    <3>6. Wrote(companion, d, xpilot.process, F, G)
      BY <3>1, <3>2, <3>3, <3>5 DEF Wrote
    <3>7. Ahead(F, {o})
      BY <1>3, <3>2, <3>3 DEF Sure, Reported, Ahead, InOrder, Reports, Completes, F
    <3> QED BY <3>1, <3>2, <3>5, <3>6, <3>7
  <2>2. CASE ~LossIsDue(c.queue, QueueCapacity)
    <3>1. d = c
      BY <2>2 DEF MaterializeLoss
    <3>2. Losing(companion) => Len(rest) >= QueueCapacity
      <4>1. Len(rest) \in Nat
        BY <1>7, LenProperties
      <4> QED BY <1>8, <1>12, <1>14, <2>2, <4>1, Bounds DEF LossIsDue, Losing
    <3>3. G = F /\ d.queue.items = rest
      BY <1>8, <1>10, <1>12, <3>1
    <3> HIDE DEF F, G, d
    <3>4. Wrote(companion, d, xpilot.process, F, G)
      BY <1>8, <1>12, <3>1, <3>2, <3>3 DEF Wrote
    <3> QED BY <1>12, <3>1, <3>3, <3>4
  <2> QED BY <2>1, <2>2
<1>16. UNCHANGED <<client, brain, xpilot>>
  BY <1>5 DEF otherVars
<1>17. OnWay' = G
  BY <1>6, <1>11, <1>16 DEF OnWay
<1>18. F \in SUBSET Proper /\ Sure(brain, companion, xpilot.process, F)
  BY <1>1, <1>3
<1>19. companion' = d /\ d \in Companions
  BY <1>1, <1>6
<1> DEFINE items == d.queue.items
<1>20. F = (Items(a) \cup Items(sent)) \cup Items(rest)
  BY <1>10
<1> HIDE DEF d, F, G
<1>21. /\ Sure(brain, d, xpilot.process, G)
       /\ Known(brain, companion, F) => Known(brain, d, G)
  BY <1>1, <1>5, <1>13, <1>15, <1>18, <1>19, WriteSure
<1>22. Line(a, sent, items)
  <2>1. ASSUME NEW o \in Proper, Ahead(F, {o}) PROVE Line(a, sent, Append(rest, o))
    <3> HIDE DEF a
    <3> QED BY <1>2, <1>7, <1>9, <1>20, <2>1, LineAppend
  <2> QED BY <1>9, <1>15, <2>1
<1>23. F \subseteq G /\ \A x \in G \ F : Reports(x)
  BY <1>15
<1>24. Asked(brain, d, pipe', client)
  BY <1>11, <1>15 DEF LossBody, Asked
<1>25. Greeted(brain, d, pipe', G)
  <2>1. companion.runner = "Connected"
    BY DEF WriteObservation, RunnerIdle
  <2> QED BY <1>11, <1>13, <2>1 DEF LossBody, Greeted
<1>26. Spoilt(client, F) => Spoilt(client, G)
  BY <1>23 DEF Spoilt
<1>27. Spoilt(client, F) \/ Known(brain, companion, F)
  BY DEF LossBody, F
<1> HIDE DEF items
<1> QED BY <1>11, <1>16, <1>17, <1>19, <1>21, <1>22, <1>24, <1>25, <1>26, <1>27
        DEF LossBody, items

-----------------------------------------------------------------------------
(* The steps of the client                                                 *)

\* What is published joins the queue, or its loss is counted.
LEMMA PublishCases ==
    ASSUME NEW c \in Clients, NEW o
    PROVE  LET d == Publish(c, o)
           IN  /\ d.connected = c.connected /\ d.outgoing = c.outgoing
               /\ \/ /\ d.incoming.items = Append(c.incoming.items, o)
                     /\ d.incoming.loss = c.incoming.loss
                  \/ /\ d.incoming.items = c.incoming.items
                     /\ d.incoming.loss.count > 0
<1> DEFINE items == Append(c.incoming.items, o)
           loss == [count |-> c.incoming.loss.count + 1,
                    epoch |-> IF c.incoming.loss.count = 0 THEN o.epoch
                              ELSE c.incoming.loss.epoch]
           more == [c.incoming EXCEPT !.items = items]
           lost == [c.incoming EXCEPT !.loss = loss]
           q == Offer(c.incoming, o, IncomingCapacity)
           d == [c EXCEPT !.incoming = q]
<1>1. c.incoming \in ProperQueues /\ c.incoming.loss.count \in Nat
  BY ClientFields DEF ProperQueues
<1>2. q \in {lost, more}
  BY DEF Offer, RecordLoss
<1>3. loss.count > 0
  BY <1>1
<1> HIDE DEF items, loss
<1>4. /\ more.items = items /\ more.loss = c.incoming.loss
      /\ lost.items = c.incoming.items /\ lost.loss = loss
  BY <1>1 DEF ProperQueues
<1> HIDE DEF more, lost, q
<1>5. d.incoming = q /\ d.connected = c.connected /\ d.outgoing = c.outgoing
  BY DEF Clients
<1>6. Publish(c, o) = d
  BY DEF Publish, q
<1> HIDE DEF d
<1> QED BY <1>2, <1>3, <1>4, <1>5, <1>6 DEF items

\* The client reports a pipe that it opens or loses.
LEMMA ClientReports ==
    ASSUME IInv, LossBody, NEW kind \in {"TransportConnected", "TransportDisconnected"},
           NEW connected \in BOOLEAN, UNCHANGED <<xpilot, brain>>,
           client' = Publish([client EXCEPT !.connected = connected], Local(kind)),
           pipe'.toBrain = pipe.toBrain, companion'.queue = companion.queue
    PROVE  /\ Sure(brain, companion, xpilot.process, OnWay')
           /\ Known(brain, companion, OnWay) => Known(brain, companion, OnWay')
           /\ Line(client'.incoming.items, pipe'.toBrain, companion'.queue.items)
           /\ Spoilt(client, OnWay) => Spoilt(client', OnWay')
           /\ \A x \in OnWay' : x \in OnWay \/ x.kind # "Hello"
           /\ OnWay' \in SUBSET Proper /\ client'.outgoing = client.outgoing
<1> DEFINE c == [client EXCEPT !.connected = connected]
           o == Local(kind)
           a == client.incoming.items
           p == pipe.toBrain
           q == companion.queue.items
<1>1. /\ brain \in Brains /\ companion \in Companions /\ xpilot.process \in Nat
      /\ pipe \in Pipes /\ client \in Clients /\ OnWay \in SUBSET Proper
  BY LossTyped
<1>2. /\ c \in Clients /\ c.incoming = client.incoming /\ c.outgoing = client.outgoing
  BY <1>1, ConnectedClientType, ConnectedFields DEF Clients
<1> HIDE DEF c
<1>3. /\ client'.outgoing = client.outgoing
      /\ \/ client'.incoming.items = Append(a, o) /\ client'.incoming.loss = client.incoming.loss
         \/ client'.incoming.items = a /\ client'.incoming.loss.count > 0
  BY <1>2, PublishCases DEF c
<1>4. /\ o \in Proper /\ o.kind = kind /\ o.kind \in LocalKinds /\ o.kind # "Hello"
      /\ o.sequence = 0 /\ o.epoch = 0 /\ o.kind # "LocalCapacityLoss"
  BY LocalProper DEF Local, LocalKinds
<1>5. a \in Seq(Proper) /\ p \in Seq(Proper) /\ q \in Seq(Proper)
  BY <1>1, FlowTyped
<1>6. companion.epoch \in Nat
  BY <1>1, CompanionFields
<1>7. /\ OnWay = (Items(a) \cup Items(p)) \cup Items(q)
      /\ OnWay' = (Items(client'.incoming.items) \cup Items(p)) \cup Items(q)
  BY DEF OnWay
<1> HIDE DEF o
<1>8. Items(Append(a, o)) = Items(a) \cup {o}
  BY <1>4, <1>5, ItemsAppend
<1>9. OnWay' = OnWay \/ OnWay' = OnWay \cup {o}
  BY <1>3, <1>7, <1>8
<1>10. Line(client'.incoming.items, p, q)
  <2>1. Line(a, p, q)
    BY DEF LossBody
  <2>2. Line(Append(a, o), p, q)
    BY <1>4, <1>5, <2>1, LineReports
  <2> QED BY <1>3, <2>1, <2>2
<1> DEFINE F == OnWay
           G == OnWay'
<1>11. Sure(brain, companion, xpilot.process, F)
  BY DEF LossBody
<1>12. /\ F \in SUBSET Proper /\ G \in SUBSET Proper /\ F \subseteq G
       /\ \A x \in G \ F : x = o
  BY <1>1, <1>4, <1>9
<1>13. Spoilt(client, F) => Spoilt(client', G)
  BY <1>3, <1>12 DEF Spoilt
<1> HIDE DEF F, G
<1>14. /\ Sure(brain, companion, xpilot.process, G)
       /\ Known(brain, companion, F) => Known(brain, companion, G)
  <2>1. \A x \in G \ F : /\ x.kind \in LocalKinds \cup {"Hello"}
                         /\ x.sequence = 0 /\ x.epoch <= companion.epoch
                         /\ x.kind = "Hello" => /\ x.process = xpilot.process
                                                /\ brain.process = 0
    BY <1>4, <1>6, <1>12
  <2> QED BY <1>1, <1>11, <1>12, <2>1, OtherSure
<1>15. \A x \in G : x \in F \/ x.kind # "Hello"
  BY <1>4, <1>12
<1> QED BY <1>3, <1>10, <1>12, <1>13, <1>14, <1>15 DEF F, G

\* The client opens the pipe the companion waits on.
LEMMA ConnectClientLoss ==
    ASSUME IInv, IInv', LossBody, ConnectClient
    PROVE  LossBody'
<1> DEFINE c == [companion EXCEPT !.runner = "Greeting"]
<1>1. /\ companion.runner = "Listening" /\ companion' = c
      /\ pipe' = [DeadPipe EXCEPT !.live = TRUE]
      /\ client' = Publish([client EXCEPT !.connected = TRUE], Local("TransportConnected"))
      /\ UNCHANGED <<xpilot, brain>>
  BY DEF ConnectClient
<1>2. companion \in Companions /\ brain \in Brains /\ xpilot.process \in Nat
      /\ c \in Companions
  BY <1>1, LossTyped DEF IInv, CompanionInv
<1>3. /\ c.sequence = companion.sequence /\ c.epoch = companion.epoch
      /\ c.held = companion.held /\ c.taken = companion.taken
      /\ c.queue = companion.queue /\ c.answer = companion.answer
      /\ c.runner = "Greeting"
  BY <1>2 DEF Companions
<1> HIDE DEF c
<1>4. pipe'.toBrain = <<>> /\ pipe'.live /\ pipe'.toCompanion = <<>>
  BY <1>1 DEF DeadPipe
<1>5. /\ pipe.toBrain = <<>> /\ brain.process = 0 /\ \A x \in OnWay : x.kind # "Hello"
  BY <1>1 DEF LossBody, Greeted
<1>6. /\ Sure(brain, companion, xpilot.process, OnWay')
      /\ Known(brain, companion, OnWay) => Known(brain, companion, OnWay')
      /\ Line(client'.incoming.items, pipe'.toBrain, companion'.queue.items)
      /\ Spoilt(client, OnWay) => Spoilt(client', OnWay')
      /\ \A x \in OnWay' : x \in OnWay \/ x.kind # "Hello"
      /\ OnWay' \in SUBSET Proper /\ client'.outgoing = client.outgoing
  BY <1>1, <1>3, <1>4, <1>5, ClientReports
<1> HIDE DEF OnWay
<1>7. /\ Sure(brain, c, xpilot.process, OnWay')
      /\ Known(brain, companion, OnWay') => Known(brain, c, OnWay')
  BY <1>2, <1>3, <1>6, RunSure
<1>8. Asked(brain, c, pipe', client')
  BY <1>3, <1>4, <1>6, ItemsType DEF LossBody, Asked
<1>9. Greeted(brain, c, pipe', OnWay')
  BY <1>3, <1>4, <1>5, <1>6 DEF Greeted
<1> QED BY <1>1, <1>6, <1>7, <1>8, <1>9 DEF LossBody

\* The client reports a pipe that failed.
LEMMA NoticeLoss ==
    ASSUME IInv, IInv', LossBody, NoticeDisconnect
    PROVE  LossBody'
<1>1. /\ client' = Publish([client EXCEPT !.connected = FALSE],
                           Local("TransportDisconnected"))
      /\ UNCHANGED <<xpilot, brain, companion, pipe>>
  BY DEF NoticeDisconnect
<1>2. /\ Sure(brain, companion, xpilot.process, OnWay')
      /\ Known(brain, companion, OnWay) => Known(brain, companion, OnWay')
      /\ Line(client'.incoming.items, pipe'.toBrain, companion'.queue.items)
      /\ Spoilt(client, OnWay) => Spoilt(client', OnWay')
      /\ \A x \in OnWay' : x \in OnWay \/ x.kind # "Hello"
      /\ client'.outgoing = client.outgoing
  BY <1>1, ClientReports
<1> HIDE DEF OnWay
<1>3. Asked(brain, companion, pipe, client')
  BY <1>2 DEF LossBody, Asked
<1>4. Greeted(brain, companion, pipe, OnWay')
  BY <1>2 DEF LossBody, Greeted
<1> QED BY <1>1, <1>2, <1>3, <1>4 DEF LossBody

\* A command moves from the client to the pipe.
LEMMA FlushLoss ==
    ASSUME IInv, IInv', LossBody, FlushCommand
    PROVE  LossBody'
<1> DEFINE l == client.outgoing
           t == pipe.toCompanion
           sent == Append(t, Head(l))
           rest == Tail(l)
<1>1. /\ l # <<>> /\ pipe' = [pipe EXCEPT !.toCompanion = sent]
      /\ client' = [client EXCEPT !.outgoing = rest]
      /\ UNCHANGED <<xpilot, brain, companion>>
  BY DEF FlushCommand
<1>2. pipe \in Pipes /\ client \in Clients
  BY LossTyped
<1>3. l \in Seq(Nat) /\ t \in Seq(Nat)
  BY <1>2 DEF Pipes, Clients
<1>4. /\ Items(sent) = Items(t) \cup {Head(l)} /\ Items(l) = {Head(l)} \cup Items(rest)
  BY <1>1, <1>3, ItemsAppend, ItemsTake
<1> HIDE DEF sent, rest
<1>5. /\ pipe'.live = pipe.live /\ pipe'.toBrain = pipe.toBrain /\ pipe'.toCompanion = sent
      /\ client'.incoming = client.incoming /\ client'.outgoing = rest
  BY <1>1, <1>2 DEF Pipes, Clients
<1>6. OnWay' = OnWay
  BY <1>1, <1>5 DEF OnWay
<1> HIDE DEF OnWay
<1>7. Asked(brain, companion, pipe', client')
  BY <1>4, <1>5 DEF LossBody, Asked
<1>8. Greeted(brain, companion, pipe', OnWay)
  BY <1>5 DEF LossBody, Greeted
<1>9. Spoilt(client, OnWay) => Spoilt(client', OnWay)
  BY <1>5 DEF Spoilt
<1> QED BY <1>1, <1>5, <1>6, <1>7, <1>8, <1>9 DEF LossBody

\* An observation moves from the pipe to the client's queue, or it is lost there
\* and the client has a loss to report.
LEMMA ReadLoss ==
    ASSUME IInv, IInv', LossBody, ReadObservation
    PROVE  LossBody'
<1> DEFINE a == client.incoming.items
           p == pipe.toBrain
           q == companion.queue.items
           h == Head(p)
           rest == Tail(p)
<1>1. /\ p # <<>> /\ pipe' = [pipe EXCEPT !.toBrain = rest]
      /\ client' = Publish(client, h)
      /\ UNCHANGED <<xpilot, brain, companion>>
  BY DEF ReadObservation
<1>2. /\ brain \in Brains /\ companion \in Companions /\ xpilot.process \in Nat
      /\ pipe \in Pipes /\ client \in Clients /\ OnWay \in SUBSET Proper
  BY LossTyped
<1>3. a \in Seq(Proper) /\ p \in Seq(Proper) /\ q \in Seq(Proper)
  BY <1>2, FlowTyped
<1>4. h \in Proper /\ rest \in Seq(Proper) /\ Items(p) = {h} \cup Items(rest)
      /\ Items(Append(a, h)) = Items(a) \cup {h}
  BY <1>1, <1>3, ItemsTake, ItemsAppend
<1>5. Line(Append(a, h), rest, q) /\ Line(a, rest, q)
  BY <1>1, <1>3, LineReads DEF LossBody
<1> HIDE DEF h, rest
<1>6. /\ pipe'.live = pipe.live /\ pipe'.toBrain = rest
      /\ pipe'.toCompanion = pipe.toCompanion
  BY <1>1, <1>2 DEF Pipes
<1>7. /\ client'.outgoing = client.outgoing
      /\ \/ client'.incoming.items = Append(a, h) /\ client'.incoming.loss = client.incoming.loss
         \/ client'.incoming.items = a /\ client'.incoming.loss.count > 0
  BY <1>1, <1>2, PublishCases
<1>8. /\ OnWay = (Items(a) \cup Items(p)) \cup Items(q)
      /\ OnWay' = (Items(client'.incoming.items) \cup Items(rest)) \cup Items(q)
  BY <1>1, <1>6 DEF OnWay
<1>9. /\ OnWay' \subseteq OnWay
      /\ \/ OnWay' = OnWay /\ client'.incoming.loss = client.incoming.loss
         \/ client'.incoming.loss.count > 0
  BY <1>4, <1>7, <1>8
<1>10. Line(client'.incoming.items, pipe'.toBrain, q)
  BY <1>5, <1>6, <1>7
<1> HIDE DEF OnWay
<1>11. Sure(brain, companion, xpilot.process, OnWay')
  <2>1. OnWay' \in SUBSET Proper /\ OnWay' \ OnWay = {}
    BY <1>2, <1>9
  <2>2. Sure(brain, companion, xpilot.process, OnWay)
    BY DEF LossBody
  <2> QED BY <1>2, <2>1, <2>2, OtherSure
<1>12. Asked(brain, companion, pipe', client')
  BY <1>6, <1>7 DEF LossBody, Asked
<1>13. Greeted(brain, companion, pipe', OnWay')
  <2>1. companion.runner \notin {"Closed", "Listening", "Greeting"}
    BY <1>1 DEF LossBody, Greeted
  <2> QED BY <1>6, <2>1 DEF LossBody, Greeted
<1>14. Spoilt(client', OnWay') \/ Known(brain, companion, OnWay')
  BY <1>9 DEF LossBody, Spoilt
<1> QED BY <1>1, <1>10, <1>11, <1>12, <1>13, <1>14 DEF LossBody

-----------------------------------------------------------------------------
(* The steps of the Brain                                                  *)

\* The queue has one observation less; a loss of its own moves up as a report.
LEMMA HarvestCases ==
    ASSUME IInv, Harvest
    PROVE  /\ client.incoming.items # <<>> /\ Consume(Head(client.incoming.items))
           /\ client'.connected = client.connected /\ client'.outgoing = client.outgoing
           /\ \/ /\ client'.incoming.items = Tail(client.incoming.items)
                 /\ client'.incoming.loss = client.incoming.loss
              \/ client'.incoming.items =
                     Append(Tail(client.incoming.items), Local("LocalCapacityLoss"))
           /\ UNCHANGED companionVars
<1> DEFINE items == Tail(client.incoming.items)
           rest == [client.incoming EXCEPT !.items = items]
           queue == IF LossIsDue(rest, IncomingCapacity)
                    THEN ReportLoss(rest, Local("LocalCapacityLoss")) ELSE rest
<1>1. /\ client.incoming.items # <<>> /\ Consume(Head(client.incoming.items))
      /\ client' = [client EXCEPT !.incoming = queue]
      /\ UNCHANGED companionVars
  BY DEF Harvest
<1>2. client.incoming \in ProperQueues /\ client \in Clients
  BY ClientFields DEF IInv
<1> HIDE DEF items
<1>3. rest.items = items /\ rest.loss = client.incoming.loss
  BY <1>2 DEF ProperQueues
<1> HIDE DEF rest
<1>4. queue = rest \/ queue.items = Append(rest.items, Local("LocalCapacityLoss"))
  BY DEF ReportLoss
<1> HIDE DEF queue
<1>5. /\ client'.incoming = queue /\ client'.connected = client.connected
      /\ client'.outgoing = client.outgoing
  BY <1>1, <1>2 DEF Clients
<1> QED BY <1>1, <1>3, <1>4, <1>5 DEF items

\* The Brain takes the first observation on its way.
LEMMA HarvestLoss ==
    ASSUME IInv, IInv', LossBody, Harvest
    PROVE  LossBody'
<1> DEFINE a == client.incoming.items
           p == pipe.toBrain
           q == companion.queue.items
           h == Head(a)
           rest == Tail(a)
           l == Local("LocalCapacityLoss")
           F == (Items(rest) \cup Items(p)) \cup Items(q)
<1>1. /\ brain \in Brains /\ companion \in Companions /\ xpilot.process \in Nat
      /\ pipe \in Pipes /\ client \in Clients /\ OnWay \in SUBSET Proper
      /\ brain' \in Brains /\ BrainInv
  BY LossTyped DEF IInv, BrainInv, Sound
<1>2. a \in Seq(Proper) /\ p \in Seq(Proper) /\ q \in Seq(Proper)
  BY <1>1, FlowTyped
<1>3. /\ a # <<>> /\ Consume(h) /\ client'.outgoing = client.outgoing
      /\ \/ client'.incoming.items = rest /\ client'.incoming.loss = client.incoming.loss
         \/ client'.incoming.items = Append(rest, l)
      /\ UNCHANGED <<xpilot, companion, pipe>>
  BY HarvestCases DEF companionVars
<1>4. h \in Proper /\ rest \in Seq(Proper) /\ Items(a) = {h} \cup Items(rest)
  BY <1>2, <1>3, ItemsTake
<1>5. Line(rest, p, q) /\ Ahead({h}, F)
  BY <1>2, <1>3, LineTakes DEF LossBody
<1>6. /\ l \in Proper /\ l.kind = "LocalCapacityLoss" /\ l.kind \in LocalKinds
      /\ l.sequence = 0 /\ l.epoch = 0 /\ l.kind # "Hello"
  BY LocalProper DEF Local, LocalKinds
<1>7. companion.epoch \in Nat
  BY <1>1, CompanionFields
<1>8. Hears(brain, h, brain')
  BY <1>1, <1>3, <1>4, ConsumeHears
<1> HIDE DEF h, rest, l
<1>9. OnWay = {h} \cup F
  BY <1>4 DEF OnWay
<1>10. Items(Append(rest, l)) = Items(rest) \cup {l}
  BY <1>4, <1>6, ItemsAppend
<1>11. \/ /\ client'.incoming.items = rest /\ client'.incoming.loss = client.incoming.loss
          /\ OnWay' = F
       \/ client'.incoming.items = Append(rest, l) /\ OnWay' = F \cup {l}
  BY <1>3, <1>10 DEF OnWay
<1>12. Line(client'.incoming.items, p, q)
  <2>1. Line(Append(rest, l), p, q)
    BY <1>2, <1>4, <1>5, <1>6, LineReports
  <2> QED BY <1>5, <1>11, <2>1
<1> DEFINE G == OnWay'
<1>13. /\ F \in SUBSET Proper /\ G \in SUBSET Proper /\ F \subseteq G
       /\ \A x \in G \ F : x = l
  BY <1>1, <1>6, <1>9, <1>11
<1>14. Sure(brain, companion, xpilot.process, {h} \cup F)
  BY <1>9 DEF LossBody
<1> HIDE DEF F, G, OnWay
<1>15. Sure(brain', companion, xpilot.process, F)
  BY <1>1, <1>4, <1>5, <1>8, <1>13, <1>14, HearsSure
<1>16. /\ Sure(brain', companion, xpilot.process, G)
       /\ Known(brain', companion, F) => Known(brain', companion, G)
  <2>1. \A x \in G \ F : /\ x.kind \in LocalKinds \cup {"Hello"}
                         /\ x.sequence = 0 /\ x.epoch <= companion.epoch
                         /\ x.kind = "Hello" => /\ x.process = xpilot.process
                                                /\ brain'.process = 0
    BY <1>6, <1>7, <1>13
  <2> QED BY <1>1, <1>13, <1>15, <2>1, OtherSure
<1>17. Asked(brain', companion, pipe, client')
  BY <1>3, <1>8 DEF LossBody, Asked, Hears
<1>18. Greeted(brain', companion, pipe, G)
  <2>1. \A x \in G : x \in F \/ x.kind # "Hello"
    BY <1>6, <1>13
  <2>2. h.kind # "Hello" => brain'.process = brain.process
    BY <1>8 DEF Hears
  <2> QED BY <1>9, <2>1, <2>2 DEF LossBody, Greeted
<1>19. Spoilt(client', G) \/ Known(brain', companion, G)
  <2>1. CASE client'.incoming.items = Append(rest, l) /\ OnWay' = F \cup {l}
    <3>1. l \in G
      BY <2>1 DEF G
    <3> QED BY <1>6, <3>1 DEF Spoilt
  <2>2. CASE client'.incoming.loss = client.incoming.loss
    <3>1. CASE Known(brain, companion, {h} \cup F) \/ h.kind = "LocalCapacityLoss"
      <4>1. Known(brain', companion, F)
        BY <1>1, <1>4, <1>5, <1>8, <1>13, <1>14, <3>1, HearsKnown
      <4> QED BY <1>16, <4>1
    <3>2. CASE ~(Known(brain, companion, {h} \cup F) \/ h.kind = "LocalCapacityLoss")
      <4>1. Spoilt(client, {h} \cup F)
        BY <1>9, <3>2 DEF LossBody
      <4> QED BY <1>13, <2>2, <3>2, <4>1 DEF Spoilt
    <3> QED BY <3>1, <3>2
  <2> QED BY <1>11, <2>1, <2>2
<1> QED BY <1>3, <1>12, <1>16, <1>17, <1>18, <1>19 DEF LossBody, G

\* The Brain is the same as far as the list and the numbers are concerned.
LEMMA AlikeLoss ==
    ASSUME IInv, IInv', LossBody, UNCHANGED <<xpilot, companion, pipe, client>>,
           Alike(brain, brain')
    PROVE  LossBody'
<1>1. /\ brain \in Brains /\ companion \in Companions /\ xpilot.process \in Nat
      /\ brain' \in Brains /\ OnWay \in SUBSET Proper
  BY LossTyped DEF IInv, BrainInv, Sound
<1>2. OnWay' = OnWay
  BY DEF OnWay
<1> HIDE DEF OnWay
<1>3. Serves(brain, brain', FALSE)
  BY DEF Alike, Serves
<1>4. /\ Sure(brain', companion, xpilot.process, OnWay)
      /\ Known(brain, companion, OnWay) => Known(brain', companion, OnWay)
  BY <1>1, <1>3, ServesSure DEF LossBody
<1>5. Asked(brain', companion, pipe, client)
  BY DEF LossBody, Asked, Alike
<1>6. Greeted(brain', companion, pipe, OnWay)
  BY DEF LossBody, Greeted, Alike
<1> QED BY <1>2, <1>4, <1>5, <1>6 DEF LossBody

\* The call ends, and the Brain may ask for a list.
LEMMA ServeLoss ==
    ASSUME IInv, IInv', LossBody, NEW late \in BOOLEAN, Serve(late)
    PROVE  LossBody'
<1> DEFINE room == /\ Len(client.outgoing) < OutgoingCapacity
                   /\ brain.nextRequest <= MaxRequests
           asks == RequestsSnapshot(late, room)
           r == brain.nextRequest
           more == Append(client.outgoing, r)
<1>1. /\ brain \in Brains /\ companion \in Companions /\ xpilot.process \in Nat
      /\ brain' \in Brains /\ OnWay \in SUBSET Proper /\ BrainInv /\ client \in Clients
      /\ r \in Nat /\ client.outgoing \in Seq(Nat)
  BY LossTyped, BrainFields, ClientFields DEF IInv, BrainInv, Sound
<1>2. /\ EndService(late, room)
      /\ client' = IF asks THEN [client EXCEPT !.outgoing = more] ELSE client
      /\ UNCHANGED <<xpilot, companion, pipe>>
  BY DEF Serve
<1>3. asks \in BOOLEAN
  BY DEF RequestsSnapshot, NeedsSnapshot, Available
<1>4. Serves(brain, brain', asks)
  BY <1>1, <1>2, EndServes
<1> HIDE DEF room, asks
<1>5. Items(more) = Items(client.outgoing) \cup {r}
  BY <1>1, ItemsAppend
<1> HIDE DEF more
<1>6. /\ client'.incoming = client.incoming
      /\ asks => client'.outgoing = more
      /\ ~asks => client'.outgoing = client.outgoing
  BY <1>1, <1>2 DEF Clients
<1>7. OnWay' = OnWay
  BY <1>2, <1>6 DEF OnWay
<1> HIDE DEF OnWay
<1>8. /\ Sure(brain', companion, xpilot.process, OnWay)
      /\ Known(brain, companion, OnWay) => Known(brain', companion, OnWay)
  BY <1>1, <1>3, <1>4, ServesSure DEF LossBody
<1>9. Asked(brain', companion, pipe, client')
  <2>1. /\ asks => brain'.nextRequest = r + 1
        /\ ~asks => brain'.nextRequest = r
    BY <1>4 DEF Serves
  <2>2. /\ \A x \in Items(pipe.toCompanion) \cup Items(client.outgoing) : x \in Nat /\ x < r
        /\ companion.answer.phase # "None" => companion.answer.request < r
    <3>1. Items(pipe.toCompanion) \subseteq Nat /\ Items(client.outgoing) \subseteq Nat
      BY LossTyped, FlowTyped, ItemsType
    <3> QED BY <3>1 DEF LossBody, Asked
  <2>3. companion.answer.request \in Nat
    BY <1>1, Numbers
  <2>4. CASE asks
    BY <1>1, <1>5, <1>6, <2>1, <2>2, <2>3, <2>4 DEF Asked
  <2>5. CASE ~asks
    BY <1>6, <2>1, <2>2, <2>5 DEF Asked
  <2> QED BY <2>4, <2>5
<1>10. Greeted(brain', companion, pipe, OnWay)
  BY <1>4 DEF LossBody, Greeted, Serves
<1>11. Spoilt(client, OnWay) => Spoilt(client', OnWay)
  BY <1>6 DEF Spoilt
<1> QED BY <1>2, <1>6, <1>7, <1>8, <1>9, <1>10, <1>11 DEF LossBody

-----------------------------------------------------------------------------
(* Losses are reported                                                     *)

\* What the threads have in hand has nothing to do with the runner's pipe.
LEMMA HandsRunner ==
    ASSUME CompanionInv, CaptureHeld \/ NumberAnswer \/ CaptureTaken
    PROVE  companion'.runner = companion.runner
<1>1. companion \in Companions
  BY DEF CompanionInv
<1>2. CASE CaptureHeld
  <2>1. \E q, s, r : companion' = [companion EXCEPT !.queue = q, !.stopping = s,
                                                    !.raced = r, !.held = Nothing]
    BY <1>2 DEF CaptureHeld
  <2> QED BY <1>1, <2>1 DEF Companions
<1>3. CASE NumberAnswer
  <2>1. \E s, t, r : companion' = [companion EXCEPT !.sequence = s, !.taken = t,
                                                    !.answer = r]
    BY <1>3 DEF NumberAnswer
  <2> QED BY <1>1, <2>1 DEF Companions
<1>4. CASE CaptureTaken
  <2>1. \E q, r : companion' = [companion EXCEPT !.queue = q, !.taken = Nothing,
                                                 !.answer = r]
    BY <1>4 DEF CaptureTaken
  <2> QED BY <1>1, <2>1 DEF Companions
<1> QED BY <1>2, <1>3, <1>4

\* A process that lasts does not start again once it has stopped.
LEMMA StoppedStays ==
    ASSUME CompanionInv, [Next]_vars, Lasting, companion.runner = "Stopped"
    PROVE  companion'.runner = "Stopped"
<1>1. ~RestartXPilot
  BY DEF RestartXPilot, Disturbed, Lasting
<1>2. CASE Host
  BY <1>2, HostRaises DEF RaisedOne
<1>3. CASE CaptureHeld \/ Runner
  <2>1. CaptureHeld \/ NumberAnswer \/ CaptureTaken
    BY <1>3 DEF Runner, CreatePipe, WriteHello, WriteObservation, LosePipe,
                StopGracefully, ReadCommand, RunnerIdle
  <2> QED BY <2>1, HandsRunner
<1>4. CASE ClientStep \/ BrainStep \/ BreakPipe \/ RestartPlugin \/ UNCHANGED vars
  <2>1. UNCHANGED companion
    BY <1>4 DEF ClientStep, ConnectClient, FlushCommand, ReadObservation,
                NoticeDisconnect, BrainStep, Harvest, Serve, BreakPipe, RestartPlugin,
                companionVars, vars
  <2> QED BY <2>1
<1> QED BY <1>1, <1>2, <1>3, <1>4 DEF Next, CompanionStep

\* What the companion does.
LEMMA CompanionLoss ==
    ASSUME IInv, IInv', LossBody, CompanionStep, Lasting, companion'.runner # "Stopped"
    PROVE  LossBody'
<1>1. UNCHANGED otherVars
  BY DEF CompanionStep, otherVars
<1>2. CASE Host
  BY <1>1, <1>2, HostLoss
<1>3. CASE CaptureHeld
  BY <1>1, <1>3, CaptureHeldLoss
<1>4. CASE RestartXPilot
  BY <1>4 DEF RestartXPilot, Disturbed, Lasting
<1>5. CASE CreatePipe
  BY <1>1, <1>5, CreatePipeLoss
<1>6. CASE WriteHello
  BY <1>1, <1>6, WriteHelloLoss
<1>7. CASE WriteObservation
  BY <1>1, <1>7, WriteObservationLoss
<1>8. CASE LosePipe
  BY <1>8 DEF LosePipe, RunnerIdle, LossBody, Greeted
<1>9. CASE StopGracefully
  <2>1. companion' = [companion EXCEPT !.runner = "Stopped"] /\ companion \in Companions
    BY <1>9 DEF StopGracefully, IInv, CompanionInv
  <2> QED BY <2>1 DEF Companions
<1>10. CASE \E readable \in BOOLEAN : ReadCommand(readable)
  BY <1>1, <1>10, ReadCommandLoss
<1>11. CASE NumberAnswer
  BY <1>1, <1>11, NumberAnswerLoss
<1>12. CASE CaptureTaken
  BY <1>1, <1>12, CaptureTakenLoss
<1> QED BY <1>2, <1>3, <1>4, <1>5, <1>6, <1>7, <1>8, <1>9, <1>10, <1>11, <1>12
        DEF CompanionStep, Runner

\* What the Brain does.
LEMMA BrainLoss ==
    ASSUME IInv, IInv', LossBody, BrainStep
    PROVE  LossBody'
<1>1. CASE Harvest
  BY <1>1, HarvestLoss
<1>2. CASE \E late \in BOOLEAN : Serve(late)
  BY <1>2, ServeLoss
<1>3. CASE /\ FlightChanges \/ (ExpireDeferred /\ Disturbed("messages expire"))
           /\ UNCHANGED <<xpilot, companion, pipe, client>>
  <2>1. brain \in Brains
    BY LossTyped
  <2>2. brain' = brain \/ \E d : brain' = [brain EXCEPT !.deferred = d]
    BY <1>3 DEF FlightChanges, ChangeFlight, ExpireDeferred
  <2>3. Alike(brain, brain')
    BY <2>1, <2>2, OthersAlike
  <2> QED BY <1>3, <2>3, AlikeLoss
<1> QED BY <1>1, <1>2, <1>3 DEF BrainStep

\* While the pipe and the processes last, every step preserves the invariant.
LEMMA LossStep ==
    ASSUME IInv, IInv', LossInv, [Next]_vars, Lasting
    PROVE  LossInv'
<1> SUFFICES ASSUME companion'.runner # "Stopped" PROVE LossBody'
  BY DEF LossInv, LossBody
<1>1. companion.runner # "Stopped"
  BY StoppedStays DEF IInv
<1>2. LossBody
  BY <1>1 DEF LossInv, LossBody
<1>3. CASE CompanionStep
  BY <1>2, <1>3, CompanionLoss
<1>4. CASE ClientStep
  BY <1>2, <1>4, ConnectClientLoss, FlushLoss, ReadLoss, NoticeLoss DEF ClientStep
<1>5. CASE BrainStep
  BY <1>2, <1>5, BrainLoss
<1>6. ~BreakPipe /\ ~RestartPlugin
  BY DEF BreakPipe, RestartPlugin, Disturbed, Lasting
<1>7. CASE UNCHANGED vars
  <2>1. UNCHANGED <<xpilot, companion, pipe, client, brain>>
    BY <1>7 DEF vars
  <2>2. Alike(brain, brain')
    BY <2>1 DEF Alike
  <2> QED BY <1>2, <2>1, <2>2, AlikeLoss
<1> QED BY <1>3, <1>4, <1>5, <1>6, <1>7 DEF Next

\* At the start the companion has the source's first word in hand.
LEMMA LossInit == Init => LossInv
<1> SUFFICES ASSUME Init PROVE LossBody
  BY DEF LossInv, LossBody
<1> DEFINE o == companion.held
<1>1. /\ xpilot = FreshXPilot(1) /\ companion = FreshCompanion(1) /\ pipe = DeadPipe
      /\ brain = FreshBrain /\ client = FreshClient
  BY DEF Init, CompanionInit, BrainInit
<1>2. xpilot.process = 1
  BY <1>1 DEF FreshXPilot
<1>3. /\ companion.sequence = 1 /\ companion.epoch = 0 /\ companion.taken = Nothing
      /\ companion.queue = EmptyQueue /\ companion.runner = "Closed"
      /\ companion.answer = NoAnswer
      /\ o = NumberedIn(1, [sequence |-> 0, epoch |-> 0,
             held |-> Nothing, taken |-> Nothing, queue |-> EmptyQueue,
             runner |-> "Closed", answer |-> NoAnswer, stopping |-> FALSE,
             raced |-> {}], "SourceAvailable")
  BY <1>1 DEF FreshCompanion
<1>4. /\ o.process = 1 /\ o.epoch = 0 /\ o.sequence = 1 /\ o.kind = "SourceAvailable"
  BY <1>3 DEF NumberedIn, Local
<1> HIDE DEF o
<1>5. companion.queue.items = <<>> /\ companion.queue.loss.count = 0
  BY <1>3 DEF EmptyQueue, NoLoss
<1>6. pipe.toBrain = <<>> /\ pipe.toCompanion = <<>>
  BY <1>1 DEF DeadPipe
<1>7. client.incoming.items = <<>> /\ client.outgoing = <<>>
  BY <1>1 DEF FreshClient, EmptyQueue
<1>8. OnWay = {}
  BY <1>5, <1>6, <1>7, ItemsType DEF OnWay
<1>9. /\ brain.process = 0 /\ brain.last = 0 /\ brain.epoch = 0 /\ brain.recovery
      /\ ~brain.pending /\ ~brain.compatible
  BY <1>1 DEF FreshBrain
<1>10. companion.answer.phase = "None"
  BY <1>3 DEF NoAnswer
<1>11. Counting(brain, companion, xpilot.process)
  BY <1>2, <1>3, <1>9 DEF Counting
<1>12. Hands(companion)
  BY <1>3, <1>4 DEF Hands, o
<1>13. Reported(brain, companion, OnWay)
  BY <1>3, <1>5, <1>8 DEF Reported, Losing
<1>14. \A x \in OnWay \cup {companion.held, companion.taken} :
           Placed(brain, companion, xpilot.process, x)
  <2>1. Placed(brain, companion, xpilot.process, o)
    BY <1>2, <1>3, <1>4 DEF Placed, LocalKinds, Completes
  <2>2. companion \in Companions
    <3>1. IInv
      BY IInvInit
    <3> QED BY <3>1 DEF IInv, CompanionInv
  <2>3. Placed(brain, companion, xpilot.process, Nothing)
    BY <1>11, <2>2, NothingPlaced
  <2> QED BY <1>3, <1>8, <2>1, <2>3 DEF o
<1>15. Asked(brain, companion, pipe, client)
  BY <1>6, <1>7, <1>10, ItemsType DEF Asked
<1>16. Greeted(brain, companion, pipe, OnWay)
  BY <1>3, <1>6, <1>8, <1>9 DEF Greeted
<1>17. Line(client.incoming.items, pipe.toBrain, companion.queue.items)
  <2>1. DOMAIN <<>> = {}
    OBVIOUS
  <2> QED BY <1>5, <1>6, <1>7, <2>1, ItemsType DEF Line, Orderly, Ahead
<1>18. Known(brain, companion, OnWay)
  BY <1>3, <1>4 DEF Known, Tracked, o
<1> QED BY <1>11, <1>12, <1>13, <1>14, <1>15, <1>16, <1>17, <1>18 DEF LossBody, Sure

\* When nothing is on its way the companion has no loss to report, and the Brain
\* knows the last number or will ask for a list.
LEMMA DrainedKnows == IInv /\ LossInv => LossIsReported
<1> SUFFICES ASSUME IInv, LossInv, Drained
             PROVE  /\ companion.queue.loss.count = 0
                    /\ brain.last = companion.sequence \/ brain.recovery
  BY DEF LossIsReported
<1>1. /\ companion.held = Nothing /\ companion.taken = Nothing
      /\ companion.queue.items = <<>> /\ companion.runner = "Connected"
      /\ pipe.toBrain = <<>> /\ client.incoming = EmptyQueue
  BY DEF Drained
<1>2. LossBody
  BY <1>1 DEF LossInv, LossBody
<1>3. companion \in Companions /\ brain \in Brains
  BY LossTyped
<1>4. client.incoming.items = <<>> /\ client.incoming.loss.count = 0
  BY <1>1 DEF EmptyQueue, NoLoss
<1>5. OnWay = {}
  BY <1>1, <1>4, ItemsType DEF OnWay
<1>6. /\ companion.sequence \in Nat /\ brain.last \in Nat
      /\ companion.queue.loss.count \in Nat
  BY <1>3, Numbers
<1>7. Sure(brain, companion, xpilot.process, OnWay)
  BY <1>2 DEF LossBody
<1>8. ~Losing(companion)
  <2>1. Len(companion.queue.items) = 0
    BY <1>1
  <2>2. Losing(companion) => Len(companion.queue.items) >= QueueCapacity
    BY <1>7 DEF Sure, Reported
  <2>3. QueueCapacity \in Nat /\ QueueCapacity >= 2
    BY CompanionAssumption
  <2> QED BY <2>1, <2>2, <2>3
<1>9. Known(brain, companion, OnWay)
  BY <1>2, <1>4, <1>5 DEF LossBody, Spoilt
<1>10. Nothing.sequence = 0 /\ companion.sequence >= 1 /\ brain.last <= companion.sequence
  BY <1>7 DEF Nothing, Local, Sure, Counting
<1>11. brain.last = companion.sequence \/ brain.recovery
  BY <1>1, <1>5, <1>6, <1>8, <1>9, <1>10 DEF Known, Tracked
<1> QED BY <1>6, <1>8, <1>11 DEF Losing

\* While the pipe and the processes last, no loss of the companion's queue stays
\* unreported, and a Brain with nothing left to hear knows the companion's last
\* number or will ask for a list (MaterializeLossLocked, BoundedBridgeQueue.cs;
\* docs/XPILOT_4_BRIDGE_CONTRACT_GATE.md:266).
THEOREM LossesAreReported == Spec => []LossIsReported
<1>1. CASE Lasting
  <2>1. Init => LossInv
    BY LossInit
  <2>2. IInv /\ IInv' /\ LossInv /\ [Next]_vars => LossInv'
    BY <1>1, LossStep
  <2>3. IInv /\ LossInv => LossIsReported
    BY DrainedKnows
  <2> QED BY <2>1, <2>2, <2>3, BridgeInvariant, PTL DEF Spec
<1>2. CASE ~Lasting
  <2>1. LossIsReported
    BY <1>2 DEF LossIsReported
  <2> QED BY <2>1, PTL
<1> QED BY <1>1, <1>2

=============================================================================
