--------------------------- MODULE XPilot4Protocol ---------------------------
(***************************************************************************)
(* What travels between the xPilot 4 companion and the Brain: observations *)
(* with their epochs and sequence, snapshot requests, and the bounded      *)
(* queues that count what they had no room for.                            *)
(***************************************************************************)
EXTENDS Integers, FiniteSets, Sequences

CONSTANTS
    Callsigns, NoCallsign,     \* callsigns of the pilot, and none
    Controllers, NoController  \* controllers the network may show, and none

ASSUME ProtocolAssumption ==
    /\ NoCallsign \notin Callsigns
    /\ NoController \notin Controllers
    /\ IsFiniteSet(Controllers)

LiveKinds == {"ControllerAdded", "ControllerDeleted", "ControllerChanged"}
LocalKinds == {"TransportConnected", "TransportDisconnected", "LocalCapacityLoss"}
Kinds == LiveKinds \cup LocalKinds \cup
    {"None", "Hello", "SourceAvailable", "ConnectionStateChanged",
     "IncomingPrivateMessage", "SnapshotStarted", "SnapshotEntry",
     "SnapshotCompleted", "CapacityLoss", "CorruptEnvelope", "SessionEnded"}

\* `callsign` is the callsign the pilot is connected under after a connection
\* change (NoCallsign: disconnected) or when a message came in; `listed` is the
\* list a snapshot transfers, of which the wire carries the size.
Observation ==
    [kind : Kinds, process : Nat, epoch : Nat, sequence : Nat,
     callsign : Callsigns \cup {NoCallsign},
     controller : Controllers \cup {NoController},
     request : Nat, listed : SUBSET Controllers]

\* An observation the XVatsim side makes itself: no source, no sequence.
Local(kind) ==
    [kind |-> kind, process |-> 0, epoch |-> 0, sequence |-> 0,
     callsign |-> NoCallsign, controller |-> NoController,
     request |-> 0, listed |-> {}]

Nothing == Local("None")

(* A bounded queue: its items, and the loss it has yet to report, which     *)
(* keeps the epoch of the first observation lost.                           *)
NoLoss == [count |-> 0, epoch |-> 0]
EmptyQueue == [items |-> <<>>, loss |-> NoLoss]
Queues == [items : Seq(Observation), loss : [count : Nat, epoch : Nat]]

RecordLoss(queue, observation) ==
    [queue EXCEPT !.loss = [count |-> queue.loss.count + 1,
                            epoch |-> IF queue.loss.count = 0
                                      THEN observation.epoch ELSE queue.loss.epoch]]

\* What finds no room is counted and gone.
Offer(queue, observation, capacity) ==
    IF Len(queue.items) >= capacity THEN RecordLoss(queue, observation)
    ELSE [queue EXCEPT !.items = Append(queue.items, observation)]

\* Must a loss be reported, and is there room for the report?
LossIsDue(queue, capacity) == queue.loss.count > 0 /\ Len(queue.items) < capacity

\* The report enters the queue as an observation of its own.
ReportLoss(queue, report) ==
    [items |-> Append(queue.items, report), loss |-> NoLoss]

=============================================================================
