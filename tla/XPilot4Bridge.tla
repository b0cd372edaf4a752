----------------------------- MODULE XPilot4Bridge ---------------------------
(***************************************************************************)
(* The xPilot 4 bridge end to end: the companion in xPilot, the pipe, the  *)
(* client thread in the plugin, and the Brain's service call.              *)
(***************************************************************************)
EXTENDS XPilot4Companion, XPilot4Brain

CONSTANTS
    IncomingCapacity,   \* kIncomingCapacity
    OutgoingCapacity,   \* kOutgoingCapacity
    MaxRequests         \* bound: snapshot requests of one Brain

ASSUME BridgeAssumption ==
    /\ IncomingCapacity \in Nat \ {0} /\ OutgoingCapacity \in Nat \ {0}
    /\ MaxRequests \in Nat

VARIABLE client   \* XPilot4BridgeClient: connected, incoming, outgoing

vars == <<xpilot, companion, pipe, spent, brain, inbox, flight, client>>

FreshClient == [connected |-> FALSE, incoming |-> EmptyQueue, outgoing |-> <<>>]

Init == CompanionInit /\ BrainInit /\ client = FreshClient

-----------------------------------------------------------------------------
(* The client thread                                                       *)

Publish(c, o) == [c EXCEPT !.incoming = Offer(c.incoming, o, IncomingCapacity)]

\* The client opens the pipe the companion waits on.
ConnectClient ==
    /\ companion.runner = "Listening" /\ ~client.connected
    /\ client' = Publish([client EXCEPT !.connected = TRUE], Local("TransportConnected"))
    /\ companion' = [companion EXCEPT !.runner = "Greeting"]
    /\ pipe' = [DeadPipe EXCEPT !.live = TRUE]
    /\ UNCHANGED <<xpilot, spent, brain, inbox, flight>>

\* The thread writes a waiting command, also while its read is pending.
FlushCommand ==
    /\ client.connected /\ pipe.live /\ client.outgoing # <<>>
    /\ pipe' = [pipe EXCEPT !.toCompanion = Append(@, Head(client.outgoing))]
    /\ client' = [client EXCEPT !.outgoing = Tail(@)]
    /\ UNCHANGED <<xpilot, companion, spent, brain, inbox, flight>>

ReadObservation ==
    /\ client.connected /\ pipe.live /\ pipe.toBrain # <<>>
    /\ client' = Publish(client, Head(pipe.toBrain))
    /\ pipe' = [pipe EXCEPT !.toBrain = Tail(@)]
    /\ UNCHANGED <<xpilot, companion, spent, brain, inbox, flight>>

NoticeDisconnect ==
    /\ client.connected /\ ~pipe.live
    /\ client' = Publish([client EXCEPT !.connected = FALSE],
                         Local("TransportDisconnected"))
    /\ UNCHANGED <<xpilot, companion, pipe, spent, brain, inbox, flight>>

\* The pipe fails or a frame is rejected; what was in it is gone.
BreakPipe ==
    /\ pipe.live /\ Disturbed("pipe breaks")
    /\ pipe' = DeadPipe
    /\ UNCHANGED <<xpilot, companion, brain, inbox, flight, client>>

-----------------------------------------------------------------------------
(* The flight loop                                                         *)

\* The Brain takes the oldest observation; a loss the client could not yet
\* report moves up behind the others.
Harvest ==
    LET rest == [client.incoming EXCEPT !.items = Tail(client.incoming.items)]
    IN  /\ client.incoming.items # <<>>
        /\ Consume(Head(client.incoming.items))
        /\ client' = [client EXCEPT !.incoming =
                        IF LossIsDue(rest, IncomingCapacity)
                        THEN ReportLoss(rest, Local("LocalCapacityLoss")) ELSE rest]
        /\ UNCHANGED companionVars

\* The call ends: nothing is left to harvest, or it has consumed its share.
Serve(late) ==
    LET room == /\ Len(client.outgoing) < OutgoingCapacity
                /\ brain.nextRequest <= MaxRequests
    IN  /\ client.incoming.items = <<>> \/ brain.served = MaximumObservations
        /\ IF late THEN brain.pending /\ Disturbed("answer is late") ELSE UNCHANGED spent
        /\ EndService(late, room)
        /\ client' = IF RequestsSnapshot(late, room)
                     THEN [client EXCEPT !.outgoing = Append(@, brain.nextRequest)]
                     ELSE client
        /\ UNCHANGED <<xpilot, companion, pipe>>

\* X-Plane reloads the plugin: client and Brain start afresh.
RestartPlugin ==
    /\ Disturbed("plugin restarts") /\ brain.served = 0
    /\ brain' = FreshBrain /\ inbox' = <<>> /\ flight' = NoCallsign
    /\ client' = FreshClient
    /\ pipe' = DeadPipe
    /\ UNCHANGED <<xpilot, companion>>

\* The flight changes at most MaxFlights times.
FlightChanges ==
    /\ spent.flights < MaxFlights
    /\ \E callsign \in Callsigns \cup {NoCallsign} : ChangeFlight(callsign)
    /\ spent' = [spent EXCEPT !.flights = @ + 1]

-----------------------------------------------------------------------------
(* Specification                                                           *)

CompanionStep ==
    /\ Host \/ CaptureHeld \/ Runner \/ RestartXPilot
    /\ UNCHANGED <<brain, inbox, flight, client>>

ClientStep == ConnectClient \/ FlushCommand \/ ReadObservation \/ NoticeDisconnect

BrainStep ==
    \/ Harvest
    \/ \E late \in BOOLEAN : Serve(late)
    \/ /\ FlightChanges \/ (ExpireDeferred /\ Disturbed("messages expire"))
       /\ UNCHANGED <<xpilot, companion, pipe, client>>

Next == CompanionStep \/ ClientStep \/ BrainStep \/ BreakPipe \/ RestartPlugin

Spec == Init /\ [][Next]_vars

(* xPilot's UI thread finishes a handler it has entered; the runner, the     *)
(* client thread and X-Plane's flight loop keep running. Nothing is assumed  *)
(* of the network, the pilot or what breaks.                                 *)
Fairness ==
    /\ WF_vars(CaptureHeld /\ UNCHANGED <<brain, inbox, flight, client>>)
    /\ WF_vars(CreatePipe /\ UNCHANGED <<brain, inbox, flight, client>>)
    /\ WF_vars(WriteHello /\ UNCHANGED <<brain, inbox, flight, client>>)
    /\ WF_vars(WriteObservation /\ UNCHANGED <<brain, inbox, flight, client>>)
    /\ WF_vars(LosePipe /\ UNCHANGED <<brain, inbox, flight, client>>)
    /\ WF_vars(ReadCommand(TRUE) /\ UNCHANGED <<brain, inbox, flight, client>>)
    /\ WF_vars(NumberAnswer /\ UNCHANGED <<brain, inbox, flight, client>>)
    /\ WF_vars(CaptureTaken /\ UNCHANGED <<brain, inbox, flight, client>>)
    /\ WF_vars(ConnectClient) /\ WF_vars(FlushCommand)
    /\ WF_vars(ReadObservation) /\ WF_vars(NoticeDisconnect)
    /\ WF_vars(Harvest) /\ WF_vars(Serve(FALSE))

FairSpec == Spec /\ Fairness

-----------------------------------------------------------------------------
(* Properties                                                              *)

Brains ==
    [transport : BOOLEAN, source : BOOLEAN, compatible : BOOLEAN, network : BOOLEAN,
     recovery : BOOLEAN, pending : BOOLEAN, request : Nat, nextRequest : Nat,
     process : Nat, epoch : Nat, last : Nat, callsign : Callsigns \cup {NoCallsign},
     list : SUBSET Controllers, complete : BOOLEAN,
     build : [active : BOOLEAN, request : Nat, expected : Nat,
              entries : SUBSET Controllers, count : Nat,
              added : SUBSET Controllers, removed : SUBSET Controllers],
     deferred : Seq([message : Observation, expired : BOOLEAN]),
     bound : Callsigns \cup {NoCallsign}, served : 0 .. MaximumObservations]

\* Every variable has its type.
TypeOK ==
    /\ xpilot \in [process : Nat, session : BOOLEAN,
                   callsign : Callsigns \cup {NoCallsign},
                   controllers : SUBSET Controllers]
    /\ companion \in
         [sequence : Nat, epoch : Nat, held : Observation, taken : Observation,
          queue : Queues,
          runner : {"Closed", "Listening", "Greeting", "Connected", "Stopped"},
          answer : [phase : {"None", "Started", "Entry", "Completed", "Failed"},
                    request : Nat, listed : SUBSET Controllers,
                    left : SUBSET Controllers],
          stopping : BOOLEAN, raced : SUBSET (Controllers \cup {NoController})]
    /\ pipe \in [live : BOOLEAN, toBrain : Seq(Observation), toCompanion : Seq(Nat)]
    /\ spent \in [messages : 0 .. MaxMessages, changes : 0 .. MaxChanges,
                  connections : 0 .. MaxConnections, flights : 0 .. MaxFlights,
                  disturbances : 0 .. MaxDisturbances]
    /\ brain \in Brains
    /\ inbox \in Seq(Observation)
    /\ flight \in Callsigns \cup {NoCallsign}
    /\ client \in [connected : BOOLEAN, incoming : Queues, outgoing : Seq(Nat)]

\* A message received under one callsign is never shown for a flight under
\* another, whatever connection changes the queues have lost in between
\* (ObservationMatchesCurrentSession, BrainXPilot4BridgeRuntime.cpp:307-313).
MessageReachesItsCallsign ==
    \A i \in DOMAIN inbox : inbox[i].callsign = brain.bound

\* "Ordinary private message is delivered exactly once"
\* (docs/XPILOT_4_BRIDGE_CONTRACT_GATE.md:460), the half that deferral, a broken
\* pipe and restarts put at risk: no message of one xPilot enters the inbox twice.
EachMessageOnce ==
    \A i, j \in DOMAIN inbox :
        inbox[i].process = inbox[j].process /\ inbox[i].sequence = inbox[j].sequence
            => i = j

\* A transfer in progress is the answer to the request that is pending: a gap,
\* a loss, a reconnection or a time-out abandons both together.
BuildAnswersRequest ==
    brain.build.active => brain.pending /\ brain.build.request = brain.request

\* No observation and no request is anywhere between xPilot and the Brain; the
\* companion's queue may still have losses to report.
Drained ==
    /\ companion.held = Nothing /\ companion.taken = Nothing
    /\ companion.answer.phase = "None" /\ companion.queue.items = <<>>
    /\ companion.runner = "Connected"
    /\ pipe.live /\ pipe.toBrain = <<>> /\ pipe.toCompanion = <<>>
    /\ client.connected /\ client.incoming = EmptyQueue /\ client.outgoing = <<>>
    /\ ~brain.pending /\ brain.served = 0

Quiet == Drained /\ QueueIsEmpty

Listed == Quiet /\ brain.network /\ brain.complete /\ ~brain.recovery

\* Once all is quiet, a list the Brain holds complete is xPilot's, except for
\* controllers that changed after it was copied and before its transfer began
\* (FinishSnapshot, BrainXPilot4BridgeRuntime.cpp:495-519).
ListIsAccurate ==
    Listed => \A c \in Controllers \ companion.raced :
                 c \in brain.list <=> c \in xpilot.controllers

\* The pipe and the processes at its ends last.
Lasting == Faults \cap {"pipe breaks", "xPilot restarts", "plugin restarts"} = {}

\* "If capacity is exceeded ... the exact loss count and sequence range must be
\* reported to the Brain as soon as transport resumes"
\* (docs/XPILOT_4_BRIDGE_CONTRACT_GATE.md:266): a Brain that has seen all there
\* is to see knows of every observation, also of those the companion's queue had
\* no room for, unless it is about to ask for a list because of its own losses.
LossIsReported ==
    Drained /\ Lasting /\ brain.process = xpilot.process
        => /\ companion.queue.loss.count = 0
           /\ brain.last = companion.sequence \/ brain.recovery

=============================================================================
