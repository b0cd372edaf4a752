----------------------------- MODULE XPilot4Brain ----------------------------
(***************************************************************************)
(* The Brain's side of the xPilot 4 bridge: what one harvested observation *)
(* does to its state, and what ends a service call. A call happens in the  *)
(* flight loop; the observations it consumes are steps of their own,       *)
(* because the client's thread publishes between them.                     *)
(***************************************************************************)
EXTENDS XPilot4Protocol

CONSTANTS
    MaximumObservations,  \* observations one service call consumes
    MaximumDeferred       \* kXPilot4MaximumPendingPrivateMessages

ASSUME BrainAssumption ==
    /\ MaximumObservations \in Nat \ {0}
    /\ MaximumDeferred \in Nat \ {0}

VARIABLES
    brain,   \* BrainXPilot4BridgeRuntimeState
    inbox,   \* private messages admitted to the Drawer, oldest first
    flight   \* callsign of the confirmed flight, with departure and destination

brainVars == <<brain, inbox, flight>>

\* `build` is the snapshot being received; its later events are kept as what
\* they do to the list: the controllers they add and the ones they remove.
NoBuild == [active |-> FALSE, request |-> 0, expected |-> 0, entries |-> {},
            count |-> 0, added |-> {}, removed |-> {}]

FreshBrain ==
    [transport |-> FALSE, source |-> FALSE, compatible |-> FALSE, network |-> FALSE,
     recovery |-> TRUE, pending |-> FALSE, request |-> 0, nextRequest |-> 1,
     process |-> 0, epoch |-> 0, last |-> 0, callsign |-> NoCallsign,
     list |-> {}, complete |-> FALSE, build |-> NoBuild, deferred |-> <<>>,
     bound |-> NoCallsign, served |-> 0]

BrainInit == brain = FreshBrain /\ inbox = <<>> /\ flight = NoCallsign

-----------------------------------------------------------------------------
(* Acceptance                                                              *)

\* The transport and Hello speak for themselves; the rest must be of the
\* current process and not of an earlier connection.
Belongs(b, o) ==
    \/ o.kind \in LocalKinds \cup {"Hello"}
    \/ b.process # 0 /\ o.process = b.process /\ o.epoch >= b.epoch

IsStale(b, o) ==
    o.sequence # 0 /\ o.kind # "Hello" /\ b.last # 0 /\ o.sequence <= b.last

\* Mutant: a request in flight stays pending for ever.
MarkWithoutForgetting(b) == [b EXCEPT !.recovery = TRUE, !.build = NoBuild]

\* Mutant: the list in transfer is not abandoned with its request.
MarkKeepingBuild(b) == [b EXCEPT !.recovery = TRUE, !.pending = FALSE, !.request = 0]

\* Controllers must be listed afresh; a list in transfer is abandoned.
MarkRecoveryRequired(b) ==
    [b EXCEPT !.recovery = TRUE, !.pending = FALSE, !.request = 0, !.build = NoBuild]

ObserveSequence(b, o) ==
    IF o.sequence = 0 \/ o.kind \in LocalKinds \cup {"Hello"} THEN b
    ELSE [IF b.last # 0 /\ o.sequence > b.last + 1 THEN MarkRecoveryRequired(b) ELSE b
            EXCEPT !.last = IF o.sequence > b.last THEN o.sequence ELSE b.last]

-----------------------------------------------------------------------------
(* Controllers                                                             *)

\* A deletion removes the controller; every other event leaves it listed.
Remove(o) == IF o.kind = "ControllerDeleted" THEN {o.controller} ELSE {}
Add(o)    == IF o.kind = "ControllerDeleted" THEN {} ELSE {o.controller}

\* An event changes the list at once and, during a transfer, the list to come.
ApplyControllerEvent(b, o) ==
    [b EXCEPT !.list = (b.list \ Remove(o)) \cup Add(o),
              !.build = IF ~b.build.active THEN b.build
                        ELSE [b.build EXCEPT
                                !.added = (b.build.added \ Remove(o)) \cup Add(o),
                                !.removed = (b.build.removed \ Add(o)) \cup Remove(o)]]

BeginSnapshot(b, o) ==
    IF b.pending /\ o.request = b.request
    THEN [b EXCEPT !.build = [NoBuild EXCEPT !.active = TRUE, !.request = o.request,
                                             !.expected = Cardinality(o.listed)]]
    ELSE b

AddSnapshotEntry(b, o) ==
    IF b.build.active /\ o.request = b.build.request
    THEN [b EXCEPT !.build = [b.build EXCEPT !.entries = b.build.entries \cup {o.controller},
                                             !.count = b.build.count + 1]]
    ELSE b

\* Mutant: the events that came during the transfer are forgotten.
BareEntries(build) == build.entries

\* The entries, and then the events that came during the transfer.
FinalList(build) == (build.entries \ build.removed) \cup build.added

\* The transfer is over. A list that is short stays required and is asked for
\* again; the end of any other transfer makes a list required.
CompleteSnapshot(b, o) ==
    IF ~(/\ b.build.active /\ o.request = b.build.request
         /\ Cardinality(o.listed) = b.build.expected)
    THEN MarkRecoveryRequired(b)
    ELSE LET idle == [b EXCEPT !.build = NoBuild, !.pending = FALSE, !.request = 0]
         IN  IF b.build.count # b.build.expected THEN idle
             ELSE [idle EXCEPT !.list = FinalList(b.build), !.complete = TRUE,
                               !.recovery = FALSE]

-----------------------------------------------------------------------------
(* Source state                                                            *)

\* The list is kept, but as one that may be out of date.
Unavailable(b) == [MarkRecoveryRequired(b) EXCEPT !.complete = FALSE]

\* The sequence number the next observations are compared with: a new process
\* counts from 1.
LastAfterHello(b, o) == IF b.process # o.process THEN 0 ELSE b.last

Hello(b, o) ==
    LET changed == b.process # 0 /\ b.process # o.process
        greeted == [b EXCEPT !.process = o.process, !.epoch = o.epoch,
                             !.compatible = TRUE, !.last = LastAfterHello(b, o)]
    IN  IF changed THEN [Unavailable(greeted) EXCEPT !.deferred = <<>>] ELSE greeted

LoseTransport(b) ==
    [Unavailable(b) EXCEPT !.transport = FALSE, !.source = FALSE,
                           !.network = FALSE, !.deferred = <<>>]

ChangeConnection(b, o) ==
    LET connected == o.callsign # NoCallsign
        kept == IF ~connected \/ (b.epoch # 0 /\ b.epoch # o.epoch)
                THEN <<>> ELSE b.deferred
        now  == [MarkRecoveryRequired(b) EXCEPT
                    !.epoch = o.epoch, !.network = connected,
                    !.callsign = o.callsign, !.deferred = kept]
    IN  IF connected THEN now ELSE Unavailable(now)

\* What an observation other than a message does.
Observe(b, o) ==
    CASE o.kind = "TransportConnected"     -> [b EXCEPT !.transport = TRUE]
      [] o.kind = "TransportDisconnected"  -> LoseTransport(b)
      [] o.kind = "SessionEnded"           -> LoseTransport(b)
      [] o.kind = "Hello"                  -> Hello(b, o)
      [] o.kind = "SourceAvailable"        -> [b EXCEPT !.source = b.compatible]
      [] o.kind = "ConnectionStateChanged" -> ChangeConnection(b, o)
      [] o.kind = "SnapshotStarted"        -> BeginSnapshot(b, o)
      [] o.kind = "SnapshotEntry"          -> AddSnapshotEntry(b, o)
      [] o.kind = "SnapshotCompleted"      -> CompleteSnapshot(b, o)
      [] o.kind \in LiveKinds              -> ApplyControllerEvent(b, o)
      [] OTHER                             -> MarkRecoveryRequired(b)

-----------------------------------------------------------------------------
(* Private messages                                                        *)

MatchesSession(b, o) ==
    b.process # 0 /\ o.process = b.process /\ o.epoch = b.epoch

Available(b) == b.transport /\ b.source /\ b.compatible /\ b.network

FlightReady(b) == Available(b) /\ flight # NoCallsign /\ b.callsign = flight

KeepInbox(b) == inbox  \* mutant: the inbox outlives the flight

\* The inbox of the flight; another flight's messages are cleared.
InboxOfFlight(b) == IF b.bound \in {flight, NoCallsign} THEN inbox ELSE <<>>

Admit(b, messages) ==
    /\ inbox' = InboxOfFlight(b) \o messages
    /\ brain' = [b EXCEPT !.bound = flight]

Defer(b, o) ==
    [b EXCEPT !.deferred =
        Append(IF Len(b.deferred) >= MaximumDeferred THEN Tail(b.deferred) ELSE b.deferred,
               [message |-> o, expired |-> FALSE])]

EvaluateMessage(b, o) ==
    IF MatchesSession(b, o) /\ FlightReady(b) THEN Admit(b, <<o>>)
    ELSE /\ brain' = IF MatchesSession(b, o) THEN Defer(b, o) ELSE b
         /\ UNCHANGED inbox

\* Does a deferred entry still stand for its message?
Alive(b, entry) == ~entry.expired /\ MatchesSession(b, entry.message)

\* The front entries that expired or belong to another session are dropped.
\* Entries grow old from the front and share one session, so no other is left.
AliveDeferred(b) ==
    LET dead == {i \in DOMAIN b.deferred :
                    \A j \in 1 .. i : ~Alive(b, b.deferred[j])}
    IN  SubSeq(b.deferred, Cardinality(dead) + 1, Len(b.deferred))

KeepDeferred(b) == b  \* mutant: what was admitted stays deferred

NoneDeferred(b) == [b EXCEPT !.deferred = <<>>]

ReevaluateDeferred(b) ==
    LET alive == AliveDeferred(b)
    IN  IF alive # <<>> /\ FlightReady(b)
        THEN Admit(NoneDeferred(b), [i \in DOMAIN alive |-> alive[i].message])
        ELSE /\ brain' = [b EXCEPT !.deferred = alive]
             /\ UNCHANGED inbox

-----------------------------------------------------------------------------
(* One service call                                                        *)

WithoutShare == TRUE  \* mutant: a call consumes all there is

\* May the call consume another observation?
HasShare == brain.served < MaximumObservations

\* The next observation of the call is consumed.
Consume(o) ==
    LET b    == [brain EXCEPT !.served = @ + 1]
        seen == ObserveSequence(b, o)
    IN  /\ HasShare
        /\ IF ~Belongs(b, o) \/ IsStale(b, o) THEN brain' = b /\ UNCHANGED inbox
           ELSE IF o.kind = "IncomingPrivateMessage" THEN EvaluateMessage(seen, o)
           ELSE brain' = Observe(seen, o) /\ UNCHANGED inbox
        /\ UNCHANGED flight

\* Five seconds without an answer: the list is required anew.
TimeOut(b, late) == IF late /\ b.pending THEN MarkRecoveryRequired(b) ELSE b

NeedsSnapshot(b) == Available(b) /\ b.recovery /\ ~b.pending /\ ~b.build.active

Requested(b) == [b EXCEPT !.pending = TRUE, !.request = b.nextRequest,
                          !.nextRequest = b.nextRequest + 1]

\* The call ends: deferred messages, time-out, and a snapshot request if one
\* is needed and there is room for it.
EndService(late, room) ==
    LET timed == TimeOut([brain EXCEPT !.served = 0], late)
    IN  /\ ReevaluateDeferred(IF NeedsSnapshot(timed) /\ room THEN Requested(timed) ELSE timed)
        /\ UNCHANGED flight

RequestsSnapshot(late, room) ==
    NeedsSnapshot(TimeOut([brain EXCEPT !.served = 0], late)) /\ room

\* The five minutes of every deferred message are over.
ExpireDeferred ==
    /\ brain.served = 0 /\ brain.deferred # <<>>
    /\ brain' = [brain EXCEPT !.deferred =
                    [i \in DOMAIN @ |-> [@[i] EXCEPT !.expired = TRUE]]]
    /\ UNCHANGED <<inbox, flight>>

\* The Brain confirms another flight, or none.
ChangeFlight(callsign) ==
    /\ brain.served = 0 /\ callsign # flight
    /\ flight' = callsign
    /\ UNCHANGED <<brain, inbox>>

=============================================================================
