--------------------------- MODULE XPilot4Companion --------------------------
(***************************************************************************)
(* The companion plugin inside xPilot 4: SDK events on xPilot's UI thread, *)
(* the bounded observation queue, and the transport's runner thread, which *)
(* empties the queue into a named pipe and answers snapshot requests.      *)
(*                                                                         *)
(* Both threads create an observation, which takes the next sequence       *)
(* number, and only then put it in the queue: `held` and `taken` are what  *)
(* the UI thread and the runner have numbered and not yet queued.          *)
(***************************************************************************)
EXTENDS XPilot4Protocol

CONSTANTS
    QueueCapacity,     \* BridgeTransportOptions.QueueCapacity
    PipeDepth,         \* observations the pipe's buffer holds
    Faults,            \* the disturbances that may happen
    MaxMessages, MaxChanges, MaxConnections, MaxFlights, MaxDisturbances  \* bounds

ASSUME CompanionAssumption ==
    /\ QueueCapacity \in Nat /\ QueueCapacity >= 2
    /\ PipeDepth \in Nat \ {0}
    /\ Faults \subseteq {"session ends", "xPilot restarts", "list fails", "pipe breaks",
                        "answer is late", "plugin restarts", "messages expire"}
    /\ MaxMessages \in Nat /\ MaxChanges \in Nat
    /\ MaxConnections \in Nat /\ MaxFlights \in Nat /\ MaxDisturbances \in Nat

VARIABLES
    xpilot,      \* the host: its process, network connection and controllers
    companion,   \* the plugin and its transport
    pipe,        \* the named pipe: live, and what is in it each way
    spent        \* how many of the bounded events have happened

\* One of the disturbances happens.
Disturbed(fault) ==
    /\ fault \in Faults /\ spent.disturbances < MaxDisturbances
    /\ spent' = [spent EXCEPT !.disturbances = @ + 1]

companionVars == <<xpilot, companion, pipe, spent>>

NoAnswer == [phase |-> "None", request |-> 0, listed |-> {}, left |-> {}]

\* The number `sequence` is taken; nothing is queued yet.
NumberedIn(process, c, kind) ==
    [Local(kind) EXCEPT !.process = process, !.epoch = c.epoch,
                        !.sequence = c.sequence + 1]
NewObservation(kind) == NumberedIn(xpilot.process, companion, kind)

\* The plugin as Initialize leaves it when xPilot starts.
FreshCompanion(process) ==
    LET idle == [sequence |-> 0, epoch |-> 0, held |-> Nothing, taken |-> Nothing,
                 queue |-> EmptyQueue, runner |-> "Closed", answer |-> NoAnswer,
                 stopping |-> FALSE, raced |-> {}]
    IN  [idle EXCEPT !.sequence = 1,
                     !.held = NumberedIn(process, idle, "SourceAvailable")]

FreshXPilot(process) ==
    [process |-> process, session |-> TRUE, callsign |-> NoCallsign, controllers |-> {}]

DeadPipe == [live |-> FALSE, toBrain |-> <<>>, toCompanion |-> <<>>]

CompanionInit ==
    /\ xpilot = FreshXPilot(1)
    /\ companion = FreshCompanion(1)
    /\ pipe = DeadPipe
    /\ spent = [messages |-> 0, changes |-> 0, connections |-> 0, flights |-> 0,
                disturbances |-> 0]

-----------------------------------------------------------------------------
(* SDK events, on the UI thread                                            *)

UIThreadIdle == xpilot.session /\ companion.held = Nothing

\* A handler has numbered the observation of its event.
Raise(observation) ==
    companion' = [companion EXCEPT
        !.sequence = observation.sequence, !.epoch = observation.epoch,
        !.held = observation]

\* The handler puts it in the queue; after SessionEnded the plugin stops.
CaptureHeld ==
    /\ companion.held # Nothing
    /\ companion' = [companion EXCEPT
            !.queue = Offer(@, companion.held, QueueCapacity),
            !.stopping = @ \/ companion.held.kind = "SessionEnded",
            !.raced = IF companion.answer.phase = "Started"
                      THEN @ \cup {companion.held.controller} ELSE @,
            !.held = Nothing]
    /\ UNCHANGED <<xpilot, pipe, spent>>

NetworkConnected(callsign) ==
    /\ UIThreadIdle /\ xpilot.callsign = NoCallsign
    /\ spent.connections < MaxConnections
    /\ Raise([NewObservation("ConnectionStateChanged") EXCEPT
                !.epoch = companion.epoch + 1, !.callsign = callsign])
    /\ xpilot' = [xpilot EXCEPT !.callsign = callsign]
    /\ spent' = [spent EXCEPT !.connections = @ + 1]
    /\ UNCHANGED pipe

NetworkDisconnected ==
    /\ UIThreadIdle /\ xpilot.callsign # NoCallsign
    /\ Raise(NewObservation("ConnectionStateChanged"))
    /\ xpilot' = [xpilot EXCEPT !.callsign = NoCallsign, !.controllers = {}]
    /\ UNCHANGED <<pipe, spent>>

PrivateMessageReceived ==
    /\ UIThreadIdle /\ xpilot.callsign # NoCallsign
    /\ spent.messages < MaxMessages
    /\ Raise([NewObservation("IncomingPrivateMessage") EXCEPT !.callsign = xpilot.callsign])
    /\ spent' = [spent EXCEPT !.messages = @ + 1]
    /\ UNCHANGED <<xpilot, pipe>>

\* A controller comes, goes, or changes its frequency or location.
ControllerEvent(kind, controller) ==
    /\ UIThreadIdle /\ xpilot.callsign # NoCallsign
    /\ spent.changes < MaxChanges
    /\ (controller \in xpilot.controllers) <=> (kind # "ControllerAdded")
    /\ Raise([NewObservation(kind) EXCEPT !.controller = controller])
    /\ xpilot' = [xpilot EXCEPT !.controllers =
                    IF kind = "ControllerDeleted" THEN @ \ {controller}
                    ELSE @ \cup {controller}]
    /\ spent' = [spent EXCEPT !.changes = @ + 1]
    /\ UNCHANGED pipe

SessionEnded ==
    /\ UIThreadIdle /\ Disturbed("session ends")
    /\ Raise(NewObservation("SessionEnded"))
    /\ xpilot' = [xpilot EXCEPT !.session = FALSE]
    /\ UNCHANGED pipe

\* xPilot exits, in order or not, and is started again.
RestartXPilot ==
    /\ Disturbed("xPilot restarts")
    /\ xpilot' = FreshXPilot(xpilot.process + 1)
    /\ companion' = FreshCompanion(xpilot.process + 1)
    /\ pipe' = DeadPipe

-----------------------------------------------------------------------------
(* The runner thread                                                       *)

NeverReport(c) == c  \* mutant: the queue keeps its losses to itself

\* Report a loss as soon as the queue has room; the report takes a number.
MaterializeLoss(c) ==
    IF ~LossIsDue(c.queue, QueueCapacity) THEN c
    ELSE LET report == [NumberedIn(xpilot.process, c, "CapacityLoss") EXCEPT
                            !.epoch = c.queue.loss.epoch]
         IN  [c EXCEPT !.sequence = report.sequence,
                       !.queue = ReportLoss(c.queue, report)]

RunnerIdle == companion.runner = "Connected" /\ companion.answer.phase = "None"

\* Create the pipe and wait for the client.
CreatePipe ==
    /\ companion.runner = "Closed"
    /\ companion' = [companion EXCEPT
                        !.runner = IF companion.stopping THEN "Stopped" ELSE "Listening"]
    /\ UNCHANGED <<xpilot, pipe, spent>>

\* The client has connected: Hello comes first, outside the queue.
WriteHello ==
    /\ companion.runner = "Greeting" /\ pipe.live
    /\ companion' = [companion EXCEPT !.runner = "Connected"]
    /\ pipe' = [pipe EXCEPT !.toBrain = Append(@,
                    [Local("Hello") EXCEPT !.process = xpilot.process,
                                           !.epoch = companion.epoch])]
    /\ UNCHANGED <<xpilot, spent>>

\* Peek, write, commit. A write that fails commits nothing (LosePipe).
WriteObservation ==
    LET peeked    == MaterializeLoss(companion)
        committed == [peeked EXCEPT !.queue.items = Tail(peeked.queue.items)]
    IN  /\ RunnerIdle /\ pipe.live /\ Len(pipe.toBrain) < PipeDepth
        /\ peeked.queue.items # <<>>
        /\ pipe' = [pipe EXCEPT !.toBrain = Append(@, Head(peeked.queue.items))]
        /\ companion' = MaterializeLoss(committed)
        /\ UNCHANGED <<xpilot, spent>>

QueueIsEmpty == companion.queue.items = <<>> /\ companion.queue.loss.count = 0

\* With nothing to write, read a snapshot request and list the controllers.
\* The list is a copy. `raced` names the controllers whose events enter the
\* queue after the list was taken and before its start.
ReadCommand(readable) ==
    /\ RunnerIdle /\ pipe.live /\ QueueIsEmpty /\ ~companion.stopping
    /\ pipe.toCompanion # <<>>
    /\ IF readable THEN UNCHANGED spent ELSE Disturbed("list fails")
    /\ companion' = [companion EXCEPT
            !.answer = [phase |-> IF readable THEN "Started" ELSE "Failed",
                        request |-> Head(pipe.toCompanion),
                        listed |-> xpilot.controllers, left |-> xpilot.controllers],
            !.raced = {}]
    /\ pipe' = [pipe EXCEPT !.toCompanion = Tail(@)]
    /\ UNCHANGED xpilot

\* The phase that follows `phase` when the controllers in `left` remain.
NextPhase(phase, left) ==
    IF phase \in {"Completed", "Failed"} THEN "None"
    ELSE IF left = {} THEN "Completed" ELSE "Entry"

\* Number the next observation of the answer: the start, the entries, the end.
NumberAnswer ==
    LET answer == companion.answer
        entry  == CHOOSE c \in answer.left : TRUE
        left   == IF answer.phase = "Entry" THEN answer.left \ {entry} ELSE answer.left
        kind   == CASE answer.phase = "Started"   -> "SnapshotStarted"
                    [] answer.phase = "Entry"     -> "SnapshotEntry"
                    [] answer.phase = "Completed" -> "SnapshotCompleted"
                    [] OTHER                      -> "CorruptEnvelope"
    IN  /\ answer.phase # "None" /\ companion.taken = Nothing
        /\ companion' = [companion EXCEPT
                !.sequence = @ + 1,
                !.taken = [NewObservation(kind) EXCEPT
                    !.request = answer.request, !.listed = answer.listed,
                    !.controller = IF answer.phase = "Entry" THEN entry ELSE NoController],
                !.answer = [answer EXCEPT !.left = left]]
        /\ UNCHANGED <<xpilot, pipe, spent>>

\* Queue it, and go on to the next phase.
CaptureTaken ==
    LET answer == companion.answer
        next   == NextPhase(answer.phase, answer.left)
    IN  /\ companion.taken # Nothing
        /\ companion' = [companion EXCEPT
                !.queue = Offer(companion.queue, companion.taken, QueueCapacity),
                !.taken = Nothing,
                !.answer = IF next = "None" THEN NoAnswer ELSE [answer EXCEPT !.phase = next]]
        /\ UNCHANGED <<xpilot, pipe, spent>>

\* After SessionEnded: all is written, the client has read it, the pipe closes.
StopGracefully ==
    /\ RunnerIdle /\ pipe.live /\ companion.stopping /\ QueueIsEmpty
    /\ pipe.toBrain = <<>>
    /\ companion' = [companion EXCEPT !.runner = "Stopped"]
    /\ pipe' = DeadPipe
    /\ UNCHANGED <<xpilot, spent>>

\* A read or write fails: close the pipe and, a second later, start over.
LosePipe ==
    /\ companion.runner = "Greeting" \/ RunnerIdle
    /\ ~pipe.live
    /\ companion' = [companion EXCEPT !.runner = "Closed"]
    /\ UNCHANGED <<xpilot, pipe, spent>>

Host ==
    \/ \E callsign \in Callsigns : NetworkConnected(callsign)
    \/ NetworkDisconnected
    \/ PrivateMessageReceived
    \/ \E kind \in LiveKinds, c \in Controllers : ControllerEvent(kind, c)
    \/ SessionEnded

Runner ==
    \/ CreatePipe \/ WriteHello \/ WriteObservation \/ LosePipe \/ StopGracefully
    \/ \E readable \in BOOLEAN : ReadCommand(readable)
    \/ NumberAnswer \/ CaptureTaken

=============================================================================
