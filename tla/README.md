# XVatsim in TLA+

XVatsim is a companion plugin that runs inside X-Plane 12 and shows a pilot on the
VATSIM network what concerns the flight: the next controller, airport weather,
departure clearances and private messages. Its "Brain" is a C++ state machine that the
simulator's flight loop calls many times a second; everything slow (files, pipes, HTTP,
geometry) happens on worker threads, in xPilot's own process, or in a separate
installer, and comes back to the Brain as facts that may be late, lost or obsolete.

The specifications in this directory model the parts of the Brain where that is
dangerous. Six subsystems are modelled:

| Subsystem | Modules | Section |
|---|---|---|
| the monitor of xPilot's log file, one way in which a private message reaches the pilot | `PdcLogMonitor`, `PdcLogDelivery` | 2 |
| the bridge to xPilot 4, the other way | `XPilot4Protocol`, `XPilot4Companion`, `XPilot4Brain`, `XPilot4Bridge`, `XPilot4Arrival` | 3 |
| route preparation: a worker without locks and the coordinator that uses it | `RoutePreparationWorker`, `RouteCoordinator`, `CurrentRoute` | 4 |
| the diagnostics writer, which also hosts the log monitor's worker | `SpscRing`, `DiagnosticsWriter`, `DiagnosticsLog` | 5 |
| airport weather: an asynchronous client and the runtime that asks it | `MetarFetch`, `MetarClient`, `MetarRuntime` | 6 |
| the Manager's transaction on an installation | `Installation`, `TransactionalInstaller` | 7 |

Each has one or more modules of proofs, whose names end in `Proofs`. Four
modules state what a component promises without saying how (`CurrentRoute`,
`DiagnosticsLog`, `MetarFetch`, `Installation`), and the component is shown to implement
them. Paths in this document are relative to `src/`.

## 1. Inventory

### 1.1 Components, state and operations

| Component | Code | State it keeps | Operations |
|---|---|---|---|
| PDC log monitor | `brain/src/BrainPdcLogRuntime.cpp` | connection epoch, request ids, file, incarnation and read cursor, staged messages, replay cursors, session | service one callback, accept or reject a fact, stage, commit a batch, request the next read |
| PDC log reader | `modules/runtime_workers/src/PdcLogReader.cpp` | none | find the newest log, read and parse one range |
| PDC inbox | `brain/src/BrainPdcRuntime.cpp` | messages shown, product epoch, duplicate window, unread flags | admit, acknowledge, reset, suspend, resume |
| xPilot 4 companion | `integrations/xpilot4_bridge/*.cs` | connection epoch, sequence counter, bounded queue with its losses, pipe, answer in transfer | SDK event handlers on the UI thread; connect, greet, write, answer and stop on a runner thread |
| xPilot 4 client | `modules/runtime_workers/src/XPilot4BridgeClient.cpp` | connected flag, bounded incoming and outgoing queues | connect, read, write, report a loss |
| xPilot 4 Brain runtime | `brain/src/BrainXPilot4BridgeRuntime.cpp` | transport, source and network facts, last sequence, request, list in transfer, list of controllers, deferred messages | harvest observations, evaluate and re-evaluate messages, time out, request a list |
| Diagnostics writer | `modules/runtime_workers/src/AsyncDiagnosticsWriter.cpp` | five lanes (rings and queues), one-slot PDC mailbox, file rotation | enqueue, drain, stop; serve a log request |
| METAR, ATIS | `brain/src/BrainMetarRuntime.cpp`, `BrainAtisRuntime.cpp` | requested station, revision, source generation, current product | request, accept a fact, retry, expire |
| Route preparation worker | `modules/route_sector/src/RoutePreparationWorker.cpp` | two one-slot mailboxes, the latest sequence, retirement stacks, retained leases | start latest, cancel, harvest, retire, stop |
| Route coordination | `plugin/src/XVatsimPlugin.cpp` | desired and eligible identity, accepted route, FMS observation, timers | one refresh per callback; invalidate; stop |
| Work scheduler | `brain/src/BrainWorkScheduler.cpp`, `BrainOrchestrator.cpp`, `BrainWorkModel.cpp` | due times and dirty marks of work items | choose the work of one refresh |
| Polygon transition | `brain/src/RoutePolygonTransition.cpp`, `PhaseSnapshotPublisher.cpp` | current sector, candidate, publication generation | observe a position, publish |
| Controller decision | `brain/src/BrainControllerDecision.cpp` and the evidence pipeline | none | rank controllers |
| Brain-owned runtime | `brain/src/BrainOwnedRuntime.cpp` | all the above, confirmed flight, lifecycle epoch | one refresh, suspension, reset |
| Plugin shell | `plugin/src/XVatsimPlugin.cpp` | flight-loop registration, menus | callback, start, stop, enable, disable |
| Overlay | `modules/overlay` | drawer, visibility, revisions | publish, draw, pointer input |
| VATSIM feed | `modules/vatsim_data_feed` | generation, last document | poll, publish |
| Settings, update checker | `modules/settings_store`, `modules/update_checker` | one file; one background check | load, save; check, report |
| Manager | `manager/src/XVatsim.Manager.Core` | files of an installation, staged payload, backup | plan, install, roll back, update |

`PROJECT.json` lists every component with its files and says which are modelled.

### 1.2 How they interact

- **Calls.** X-Plane calls the flight loop; the flight loop calls the Brain; the Brain
  calls its runtimes one after another. None of these is re-entered.
- **Mailbox.** The Brain leaves one PDC request in the diagnostics worker's slot and
  collects one fact from it in a later callback. Both sides use `try_lock`, so a busy
  mutex makes the callback go on without the fact.
- **Queues.** In xPilot, handlers on the UI thread and the runner put observations in
  one bounded queue. The client thread moves frames from the pipe to a second bounded
  queue, from which a callback takes at most eight.
- **Files.** xPilot appends to its log without knowing of its reader, may be restarted
  with a new file, and may be in the middle of a line when the file is read.
- **Epochs.** Nothing is cancelled. A request or an observation carries the lifecycle
  epoch, connection epoch, process or sequence number it was made under, and is dropped
  when it arrives under another.

### 1.3 What is hard, and what must hold

*PDC log monitor.* A scan takes many callbacks: a discovery, several range reads, and
commits of four messages at a time. In between the pilot reconnects, changes the flight,
disables the plugin, or xPilot starts a new log. What must hold: a message is shown once,
in the order of the log, only from the session that is open, never from an answer to an
abandoned question, and it is shown in the end.

*xPilot 4 bridge.* Four threads in two processes, two queues that drop, a pipe that
breaks, a list answered piecemeal while the thing listed changes, and a sequence
number taken before the queue's lock. What must hold: a message reaches the flight of
the callsign it was sent to, and once; a list called complete is the list xPilot has;
losses become known; whatever is restarted, source and list return.

*Route preparation.* Five atomic slots and no lock; a request is cancelled by making its
number obsolete, and a route is freed by whoever lets go last, but only on the worker.
What must hold: the Brain shows a route only for the inputs desired now; a request that
is in flight is there, or its answer is; no lease is lost or freed twice; a saved plan is
noticed; a stop ends; and the route of a plan that stays is shown.

*Diagnostics writer.* A single-producer ring without a lock, a drain that must end, a
mailbox that must not carry a request over a stop. What must hold: records leave each
lane in order, none is invented, and what is refused is counted.

*PDC inbox.* The same message may be seen through both sources, in either order. What
must hold: it is shown once, and two different messages are two.

*METAR client.* A request's handle that two threads may close, a callback into a frame
that may be gone, a join on the simulator's thread. What must hold: one owner, a true
report of what is still to come, one fact per request, and joins that return.

*METAR runtime, ATIS.* A result may belong to an airport, a question or a lifecycle that
is gone, and may be put aside while the pilot is offline. What must hold: what is shown
answers what is asked, nothing older replaces newer, no answer is lost, and a question
does not stay open.

*Scheduler and transitions.* Marks set during a refresh must survive it; a sector must
not flap at its border. What must hold: due work is done, and publication generations
only grow.

*Manager.* A failure between any two file operations. What must hold: after install or
roll-back the directory is the old version or the new one.

The `hazards` of `PROJECT.json` name the line at which each of these bites and the
property that would notice, or why there is none yet.

## 2. The PDC log monitor

### 2.1 State and actions

`PdcLogMonitor` has six variables. `logs` is the sequence of xPilot's log files, each a
sequence of lines with a flag for a half-written one and a generation that grows when
the file is truncated. `network` is what xPilot's dataref shows and what it has logged,
which differ for a moment at each login and logout. `flight` is the flight the Brain has
confirmed. `mailbox` is the worker's slot. `pdc` is `BrainPdcRuntimeState` with its
monitor, one record field per C++ field that matters. `disturbances` counts bounded
events.

| Actor | Actions | Code |
|---|---|---|
| flight loop | `Callback` | `ServiceBrainOwnedPdcLogRuntime`, `BrainPdcLogRuntime.cpp` |
| flight loop | `ServiceTimeArrives` | the five-second observation time |
| flight loop | `SuspendPdc`, `ResumePdc`, `ResetProduct`, `ChangeFlight` | `BrainPdcRuntime.cpp`, `BrainOwnedRuntime.cpp` |
| worker | `TakeRequest`, `AnswerRequest`, `FailRequest` | `AsyncDiagnosticsWriter.cpp`, `PdcLogReader.cpp` |
| xPilot | `StartXPilot`, `Connect`, `LogLogin`, `Disconnect`, `LogLogout`, `LogText`, `BeginDirectLine`, `FinishDirectLine` | external, as the reader's patterns presume |

A whole callback is one action. It runs to completion on the simulator's thread, and it
meets another thread only when it takes the fact and when it leaves a request; the two
parameters `harvestFree` and `submitFree` say whether those `try_lock`s succeed. The
worker's read is a step of its own: the file it reads is the file at that moment, not at
the moment of the request.

Offsets are counted in half lines, so that a read may end inside a line. Text patterns
are reduced to four kinds of line: the login that opens a session, the logout that closes
it, a direct message, and other text. The unbounded fields of the C++ structures
(message text, wall-clock times, counters for display) are left out; an age limit of 180
seconds is the Boolean `fresh`.

### 2.2 Runs

| Run | Bounds | Shows |
|---|---|---|
| `pdc_order` | 1 file of 3 lines, 2 disturbances, truncation, request ids modulo 2, stage of 2, one message per batch, a window longer than the file; 1 479 111 states, 100 s | `TypeOK`, `InboxFollowsLog`, `NoMessageTwice`, `AcceptedRangeIsCurrent`, `AdmitsOpenSessionOnly` |
| `pdc_delivery` | up to 2 files of 3 lines, written in two parts, 1 disturbance, stage of 2, one message per batch, logs that may be silent, with fairness; 386 325 states, 205 s | `EveryMessageArrives` |
| `pdc_suspend` | 1 file of 3 lines, 1 disturbance, expects a violation | `MonitoringContinues` fails (finding 1) |

Three lines are enough for the interesting histories: login, message, logout; a login
between two messages; two messages of which the second is half written. Two disturbances
let a suspension meet a reconnection, or a failed read a change of flight, in any order,
with the worker's answer still out. Request ids repeat after two, so a stale answer with
the id of the current request does occur, and only the epochs keep it out.
What the runs leave out (two files together with truncation, a recovery window that cuts
a line, contention) the theorems of 2.4 cover, for every property of this run.

`PdcLogDelivery` adds one history variable to the monitor. `foundSilent` holds the lines
that a snapshot has dropped because the file had not been written for more than 180
seconds (`FinishSnapshot`, `BrainPdcLogRuntime.cpp:201-217`): the code means to drop them,
remembers only how far it has read, and never shows them. `EveryMessageArrives` names this
exception and one other, `CommitInterrupted`: the plugin was disabled between two batches
of a commit (finding 1), after which nothing is read until the connection or the flight
changes. The batch of one message and the stage of two, for the code's four and
thirty-two, let a commit span callbacks, so that a suspension, a reconnection or a change
of flight does come between its batches. Without either exception TLC finds a message that
is never shown; with both, one that is lost in any other way violates the property.

`NoMessageTwice` speaks only of lines of logs that are not rewritten. A file may shrink
and grow past its old size between a discovery and the read that follows; the code cannot
see that, takes the new lines for a continuation, and shows some of them again when it
does notice. xPilot starts a new file instead.

### 2.3 Fairness

`EveryMessageArrives` assumes that X-Plane keeps calling the flight loop and its clock
advances (`Callback`, `ServiceTimeArrives`), that the worker answers what it takes
(`TakeRequest`, `AnswerRequest`), and that xPilot completes a line it has begun
(`FinishDirectLine`). A request the
worker has taken ends with its answer, or before that with the answer that the log is
silent or with a failure; the log may be found silent any number of times. The instance has no lock contention: the worker holds the mutex
only to move one record, and a missed `try_lock` is tried again at the next callback.
Nothing is assumed of the pilot, of the network or of failures.

### 2.4 What is proved

`PdcLogMonitorProofs` proves five theorems for every number of files, lines, callsigns,
routes, replay slots and disturbances, every batch and stage size, every read limit and
recovery window, and with or without contention, truncation and stale files. The only
assumption is `ConstantsAssumption` of `PdcLogMonitor`: sizes are positive, and a block
holds at least one whole line.

- `TypeCorrect`: `Spec => []TypeOK`.
- `InboxOrder`: `Spec => []InboxFollowsLog`.
- `AcceptedAnswers`: `Spec => []AcceptedRangeIsCurrent`.
- `NoLineIsAdmittedTwice`: `Spec => []NoMessageTwice`.
- `OnlyTheOpenSessionIsAdmitted`: `Spec => AdmitsOpenSessionOnly`, an action property.

None of them is inductive. That a later batch lies behind an earlier one needs to
know where the replay cursor is, and where what is staged lies. The inductive invariant
`IInv` says so in named parts:

- `InboxInv`: the inbox is in log order, and every message in it is behind what the
  monitor has yet to admit: logged in an older file or incarnation, or at or before the
  replay cursor of the file being read.
- `StageInv`: what is staged and not yet committed ends beyond the replay cursor.
- `PhaseInv`: reading and committing concern a file, and while messages are committed or
  the plugin is disabled no answer is awaited.
- `MailboxInv`, with `RequestInv`: no stamp in the mailbox is from the future, and a
  request whose lifecycle epoch, connection epoch and id are the monitor's own asks for
  the file and range that the monitor reads. A fact that is ready answers the request
  beside it and names no file older than the monitor's.
- The monitor's file is one that exists.

Every action has a lemma that it preserves `IInv`. The callback is the long one: its
lemmas follow the stages of the C++ function (connection, fact, discovery, range,
commit, submit), each stated as an assumption about the state before and a promise about
the record after, so that the callback's own proof only chains them.

`MonitorInvariant` is `Spec => []IInv`; the first three theorems follow from it. The other
two say of which line of which file a message is, and what was logged around it; `IInv`
knows nothing of lines. A second invariant, `LedgerInv`, is proved over it
(`LedgerInvariant`):

- `LogsInv`, about xPilot alone: a direct message stands in an open session of its
  callsign, and xPilot is in the session whose login it logged last.
- `StagedInSession`: a staged record is a direct message of the bound callsign, read from
  the monitor's file (`ReadFrom`), and between its line and the read cursor there is no
  login or logout of the callsign.
- `InboxNamed`: an entry's file and offset are those of its line, and the entries of one
  batch, like those of the first life of a file, carry one incarnation.
- `FirstLife`: while xPilot has not rewritten the monitor's file, neither cursor nor
  snapshot end lies beyond its end, and what was admitted of it carries the incarnation
  the monitor gives it now. That is why an append-only log is never taken for a rewritten
  one, and hence why no line of it is admitted under a second identity.
- `DiscoveryInv`, `RangeInv`, `DiscardInv`, about the answer in the mailbox: its records
  are lines of one life of the file, and from the first record to the end of the range, or
  from its beginning unless a first fragment is dropped, no line is missing. A gap would
  let a logout pass unnoticed.

These facts have to survive what xPilot appends or truncates while the answer is on its
way: `Grown` is what any step of xPilot does to the logs, and `GrownLedger` shows that it
breaks none of them. A request is made while `IInv` holds, its answer is true of the logs
when the worker reads them (`FactHolds`), and still is when the callback takes it.
TLC checked `LedgerInv` on the instance of `pdc_order` and on one of two files with
truncation before it was proved.

`EveryMessageArrives` and `MonitoringContinues` are liveness properties, which this prover
cannot establish; they stay with TLC.

## 3. The xPilot 4 bridge

### 3.1 Modules, state and actions

`XPilot4Protocol` has the data both sides share: kinds of observation, the record that
travels, and the bounded queue that counts what it had no room for
(`BoundedObservationQueue.cs` and the client's ring have the same rule).

`XPilot4Companion` extends it with the plugin inside xPilot. `xpilot` is the host:
process, session, callsign, controllers. `companion` is the plugin. Its handlers take two
steps each, because the source does: an observation is created, which takes the next
sequence number (`NetworkConnected`, `PrivateMessageReceived`, `ControllerEvent`, ...,
leaving it in `held`), and is queued under the lock later (`CaptureHeld`). The runner
does the same for the answers to snapshot requests (`NumberAnswer`, `CaptureTaken`, with
`taken`), so the order of numbers and the order of the queue can differ. The other
actions of the runner are `CreatePipe`, `WriteHello`, `WriteObservation` (peek, write,
commit, with a report of losses when there is room), `ReadCommand`, `StopGracefully` and
`LosePipe`.

`XPilot4Brain` has what one observation does to `BrainXPilot4BridgeRuntimeState`
(`Consume`, with one operator per observation kind), and what the end of a service call
does (`EndService`: re-evaluate deferred messages, time out, ask for a list).

`XPilot4Bridge` composes the two with the pipe and the client thread (`ConnectClient`,
`FlushCommand`, `ReadObservation`, `NoticeDisconnect`), adds the flight loop (`Harvest`,
`Serve`) and what may go wrong (`BreakPipe`, `RestartXPilot`, `RestartPlugin`), and
states the properties. A service call is several steps, because the client publishes
between two harvests; `served` counts what this call has consumed.

Three fields are not in the code. `raced` names the controllers whose events entered the
queue between the copy of a list and its `SnapshotStarted`; `spent` counts bounded
events; `callsign` on a message records under which callsign it came in, so that the
property can compare it with the flight that shows it.

The set `Faults` selects which disturbances a run allows: xPilot's session ends, xPilot
restarts, its list of controllers cannot be read, the pipe breaks, an answer takes longer
than five seconds, the plugin is reloaded, the five minutes of deferred messages are
over.

### 3.2 Runs

Runs about a connection that exists start from `Established` (module `MCXPilot4Bridge`)
instead of `Init`: xPilot connected and showing every controller, the flight confirmed,
everything consumed. TLC reaches that state from `Init`; starting there leaves the depth
of the search to what happens afterwards.

| Run | Bounds | Shows |
|---|---|---|
| `bridge_messages` | 2 callsigns, companion queue of 2, 2 messages, one more connection, one more flight, 1 disturbance of 5 kinds; 1.76 million states | `MessageReachesItsCallsign`, `EachMessageOnce` |
| `bridge_lists` | 1 controller, queues of 4, 2 requests, late or failed answer; 380 000 states | `TypeOK`, `BuildAnswersRequest`, `ListIsAccurate`, `LossIsReported` |
| `bridge_arrives` | 1 controller, queues of 3 and 4, 4 requests, failed list, late answer or restart with another connection, with fairness; 725 172 states, 150 s | `ListArrives` |

`bridge_messages` keeps one message waiting for a flight while another is queued, with
the companion's queue so short that connection changes are lost in it. The client's queue
is given more room than it can fill, and this matters: with a client queue of one, one
broken pipe loses `TransportDisconnected` in the client and `ConnectionStateChanged` in
the companion, the Brain never learns of the new callsign, and shows the next message
for the old flight. Production sizes are 1024 and 512, so the case needs a stalled
flight loop; it is in the hazard list.

`bridge_lists` has one controller, and one event about it: it leaves or changes at any moment of
a transfer, which is what the merge of entries and events must get right. A controller that leaves and
returns during one transfer, and more than one of them, are beyond this bound; the theorem
`ListsAreAccurate` covers them. `ListIsAccurate` excepts the
controllers in `raced`: without the exception TLC finds a list marked complete that
contains a controller that left (the list is copied on the runner's thread, the
deletion is queued before `SnapshotStarted`, and the Brain applies it to the old list).

The run has no broken pipe and no restart, and with a client queue of one
`ListIsAccurate` fails under both, as TLC shows when the steps are given to it. The client
loses `TransportDisconnected` of the first xPilot, so the Brain still has a source and a
connection when the second greets it and sets its last number to 0; what the second sends
first is lost in a pipe that breaks; and then the Brain asks for a list. An event that is
numbered before `SnapshotStarted` but queued behind it is stale when it comes, and the
number it leaves out is not missed, since `ObserveSequence` misses nothing after 0
(`BrainXPilot4BridgeRuntime.cpp:270-283`). The list is marked complete without that
controller. With the production sizes the client's queue must fill up first, that is, the
flight loop must have stalled.

`bridge_arrives` asks what becomes of a list that was asked for, in the module
`XPilot4Arrival`. The queue of the companion holds one answer about one controller and
nothing more, so that an event queued during the answer makes it lose a part. Of the
disturbances, one happens: xPilot fails to list its controllers, an answer takes longer
than five seconds, or xPilot restarts. `MaxConnections` leaves a connection for the new
xPilot, so the Brain has a source again in many of those behaviours, and then
the list must come. To keep the run small the pilot stays connected as long as xPilot
runs, and a controller's event and a restart exclude each other (`StaysConnected`,
`ChangeOrRestart` in the MC module).

A list does not always come: finding 4. The Brain may give up a request whose answer is on
its way, after a late answer or a loss, and the end of that answer cancels the next
request, and so on. `ListArrives` excepts exactly that: the time in which a question or a
part of an answer is on its way that the Brain does not wait for (`AnswerAbandoned`). Once
there is none the list must come, after a late answer too. Four requests are the bound of
the model; when they are used up the Brain of the model can ask no more, and this excuses
it only after an answer was abandoned (`RequestsWasted`, with the history variable
`abandoned`). Without one, four are always enough; with three TLC finds a loss and a failed
list that use them up. With a queue of two, into which the answer does not fit, it finds
that no list ever arrives.

After a broken pipe nothing is claimed of lists. The source does not come back as long as
this xPilot runs (finding 3), so the Brain cannot even ask, and the run has no such fault.

### 3.3 Fairness

xPilot's UI thread finishes a handler it has entered (`CaptureHeld`). The runner, the
client thread and X-Plane's flight loop keep running: each of their steps that stays
possible is taken. Commands are read with success (`ReadCommand(TRUE)`), and the end of a
call comes without a time-out (`Serve(FALSE)`). There is no fairness on what the network,
the pilot or a fault does, nor on `StopGracefully`.

`ListArrives` says "or the source is gone" and "or xPilot is disconnected" because the
code can do nothing then; both end when the new connection reaches the Brain, and the
property asks for the list again. `LossIsReported` is an invariant: it is about the states in which the
Brain has consumed all there is.

### 3.4 What is abstracted

An incompatible SDK, `SourceUnavailable`, rejected commands and oversized observations
are left out. A frame is one value, and one that fails to decode is a broken pipe. The
connection that `Initialize` finds already made is the same as one made at once. The
counters shown on the diagnostics page, frequencies, locations and message bodies have no
effect on control. `StopBrainOwnedXPilot4BridgeRuntime` and the reset are never called in
production code and have no action.

### 3.5 What is proved

`XPilot4BridgeProofs`, and `XPilot4ListProofs` for the last theorem, prove for every queue
size, every number of callsigns, controllers, messages, requests and disturbances, and
every choice of faults:

- `BridgeTypeCorrect`: `Spec => []TypeOK`.
- `TransferAnswersRequest`: `Spec => []BuildAnswersRequest`.
- `NoMessageIsShownTwice`: `Spec => []EachMessageOnce`.
- `MessagesReachTheirCallsign`: `Spec /\ []NoLocalLoss => []MessageReachesItsCallsign`.
- `LossesAreReported`: `Spec => []LossIsReported`.
- `ListsAreAccurate`: `Lasting => (Spec => []ListIsAccurate)`.

The assumptions are those the modules name: `ProtocolAssumption` (the controllers are
finitely many, and no callsign or controller is the absent one), `CompanionAssumption`,
`BrainAssumption` and `BridgeAssumption` (sizes are positive numbers).

Types alone are not inductive. The Brain puts the controller of an observation into a set
of controllers, so every observation on the way must name one where its kind requires it
(`Proper`), in both queues, in the pipe, and in the hands of both threads. The runner
picks the next entry from what is left of a list, so there must be something left when it
does (`AnswerInv`): the phase `Entry` is entered only then, and left when the last entry
has been queued. `Sound` states of the Brain that a list in transfer is the answer to the
pending request; each operator of `XPilot4Brain` has a lemma that it maps a sound Brain
to a sound one, and `IInv` joins `Sound` with the types of the rest. Each action has one
lemma.

*No message twice.* `MessagesInv` adds three things to `IInv`. `OnTheWay` says what kind of
observation can be in each place between xPilot and the Brain: every message there has a
number, `Hello` is never in the companion's queue, and what XVatsim reports of itself is
only in the client's. `ProcessesInOrder` says that the greetings on their way are of no
process before the Brain's and in the order of the processes, so the Brain never returns to
an earlier process, whose numbers it would have forgotten. `AllSeenOnce` says that the
Brain has `Seen` the number of every message in the inbox and among the deferred ones: its
process is an earlier one, or its number is at most the last seen. A message that is not
stale then differs from all of them. The invariant speaks of numbers and not of order: a
message that is admitted directly may overtake an older one that is still deferred, which
the code re-evaluates at the end of the call (`BrainXPilot4BridgeRuntime.cpp:771`).

*The right callsign.* `CallsignInv` says that there is a function from connections (a
process and an epoch) to callsigns with which every message and every connection change on
its way agrees, as do xPilot and a Brain that is connected (`Agrees`). When xPilot connects
anew its epoch is one nobody has mentioned, and the function is changed there. The inbox is
of the callsign it is bound to (`Bound`). `Reconnects` is the argument about the pipe: the
Brain takes the epoch of a greeting at once but its callsign only from a connection change,
so it must be connected to nothing whenever it consumes a greeting. It is, because in the
client's queue `TransportDisconnected` comes before the next `TransportConnected` and
`Hello`, and `Hello` is the first word in every pipe.

That argument needs the client's queue to have kept `TransportDisconnected`, and the
theorem says so: `NoLocalLoss` is that the queue has no loss on record. Without the
hypothesis the property is false, as section 3.2 shows for a queue of one; with the
hypothesis nothing is assumed of the companion's queue, whose losses are what the
epoch on every observation is there for.

*Losses are reported.* The property itself says `Lasting`, that is, that the pipe and the
two processes last: what is in a pipe that breaks is lost without a count, and the Brain
learns of it from the next number. With faults among which one of those is, the property
holds by its first line; the proof is about the others, with an invariant for them,
`LossInv`, true as long as the companion has not stopped.

The number the companion took last is `Tracked`: it is in the hand of a thread, on its way
(`OnWay`: in the client's queue, the pipe or the companion's queue), about to be reported
as lost, or the Brain has it. When nothing is on its way only the last is left. `Tracked`
by itself is not inductive: the Brain drops as stale an observation whose epoch is not its
own, and a report of losses has the epoch of the first loss, which may be over by then. A
Brain that drops the report is past that epoch, so it has seen a connection change and
needs a list (`Reported`), and `Known` is that the number is tracked *or* the Brain needs
a list and waits for none that is on its way. The second half must survive the end of a
list, which takes the need away: a list that was asked for before the loss may arrive
after it. It does not, because observations of lists and reports of losses are `InOrder`
across the three queues (`Line`): a list that ends ahead of a report is of the report's
epoch or an earlier one, and is stale when the report is; one that ends after it has a
later number, which is then the last one tracked. `Counting`, `Hands`, `Placed` and `Asked`
say what numbers, epochs and requests can be where, and `Greeted` that the Brain of a pipe
that has not been greeted has seen nothing. The client's queue may have lost something
itself, and until the Brain hears of that nothing is known (`Spoilt`); its report makes a
list required.

`RaiseSure`, `NumberSure`, `CaptureHeldSure`, `CaptureTakenSure`, `WriteSure`, `OtherSure`,
`HearsSure`, `HearsKnown` and `ServesSure` are the argument, each about one thing that can
happen to any companion and any Brain; the lemmas that end in `Loss` apply them to the
actions. Of the sizes the argument uses only that the companion's queue has room for
something.

*Lists are accurate.* Here `Lasting` is a hypothesis of the theorem and not of the
property, for section 3.2 shows that the property is false without it; nothing is assumed
of the queues. The theorem rests on `LossInv` and on a second invariant, `ListInv`, that
relates the Brain's list to xPilot's over any number of steps between the two. It says that
there is an account `h`, a function from numbers to what held when the number was taken:
the controllers xPilot showed, the last list begun and what was left of it, the request it
answered, and the number of the last change of connection. Numbers are only ever taken at
its end (`Grown`), so the account of the past stays. Then:

- `Recorded`: an observation in a hand or on its way changed the account as its kind says,
  so a Brain that knows the account of the number before it and takes it in knows the
  account of its number.
- `Informed`: a Brain that needs no list has, outside `raced`, the controllers of the
  account of its last number; one that builds a list has entries, additions and removals
  that, merged with what is left of the list, give them. One that does not is going to ask
  for a list. When `Drained`, the last number is the companion's (`LossInv`), and its
  account is of what xPilot shows (`Kept`).
- `Answering`: the answer in the runner's hands is what the account says it is.
- `InTurn`: requests are read in the order in which they are made, so of all lists on the
  way only the last one requested can answer the Brain's request, and it was copied after
  the Brain asked.
- `Starting`: a list is copied before its first number is taken, and events in between are
  what `raced` excepts. That is not all: an event may be numbered before `SnapshotStarted`
  by one thread and queued behind it by the other. `Z` is the set of the numbers that were
  so overtaken. The Brain drops such an event as stale, but `SnapshotStarted` has shown it
  the gap: it asks for another list and rejects this one. That needs a Brain that has seen
  a number when it asks (`Informed`; this is what fails after a restart), and that
  `SnapshotStarted` does not come behind the number it overtook in any of the three queues
  (`Trail`). That a list copied for one connection is not taken for another is the number
  `cut`.

The lemmas that end in `Accurate` (`RaiseAccurate`, `NumberAccurate`,
`CaptureHeldAccurate`, `CaptureTakenAccurate`, `ReadAccurate`, `WriteAccurate`,
`OtherAccurate`, `HearsAccurate`, `ServesAccurate`) are the argument for any companion, any
Brain and any account, and those that end in `List` apply them to the actions.

Of the bridge's properties only `ListArrives`, which is liveness, is model-checked alone.

## 4. Route coordination

### 4.1 Modules, state and actions

`RoutePreparationWorker` is the worker thread and what it shares with the flight loop:
the request and the fact in their one-slot mailboxes (`pending`, `completed`), the request
that holds the latest mailbox sequence (`current`), the retirement stacks, the auto-reset
`wake` event. Nothing is locked, so each atomic exchange is a step. The thread goes
`WakeUp`, `Take`, `Begin`, then `WorkCancelled`, `WorkInVain`, `Observe` or `Prepare`, then
`Conclude`, `Publish`, `DrainAfterWork`.

`RouteCoordinator` extends it with the route refresh of the flight loop
(`XVatsimPlugin.cpp`), one step per atomic operation it makes on the worker's objects:

| Action | Code |
|---|---|
| `Refresh`, `RefreshWithoutPlan` | form the desired identity, harvest at most one fact |
| `CallCancelSequence`, `CallCancelRequest`, `Withdraw` | `CancelPending` and the retirement of the accepted route when the identity has changed |
| `Judge` | accept or reject the fact, settle the request, publish to the Brain |
| `Decide`, `Post` | choose the next request, post it |
| `Invalidate`, `XPluginStop`, `StopBegins`, `StopRequest`, `StopFact`, `Join` | reset, and the stop of the worker |
| `Change`, `FileChanges`, `Expire` | the world: plan, sources, FMS file, timers |

A lease is what keeps a route alive. The worker retains it when the route is made
(`retained`), the flight loop marks it retired (`leaseRetired`), and the worker frees what
is marked when it next drains. The Brain's own snapshot is handed back through
`retiredRoutes`.

`CurrentRoute` is the promise: a route is put up for the inputs there are at that moment,
is withdrawn, and in the end is shown when there are inputs.

### 4.2 The run

`route`: two plans, one source dataset, two FMS files, pools of two request and two fact
nodes, and either two changes of the FMS file or one other disturbance (another plan or
dataset, a disconnect, a request that fails), under `FairSpec`; 448 402 states, 170 s. It
checks `TypeOK`, `EligibleInFlight` (a request the
coordinator waits for is on its way, or its answer is: otherwise route preparation ends for
good), `BrainShowsDesired`, `LeasesAccountedFor`, and the liveness properties `StopJoins`,
`FmsNoticed` and `PublishesCurrentRoute`.

The worker reads the FMS file twice: to observe it, which gives the identity, and again to
build the route, which it does not compare with the first (`BuiltFrom`). So a route may be
built from a newer file than its identity says. The next observation finds that file and
withdraws the route, unless the earlier file is back by then, which takes two changes and
is why the run allows two. `FmsNoticed` therefore says two things of a file that comes to
rest: the accepted route is made for its identity, and it is built from it (or from a
preflight candidate, and no file) unless an earlier file came back (`reverted`). Without
that exception TLC finds the route of the file that is gone (finding 10).

One other disturbance suffices for the races because the worker, the callback and the timers
interleave freely: the plan can change at each point of a request's life, and the answer to
the old plan, the request for the new one and a timer's request can coexist. Pools of two
are the smallest in which a request is posted while another is worked on, and small enough
to run out, so that a callback without a free node is among the cases.

### 4.3 Fairness

The flight loop's callback and the worker's thread are scheduled (weak fairness). A timer
that runs is due again and again (strong fairness, because a callback that acts restarts
it). Failures of the engine are disturbances, so there are finitely many: with an engine
that always fails no route can be shown.

### 4.4 What is abstracted

- Sequence numbers, request identities and epochs are compared for equality only. The
  model takes an identity nobody holds where the code increments a counter.
- `source` stands for all parts of the identity that change without the plan: the dataset,
  the preflight candidate, the anchor. Retention of datasets is left out, and so are the
  second slot for a route shared with the pilot and the array of deferred deletions.
- `DrainRetiredObjects` is one step, and so are the exchange of a mailbox and the push of
  what was in it, since nobody but the worker looks at the stacks.
- An FMS file is a number, by the time it was saved, as its modification time is part of
  the identity. An earlier one comes back when the pilot deletes the newest; that a file
  cannot be read for a moment is the same as another file in between.
- The flag that marks a dataset as stale is left out. A fact that is no longer wanted moves
  the retry timer by two seconds, as the code does even after the identity has changed.
- Nodes pushed after the worker has left stay until the worker object is destroyed; the
  code frees them in the destructor.
- A prepared route takes an identity that nobody holds. The instance has more of them than
  can be held at once, so the guard `FreshRoutes # {}` never stops the worker there (TLC
  checked it as an invariant).
- The Brain derives its moving picture of the route from the accepted one; such a copy is
  the value `Derived`.

### 4.5 What is proved

`RouteCoordinatorProofs`, for every number of plans, sources, files, nodes and
disturbances: `CoordinatorInvariant`, `BrainShowsWhatIsDesired`
(`Spec => []BrainShowsDesired`) and `ImplementsCurrentRoute` (every step is a step of
`CurrentRoute` or leaves it alone). The first inductive invariant `CoordinatorInv` says that a
fact carries a route only when completed, that the Brain publishes exactly the accepted
route or a copy of it, and what the callback holds between two of its atomic operations.

A second invariant, `PreparationInv` (`PreparationInvariant`), is about the worker, the
mailboxes and the pools, and gives `TypesAndPoolsHold` (`Spec => []TypeOK`, which includes
that no pool is overdrawn), `TheRequestIsOnItsWay` (`Spec => []EligibleInFlight`) and
`NoLeaseIsLost` (`Spec => []LeasesAccountedFor`). Its parts:

- `WorkerHolds` and `CallbackHolds`: what each of the two has in hand at each point between
  two atomic operations.
- `NodesLeft`: at most one fact waits and one is in the callback's hands, so two fact nodes
  suffice; a callback that has decided to post has a request node.
- `EligibleUnderway`: the request the coordinator waits for is in the mailbox, or the
  mailbox is empty and the request is being worked on or its fact is on its way back. No
  later request can replace its fact, because the worker only takes what is newest.
- `LeasesHeld`: the lease of a finished route is retained and not retired while a fact or
  the accepted route still names it, and no two of them name the same one. This is what
  makes it safe for the callback to retire a lease by its identity alone.
- `LeasesFollowed`: no lease is retained without someone who will retire it.

The assumptions are named at the head of the modules: there are at least two fact nodes
(the code has four), the value that stands for an absent object is none of them, and if
identities are finitely many there are more of them than can be held at one moment, which is
what the code's counters provide.

`PublishesCurrentRoute`, `StopJoins` and `FmsNoticed` are liveness and stay with TLC.

## 5. The diagnostics writer

### 5.1 Modules, state and actions

`SpscRing` is the ring without a lock: slots, a read and a write index, and what its
reader finds between them. `DiagnosticsWriter` is the writer: two lanes that are queues
under the mutex (`critical`, `routine`), two that are rings (`timing`, `evidence`), the
one-slot mailbox through which the Brain asks for xPilot's log, and the thread.

| Actor | Actions | Code (`AsyncDiagnosticsWriter.cpp`) |
|---|---|---|
| any caller | `Offer`, `Enqueue`, `Contend` | the enqueue functions, `accepting` read twice, `try_lock` |
| flight loop | `BeginPush`, `StoreSlot`, `PublishWrite`, `CountPush` | `TryPush` and its caller |
| flight loop | `SubmitPdcLogRequest`, `HarvestPdcLogFact` | the mailbox |
| flight loop | `Start`, `StopAccepting`, `RequestStop`, `Join` | `Start`, `Stop` |
| worker | `TakeCritical`, `TakeRequest`, `LookForRecord`, `TryTiming`, `TryEvidence`, `TakeRoutine`, `CopySlot`, `PublishRead` | the choice of the next record |
| worker | `Process`, `Settle`, `PublishFact`, `Exit` | the record or the question, and the end |

`DiagnosticsLog` is the promise: what is accepted is written or counted as failed once, in
its lane's order; a writer that is not open accepts nothing and is closed only when
nothing is left; a question is answered once and neither it nor its answer outlives the
session.

### 5.2 The run

`diagnostics`: one caller beside the flight loop, lanes of capacity 1, two timing records
and one of each other kind, one failure, one question, two sessions, under `FairSpec`;
581 279 states, 160 s. It checks `TypeOK`, `SlotsAreNotShared`, `IdleIsDrained`,
`KeepsPromise` (the refinement) and `StopReturns`.

A ring of capacity 1 has two slots, is full after one record and wraps around at the
second, so both boundaries are met by two timing records. A second session shows that
nothing of the first is left: a record numbered on, a fact in the mailbox, an index.

### 5.3 Fairness, and what is abstracted

The worker's thread runs, and a stop that has begun goes on (`RequestStop`, `Join`).
Callers owe nothing.

- In production only the flight loop calls the writer; the other caller stands for the
  probes, which use it from threads of their own. `Contend` is possible at any time.
- The loads and stores of the indices are release and acquire operations; the model is
  sequentially consistent, which is sound for one writer per index.
- A call that is refused changes a counter only, so refusals are not distinguished.
- The file (dates, retention, trimming, back-off after an error) is the choice between
  written and failed. One case is left out: a record that does not fit into the trimmed
  half of the file, over 4 MiB, is dropped without being counted
  (`AsyncDiagnosticsWriter.cpp:827`).
- Numbering goes on over sessions, to tell a record of the first from one of the second.
- Failure to create the thread is left out.
- Starvation of the lower lanes by a busy higher one is not stated: the code gives no
  fairness between lanes.

### 5.4 What is proved

`DiagnosticsWriterProofs` proves first of the ring, for every capacity, that publishing
appends the stored record to what the reader finds (`PublishAppends`) and that releasing
removes the one it has copied (`ReleaseTakesHead`); and then of the writer, for every
capacity, number of callers, records, failures and sessions: `WriterTypeCorrect`,
`SlotsNeverShared`, `RoutineIsAlwaysThere` (the untested pop of the routine lane never
meets an empty lane), `IdleMeansDrained` and `WriterKeepsPromise`, the refinement of
`DiagnosticsLog`. The inductive invariant has named parts: `PhaseInv` (worker, flags and
session agree), `CallerInv`, `PushInv` (the slot being stored is free), `RingInv`,
`WorkerInv` (the record being copied is the ring's head), `MailboxInv`, and `CountInv`
(what is submitted is pending, in flight or counted). `StopReturns` is checked by TLC
only.

## 6. Airport weather

### 6.1 Modules, state and actions

`MetarFetch` is what the client (`VatsimMetarClient.cpp`) promises: one fetch at a time, a
fact published before the client says that it runs no more, a start that is refused
meanwhile, a harvest and a cancellation that join the thread.

`MetarClient` is how. The thread opens a WinHTTP request, sends it, waits, and closes the
handle; the flight loop may cancel by closing the same handle. `activeRequest` holds the
handle, and who exchanges it out closes it. WinHTTP makes its last call into a context on
the worker's stack; the worker waits 450 ms for that call (`Await`) and otherwise reports
the callbacks as not closed. The next `Start` stores that they are closed, whether the call
has come or not: from then on the model counts it among those WinHTTP owes to earlier
fetches (`late`), and `LateCallback` makes it, into a context that is gone or that is the
next worker's by now.

`ReportedClosedIsClosed` is therefore about the latest fetch: what it reports as closed is
closed, unless a late call of an earlier fetch set its closing event (`stray`). That the
report covers the fetches before, as the name of the flag suggests, is not true of the
code (finding 9).

`MetarRuntime` (`BrainMetarRuntime.cpp`) extends `MetarFetch`, not `MetarClient`: it needs
the promise only. The record `metar` is the runtime's state: the flight's airport and
report, its health, what is shown, the pilot's lookup, the request that is out, the facts
put aside, the deadlines that have passed (`due`).

| Action | Code |
|---|---|
| `Cycle` (`CommitHarvested`, `CommitDeferred`, `Retarget`, `ExpireTransient`, `BecomeStale`, `PutAside`) | `RunBrainOwnedAsyncFactCycle`, from the harvest to the deadlines |
| `Join`, `Dispatch`, `DispatchNothing` | the join after a harvest, and the next request |
| `BeginBoundary`, `EndBoundary` | a lifecycle boundary: cancel, join, drop, and what state is kept |
| `CommitTextEntry`, `SelectDrawer` | the pilot asks for an airport, opens and closes the drawer |
| `Disconnect`, `Connect`, `SetContext`, `Elapse` | the network, the flight and the clock |

### 6.2 Runs

| Run | Bounds | Shows |
|---|---|---|
| `metar_client` | 2 requests, 2 reports, at most 2 calls owed to earlier fetches at a time, with fairness; 3286 states | `TypeOK`, `HandleHasOneOwner`, `ReportedClosedIsClosed`, `KeepsPromise`, `JoinsReturn` |
| `metar` | airports Home and Away, the flight IFR at either, VFR or none, 3 events, 2 reports; 3.1 million states, 100 s | `TypeOK`, `PrimaryIsTrue`, `LateAnswersAreNotShown`, `SpotlightAnswersTheQuestion`, `ReportsNeverGoBack`, `NoFactIsLost` |
| `metar_answers` | 2 events, 1 report, with fairness; 81 452 states, 115 s | `LookupIsAnswered`, `PrimaryIsResolved` |

Three events are enough for a lookup, a disconnection and a change of airport around one
fetch, in every order. Disconnections, changes of flight, lookups and boundaries count as
events; reconnections do not. Two reports suffice to tell older from newer.
`ReportsNeverGoBack` rests on a server whose reports do not go back: in the models they
only grow, and the code, which compares no observation times, would show an older report
that the server gave later. `LateAnswersAreNotShown` is about a lookup whose time-out has
been told: a cycle harvests before it looks at the deadlines, so an answer that is there in
the cycle in which its deadline passes is shown. A boundary
happens with the state cleared (a new flight, the stop of the plugin) and without (the
plugin suspended by its administrator page).

### 6.3 Fairness

X-Plane calls the flight loop again and again, and the system runs the thread, each of
whose waits has a time-out. A lookup shown with a deadline meets its deadline: strong
fairness, because what is shown may be replaced before the deadline. Nothing is assumed of
the pilot, the network or the server.

### 6.4 What is abstracted

There is no clock: a deadline is a member of `due` once it has passed, and the lengths of
the back-off are left out. A report is a number, and every failure, and every report that
is rejected, is 0. The phases of a request (send, headers, data) are one wait, for each
ends in the same ways. Age bucket, history and counters are left out. A late call sets
a later fetch's closing event or does nothing; that it reads a stack that is unmapped, and
X-Plane ends, is left out, and so are the other calls WinHTTP may make late, which end a
wait with a failure as `Wait` may anyhow.

### 6.5 What is proved

`MetarClientProofs`, for every set of requests and any number of reports and of calls owed
to earlier fetches: `ClientTypeCorrect`,
`OneOwnerOfHandle`, `ReportIsRight` and `ClientKeepsPromise`, which is
`Spec => Promise!FetchSpec`. The inductive invariant `ClientInv` joins the types with
`OneOwner`, `ThreadInv` (what the place of the thread says of flag, handle and request) and
`CallbackInv` (the closing event is of the fetch that runs, and is set by WinHTTP's last
call for its handle or by a late call of an earlier one).

`MetarRuntimeProofs` proves, for every set of airports, every context of the flight and any
number of events and reports, each safety property its run checks: `TypesHold`,
`WhatIsShownIsTrue` (`PrimaryIsTrue`), `LateAnswersStayHidden` (`LateAnswersAreNotShown`),
`LookupsAnswerTheQuestion` (`SpotlightAnswersTheQuestion`), `ReportsOnlyGrow`
(`ReportsNeverGoBack`) and `FactsAreTaken` (`NoFactIsLost`); and `RuntimeCallsAsAllowed`,
that the runtime calls the client only as `MetarFetch` allows. The one assumption,
`RuntimeAssumption`, is about constants: an absent airport or context is none of the others,
and the requests are those that can be numbered within `MaxEvents`.

The properties are about what is shown; what makes them true is elsewhere. `RuntimeInv` has
these parts:

- `Shows(metar)`: what is shown is of the current airport and lookup, and an answer that
  came too late for its question is not among it.
- `OneRequest`: there is one request at a time, and the worker, the result that waits and
  the fact put aside are all about it.
- `AnswersAreRecent`: a request belongs to the current epoch, and the report that answers
  it is no older than its question, nor than what is shown for the same airport. Therefore
  replacing what is shown never goes back.
- `Counted`: epoch and generations are behind the number of events, so that two lookups
  never share a number within the bound.
- `NothingAside`: a fact that was put aside while the plugin was suspended has been committed
  before the loop can start another fetch, which would overwrite it.

`JoinsReturn`, `LookupIsAnswered` and `PrimaryIsResolved` are liveness.

## 7. The Manager's installer

### 7.1 Modules, state and actions

`TransactionalInstaller` has the managed files, the receipt, and for the Manager of each
release the plan it shows. `Plan` (`InstallPlanning.cs`) looks at the files and the receipt;
`Begin`, `Stage`, `BackUp`, `Replace`, `Verify` and `WriteReceipt` are the transaction
(`TransactionalInstaller.cs`), with one `Replace` per file, since a failure or a crash may
come between two; `Fail`, `RollBack`, `RollBackFails` and `EndRollBack` are its `catch`
block. `Crash` ends a transaction anywhere, and `Change` is somebody else's change of a
file.

The window keeps its plan after a failure, with the button enabled
(`MainWindow.xaml.cs:325-336`), and any number of Managers may be open. So a plan may be
carried out after the files or the receipt have changed, and files that matched when it
was made are not among its changes. That is why the code verifies all files of the plan at
the end and not only those it replaced.

`Installation` is the promise, from the Transaction Contract of
`docs/XVATSIM_MANAGER_CONTRACT_GATE.md`: an installation is one step that replaces all its
files and writes the receipt, or it leaves the files alone and says that they were
restored; only a crash, or a report that asks for attention, leaves some old and some new.
The refinement maps the files to `settled`, what a roll-back would leave.

### 7.2 The run

`installer`: two releases that share one of three files, one file for xPilot 4 only, three
disturbances (failures, crashes, changes by others, receipts that cannot be read); 677 060
states, 60 s. It checks `TypeOK` and `KeepsPromise`. Three disturbances allow a change
between plan and transaction, a failure during the replacements and another during the
roll-back.

### 7.3 What is assumed and abstracted

Two transactions do not overlap, and nobody else writes managed files during one: X-Plane
and xPilot are closed, which the code checks, but nothing in the code prevents two Managers
from installing at the same time, and `KeepsPromise` is not claimed for that. Staging and
verification are one step each, for nothing changes meanwhile; a file is moved over its
destination atomically. Release numbers that cannot be parsed are left out, and so are the
kinds of action (install, update, repair), which differ in wording.

### 7.4 What is proved

`TransactionalInstallerProofs`, for every set of files, releases and contents and any
number of disturbances: `InstallerTypeCorrect` and `InstallerKeepsPromise`. The inductive
invariant `InstallerInv` says that what is on the list to roll back is of the plan and
holds the release's content (`ReplacedInv`), that a file not yet replaced is as it was
backed up (`BackupInv`), and that all files of the plan have been verified when the receipt
is written (`VerifiedInv`).

## 8. Findings

The first has a run that expects a violation. The others were met while modelling, each by
a counterexample of the model when the property quoted was checked, and no run is kept for
them.

1. **`pdc_suspend`** (`brain/src/BrainPdcRuntime.cpp:175`). Suspended between two commit
   batches, the monitor loses its stage but not the commit in progress.
   `stagedCommitIndex` never equals the size of an empty stage, so no request is made until
   the connection or the flight changes. `docs/PDC_XPILOT_LOG_MONITOR_GATE.md:73` promises
   an observation every five seconds.
2. **A new flight shows the old one's messages** (`brain/src/BrainPdcLogRuntime.cpp:324`).
   A new destination under the same callsign clears messages and replay cursors; the scan
   that follows finds the session still open and shows the old flight's messages again.
   Lines 97-98 of that document: "A confirmed callsign/flight identity change clears the
   prior flight's message history."
3. **A source that does not return** (`integrations/xpilot4_bridge/XVatsimXPilot4Bridge.cs:100`).
   `SourceAvailable` is sent once per process, by `Initialize`, and the connection only
   when it changes; never after a Hello. A reloaded plugin, or a client whose pipe broke,
   which clears both facts (`BrainXPilot4BridgeRuntime.cpp:588-594`), learns neither while
   xPilot stays connected. The same happens without any reload when the client connects
   after xPilot has joined the network, because the one `SourceAvailable` then has an epoch
   lower than Hello's. `docs/XPILOT_4_BRIDGE_CONTRACT_GATE.md:512-513` lists "X-Plane plugin
   is reloaded while xPilot remains active." and "Local pipe disconnects and reconnects."
4. **Requests without end** (`brain/src/BrainXPilot4BridgeRuntime.cpp:714`). The `Completed`
   observation of an abandoned transfer calls `MarkRecoveryRequired`, which cancels the
   request that replaced it; the Brain asks again, rejects the answer, and so on while an
   answer spans two callbacks. Line 527 of the document: "There is no unbounded cache,
   retry loop, reconnect loop, or log loop."
5. **A message overtaken** (`integrations/xpilot4_bridge/XVatsimXPilot4Bridge.cs:320`).
   `NewObservation` takes the number before `Enqueue` takes the queue's lock. The UI thread
   may number a message n while the runner numbers and queues n+1; the Brain then drops n
   as stale (`BrainXPilot4BridgeRuntime.cpp:573-579`). Line 464: "Source ordering is
   preserved."; line 460: "Ordinary private message is delivered exactly once with exact
   sender and text."
6. **A route destroyed on the flight loop** (`plugin/src/XVatsimPlugin.cpp:2710`). The lease
   of a rejected route is marked retired while the callback still holds the fact. When the
   worker drains before the callback lets go, the last reference, and the destruction, are
   the flight loop's.
   `docs/PERFORMANCE_CONTRACT_GATE_B_ASYNCHRONOUS_ROUTE_PREPARATION_ENGINEERING_CONTRACT.md:246`:
   "Destruction of a large rejected, replaced, or formerly accepted route snapshot occurs
   on the worker thread". It costs a frame and breaks nothing else.
7. **An older release over a newer one** (`manager/src/XVatsim.Manager.Core/TransactionalInstaller.cs:46-64`).
   The receipt is compared when the plan is made and not again when it is carried out. A
   Manager of release 1 that made its plan before a Manager of release 2 installed replaces
   the newer files, and its receipt the newer receipt; likewise when the receipt cannot be
   read, which counts as none (`InstallPlanning.cs:43-46`).
   `docs/XVATSIM_MANAGER_ONLINE_PAYLOAD_CONTRACT_GATE.md:43-44`: "A Manager whose embedded
   payload is older than the installed receipt must refuse to replace those files".
8. **An installation without a receipt** (`manager/src/XVatsim.Manager.Core/TransactionalInstaller.cs:56`).
   After a crash between the last replacement and the receipt all files match, the next
   plan is `Current` (`InstallPlanning.cs:129-130`), and nothing ever writes the receipt. It
   names the earlier release still, so a Manager of a release in between is not refused.

9. **Closed, but for the fetches before** (`modules/metar/src/VatsimMetarClient.cpp:681`).
   A fetch that waits 450 ms in vain for WinHTTP's last call reports the callbacks as not
   closed (lines 293-296). The next `Start` stores `callbacksClosed = true`; when that fetch
   ends well, `ShutdownSnapshot` (735-746) says closed, with the earlier call still to come.
   That call reads a context on a stack that is gone, or sets the closing event of a later
   fetch, which then reports its own callbacks closed too early.
   `docs/V2_STEP_04_ENGINEERING_BRIEF.md:36-37`: cancellation "closes the request handle,
   waits for callback closure, and joins"; the regression harness
   (`tools/regression_harness/src/main.cpp:19861-19864`) takes a `callbacksClosed` that is
   true to mean that nothing leaked.

10. **A route of a file that is gone** (`modules/route_sector/src/RouteSectorResolver.cpp:13056-13072`).
    The FMS file is observed, and read again when the route is built, and nothing compares
    the two. A newer file that is there only during the second read, saved and deleted
    again, or the file itself unreadable for that moment, gives a route that stays accepted
    under the observed identity: the observations that follow find what they found before.
    `docs/PERFORMANCE_CONTRACT_GATE_B_ASYNCHRONOUS_ROUTE_PREPARATION_ENGINEERING_CONTRACT.md:268`
    has as the source of a route "The newest matching expanded-FMS plan selected by the
    current matching and tie-break rules."

## 9. Plan

### 9.1 Modules

Done are the six subsystems above. Left, in this order:

1. `PdcInbox`: admission from both sources with the duplicate window, acknowledgement,
   unread marks and eviction; composed with `PdcLogMonitor` and `XPilot4Brain`, whose inbox
   is a sequence so far.
2. `AtisRuntime`: facts by source generation and lifecycle epoch.
3. `VatsimDataFeed`: the poll on a thread of its own, whose result can be lost between a
   harvest and a start in the way `NoFactIsLost` excludes for METAR.
4. `WorkScheduler`, `RoutePolygonTransition`: pure decisions against reference
   definitions, and the marks that survive a refresh.
5. An abstract specification of the log monitor (a feed that shows a growing, ordered
   selection of the log, cleared when the flight changes) and its refinement.

### 9.2 Runs

Runs are few and large rather than many. A new module gets one run of its safety
properties, and a second only where liveness needs smaller bounds.

### 9.3 Theorems

Every safety property of a module with proofs is a theorem. Liveness, and what the recursive
parsers compute, stay with TLC. Worth proving next: how much of `Lasting` the accuracy of
lists needs, for a pipe that breaks or a plugin that restarts while xPilot goes on, and the
properties of the modules of 9.1.

## 10. Not modelled, and why

- The route resolver, sector geometry and terminal authority are numerical and textual
  work over large data: there is no state space to search, only inputs. The regression
  harness, by far the largest source file, is a test.
- Frame encoding and METAR decoding are sequential code on bytes and text, which round-trip
  tests cover.
- Controller ranking is a pure function of evidence; a bounded comparison with a
  reference definition is possible and has lower priority than the concurrent parts.
- Samplers, menus and drawing read and show; they decide nothing.
- vNAS data, transceivers and the xPilot 3 bridge are downloads and look-ups; the Manager's
  discovery and its download of a payload are sequential.
- The diagnostics reducers compress text that nothing reads back.

## 11. Running

`tlc -config MCPdcLogMonitor_order.cfg MCPdcLogMonitor.tla`, and likewise for the other
configurations; `tlapm PdcLogMonitorProofs.tla`, and likewise for `XPilot4BridgeProofs`,
`XPilot4ListProofs`, `RouteCoordinatorProofs`, `DiagnosticsWriterProofs`,
`MetarClientProofs`, `MetarRuntimeProofs` and `TransactionalInstallerProofs`. Everything
proved rests on the named assumptions about constants, at the head of the modules, which TLC evaluates in the runs. `PROJECT.json`
names for every run its module, configuration and properties, and for every property a
mutation of the model that breaks it. Mutants are operators marked as such beside the
definition they would replace; no specification uses them.
