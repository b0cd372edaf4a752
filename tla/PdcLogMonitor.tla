---------------------------- MODULE PdcLogMonitor ----------------------------
(***************************************************************************)
(* The Brain's monitor of xPilot's network log, from the file xPilot       *)
(* appends to, through the one-slot mailbox of the diagnostics worker, to  *)
(* the messages the Brain admits to the PDC/private Drawer.                *)
(*                                                                         *)
(* Three threads of control interleave: xPilot (external) writes the log   *)
(* and connects or disconnects, the diagnostics worker answers one request *)
(* at a time, and the X-Plane flight loop runs one Callback after another. *)
(* A callback is one action: it runs to completion on its thread and meets *)
(* the worker only where it takes the fact and where it leaves a request.  *)
(*                                                                         *)
(* Offsets count half lines: line i of a file covers 2(i-1) .. 2i, and a   *)
(* line xPilot has only begun to write adds 1 to the size.                 *)
(***************************************************************************)
EXTENDS Integers, FiniteSets, Sequences

CONSTANTS
    Callsigns, NoCallsign,  \* the callsigns pilots fly under, and no callsign
    Routes, NoRoute,        \* departure/destination pairs, and none
    ReplaySlots,            \* slots of BrainPdcLogMonitorState.replayCursors
    MaximumStaged,          \* kMaximumStagedMessages
    CommitBatch,            \* kMessagesCommittedPerCallback
    RecordsPerFact,         \* kPdcLogMaximumRecordsPerFact
    ReadLimit,              \* kPdcLogMaximumReadBytes, in half lines
    RecoveryWindow,         \* kRecoveryWindowBytes, in half lines
    RequestIds,             \* request ids repeat after this many
    StaleFiles,             \* may a log be older than 180 s when it is read?
    Contention,             \* may try_lock of the worker's mutex fail?
    TextKinds,              \* what xPilot logs of a session: direct, other
    Truncates,              \* may a restarting xPilot truncate its last log?
    MaxFiles, MaxLines,     \* bounds: log files, and lines in one file
    MaxDisturbances         \* bound: connection, plugin, file and read events

ASSUME ConstantsAssumption ==
    /\ NoCallsign \notin Callsigns
    /\ NoRoute \notin Routes
    /\ ReplaySlots \in Nat \ {0} /\ MaximumStaged \in Nat \ {0}
    /\ CommitBatch \in Nat \ {0} /\ RecordsPerFact \in Nat \ {0}
    /\ ReadLimit \in Nat \ {0, 1}  \* a block holds at least one whole line
    /\ RecoveryWindow \in Nat \ {0} /\ RequestIds \in Nat \ {0}
    /\ StaleFiles \in BOOLEAN /\ Truncates \in BOOLEAN
    /\ Contention \in BOOLEAN /\ TextKinds \subseteq {"direct", "other"}
    /\ MaxFiles \in Nat \ {0} /\ MaxLines \in Nat /\ MaxDisturbances \in Nat

VARIABLES
    logs,          \* xPilot's log files, oldest first; the last one is current
    network,       \* xPilot's connection: what its dataref shows, what it logged
    flight,        \* the flight context of the Brain
    mailbox,       \* the PDC mailbox of the diagnostics worker
    pdc,           \* the Brain's PDC state, with its log monitor
    disturbances   \* how many of the bounded environment events have happened

vars == <<logs, network, flight, mailbox, pdc, disturbances>>

-----------------------------------------------------------------------------
(* Data *)

Flights  == [callsign : Callsigns, route : Routes]
NoFlight == [callsign |-> NoCallsign, route |-> NoRoute]

Line    == [kind : {"open", "close", "direct", "other"}, callsign : Callsigns]
LogFile == [lines : Seq(Line), tail : BOOLEAN, generation : Nat]

NewFile == [lines |-> <<>>, tail |-> FALSE, generation |-> 0]
Newest  == Len(logs)
SizeOf(file) == 2 * Len(file.lines) + IF file.tail THEN 1 ELSE 0

NoRequest == [operation |-> "None", id |-> 0, product |-> 0, connection |-> 0,
              file |-> 0, begin |-> 0, end |-> 0, discard |-> FALSE]

\* A fact without content: what a read that failed reports.
EmptyFact(request) ==
    [request |-> request, failed |-> TRUE, file |-> 0, size |-> 0,
     generation |-> 0, records |-> {}, next |-> request.begin,
     discard |-> request.discard, partial |-> FALSE, reachedEnd |-> FALSE,
     fresh |-> FALSE]
NoFact == EmptyFact(NoRequest)

EmptyMailbox == [state |-> "Idle", request |-> NoRequest, fact |-> NoFact]

\* The monitor after `state->pdc = {}`, in lifecycle epoch e.
ClearedPdc(e, suspended) ==
    [suspended |-> suspended, productEpoch |-> e, bound |-> NoFlight,
     available |-> FALSE, inbox |-> {}, batches |-> 0,
     connectionKnown |-> FALSE, connected |-> FALSE, connectionEpoch |-> 0,
     nextRequestId |-> 0, pendingRequestId |-> 0,
     recoveryRequired |-> FALSE, readingSnapshot |-> FALSE,
     file |-> 0, fileSize |-> 0, fileGeneration |-> 0, incarnation |-> 0,
     cursor |-> 0, snapshotEnd |-> 0, discard |-> FALSE,
     session |-> NoCallsign, staged |-> {}, committing |-> FALSE,
     commitIndex |-> 0, due |-> TRUE,
     replay |-> [s \in 1 .. ReplaySlots |-> [file |-> 0, highWater |-> 0]],
     nextSlot |-> 1]

-----------------------------------------------------------------------------
(* Replay cursors: through which offset a file has been dealt with.        *)

SlotsOf(p, file) == {s \in 1 .. ReplaySlots :
                        p.replay[s].file # 0 /\ p.replay[s].file = file}

ReplayHighWater(p) ==
    IF SlotsOf(p, p.file) = {} THEN 0
    ELSE p.replay[CHOOSE s \in SlotsOf(p, p.file) : TRUE].highWater

NextSlotUnwrapped(p) == p.nextSlot + 1  \* mutant: nextReplayCursorSlot++ alone

NextSlot(p) == (p.nextSlot % ReplaySlots) + 1

RememberReplayHighWater(p, offset) ==
    IF SlotsOf(p, p.file) # {}
    THEN [p EXCEPT !.replay = [s \in 1 .. ReplaySlots |->
            IF s \in SlotsOf(p, p.file) /\ offset > p.replay[s].highWater
            THEN [file |-> p.file, highWater |-> offset]
            ELSE p.replay[s]]]
    ELSE [p EXCEPT
            !.replay   = [@ EXCEPT ![p.nextSlot] = [file |-> p.file, highWater |-> offset]],
            !.nextSlot = NextSlot(p)]

ClearReplayForFile(p, file) ==
    [p EXCEPT !.replay = [s \in 1 .. ReplaySlots |->
        IF s \in SlotsOf(p, file) THEN [file |-> 0, highWater |-> 0]
        ELSE p.replay[s]]]

-----------------------------------------------------------------------------
(* Reading one fact                                                        *)

\* Start a recovery scan of the last RecoveryWindow of the file.
BeginFileSnapshot(p, fact) ==
    LET start == IF fact.size > RecoveryWindow THEN fact.size - RecoveryWindow ELSE 0
    IN  [p EXCEPT !.file = fact.file, !.fileSize = fact.size,
                  !.fileGeneration = fact.generation,
                  !.snapshotEnd = fact.size, !.cursor = start,
                  !.discard = start # 0, !.readingSnapshot = start < fact.size,
                  !.session = NoCallsign, !.staged = {}, !.commitIndex = 0,
                  !.committing = FALSE, !.recoveryRequired = FALSE]

\* The file is a new one in all but its identity.
NewIncarnation(p, file) == [ClearReplayForFile(p, file) EXCEPT !.incarnation = @ + 1]

\* The file kept its identity but not its contents.
Rewritten(p, fact) ==
    /\ p.file # 0 /\ p.file = fact.file
    /\ \/ fact.size < p.cursor
       \/ fact.size = p.fileSize /\ fact.generation # p.fileGeneration

ObserveDiscovery(p, fact) ==
    IF fact.file = 0  \* no log, or its metadata could not be read
    THEN [p EXCEPT !.recoveryRequired = TRUE, !.readingSnapshot = FALSE,
                   !.available = FALSE, !.due = FALSE]
    ELSE LET known == IF Rewritten(p, fact)
                      THEN NewIncarnation(p, fact.file) ELSE p
             begun == IF p.recoveryRequired \/ p.file # fact.file \/ Rewritten(p, fact)
                      THEN BeginFileSnapshot(known, fact)
                      ELSE [known EXCEPT
                              !.fileSize = fact.size, !.fileGeneration = fact.generation,
                              !.snapshotEnd = fact.size,
                              !.readingSnapshot = p.cursor < fact.size]
         IN  [begun EXCEPT !.due = begun.readingSnapshot]

\* The MaximumStaged records of S that come last in the log.
KeepNewest(S) == {r \in S : Cardinality({q \in S : q.end > r.end}) < MaximumStaged}

\* Mutant: what was committed before is staged again.
EligibleAgain(p, R, from) ==
    {r \in R : r.kind = "direct" /\ r.callsign = p.bound.callsign /\ r.end > from}

\* The direct messages of R for the bound callsign, logged after `from`.
Eligible(p, R, from) ==
    {r \in R : /\ r.kind = "direct" /\ r.callsign = p.bound.callsign
               /\ r.end > from /\ r.end > ReplayHighWater(p)}

\* Mutant: a logout is overlooked.
OwnLogins(p, R) == {r \in R : r.kind = "open" /\ r.callsign = p.bound.callsign}

OwnSessionRecords(p, R) ==
    {r \in R : r.kind \in {"open", "close"} /\ r.callsign = p.bound.callsign}

\* All records of a fact, in log order: an own login or logout empties the
\* stage, and a direct message is staged when the own session is open.
ObserveLogRecords(p, R) ==
    LET own == OwnSessionRecords(p, R)
    IN  IF own = {}
        THEN [p EXCEPT !.staged = IF p.session = p.bound.callsign
                                  THEN KeepNewest(@ \cup Eligible(p, R, 0)) ELSE @]
        ELSE LET last == CHOOSE r \in own : \A q \in own : q.end <= r.end
             IN  [p EXCEPT
                    !.session = IF last.kind = "open" THEN last.callsign ELSE NoCallsign,
                    !.staged = IF last.kind = "open"
                               THEN KeepNewest(Eligible(p, R, last.end)) ELSE {},
                    !.commitIndex = 0, !.committing = FALSE]

\* The fixed snapshot has been read: commit what is staged, if the file is
\* being written and the own session is open at its end.
FinishSnapshot(p, fact) ==
    LET done == [p EXCEPT !.readingSnapshot = FALSE, !.commitIndex = 0]
    IN  IF p.session # NoCallsign /\ p.session = p.bound.callsign /\ fact.fresh
        THEN [done EXCEPT !.available = TRUE, !.committing = TRUE]
        ELSE RememberReplayHighWater(
                [done EXCEPT !.available = FALSE, !.committing = FALSE,
                             !.staged = {}, !.due = FALSE], p.cursor)

KeepReading(fact) == TRUE  \* mutant: a partial line is waited for in place

\* A range without one whole line waits for the next metadata check.
MoreToRead(fact) == ~(fact.partial /\ fact.next = fact.request.begin)

ObserveRange(p, fact) ==
    IF fact.next < p.cursor \/ fact.next > p.snapshotEnd
    THEN [p EXCEPT !.recoveryRequired = TRUE, !.readingSnapshot = FALSE,
                   !.available = FALSE, !.due = FALSE]
    ELSE LET read == ObserveLogRecords(
                        [p EXCEPT !.cursor = fact.next, !.discard = fact.discard],
                        fact.records)
         IN  IF fact.reachedEnd THEN FinishSnapshot(read, fact)
             ELSE [read EXCEPT !.due = FALSE, !.readingSnapshot = MoreToRead(fact)]

\* The answer is for a request of another lifecycle, connection or moment.
StaleFact(p, ready, fact) ==
    \/ ~ready
    \/ fact.request.product # p.productEpoch
    \/ fact.request.connection # p.connectionEpoch
    \/ fact.request.id # p.pendingRequestId

ObserveFact(p, ready, fact) ==
    IF StaleFact(p, ready, fact)
    THEN [p EXCEPT !.pendingRequestId = IF fact.request.id = @ THEN 0 ELSE @]
    ELSE LET answered == [p EXCEPT !.pendingRequestId = 0]
         IN  CASE fact.failed ->
                    [answered EXCEPT !.recoveryRequired = TRUE, !.readingSnapshot = FALSE,
                       !.committing = FALSE, !.staged = {}, !.available = FALSE, !.due = FALSE]
               [] ~fact.failed /\ fact.request.operation = "Discover" ->
                    ObserveDiscovery(answered, fact)
               [] OTHER -> ObserveRange(answered, fact)

-----------------------------------------------------------------------------
(* The rest of the callback                                                *)

ForgetNothing(p) == p  \* mutant: the request in flight stays wanted

\* The request in flight, if any, belongs to the past.
DisownRequest(p) == [p EXCEPT !.connectionEpoch = @ + 1, !.pendingRequestId = 0]

ObserveConnection(p, connected) ==
    IF p.connectionKnown /\ p.connected = connected THEN p
    ELSE [DisownRequest(p) EXCEPT
            !.connectionKnown = TRUE, !.connected = connected,
            !.recoveryRequired = TRUE, !.readingSnapshot = FALSE,
            !.committing = FALSE, !.staged = {}, !.commitIndex = 0,
            !.due = TRUE, !.available = @ /\ connected]

ResetProductState(p) == ClearedPdc(p.productEpoch + 1, p.suspended)

\* A ready context with another flight resets the product and binds anew.
BindFlight(p, ready, plan, connected) ==
    IF ~ready \/ p.bound = plan THEN p
    ELSE LET fresh == IF p.bound = NoFlight THEN p
                      ELSE ObserveConnection(ResetProductState(p), connected)
         IN  [fresh EXCEPT !.bound = plan, !.recoveryRequired = TRUE, !.due = TRUE]

\* How many staged records come no later than r.
Rank(p, r) == Cardinality({q \in p.staged : q.end <= r.end})

\* The batch enters the inbox; its entries share a batch number.
Admit(p, batch) ==
    [p EXCEPT !.inbox = @ \cup {[id |-> r.id, file |-> p.file,
                                 incarnation |-> p.incarnation, end |-> r.end,
                                 batch |-> p.batches + 1] : r \in batch},
              !.batches = @ + 1, !.available = TRUE]

\* Mutant: the replay cursor moves only when the whole stage is committed.
AdmitUnremembered(p, batch) == IF batch = {} THEN p ELSE Admit(p, batch)

\* Admit a batch of staged records and remember its last offset.
AdmitBatch(p, batch) ==
    IF batch = {} THEN p
    ELSE LET last == CHOOSE r \in batch : \A q \in batch : q.end <= r.end
         IN  RememberReplayHighWater(Admit(p, batch), last.end)

\* The next CommitBatch staged messages are admitted, oldest first.
CommitStagedMessages(p) ==
    LET count == Cardinality(p.staged)
        stop  == IF p.commitIndex + CommitBatch < count
                 THEN p.commitIndex + CommitBatch ELSE count
        batch == {r \in p.staged : Rank(p, r) > p.commitIndex /\ Rank(p, r) <= stop}
        index == IF stop > p.commitIndex THEN stop ELSE p.commitIndex
        moved == [AdmitBatch(p, batch) EXCEPT !.commitIndex = index]
    IN  IF index # count THEN moved
        ELSE RememberReplayHighWater(
                [moved EXCEPT !.staged = {}, !.commitIndex = 0,
                              !.committing = FALSE, !.due = FALSE], p.cursor)

ServiceStaged(p) == IF p.committing THEN CommitStagedMessages(p) ELSE p

WantsRequest(p) == ~p.committing /\ p.pendingRequestId = 0 /\ p.due

NextRequest(p) ==
    LET id == (p.nextRequestId % RequestIds) + 1
        base == [NoRequest EXCEPT !.id = id, !.product = p.productEpoch,
                                  !.connection = p.connectionEpoch]
    IN  IF p.readingSnapshot /\ ~p.recoveryRequired
        THEN [base EXCEPT !.operation = "ReadRange", !.file = p.file,
                          !.begin = p.cursor, !.end = p.snapshotEnd,
                          !.discard = p.discard]
        ELSE [base EXCEPT !.operation = "Discover"]

\* The request id is spent whether or not the mailbox takes the request.
SubmitRequest(p, taken) ==
    [p EXCEPT !.nextRequestId = NextRequest(p).id,
              !.pendingRequestId = IF taken THEN NextRequest(p).id ELSE @,
              !.due = @ /\ taken]

-----------------------------------------------------------------------------
(* The flight loop                                                         *)

\* What the callback sees: the flight context, xPilot's connection, and
\* whether the callsign dataref is filled in already.
ContextReady(callsignSeen) ==
    /\ flight # NoFlight
    /\ network.connected # NoCallsign
    /\ callsignSeen => network.connected = flight.callsign

\* The end of a callback: a request is left in the mailbox if one is due and
\* the mailbox is empty by now, and not locked.
LeaveRequest(p, ready, harvested, submitFree) ==
    LET empty == harvested \/ mailbox.state = "Idle"
        taken == submitFree /\ empty
    IN  IF ready /\ WantsRequest(p)
        THEN /\ pdc' = SubmitRequest(p, taken)
             /\ mailbox' = IF taken THEN [state |-> "Queued", request |-> NextRequest(p),
                                          fact |-> NoFact]
                           ELSE IF harvested THEN EmptyMailbox ELSE mailbox
        ELSE /\ pdc' = p
             /\ mailbox' = IF harvested THEN EmptyMailbox ELSE mailbox

\* One flight-loop callback, stage by stage (each stage is the one value in
\* its set). The try_lock of the worker's mutex may fail at the harvest and
\* at the submission.
Callback(harvestFree, submitFree, callsignSeen) ==
    LET ready     == ContextReady(callsignSeen)
        connected == network.connected # NoCallsign
        harvested == harvestFree /\ mailbox.state = "Ready"
    IN
    /\ ~pdc.suspended
    /\ \E watched  \in {ObserveConnection(pdc, connected)} :
       \E bound    \in {BindFlight(watched, ready, flight, connected)} :
       \E observed \in {IF harvested THEN ObserveFact(bound, ready, mailbox.fact) ELSE bound} :
       \E serviced \in {IF ready THEN ServiceStaged(observed)
                        ELSE [observed EXCEPT !.available = @ /\ connected]} :
         LeaveRequest(serviced, ready, harvested, submitFree)
    /\ UNCHANGED <<logs, network, flight, disturbances>>

\* nextServiceMicroseconds is reached.
ServiceTimeArrives ==
    /\ ~pdc.due
    /\ pdc' = [pdc EXCEPT !.due = TRUE]
    /\ UNCHANGED <<logs, network, flight, mailbox, disturbances>>

Disturb == /\ disturbances < MaxDisturbances
           /\ disturbances' = disturbances + 1

\* XPluginDisable
SuspendPdc ==
    /\ ~pdc.suspended
    /\ pdc' = [DisownRequest(pdc) EXCEPT
                  !.suspended = TRUE, !.recoveryRequired = TRUE,
                  !.readingSnapshot = FALSE, !.staged = {}]
    /\ Disturb
    /\ UNCHANGED <<logs, network, flight, mailbox>>

\* XPluginEnable
ResumePdc ==
    /\ pdc.suspended
    /\ pdc' = [pdc EXCEPT !.suspended = FALSE, !.recoveryRequired = TRUE, !.due = TRUE]
    /\ UNCHANGED <<logs, network, flight, mailbox, disturbances>>

\* Cold-and-dark, a new flight, a new callsign or a session reset.
ResetProduct ==
    /\ pdc' = ResetProductState(pdc)
    /\ Disturb
    /\ UNCHANGED <<logs, network, flight, mailbox>>

ChangeFlight(plan) ==
    /\ plan # flight
    /\ flight' = plan
    /\ Disturb
    /\ UNCHANGED <<logs, network, mailbox, pdc>>

-----------------------------------------------------------------------------
(* The diagnostics worker                                                  *)

TakeRequest ==
    /\ mailbox.state = "Queued"
    /\ mailbox' = [mailbox EXCEPT !.state = "Working"]
    /\ UNCHANGED <<logs, network, flight, pdc, disturbances>>

Min2(a, b) == IF a < b THEN a ELSE b

RecordOf(f, i) ==
    [kind |-> logs[f].lines[i].kind, callsign |-> logs[f].lines[i].callsign,
     end |-> 2 * i, id |-> <<f, logs[f].generation, i>>]

DiscoverFact(request) ==
    IF logs = <<>> THEN [EmptyFact(request) EXCEPT !.failed = FALSE]
    ELSE [EmptyFact(request) EXCEPT
            !.failed = FALSE, !.file = Newest, !.size = SizeOf(logs[Newest]),
            !.generation = logs[Newest].generation]

\* Whole lines of one block: `first` is the first line that ends after the
\* requested offset, `lines` how many of them the fact reports.
ReadRangeFact(request, fresh) ==
    LET block == request.begin + Min2(request.end - request.begin, ReadLimit)
        first == (request.begin \div 2) + 1
        whole == (block \div 2) - first + 1
        lines == Min2(whole, RecordsPerFact + IF request.discard THEN 1 ELSE 0)
        \* the first line is dropped when it may be a fragment
        from  == IF request.discard THEN first + 1 ELSE first
        next  == IF lines > 0 THEN 2 * (first + lines - 1)
                 ELSE IF request.discard THEN block ELSE request.begin
    IN  [EmptyFact(request) EXCEPT
            !.failed = FALSE, !.next = next, !.fresh = fresh,
            !.records = {RecordOf(request.file, i) : i \in from .. (first + lines - 1)},
            !.discard = request.discard /\ lines = 0,
            !.partial = ~request.discard /\ lines = 0,
            !.reachedEnd = next = request.end]

\* A range of no log file, or one beyond what is now the end of a file that
\* was truncated meanwhile, is an issue.
Readable(request) ==
    /\ request.file \in DOMAIN logs
    /\ request.begin <= request.end /\ request.end <= SizeOf(logs[request.file])

Fact(request, fresh) ==
    CASE request.operation = "Discover" -> DiscoverFact(request)
      [] request.operation # "Discover" /\ Readable(request) -> ReadRangeFact(request, fresh)
      [] OTHER -> EmptyFact(request)

AnswerRequest(fresh) ==
    /\ mailbox.state = "Working"
    /\ mailbox' = [mailbox EXCEPT !.state = "Ready", !.fact = Fact(mailbox.request, fresh)]
    /\ UNCHANGED <<logs, network, flight, pdc, disturbances>>

\* The directory or the file could not be read.
FailRequest ==
    /\ mailbox.state = "Working"
    /\ mailbox' = [mailbox EXCEPT !.state = "Ready", !.fact = EmptyFact(mailbox.request)]
    /\ Disturb
    /\ UNCHANGED <<logs, network, flight, pdc>>

-----------------------------------------------------------------------------
(* xPilot (external)                                                       *)

Offline == [connected |-> NoCallsign, logged |-> NoCallsign]

Append1(line) == [logs EXCEPT ![Newest].lines = Append(@, line)]

CanWrite == /\ logs # <<>>
            /\ ~logs[Newest].tail
            /\ Len(logs[Newest].lines) < MaxLines

\* xPilot starts, after an exit or a crash: a new log file, or, within the
\* second the name of the last one stands for, that file truncated.
StartXPilot(newFile) ==
    /\ IF newFile THEN /\ Newest < MaxFiles
                       /\ logs' = Append(logs, NewFile)
                  ELSE /\ Truncates /\ logs # <<>>
                       /\ logs' = [logs EXCEPT ![Newest] =
                                     [NewFile EXCEPT !.generation = logs[Newest].generation + 1]]
    /\ network' = Offline
    /\ IF logs = <<>> THEN UNCHANGED disturbances ELSE Disturb
    /\ UNCHANGED <<flight, mailbox, pdc>>

Connect(callsign) ==
    /\ logs # <<>> /\ network.connected = NoCallsign
    /\ network' = [network EXCEPT !.connected = callsign]
    /\ UNCHANGED <<logs, flight, mailbox, pdc, disturbances>>

LogLogin ==
    /\ CanWrite
    /\ network.connected # NoCallsign /\ network.logged = NoCallsign
    /\ logs' = Append1([kind |-> "open", callsign |-> network.connected])
    /\ network' = [network EXCEPT !.logged = network.connected]
    /\ UNCHANGED <<flight, mailbox, pdc, disturbances>>

Disconnect ==
    /\ network.connected # NoCallsign
    /\ network' = [network EXCEPT !.connected = NoCallsign]
    /\ Disturb
    /\ UNCHANGED <<logs, flight, mailbox, pdc>>

LogLogout ==
    /\ CanWrite
    /\ network.logged # NoCallsign /\ network.connected # network.logged
    /\ logs' = Append1([kind |-> "close", callsign |-> network.logged])
    /\ network' = [network EXCEPT !.logged = NoCallsign]
    /\ UNCHANGED <<flight, mailbox, pdc, disturbances>>

LogText(kind) ==
    /\ CanWrite
    /\ network.logged # NoCallsign
    /\ logs' = Append1([kind |-> kind, callsign |-> network.logged])
    /\ UNCHANGED <<network, flight, mailbox, pdc, disturbances>>

BeginDirectLine ==
    /\ CanWrite
    /\ network.logged # NoCallsign
    /\ logs' = [logs EXCEPT ![Newest].tail = TRUE]
    /\ UNCHANGED <<network, flight, mailbox, pdc, disturbances>>

FinishDirectLine ==
    /\ logs # <<>> /\ network.logged # NoCallsign
    /\ logs[Newest].tail
    /\ logs' = [logs EXCEPT ![Newest].tail = FALSE,
                            ![Newest].lines = Append(@, [kind |-> "direct",
                                                         callsign |-> network.logged])]
    /\ UNCHANGED <<network, flight, mailbox, pdc, disturbances>>

-----------------------------------------------------------------------------

Init ==
    /\ logs = <<>>
    /\ network = Offline
    /\ flight \in Flights \cup {NoFlight}
    /\ mailbox = EmptyMailbox
    /\ pdc = ClearedPdc(1, FALSE)
    /\ disturbances = 0

FlightLoop == \/ \E harvestFree, submitFree \in {TRUE, ~Contention}, callsignSeen \in BOOLEAN :
                     Callback(harvestFree, submitFree, callsignSeen)
              \/ ServiceTimeArrives
              \/ SuspendPdc \/ ResumePdc \/ ResetProduct
              \/ \E plan \in Flights \cup {NoFlight} : ChangeFlight(plan)

Worker == \/ TakeRequest
          \/ \E fresh \in {TRUE, ~StaleFiles} : AnswerRequest(fresh)
          \/ FailRequest

XPilot == \/ \E newFile \in BOOLEAN : StartXPilot(newFile)
          \/ \E callsign \in Callsigns : Connect(callsign)
          \/ LogLogin \/ Disconnect \/ LogLogout
          \/ \E kind \in TextKinds : LogText(kind)
          \/ BeginDirectLine \/ FinishDirectLine

Next == FlightLoop \/ Worker \/ XPilot

Spec == Init /\ [][Next]_vars

(* X-Plane keeps calling the flight loop and its clock advances; the worker  *)
(* answers what it takes; xPilot finishes the line it has begun. The runs of *)
(* FairSpec have no try_lock contention: the worker holds the mutex only to  *)
(* move a record, and a missed try is repeated. Nothing is assumed of the    *)
(* pilot, of the plugin's admin or of what xPilot logs next.                 *)
Fairness ==
    /\ WF_vars(Callback(TRUE, TRUE, TRUE))
    /\ WF_vars(ServiceTimeArrives)
    /\ WF_vars(TakeRequest)
    /\ WF_vars(AnswerRequest(TRUE))
    /\ WF_vars(FinishDirectLine)

FairSpec == Spec /\ Fairness

-----------------------------------------------------------------------------
(* Properties                                                              *)

Record == [kind : {"open", "close", "direct", "other"}, callsign : Callsigns,
           end : Nat, id : Nat \X Nat \X Nat]
Entry  == [id : Nat \X Nat \X Nat, file : Nat, incarnation : Nat, end : Nat,
           batch : Nat]
Request == [operation : {"None", "Discover", "ReadRange"}, id : Nat, product : Nat,
            connection : Nat, file : Nat, begin : Nat, end : Nat, discard : BOOLEAN]
FactType == [request : Request, failed : BOOLEAN, file : Nat, size : Nat,
             generation : Nat, records : SUBSET Record, next : Nat,
             discard : BOOLEAN, partial : BOOLEAN, reachedEnd : BOOLEAN,
             fresh : BOOLEAN]
Pdc == [suspended : BOOLEAN, productEpoch : Nat, bound : Flights \cup {NoFlight},
        available : BOOLEAN, inbox : SUBSET Entry, batches : Nat,
        connectionKnown : BOOLEAN, connected : BOOLEAN, connectionEpoch : Nat,
        nextRequestId : Nat, pendingRequestId : Nat,
        recoveryRequired : BOOLEAN, readingSnapshot : BOOLEAN,
        file : Nat, fileSize : Nat, fileGeneration : Nat, incarnation : Nat,
        cursor : Nat, snapshotEnd : Nat, discard : BOOLEAN,
        session : Callsigns \cup {NoCallsign}, staged : SUBSET Record,
        committing : BOOLEAN, commitIndex : Nat, due : BOOLEAN,
        replay : [1 .. ReplaySlots -> [file : Nat, highWater : Nat]],
        nextSlot : 1 .. ReplaySlots]

\* Every variable has its type.
TypeOK ==
    /\ logs \in Seq(LogFile)
    /\ network \in [connected : Callsigns \cup {NoCallsign},
                     logged : Callsigns \cup {NoCallsign}]
    /\ flight \in Flights \cup {NoFlight}
    /\ mailbox \in [state : {"Idle", "Queued", "Working", "Ready"},
                     request : Request, fact : FactType]
    /\ pdc \in Pdc
    /\ disturbances \in 0 .. MaxDisturbances

\* x was logged before y, as the Brain identifies records.
Before(x, y) ==
    \/ x.file < y.file
    \/ x.file = y.file /\ x.incarnation < y.incarnation
    \/ x.file = y.file /\ x.incarnation = y.incarnation /\ x.end < y.end

\* Messages reach the Drawer in the order xPilot logged them, across
\* reconnections, recovery scans, suspensions and new log files: a later
\* callback never admits a record at or before one admitted earlier, so
\* none is admitted twice (the replay cursors, BrainPdcLogRuntime.cpp:68-103).
InboxFollowsLog ==
    \A x, y \in pdc.inbox : x.batch < y.batch => Before(x, y)

\* No line of a log xPilot has not rewritten is admitted twice, whatever
\* identity the Brain gave it.
NoMessageTwice ==
    \A x, y \in pdc.inbox : x.id = y.id /\ x.id[2] = 0 => x = y

\* A fact that passes the stamps of StaleFact answers the range the monitor
\* is reading now: no reconnection, suspension, reset or recovery came between.
AcceptedRangeIsCurrent ==
    (/\ mailbox.state # "Idle"
     /\ mailbox.request.operation = "ReadRange"
     /\ ~StaleFact(pdc, TRUE, [request |-> mailbox.request]))
        => /\ mailbox.request.file = pdc.file
           /\ mailbox.request.begin = pdc.cursor
           /\ mailbox.request.end = pdc.snapshotEnd
           /\ pdc.readingSnapshot /\ ~pdc.recoveryRequired

\* The login that opened the session in which line i of a file was logged,
\* if that session is still open at line `last`.
OpenSession(lines, callsign, i, last) ==
    \E j \in 1 .. i - 1 :
        /\ lines[j] = [kind |-> "open", callsign |-> callsign]
        /\ \A k \in j + 1 .. last :
             lines[k].callsign = callsign => lines[k].kind \notin {"open", "close"}

\* What a callback admits was logged in the session that is open for the
\* bound callsign at the end of the snapshot it has read.
AdmitsOpenSessionOnly ==
    [][\A e \in pdc'.inbox \ pdc.inbox :
          LET f == e.id[1] i == e.id[3]
          IN  logs[f].generation = e.id[2] =>
                OpenSession(logs[f].lines, pdc'.bound.callsign, i, pdc'.cursor \div 2)]_vars

\* "The Brain performs a metadata observation every five seconds while xPilot
\* is connected and the active callsign/departure context is known"
\* (docs/PDC_XPILOT_LOG_MONITOR_GATE.md:73): a request is always on its way
\* again, as long as the context is ready and the plugin runs.
Observable == ContextReady(TRUE) /\ ~pdc.suspended
MonitoringContinues ==
    Observable ~> (mailbox.state # "Idle" \/ ~Observable)

=============================================================================
