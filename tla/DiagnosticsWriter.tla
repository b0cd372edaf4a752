-------------------------- MODULE DiagnosticsWriter --------------------------
(***************************************************************************)
(* AsyncDiagnosticsWriter: four lanes of diagnostic records and a mailbox  *)
(* for questions about xPilot's log, emptied by one worker thread.         *)
(*                                                                         *)
(* Critical and routine records are queued under a mutex that a caller     *)
(* only tries to take; timing and evidence records come from the flight    *)
(* loop alone, through rings without a lock.  A section under the mutex is *)
(* one step, but for the worker's ring pop, which the flight loop's pushes *)
(* interleave with.                                                        *)
(***************************************************************************)
EXTENDS SpscRing

CONSTANTS
    Capacity,     \* lane -> how many records it holds
    OtherCallers, \* threads besides the flight loop that queue records
    MaxRecords,   \* bound: lane -> records offered to it
    MaxFailures,  \* bound: no record fails once a lane has had so many failures
    MaxSessions,  \* bound: starts of the writer
    MaxQuestions  \* bound: questions about xPilot's log

QueueLanes == {"critical", "routine"}
RingLanes == {"timing", "evidence"}
Lanes == QueueLanes \cup RingLanes
FlightLoop == "flight loop"
Callers == OtherCallers \cup {FlightLoop}

ASSUME WriterAssumption ==
    /\ Capacity \in [Lanes -> Nat \ {0}]
    /\ FlightLoop \notin OtherCallers
    /\ MaxRecords \in [Lanes -> Nat]
    /\ MaxFailures \in Nat /\ MaxSessions \in Nat /\ MaxQuestions \in Nat

\* Records are numbered by lane. A route-evidence record carries its number; the
\* code starts again at one in every session.
Blank == 0
Records == UNION {1 .. MaxRecords[l] : l \in Lanes}
Questions == 1 .. MaxQuestions

VARIABLES
    accepting, stopRequested, recordInFlight, \* the writer's flags
    queues,      \* what the locked lanes hold
    rings,       \* the lock-free lanes
    mailbox,     \* pdcMailboxState, with the number of the request or fact
    worker,      \* the worker thread, and what it took
    caller,      \* the threads that queue records
    offered,     \* lane -> the number of the last record offered to it
    counts,      \* submitted, written and failed records of each lane
    log,         \* what the log files hold of each lane
    sessions
vars == <<accepting, stopRequested, recordInFlight, queues, rings, mailbox,
          worker, caller, offered, counts, log, sessions>>

AtRest == [pc |-> "Free", lane |-> "critical", record |-> Blank]
EmptyHanded(pc) == [pc |-> pc, lane |-> "critical", record |-> Blank]
NoWorker == EmptyHanded("None")
EmptyQueues == [l \in QueueLanes |-> <<>>]
EmptyRings == [l \in RingLanes |-> EmptyRing(Capacity[l], Blank)]
NoCounts == [l \in Lanes |-> [submitted |-> 0, written |-> 0, failed |-> 0]]

Init ==
    /\ accepting = FALSE /\ stopRequested = FALSE /\ recordInFlight = FALSE
    /\ queues = EmptyQueues /\ rings = EmptyRings
    /\ mailbox = [state |-> "Idle", of |-> 0]
    /\ worker = NoWorker
    /\ caller = [c \in Callers |-> AtRest]
    /\ offered = [l \in Lanes |-> 0] /\ counts = NoCounts
    /\ log = [l \in Lanes |-> <<>>]
    /\ sessions = 0

-----------------------------------------------------------------------------
(* Callers                                                                 *)

\* The worker holds the mutex while it looks for a record and takes it.
MutexIsFree ==
    worker.pc \notin {"TryTiming", "TryEvidence", "TryRoutine", "Copying", "Releasing"}

Counted(l, what) == [counts EXCEPT ![l][what] = @ + 1]

\* A call to a writer that does not accept is refused at once and changes
\* nothing but a counter.
Offer(c, l) ==
    /\ caller[c].pc = "Free" /\ accepting
    /\ offered[l] < MaxRecords[l]
    /\ caller' = [caller EXCEPT
            ![c] = [pc |-> "Arrived", lane |-> l, record |-> offered[l] + 1]]
    /\ offered' = [offered EXCEPT ![l] = @ + 1]
    /\ UNCHANGED <<accepting, stopRequested, recordInFlight, queues, rings,
                   mailbox, worker, counts, log, sessions>>

WhateverAccepting(l) == Len(queues[l]) < Capacity[l]  \* mutant: accepting is not read again

Admissible(l) == accepting /\ Len(queues[l]) < Capacity[l]

\* With the mutex: accepting is read again, for Stop may have come in between.
Enqueue(c) ==
    /\ caller[c].pc = "Arrived" /\ MutexIsFree
    /\ LET l == caller[c].lane IN
           IF Admissible(l)
           THEN /\ queues' = [queues EXCEPT ![l] = Append(queues[l], caller[c].record)]
                /\ counts' = Counted(l, "submitted")
           ELSE UNCHANGED <<queues, counts>>
    /\ caller' = [caller EXCEPT ![c] = AtRest]
    /\ UNCHANGED <<accepting, stopRequested, recordInFlight, rings, mailbox,
                   worker, offered, log, sessions>>

\* Another thread holds the mutex: the record is dropped.
Contend(c) ==
    /\ caller[c].pc = "Arrived"
    /\ caller' = [caller EXCEPT ![c] = AtRest]
    /\ UNCHANGED <<accepting, stopRequested, recordInFlight, queues, rings,
                   mailbox, worker, offered, counts, log, sessions>>

LoopIs(pc) == caller[FlightLoop].pc = pc

\* The flight loop offers a ring a record, whose number it takes before it
\* knows whether the ring has room.
BeginPush(l) ==
    /\ LoopIs("Free") /\ accepting
    /\ offered[l] < MaxRecords[l]
    /\ offered' = [offered EXCEPT ![l] = @ + 1]
    /\ caller' = IF RingIsFull(rings[l]) THEN caller
                 ELSE [caller EXCEPT ![FlightLoop] =
                           [pc |-> "Storing", lane |-> l, record |-> offered[l] + 1]]
    /\ UNCHANGED <<accepting, stopRequested, recordInFlight, queues, rings,
                   mailbox, worker, counts, log, sessions>>

StoreSlot ==
    /\ LoopIs("Storing")
    /\ LET l == caller[FlightLoop].lane IN
           rings' = [rings EXCEPT ![l] = WithSlot(rings[l], caller[FlightLoop].record)]
    /\ caller' = [caller EXCEPT ![FlightLoop].pc = "Publishing"]
    /\ UNCHANGED <<accepting, stopRequested, recordInFlight, queues, mailbox,
                   worker, offered, counts, log, sessions>>

PublishWrite ==
    /\ LoopIs("Publishing")
    /\ LET l == caller[FlightLoop].lane IN
           rings' = [rings EXCEPT ![l] = WithPublishedWrite(rings[l])]
    /\ caller' = [caller EXCEPT ![FlightLoop].pc = "Counting"]
    /\ UNCHANGED <<accepting, stopRequested, recordInFlight, queues, mailbox,
                   worker, offered, counts, log, sessions>>

CountPush ==
    /\ LoopIs("Counting")
    /\ counts' = Counted(caller[FlightLoop].lane, "submitted")
    /\ caller' = [caller EXCEPT ![FlightLoop] = AtRest]
    /\ UNCHANGED <<accepting, stopRequested, recordInFlight, queues, rings,
                   mailbox, worker, offered, log, sessions>>

\* The Brain's request; a mutex that is taken refuses it, as an occupied
\* mailbox does.
SubmitPdcLogRequest ==
    /\ LoopIs("Free") /\ accepting /\ MutexIsFree
    /\ mailbox.state = "Idle" /\ mailbox.of < MaxQuestions
    /\ mailbox' = [state |-> "Queued", of |-> mailbox.of + 1]
    /\ UNCHANGED <<accepting, stopRequested, recordInFlight, queues, rings,
                   worker, caller, offered, counts, log, sessions>>

HarvestPdcLogFact ==
    /\ LoopIs("Free") /\ MutexIsFree
    /\ mailbox.state = "Ready"
    /\ mailbox' = [mailbox EXCEPT !.state = "Idle"]
    /\ UNCHANGED <<accepting, stopRequested, recordInFlight, queues, rings,
                   worker, caller, offered, counts, log, sessions>>

-----------------------------------------------------------------------------
(* Start and stop, on the flight loop's thread                             *)

Start ==
    /\ LoopIs("Free") /\ worker.pc = "None"
    /\ sessions < MaxSessions /\ sessions' = sessions + 1
    /\ accepting' = TRUE /\ stopRequested' = FALSE /\ recordInFlight' = FALSE
    /\ queues' = EmptyQueues /\ rings' = EmptyRings
    /\ mailbox' = [mailbox EXCEPT !.state = "Idle"]
    /\ worker' = EmptyHanded("Waiting")
    /\ counts' = NoCounts
    /\ UNCHANGED <<caller, offered, log>>

StopAccepting ==
    /\ LoopIs("Free") /\ accepting
    /\ accepting' = FALSE
    /\ caller' = [caller EXCEPT ![FlightLoop].pc = "Stopping"]
    /\ UNCHANGED <<stopRequested, recordInFlight, queues, rings, mailbox, worker,
                   offered, counts, log, sessions>>

RequestStop ==
    /\ LoopIs("Stopping") /\ MutexIsFree
    /\ stopRequested' = TRUE
    /\ caller' = [caller EXCEPT ![FlightLoop].pc = "Joining"]
    /\ UNCHANGED <<accepting, recordInFlight, queues, rings, mailbox, worker,
                   offered, counts, log, sessions>>

Join ==
    /\ LoopIs("Joining") /\ worker.pc = "Exited"
    /\ mailbox' = [mailbox EXCEPT !.state = "Idle"]
    /\ worker' = NoWorker
    /\ caller' = [caller EXCEPT ![FlightLoop] = AtRest]
    /\ UNCHANGED <<accepting, stopRequested, recordInFlight, queues, rings,
                   offered, counts, log, sessions>>

-----------------------------------------------------------------------------
(* The worker                                                              *)

WorkIsQueued ==
    \/ \E l \in QueueLanes : queues[l] # <<>>
    \/ mailbox.state = "Queued"
    \/ \E l \in RingLanes : ~RingIsEmpty(rings[l])

\* A record that leaves its lane is in flight until it is settled.
TakeFromQueue(l) ==
    /\ queues' = [queues EXCEPT ![l] = Tail(queues[l])]
    /\ worker' = [pc |-> "Processing", lane |-> l, record |-> Head(queues[l])]
    /\ recordInFlight' = TRUE
    /\ UNCHANGED <<accepting, stopRequested, rings, mailbox, caller, offered,
                   counts, log, sessions>>

TakeCritical ==
    /\ worker.pc = "Waiting" /\ queues["critical"] # <<>>
    /\ TakeFromQueue("critical")

TakeRequest ==
    /\ worker.pc = "Waiting" /\ queues["critical"] = <<>> /\ mailbox.state = "Queued"
    /\ mailbox' = [mailbox EXCEPT !.state = "Working"]
    /\ worker' = EmptyHanded("Reading")
    /\ recordInFlight' = TRUE
    /\ UNCHANGED <<accepting, stopRequested, queues, rings, caller, offered,
                   counts, log, sessions>>

Goto(pc) ==
    /\ worker' = [worker EXCEPT !.pc = pc]
    /\ UNCHANGED <<accepting, stopRequested, recordInFlight, queues, rings,
                   mailbox, caller, offered, counts, log, sessions>>

WakesFor == WorkIsQueued

LookForRecord ==
    /\ worker.pc = "Waiting" /\ queues["critical"] = <<>> /\ mailbox.state # "Queued"
    /\ WakesFor
    /\ Goto("TryTiming")

AdvanceThenCopy(pc, l, otherwise) ==  \* mutant: the read index is moved before the copy
    /\ worker.pc = pc
    /\ IF RingIsEmpty(rings[l])
       THEN worker' = [worker EXCEPT !.pc = otherwise] /\ UNCHANGED rings
       ELSE /\ worker' = [worker EXCEPT !.pc = "Copying", !.lane = l]
            /\ rings' = [rings EXCEPT ![l] = WithPublishedRead(rings[l])]
    /\ UNCHANGED <<accepting, stopRequested, recordInFlight, queues, mailbox,
                   caller, offered, counts, log, sessions>>

\* The rings are looked at one after the other; the flight loop may push in
\* between.
TryRing(pc, l, otherwise) ==
    /\ worker.pc = pc
    /\ IF RingIsEmpty(rings[l]) THEN worker' = [worker EXCEPT !.pc = otherwise]
       ELSE worker' = [worker EXCEPT !.pc = "Copying", !.lane = l]
    /\ UNCHANGED <<accepting, stopRequested, recordInFlight, queues, rings,
                   mailbox, caller, offered, counts, log, sessions>>

TryTiming == TryRing("TryTiming", "timing", "TryEvidence")
TryEvidence == TryRing("TryEvidence", "evidence", "TryRoutine")

\* The pop has no test of its own and is undefined for an empty lane, which
\* RoutineIsThere excludes.
TakeRoutine ==
    /\ worker.pc = "TryRoutine" /\ queues["routine"] # <<>>
    /\ TakeFromQueue("routine")

CopySlot ==
    /\ worker.pc = "Copying"
    /\ worker' = [worker EXCEPT !.pc = "Releasing", !.record = SlotToRead(rings[worker.lane])]
    /\ UNCHANGED <<accepting, stopRequested, recordInFlight, queues, rings,
                   mailbox, caller, offered, counts, log, sessions>>

ReleaseUnmarked ==  \* mutant: a record taken from a ring is not in flight
    /\ worker.pc = "Releasing"
    /\ rings' = [rings EXCEPT ![worker.lane] = WithPublishedRead(rings[worker.lane])]
    /\ worker' = [worker EXCEPT !.pc = "Processing"]
    /\ UNCHANGED <<accepting, stopRequested, recordInFlight, queues, mailbox,
                   caller, offered, counts, log, sessions>>

PublishRead ==
    /\ worker.pc = "Releasing"
    /\ rings' = [rings EXCEPT ![worker.lane] = WithPublishedRead(rings[worker.lane])]
    /\ worker' = [worker EXCEPT !.pc = "Processing"]
    /\ recordInFlight' = TRUE
    /\ UNCHANGED <<accepting, stopRequested, queues, mailbox, caller, offered,
                   counts, log, sessions>>

\* The record is written, or its formatter throws or the disk fails.
Process(written) ==
    /\ worker.pc = "Processing"
    /\ IF written
       THEN /\ log' = [log EXCEPT ![worker.lane] = Append(log[worker.lane], worker.record)]
            /\ counts' = Counted(worker.lane, "written")
       ELSE /\ \A l \in Lanes : counts[l].failed < MaxFailures
            /\ counts' = Counted(worker.lane, "failed")
            /\ UNCHANGED log
    /\ worker' = EmptyHanded("Settling")
    /\ UNCHANGED <<accepting, stopRequested, recordInFlight, queues, rings,
                   mailbox, caller, offered, sessions>>

Settle ==
    /\ worker.pc = "Settling"
    /\ recordInFlight' = FALSE
    /\ worker' = EmptyHanded("Waiting")
    /\ UNCHANGED <<accepting, stopRequested, queues, rings, mailbox, caller,
                   offered, counts, log, sessions>>

PublishFact ==
    /\ worker.pc = "Reading"
    /\ mailbox' = IF mailbox.state = "Working" THEN [mailbox EXCEPT !.state = "Ready"]
                  ELSE mailbox
    /\ recordInFlight' = FALSE
    /\ worker' = EmptyHanded("Waiting")
    /\ UNCHANGED <<accepting, stopRequested, queues, rings, caller, offered,
                   counts, log, sessions>>

LeaveWithFactTaken ==  \* mutant: the worker waits for its last fact to be harvested
    ~WorkIsQueued /\ mailbox.state = "Idle"

LeavesWhen == ~WorkIsQueued

Exit ==
    /\ worker.pc = "Waiting" /\ LeavesWhen /\ stopRequested
    /\ recordInFlight' = FALSE
    /\ worker' = EmptyHanded("Exited")
    /\ UNCHANGED <<accepting, stopRequested, queues, rings, mailbox, caller,
                   offered, counts, log, sessions>>

-----------------------------------------------------------------------------
(* Specification                                                           *)

CallerStep ==
    \/ \E c \in Callers, l \in QueueLanes : Offer(c, l)
    \/ \E c \in Callers : Enqueue(c) \/ Contend(c)

PushSteps ==
    \/ \E l \in RingLanes : BeginPush(l)
    \/ StoreSlot \/ PublishWrite \/ CountPush

WorkerStep ==
    \/ TakeCritical \/ TakeRequest \/ LookForRecord \/ TryTiming \/ TryEvidence
    \/ TakeRoutine \/ CopySlot \/ PublishRead
    \/ \E written \in BOOLEAN : Process(written)
    \/ Settle \/ PublishFact \/ Exit

StopSteps == StopAccepting \/ RequestStop \/ Join

Next ==
    \/ CallerStep \/ PushSteps \/ SubmitPdcLogRequest \/ HarvestPdcLogFact
    \/ Start \/ StopSteps \/ WorkerStep

Spec == Init /\ [][Next]_vars

(* The worker is never blocked for good: it waits at most 20 milliseconds  *)
(* and every section under the mutex is short.  The thread that stops the  *)
(* writer goes on once the mutex is free and the worker has left.          *)
Fairness == WF_vars(WorkerStep) /\ WF_vars(RequestStop \/ Join)

FairSpec == Spec /\ Fairness

-----------------------------------------------------------------------------
(* Properties                                                              *)

LockHolders == {"TryTiming", "TryEvidence", "TryRoutine", "Copying", "Releasing"}
WorkerPcs == LockHolders \cup
    {"None", "Waiting", "Reading", "Processing", "Settling", "Exited"}
LoopPcs == {"Free", "Arrived", "Storing", "Publishing", "Counting", "Stopping", "Joining"}
Numbers == Records \cup {Blank}
AnyRing == UNION {Rings(Capacity[l], Numbers) : l \in RingLanes}

\* The lanes stay within their capacity and their numbers in range
\* (AsyncDiagnosticsWriter.cpp:300-468).
TypeOK ==
    /\ accepting \in BOOLEAN /\ stopRequested \in BOOLEAN /\ recordInFlight \in BOOLEAN
    /\ queues \in [QueueLanes -> Seq(Records)]
    /\ \A l \in QueueLanes : Len(queues[l]) <= Capacity[l]
    /\ rings \in [RingLanes -> AnyRing]
    /\ \A l \in RingLanes : rings[l] \in Rings(Capacity[l], Numbers)
    /\ mailbox \in [state : {"Idle", "Queued", "Working", "Ready"}, of : 0 .. MaxQuestions]
    /\ worker \in [pc : WorkerPcs, lane : Lanes, record : Numbers]
    /\ caller \in [Callers -> [pc : LoopPcs, lane : Lanes, record : Numbers]]
    /\ offered \in [Lanes -> Nat] /\ \A l \in Lanes : offered[l] <= MaxRecords[l]
    /\ counts \in [Lanes -> [submitted : Nat, written : Nat, failed : Nat]]
    /\ log \in [Lanes -> Seq(Records)]
    /\ sessions \in 0 .. MaxSessions

\* The flight loop never stores the slot the worker copies: without a lock that
\* would be a torn record (TryPush and TryPop, AsyncDiagnosticsWriter.cpp:360-381).
SlotsAreNotShared ==
    ~ /\ LoopIs("Storing") /\ worker.pc = "Copying"
      /\ caller[FlightLoop].lane = worker.lane
      /\ rings[worker.lane].write = rings[worker.lane].read

\* The routine lane is popped without a test of its own, which is undefined when
\* it is empty: that both rings were found empty must imply it is not
\* (AsyncDiagnosticsWriter.cpp:1060-1063).
RoutineIsThere == worker.pc = "TryRoutine" => queues["routine"] # <<>>

\* What WaitUntilIdle waits for (AsyncDiagnosticsWriter.cpp:1321-1330).
Idle ==
    /\ MutexIsFree /\ ~recordInFlight
    /\ \A l \in QueueLanes : queues[l] = <<>>
    /\ \A l \in RingLanes : RingIsEmpty(rings[l])
    /\ mailbox.state \notin {"Queued", "Working"}

\* When WaitUntilIdle returns to the flight loop, every record submitted has been
\* written or counted as failed: what the plugin logs as drainedBeforeStop
\* (XVatsimPlugin.cpp:7537-7601).
IdleIsDrained ==
    Idle /\ LoopIs("Free")
        => \A l \in Lanes : counts[l].submitted = counts[l].written + counts[l].failed

\* A stop ends: the worker empties the lanes and leaves
\* (AsyncDiagnosticsWriter.cpp:1028-1037, 1167-1185).
StopReturns == LoopIs("Stopping") ~> worker.pc = "None"

\* The promise, seen through this module's state: a record is pending from the
\* moment its index is published, or it is queued, until it is processed.
Held(l) == IF worker.pc = "Processing" /\ worker.lane = l THEN <<worker.record>> ELSE <<>>
Queued(l) == IF l \in QueueLanes THEN queues[l] ELSE Contents(rings[l])
Pending == [l \in Lanes |-> Held(l) \o Queued(l)]
Phase == IF accepting THEN "Open" ELSE IF worker.pc = "None" THEN "Closed" ELSE "Closing"
Question ==
    IF mailbox.state = "Idle" THEN [state |-> "None"]
    ELSE [state |-> IF mailbox.state = "Ready" THEN "Answered" ELSE "Asked",
          of |-> mailbox.of]

Promise == INSTANCE DiagnosticsLog
               WITH phase <- Phase, pending <- Pending, question <- Question

\* The writer keeps the promise of DiagnosticsLog
\* (AsyncDiagnosticsWriter.cpp:600-745, 947-1105, 1115-1185).
KeepsPromise == Promise!Spec

=============================================================================
