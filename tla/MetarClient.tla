---------------------------- MODULE MetarClient ----------------------------
(***************************************************************************)
(* The METAR client (VatsimMetarClient.cpp): the thread that fetches a     *)
(* report through an asynchronous WinHTTP request, and the flight loop's   *)
(* calls.                                                                  *)
(*                                                                         *)
(* Cancelling closes the request's handle from the flight loop while the   *)
(* worker uses it; activeRequest decides who closes it: whoever exchanges  *)
(* the handle out of it.  WinHTTP calls back into a context on the         *)
(* worker's stack until it has said that the handle is closing, which it   *)
(* says to the context that the send gave it; the worker waits for that    *)
(* call, but not longer than 450 ms, and then its stack is gone.  A call   *)
(* that is still to come then is a late one: it reads a context that is no *)
(* more, which may be the next worker's.                                   *)
(*                                                                         *)
(* The phases of a request (send, headers, data, read) are one wait: each  *)
(* ends in the same ways.                                                  *)
(***************************************************************************)
EXTENDS Naturals

CONSTANTS
    Request, NoRequest, NoFact,
    MaxReports,       \* bound: the reports there are
    MaxLate           \* bound: the calls WinHTTP may owe to earlier fetches

ASSUME MetarClientAssumption == MaxLate \in Nat

VARIABLES
    server,           \* the latest report there is, of every airport
    thread,           \* where the worker's thread is
    job,              \* the request it was started with
    fetched,          \* the report it is about to publish
    running,
    cancelEvent,
    result,           \* the fact that waits for the harvest
    activeRequest,    \* whether it holds the request's handle
    handle,           \* none, open, bound (WinHTTP has the context) or closing
    closingEvent,
    callbacksClosed,
    late,             \* the last calls WinHTTP owes to earlier fetches
    stray,            \* history: one of them set the closing event since its
                      \* last reset
    loop              \* where the flight loop is

threadVars == <<job, fetched, running, result>>
lateVars == <<late, stray>>
handleVars == <<activeRequest, handle, closingEvent, callbacksClosed, lateVars>>
vars == <<server, thread, threadVars, cancelEvent, handleVars, loop>>

TypeOK ==
    /\ server \in Nat \ {0}
    /\ thread \in {"none", "open", "send", "wait", "finish", "close", "await",
                   "publish", "leave"}
    /\ job \in Request \cup {NoRequest}
    /\ thread \notin {"none", "leave"} => job \in Request
    /\ fetched \in Nat
    /\ running \in BOOLEAN /\ cancelEvent \in BOOLEAN
    /\ result \in [request : Request, report : Nat] \cup {NoFact}
    /\ activeRequest \in BOOLEAN /\ closingEvent \in BOOLEAN /\ callbacksClosed \in BOOLEAN
    /\ handle \in {"none", "open", "bound", "closing"}
    /\ late \in 0 .. MaxLate /\ stray \in BOOLEAN
    /\ loop \in {"ready", "joining", "exchange", "closing", "stopping"}

Init ==
    /\ server = 1
    /\ thread = "none" /\ job = NoRequest /\ fetched = 0
    /\ running = FALSE /\ result = NoFact /\ cancelEvent = FALSE
    /\ activeRequest = FALSE /\ handle = "none"
    /\ closingEvent = FALSE /\ callbacksClosed = TRUE
    /\ late = 0 /\ stray = FALSE
    /\ loop = "ready"

-----------------------------------------------------------------------------
(* The worker's thread.                                                    *)

\* The request is opened, its callback registered and its handle stored; or
\* one of the steps fails and what was opened is closed again.
Open ==
    /\ thread = "open"
    /\ \/ /\ thread' = "send" /\ handle' = "open"
          /\ activeRequest' = TRUE /\ callbacksClosed' = FALSE
          /\ UNCHANGED closingEvent
       \/ /\ thread' = "publish"
          /\ callbacksClosed' \in BOOLEAN /\ closingEvent' = FALSE
          /\ UNCHANGED <<handle, activeRequest>>
    /\ UNCHANGED <<server, threadVars, cancelEvent, lateVars, loop>>

\* Sending gives WinHTTP the context.  It fails on a handle the flight loop
\* has closed; when it fails otherwise, WinHTTP may or may not have taken it.
Send ==
    /\ thread = "send"
    /\ \/ /\ handle = "open" /\ handle' = "bound" /\ thread' = "wait"
       \/ /\ handle = "open" /\ handle' \in {"open", "bound"} /\ thread' = "finish"
       \/ /\ handle = "none" /\ thread' = "finish" /\ UNCHANGED handle
    /\ UNCHANGED <<server, threadVars, cancelEvent, activeRequest, closingEvent,
                   callbacksClosed, lateVars, loop>>

WaitForAnswer ==  \* mutant: neither the cancel event nor the timeout ends a wait
    /\ thread = "wait" /\ server > 1
    /\ thread' = "finish" /\ fetched' = server
    /\ UNCHANGED <<server, job, running, result, cancelEvent, handleVars, loop>>

\* A wait ends with the answer, a failure or a timeout; with nothing but a
\* failure once the fetch is cancelled.
Wait ==
    /\ thread = "wait"
    /\ thread' = "finish"
    /\ fetched' \in IF cancelEvent THEN {0} ELSE {0, server}
    /\ UNCHANGED <<server, job, running, result, cancelEvent, handleVars, loop>>

FinishWhoever ==  \* mutant: closes the handle whoever exchanged it
    /\ thread = "finish"
    /\ thread' = "close"
    /\ activeRequest' = FALSE
    /\ UNCHANGED <<server, threadVars, cancelEvent, handle, closingEvent,
                   callbacksClosed, lateVars, loop>>

Finish ==
    /\ thread = "finish"
    /\ thread' = IF activeRequest THEN "close" ELSE "await"
    /\ activeRequest' = FALSE
    /\ UNCHANGED <<server, threadVars, cancelEvent, handle, closingEvent,
                   callbacksClosed, lateVars, loop>>

\* What becomes of a handle that is closed: WinHTTP has still to say so, if it
\* has a context to say it to.
Closed(h) == IF h = "bound" THEN "closing" ELSE "none"

Close ==
    /\ thread = "close"
    /\ thread' = "await" /\ handle' = Closed(handle)
    /\ closingEvent' = FALSE /\ stray' = FALSE
    /\ UNCHANGED <<server, threadVars, cancelEvent, activeRequest, callbacksClosed, late,
                   loop>>

AwaitAtMost ==  \* mutant: takes the timeout for the call
    /\ thread = "await"
    /\ thread' = "publish"
    /\ callbacksClosed' = TRUE
    /\ closingEvent' = FALSE
    /\ UNCHANGED <<server, threadVars, cancelEvent, activeRequest, handle, lateVars, loop>>

\* The worker waits for WinHTTP's last call, or gives up after 450 ms; then
\* its events and the context are gone.
Await ==
    /\ thread = "await"
    /\ thread' = "publish"
    /\ callbacksClosed' \in {FALSE, closingEvent}
    /\ closingEvent' = FALSE
    /\ UNCHANGED <<server, threadVars, cancelEvent, activeRequest, handle, lateVars, loop>>

PublishLate ==  \* mutant: says that it runs no more before the fact is there
    /\ thread = "publish"
    /\ thread' = "leave"
    /\ IF running
       THEN running' = FALSE /\ UNCHANGED <<result, job, fetched>>
       ELSE /\ result' = [request |-> job, report |-> fetched]
            /\ job' = NoRequest /\ fetched' = 0 /\ UNCHANGED running
    /\ UNCHANGED <<server, cancelEvent, handleVars, loop>>

Publish ==
    /\ thread = "publish"
    /\ thread' = "leave"
    /\ result' = [request |-> job, report |-> fetched]
    /\ job' = NoRequest /\ fetched' = 0
    /\ UNCHANGED <<server, running, cancelEvent, handleVars, loop>>

Leave ==
    /\ thread = "leave"
    /\ thread' = "none" /\ running' = FALSE
    /\ UNCHANGED <<server, job, fetched, result, cancelEvent, handleVars, loop>>

ThreadStep == Open \/ Send \/ Wait \/ Finish \/ Close \/ Await \/ Publish \/ Leave

\* WinHTTP's last call into the context: the handle is closing (external).
ClosingCallback ==
    /\ handle = "closing"
    /\ handle' = "none"
    /\ closingEvent' = (thread \in {"send", "wait", "finish", "close", "await"})
    /\ UNCHANGED <<server, thread, threadVars, cancelEvent, activeRequest, callbacksClosed,
                   lateVars, loop>>

\* The last call of an earlier fetch, into a context that is gone: it does
\* nothing, or it sets the closing event of the fetch whose context lies where
\* the earlier one lay (external; that it reads an unmapped stack is left out).
LateCallback ==
    /\ late > 0 /\ late' = late - 1
    /\ \/ UNCHANGED <<closingEvent, stray>>
       \/ /\ thread \in {"open", "send", "wait", "finish", "close", "await"}
          /\ closingEvent' = TRUE /\ stray' = TRUE
    /\ UNCHANGED <<server, thread, threadVars, cancelEvent, activeRequest, handle,
                   callbacksClosed, loop>>

\* New reports are published (external).
NewReports ==
    /\ server < MaxReports /\ server' = server + 1
    /\ UNCHANGED <<thread, threadVars, cancelEvent, handleVars, loop>>

-----------------------------------------------------------------------------
(* The flight loop's calls.                                                *)

\* The call WinHTTP has not made yet is owed to a fetch that is over now.
OweLastCall ==
    /\ handle = "closing" => late < MaxLate
    /\ late' = IF handle = "closing" THEN late + 1 ELSE late
    /\ handle' = "none" /\ stray' = FALSE

StartBlindly(request, created) ==  \* mutant: the thread is not told what to fetch
    /\ loop = "ready" /\ ~running
    /\ cancelEvent' = FALSE /\ result' = NoFact /\ callbacksClosed' = TRUE
    /\ thread' = IF created THEN "open" ELSE "none"
    /\ running' = created
    /\ OweLastCall
    /\ UNCHANGED <<server, job, fetched, activeRequest, closingEvent, loop>>

\* Start is refused while the thread runs, and fails when the thread cannot
\* be created.  It says that the callbacks are closed, whether WinHTTP has
\* made the last call of the fetch before or not.
Start(request, created) ==
    /\ loop = "ready" /\ ~running
    /\ cancelEvent' = FALSE /\ result' = NoFact /\ callbacksClosed' = TRUE
    /\ thread' = IF created THEN "open" ELSE "none"
    /\ job' = IF created THEN request ELSE NoRequest
    /\ running' = created
    /\ OweLastCall
    /\ UNCHANGED <<server, fetched, activeRequest, closingEvent, loop>>

\* TryHarvest takes a fact that is there, then joins the thread.
TryHarvest ==
    /\ loop = "ready" /\ result # NoFact
    /\ loop' = "joining" /\ result' = NoFact
    /\ UNCHANGED <<server, thread, job, fetched, running, cancelEvent, handleVars>>

HarvestJoins ==
    /\ loop = "joining" /\ thread = "none"
    /\ loop' = "ready"
    /\ UNCHANGED <<server, thread, threadVars, cancelEvent, handleVars>>

\* CancelAndJoin: the event, then the exchange, then the close, then the join.
SetCancelEvent ==
    /\ loop = "ready"
    /\ loop' = "exchange" /\ cancelEvent' = TRUE
    /\ UNCHANGED <<server, thread, threadVars, handleVars>>

TakeActiveRequest ==
    /\ loop = "exchange"
    /\ loop' = IF activeRequest THEN "closing" ELSE "stopping"
    /\ activeRequest' = FALSE
    /\ UNCHANGED <<server, thread, threadVars, cancelEvent, handle, closingEvent, callbacksClosed,
                   lateVars>>

CloseActiveRequest ==
    /\ loop = "closing"
    /\ loop' = "stopping" /\ handle' = Closed(handle)
    /\ UNCHANGED <<server, thread, threadVars, cancelEvent, activeRequest, closingEvent,
                   callbacksClosed, lateVars>>

\* The fact the thread left is drained, as at a lifecycle boundary.
CancelJoins ==
    /\ loop = "stopping" /\ thread = "none"
    /\ loop' = "ready" /\ running' = FALSE /\ result' = NoFact
    /\ UNCHANGED <<server, thread, job, fetched, cancelEvent, handleVars>>

LoopStep ==
    \/ HarvestJoins \/ TakeActiveRequest \/ CloseActiveRequest \/ CancelJoins

Next ==
    \/ ThreadStep \/ ClosingCallback \/ LateCallback \/ NewReports
    \/ LoopStep \/ TryHarvest \/ SetCancelEvent
    \/ \E request \in Request, created \in BOOLEAN : Start(request, created)

Spec == Init /\ [][Next]_vars

\* The system runs the thread, whose every wait has a timeout, and a call the
\* flight loop has made goes on.
FairSpec == Spec /\ WF_vars(ThreadStep) /\ WF_vars(LoopStep)

-----------------------------------------------------------------------------
(* Properties.                                                             *)

Owners ==
    {o \in {"request", "loop", "thread"} :
        \/ o = "request" /\ activeRequest
        \/ o = "loop" /\ loop = "closing"
        \/ o = "thread" /\ thread = "close"}

\* An open handle has one owner, who is to close it: it is not closed twice,
\* by the worker that finishes and the flight loop that cancels, and it is not
\* left open.
HandleHasOneOwner ==
    /\ \A o, p \in Owners : o = p
    /\ Owners # {} <=> handle \in {"open", "bound"}

\* When the client says that WinHTTP's callbacks are closed and the worker is
\* past its wait, none is to come to the context of the latest fetch: its stack
\* may go.  Of the fetches before, whose calls may be owed still (late > 0), the
\* report says nothing, and one of those calls in this fetch's context may end
\* its wait for it.
ReportedClosedIsClosed ==
    callbacksClosed /\ thread \in {"publish", "leave", "none"} /\ ~stray
        => handle # "closing"

\* The thread and the flight loop as MetarFetch sees them.
worker ==
    CASE thread = "none" -> "none"
      [] thread \in {"open", "send", "wait"} -> "fetching"
      [] thread \in {"finish", "close", "await", "publish"} -> "publishing"
      [] thread = "leave" -> "leaving"

caller == IF loop \in {"exchange", "closing"} THEN "stopping" ELSE loop

Promise == INSTANCE MetarFetch WITH loop <- caller

\* The client keeps what it promises: a fact is published once, for the
\* request it was started with, before the client says that it runs no more.
KeepsPromise == Promise!FetchSpec

\* A harvest and a cancel come back: the flight loop is not left in a join.
JoinsReturn == loop # "ready" ~> loop = "ready"

=============================================================================
