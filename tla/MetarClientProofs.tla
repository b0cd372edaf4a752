-------------------------- MODULE MetarClientProofs --------------------------
(***************************************************************************)
(* For every set of requests and number of reports: the handle of a        *)
(* request has one owner, the latest fetch's callbacks are closed when     *)
(* they are reported so, unless a late call of an earlier fetch came into  *)
(* its context, and the client implements MetarFetch.                      *)
(***************************************************************************)
EXTENDS MetarClient, TLAPS

USE MetarClientAssumption DEF MetarClientAssumption

-----------------------------------------------------------------------------
(* The inductive invariant                                                 *)

\* HandleHasOneOwner, said without the set of owners.
OneOwner ==
    /\ ~(activeRequest /\ loop = "closing")
    /\ ~(activeRequest /\ thread = "close")
    /\ ~(loop = "closing" /\ thread = "close")
    /\ handle \in {"open", "bound"}
           <=> activeRequest \/ loop = "closing" \/ thread = "close"

\* What the thread's place says of its request.
ThreadInv ==
    /\ running <=> thread # "none"
    /\ activeRequest => thread \in {"send", "wait", "finish"}
    /\ thread = "open" => handle = "none"
    /\ thread = "send" => handle \in {"none", "open"}
    /\ thread \in {"none", "open", "send", "wait", "leave"} => fetched = 0

\* The closing event is of the fetch that runs; unless a late call of an
\* earlier fetch set it, WinHTTP has said that the handle is closing.
CallbackInv ==
    /\ closingEvent => thread \in {"open", "send", "wait", "finish", "close", "await"}
    /\ closingEvent /\ ~stray
           => handle = "none" /\ thread \in {"wait", "finish", "close", "await"}
    /\ callbacksClosed /\ thread \in {"publish", "leave", "none"} /\ ~stray
           => handle = "none"

ClientInv == TypeOK /\ OneOwner /\ ThreadInv /\ CallbackInv

LEMMA OwnersAreOne == TypeOK => (OneOwner <=> HandleHasOneOwner)
  BY DEF TypeOK, OneOwner, HandleHasOneOwner, Owners

LEMMA ClientInvInit == Init => ClientInv
<1> SUFFICES ASSUME Init PROVE ClientInv
  OBVIOUS
<1> USE DEF Init
<1>1. TypeOK
  <2>1. server \in Nat \ {0} /\ fetched \in Nat
    OBVIOUS
  <2>2. running \in BOOLEAN /\ cancelEvent \in BOOLEAN /\ activeRequest \in BOOLEAN
        /\ closingEvent \in BOOLEAN /\ callbacksClosed \in BOOLEAN
    OBVIOUS
  <2>3. late \in 0 .. MaxLate
    BY DEF MetarClientAssumption
  <2>4. stray \in BOOLEAN
    OBVIOUS
  <2> QED
    BY <2>1, <2>2, <2>3, <2>4, Zenon DEF TypeOK
<1>2. OneOwner
  BY DEF OneOwner
<1>3. ThreadInv
  BY DEF ThreadInv
<1>4. CallbackInv
  BY DEF CallbackInv
<1> QED
  BY <1>1, <1>2, <1>3, <1>4 DEF ClientInv

-----------------------------------------------------------------------------
(* The steps                                                               *)

LEMMA ClientInvStep == ClientInv /\ [Next]_vars => ClientInv'
<1> SUFFICES ASSUME ClientInv, [Next]_vars PROVE ClientInv'
  OBVIOUS
<1> USE DEF ClientInv, TypeOK, OneOwner, ThreadInv, CallbackInv, threadVars, handleVars, lateVars,
            Closed, OweLastCall
<1>1. CASE Open
  <2>1. TypeOK'
    BY <1>1 DEF Open
  <2>2. OneOwner'
    BY <1>1 DEF Open
  <2>3. ThreadInv'
    BY <1>1 DEF Open
  <2>4. CallbackInv'
    BY <1>1 DEF Open
  <2> QED
    BY <2>1, <2>2, <2>3, <2>4
<1>2. CASE Send
  BY <1>2 DEF Send
<1>3. CASE Wait
  BY <1>3 DEF Wait
<1>4. CASE Finish
  BY <1>4 DEF Finish
<1>5. CASE Close
  BY <1>5 DEF Close
<1>6. CASE Await
  <2>1. TypeOK'
    BY <1>6 DEF Await
  <2>2. OneOwner'
    BY <1>6 DEF Await
  <2>3. ThreadInv'
    BY <1>6 DEF Await
  <2>4. CallbackInv'
    <3>1. closingEvent' = FALSE /\ handle' = handle /\ thread' = "publish"
      BY <1>6 DEF Await
    <3>2. callbacksClosed' \in {FALSE, closingEvent}
      BY <1>6 DEF Await
    <3>3. callbacksClosed' => closingEvent
      BY <3>2
    <3>4. callbacksClosed' /\ ~stray' => handle' = "none"
      BY <1>6, <3>1, <3>3 DEF Await
    <3> QED
      BY <3>1, <3>4, Zenon
  <2> QED
    BY <2>1, <2>2, <2>3, <2>4
<1>7. CASE Publish
  BY <1>7 DEF Publish
<1>8. CASE Leave
  BY <1>8 DEF Leave
<1>9. CASE ClosingCallback
  <2>1. TypeOK'
    BY <1>9 DEF ClosingCallback
  <2>2. OneOwner'
    BY <1>9 DEF ClosingCallback
  <2>3. ThreadInv'
    BY <1>9 DEF ClosingCallback
  <2>4. CallbackInv'
    <3>1. closingEvent' => thread' \in {"send", "wait", "finish", "close", "await"}
      BY <1>9, Zenon DEF ClosingCallback
    <3>2. handle' = "none" /\ thread' # "send"
      BY <1>9 DEF ClosingCallback
    <3> QED
      BY <3>1, <3>2, Zenon
  <2> QED
    BY <2>1, <2>2, <2>3, <2>4
<1>10. CASE NewReports
  BY <1>10 DEF NewReports
<1>11. CASE HarvestJoins
  BY <1>11 DEF HarvestJoins
<1>12. CASE TakeActiveRequest
  <2>1. TypeOK'
    BY <1>12 DEF TakeActiveRequest
  <2>2. OneOwner'
    BY <1>12 DEF TakeActiveRequest
  <2>3. ThreadInv'
    BY <1>12 DEF TakeActiveRequest
  <2>4. CallbackInv'
    BY <1>12 DEF TakeActiveRequest
  <2> QED
    BY <2>1, <2>2, <2>3, <2>4
<1>13. CASE CloseActiveRequest
  BY <1>13 DEF CloseActiveRequest
<1>14. CASE CancelJoins
  BY <1>14 DEF CancelJoins
<1>15. CASE TryHarvest
  BY <1>15 DEF TryHarvest
<1>16. CASE SetCancelEvent
  BY <1>16 DEF SetCancelEvent
<1>17. ASSUME NEW request \in Request, NEW created \in BOOLEAN, Start(request, created)
       PROVE  ClientInv'
  <2>1. TypeOK'
    <3>1. late' \in 0 .. MaxLate
      BY <1>17 DEF Start, MetarClientAssumption
    <3>2. job' \in Request \cup {NoRequest} /\ (thread' \notin {"none", "leave"} => job' \in Request)
      BY <1>17 DEF Start
    <3>3. running' \in BOOLEAN /\ cancelEvent' \in BOOLEAN /\ activeRequest' \in BOOLEAN
          /\ closingEvent' \in BOOLEAN /\ callbacksClosed' \in BOOLEAN /\ stray' \in BOOLEAN
      BY <1>17 DEF Start
    <3>4. /\ server' \in Nat \ {0} /\ fetched' \in Nat
          /\ thread' \in {"none", "open"} /\ handle' = "none" /\ loop' = loop
          /\ result' = NoFact
      BY <1>17 DEF Start
    <3> QED
      BY <3>1, <3>2, <3>3, <3>4, Zenon
  <2>2. OneOwner'
    BY <1>17 DEF Start
  <2>3. ThreadInv'
    BY <1>17 DEF Start
  <2>4. CallbackInv'
    BY <1>17 DEF Start
  <2> QED
    BY <2>1, <2>2, <2>3, <2>4
<1>18. CASE LateCallback
  <2>1. TypeOK'
    <3>1. late' \in 0 .. MaxLate
      BY <1>18 DEF LateCallback, MetarClientAssumption
    <3>2. closingEvent' \in BOOLEAN /\ stray' \in BOOLEAN
      BY <1>18 DEF LateCallback
    <3>3. UNCHANGED <<server, thread, job, fetched, running, result, cancelEvent,
                      activeRequest, handle, callbacksClosed, loop>>
      BY <1>18 DEF LateCallback
    <3> QED
      BY <3>1, <3>2, <3>3, Zenon
  <2>2. OneOwner'
    BY <1>18 DEF LateCallback
  <2>3. ThreadInv'
    BY <1>18 DEF LateCallback
  <2>4. CallbackInv'
    BY <1>18 DEF LateCallback
  <2> QED
    BY <2>1, <2>2, <2>3, <2>4
<1>19. CASE UNCHANGED vars
  BY <1>19 DEF vars
<1> QED
  BY <1>1, <1>2, <1>3, <1>4, <1>5, <1>6, <1>7, <1>8, <1>9, <1>10, <1>11, <1>12,
     <1>13, <1>14, <1>15, <1>16, <1>17, <1>18, <1>19 DEF Next, ThreadStep, LoopStep

\* The inductive invariant of the client holds in every behaviour.
THEOREM ClientInvariant == Spec => []ClientInv
  BY ClientInvInit, ClientInvStep, PTL DEF Spec

\* Every variable keeps its type (VatsimMetarClient.cpp:640-650).
THEOREM ClientTypeCorrect == Spec => []TypeOK
<1>1. ClientInv => TypeOK
  BY DEF ClientInv
<1> QED
  BY <1>1, ClientInvariant, PTL

\* Whatever the flight loop's cancellation and the worker's end interleave,
\* the request's handle is closed once (VatsimMetarClient.cpp:284, 723).
THEOREM OneOwnerOfHandle == Spec => []HandleHasOneOwner
<1>1. ClientInv => HandleHasOneOwner
  BY OwnersAreOne DEF ClientInv
<1> QED
  BY <1>1, ClientInvariant, PTL

\* When the client says that the callbacks are closed, WinHTTP owes the latest
\* fetch none, whatever it owes to the fetches before, as long as none of those
\* set this fetch's closing event (VatsimMetarClient.cpp:293).
THEOREM ReportIsRight == Spec => []ReportedClosedIsClosed
<1>1. ClientInv => ReportedClosedIsClosed
  BY DEF ClientInv, CallbackInv, ReportedClosedIsClosed
<1> QED
  BY <1>1, ClientInvariant, PTL

-----------------------------------------------------------------------------
(* The refinement                                                          *)

LEMMA PromiseInit == Init => Promise!FetchInit
  BY DEF Init, Promise!FetchInit, worker, caller

LEMMA PromiseStep == ClientInv /\ [Next]_vars => [Promise!FetchNext]_Promise!fetchVars
<1> SUFFICES ASSUME ClientInv, [Next]_vars
             PROVE  Promise!FetchNext \/ UNCHANGED Promise!fetchVars
  OBVIOUS
<1> USE DEF ClientInv, TypeOK, ThreadInv, worker, caller, threadVars, handleVars, lateVars,
            OweLastCall,
            Promise!fetchVars
<1>1. CASE Open
  <2>1. CASE thread' = "send"
    BY <1>1, <2>1 DEF Open
  <2>2. CASE thread' = "publish"
    BY <1>1, <2>2 DEF Open, Promise!FetchNext, Promise!WorkerStep, Promise!Fetch
  <2> QED
    BY <1>1, <2>1, <2>2 DEF Open
<1>2. CASE Send
  <2>1. CASE thread' = "wait"
    BY <1>2, <2>1 DEF Send
  <2>2. CASE thread' = "finish"
    BY <1>2, <2>2 DEF Send, Promise!FetchNext, Promise!WorkerStep, Promise!Fetch
  <2> QED
    BY <1>2, <2>1, <2>2 DEF Send
<1>3. CASE Wait
  BY <1>3 DEF Wait, Promise!FetchNext, Promise!WorkerStep, Promise!Fetch
<1>4. CASE Finish
  BY <1>4 DEF Finish
<1>5. CASE Close
  BY <1>5 DEF Close
<1>6. CASE Await
  BY <1>6 DEF Await
<1>7. CASE Publish
  BY <1>7 DEF Publish, Promise!FetchNext, Promise!WorkerStep, Promise!Publish
<1>8. CASE Leave
  BY <1>8 DEF Leave, Promise!FetchNext, Promise!WorkerStep, Promise!Leave
<1>9. CASE ClosingCallback
  BY <1>9 DEF ClosingCallback
<1>10. CASE NewReports
  BY <1>10 DEF NewReports, Promise!FetchNext, Promise!NewReports
<1>11. CASE HarvestJoins
  BY <1>11 DEF HarvestJoins, Promise!FetchNext, Promise!HarvestJoins, Promise!Joined
<1>12. CASE TakeActiveRequest
  BY <1>12 DEF TakeActiveRequest
<1>13. CASE CloseActiveRequest
  BY <1>13 DEF CloseActiveRequest
<1>14. CASE CancelJoins
  BY <1>14 DEF CancelJoins, Promise!FetchNext, Promise!CancelJoins, Promise!DropResult,
               Promise!Joined
<1>15. CASE TryHarvest
  BY <1>15 DEF TryHarvest, Promise!FetchNext, Promise!CallTryHarvest, Promise!TakeResult
<1>16. CASE SetCancelEvent
  BY <1>16 DEF SetCancelEvent, Promise!FetchNext, Promise!CallCancelAndJoin
<1>17. ASSUME NEW request \in Request, NEW created \in BOOLEAN, Start(request, created)
       PROVE  Promise!FetchNext
  BY <1>17 DEF Start, Promise!FetchNext, Promise!CallStart, Promise!Start
<1>18. CASE LateCallback
  BY <1>18 DEF LateCallback
<1>19. CASE UNCHANGED vars
  BY <1>19 DEF vars
<1> QED
  BY <1>1, <1>2, <1>3, <1>4, <1>5, <1>6, <1>7, <1>8, <1>9, <1>10, <1>11, <1>12,
     <1>13, <1>14, <1>15, <1>16, <1>17, <1>18, <1>19 DEF Next, ThreadStep, LoopStep

\* The client implements MetarFetch: a fact is published once, for the request
\* the thread was started with, before the client says that it runs no more,
\* and a harvest or a cancellation joins the thread.
THEOREM ClientKeepsPromise == Spec => KeepsPromise
<1>1. Spec => Promise!FetchInit /\ [][Promise!FetchNext]_Promise!fetchVars
  BY PromiseInit, PromiseStep, ClientInvariant, PTL DEF Spec
<1> QED
  BY <1>1 DEF KeepsPromise, Promise!FetchSpec

=============================================================================
