----------------------------- MODULE MetarFetch -----------------------------
(***************************************************************************)
(* What the METAR client promises the flight loop                          *)
(* (VatsimMetarClient.cpp): one thread fetches one report, publishes it as *)
(* a fact under the mutex, and then says that it runs no more; the flight  *)
(* loop starts it, harvests the fact and joins the thread, or cancels it,  *)
(* joins it and drops what it left.  MetarClient shows how.                *)
(*                                                                         *)
(* A report is a number, larger for a later one; 0 stands for every fact   *)
(* that is a failure or is rejected as one.                                *)
(***************************************************************************)
EXTENDS Naturals

CONSTANTS
    Request,      \* what the flight loop asks for
    NoRequest,
    NoFact,
    MaxReports    \* how many reports there are of an airport

ASSUME FetchAssumption ==
    /\ NoRequest \notin Request
    /\ NoFact \notin [request : Request, report : Nat]
    /\ MaxReports \in Nat

VARIABLES
    server,       \* the latest report there is, of every airport
    worker,       \* what the thread does
    job,          \* the request it was started with
    fetched,      \* the report it is about to publish
    running,
    result,       \* the fact that waits for the harvest
    loop          \* where the flight loop is

fetchVars == <<server, worker, job, fetched, running, result, loop>>

Fact == [request : Request, report : Nat]

FetchTypeOK ==
    /\ server \in Nat
    /\ worker \in {"none", "fetching", "publishing", "leaving"}
    /\ job \in Request \cup {NoRequest}
    /\ worker \in {"fetching", "publishing"} => job \in Request
    /\ fetched \in Nat
    /\ running \in BOOLEAN
    /\ result \in Fact \cup {NoFact}

FetchInit ==
    /\ server = 1
    /\ worker = "none" /\ job = NoRequest /\ fetched = 0
    /\ running = FALSE /\ result = NoFact
    /\ loop = "ready"

-----------------------------------------------------------------------------
(* The thread.                                                             *)

FetchForgets ==  \* mutant: the request is not kept for the fact
    /\ worker = "fetching"
    /\ worker' = "publishing"
    /\ fetched' \in {0, server} /\ job' = NoRequest
    /\ UNCHANGED <<server, running, result, loop>>

\* The answer, or nothing when the fetch fails or is cancelled.
Fetch ==
    /\ worker = "fetching"
    /\ worker' = "publishing"
    /\ fetched' \in {0, server}
    /\ UNCHANGED <<server, job, running, result, loop>>

Publish ==
    /\ worker = "publishing"
    /\ worker' = "leaving"
    /\ result' = [request |-> job, report |-> fetched]
    /\ job' = NoRequest /\ fetched' = 0
    /\ UNCHANGED <<server, running, loop>>

Leave ==
    /\ worker = "leaving"
    /\ worker' = "none" /\ running' = FALSE
    /\ UNCHANGED <<server, job, fetched, result, loop>>

WorkerStep == Fetch \/ Publish \/ Leave

\* New reports are published (external).
NewReports ==
    /\ server < MaxReports
    /\ server' = server + 1
    /\ UNCHANGED <<worker, job, fetched, running, result, loop>>

-----------------------------------------------------------------------------
(* The flight loop's calls.  Start is refused while the thread runs, and   *)
(* fails when the thread cannot be created.                                *)

Start(request, created) ==
    /\ ~running
    /\ worker' = IF created THEN "fetching" ELSE "none"
    /\ job' = IF created THEN request ELSE NoRequest
    /\ running' = created
    /\ result' = NoFact
    /\ UNCHANGED <<server, fetched>>

TakeResult ==
    /\ result # NoFact /\ result' = NoFact
    /\ UNCHANGED <<server, worker, job, fetched, running>>

Joined == worker = "none"

DropResult ==
    /\ Joined
    /\ running' = FALSE /\ result' = NoFact
    /\ UNCHANGED <<server, worker, job, fetched>>

-----------------------------------------------------------------------------
(* The client by itself, called in any order by one thread.                *)

CallStart ==
    /\ loop = "ready"
    /\ \E request \in Request, created \in BOOLEAN : Start(request, created)
    /\ UNCHANGED loop

CallTryHarvest == loop = "ready" /\ TakeResult /\ loop' = "joining"

HarvestJoins ==
    /\ loop = "joining" /\ Joined
    /\ loop' = "ready"
    /\ UNCHANGED <<server, worker, job, fetched, running, result>>

CallCancelAndJoin ==
    /\ loop = "ready" /\ loop' = "stopping"
    /\ UNCHANGED <<server, worker, job, fetched, running, result>>

CancelJoins == loop = "stopping" /\ DropResult /\ loop' = "ready"

FetchNext ==
    \/ WorkerStep \/ NewReports
    \/ CallStart \/ CallTryHarvest \/ HarvestJoins \/ CallCancelAndJoin \/ CancelJoins

FetchSpec == FetchInit /\ [][FetchNext]_fetchVars

=============================================================================
