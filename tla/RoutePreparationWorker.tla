----------------------- MODULE RoutePreparationWorker -----------------------
(***************************************************************************)
(* The worker thread that prepares routes (RoutePreparationWorker.cpp) and *)
(* its mailboxes.  The flight loop posts a request in a one-slot mailbox;  *)
(* the thread takes it, works, and publishes one fact in another one-slot  *)
(* mailbox.  Nothing is locked: the slots are exchanged atomically, a      *)
(* request is cancelled by making its mailbox sequence obsolete, and every *)
(* object lives in a node of a fixed pool that only the worker frees.      *)
(*                                                                         *)
(* Sequence numbers, request identities and epochs are only compared for   *)
(* equality: `current' is the identity of the request that holds the       *)
(* latest mailbox sequence, and the model takes an identity nobody holds   *)
(* where the code increments a counter.                                    *)
(*                                                                         *)
(* A route exists while its lease or its snapshot has a holder.            *)
(***************************************************************************)
EXTENDS Integers, FiniteSets

CONSTANTS Plans,          \* network plans (their digests)
          Sources,        \* route source datasets
          FmsFiles,       \* expanded FMS plans there may be on disk, numbered by
                          \* when they were saved
          Ids,            \* identities of requests; more than can exist at once
          Routes,         \* route snapshots; more than can exist at once
          RequestNodes,   \* nodes of the request pool (4 in the code)
          FactNodes,      \* nodes of the fact pool (4 in the code)
          None

ASSUME WorkerAssumption ==
    /\ Ids \subseteq Nat /\ Routes \subseteq Nat /\ FmsFiles \subseteq Nat
    /\ IsFiniteSet(Ids) => Cardinality(Ids) > 7
    /\ RequestNodes \in Nat \ {0} /\ FactNodes \in Nat \ {0, 1}
    /\ None \notin Plans \cup Sources \cup FmsFiles \cup Ids \cup Routes

VARIABLES
    pending,          \* the request in the mailbox, or None
    completed,        \* the fact in the mailbox, or None
    current,          \* the request with the latest mailbox sequence, or None
    retiredRequests,  \* number of request nodes on the retirement stack
    retiredFacts,     \* fact nodes on the retirement stack, and their routes
    retiredRoutes,    \* snapshots handed to the worker to be destroyed
    wake,             \* the auto-reset wake event
    running,          \* the flag IsRunning reads
    stopping,         \* Stop has begun
    wpc,              \* where the worker's loop is
    active,           \* the request the worker has taken, or None
    made,             \* the fact the worker is making, or None
    retained,         \* routes whose lease the worker retains
    leaseRetired      \* routes whose lease is marked retired

mailbox == <<pending, completed, current, retiredRequests, retiredFacts,
             retiredRoutes, wake>>
workerVars == <<running, wpc, active, made>>
leases == <<retained, leaseRetired>>

Identity == [epoch : Ids, plan : Plans, source : Sources \cup {None},
             fms : FmsFiles \cup {None}]
Kinds == {"prepare", "observe"}
Request == [id : Ids, kind : Kinds, identity : Identity]
Fact == [id : Ids, kind : Kinds, identity : Identity,
         status : {"completed", "cancelled", "failed", "empty"},
         route : Routes \cup {None}, resolved : BOOLEAN,
         fms : FmsFiles \cup {None}]

ASSUME NoneAssumption == None \notin Identity \cup Request \cup Fact

Least(S) == CHOOSE x \in S : \A y \in S : x <= y
RouteOf(fact) == IF fact = None THEN None ELSE fact.route

\* Mark the lease of a fact retired, if it has one.
Retire(fact) == leaseRetired \cup ({RouteOf(fact)} \cap retained)
PushFact(fact) ==
    IF fact = None THEN retiredFacts
    ELSE [nodes |-> retiredFacts.nodes + 1,
          routes |-> retiredFacts.routes \cup ({fact.route} \ {None})]
One(x) == IF x = None THEN 0 ELSE 1
PushNothing(request) == retiredRequests + 1  \* mutant: no test for null
PushRequest(request) == retiredRequests + One(request)
RequestNodesInUse == One(pending) + One(active) + retiredRequests
FactNodesInUse == One(completed) + retiredFacts.nodes
IsRunning == running \/ pending # None

\* A request whose mailbox sequence is not the latest is cancelled.
Cancelled(request) == stopping \/ request.id # current

-----------------------------------------------------------------------------
(* The operations the flight loop calls, one step for each atomic exchange. *)

InitMailbox ==
    /\ pending = None /\ completed = None /\ current = None
    /\ retiredRequests = 0
    /\ retiredFacts = [nodes |-> 0, routes |-> {}]
    /\ retiredRoutes = {}
    /\ wake = FALSE /\ running = FALSE /\ stopping = FALSE
    /\ wpc = "wait" /\ active = None /\ made = None
    /\ retained = {} /\ leaseRetired = {}

\* CancelPending: the sequence, then the request, then the fact.
CancelSequence ==
    /\ current' = None
    /\ UNCHANGED <<pending, completed, retiredRequests, retiredFacts,
                   retiredRoutes, wake>>
CancelRequest ==
    /\ pending' = None
    /\ retiredRequests' = PushRequest(pending)
    /\ UNCHANGED <<completed, current, retiredFacts, retiredRoutes, wake>>

\* StartLatest: a node and the next sequence, then the mailbox.
HasRequestNode == ~stopping /\ RequestNodesInUse < RequestNodes
PostUnsignalled(request) ==
    /\ pending' = request
    /\ retiredRequests' = PushRequest(pending)
    /\ UNCHANGED <<completed, current, retiredFacts, retiredRoutes, wake>>
ExchangePending(request) ==
    /\ pending' = request
    /\ retiredRequests' = PushRequest(pending)
    /\ wake' = TRUE
    /\ UNCHANGED <<completed, current, retiredFacts, retiredRoutes>>

-----------------------------------------------------------------------------
(* The worker's loop. *)

\* DrainRetiredObjects: nodes are freed, retired leases are let go.
Drain ==
    /\ retiredRequests' = 0
    /\ retiredFacts' = [nodes |-> 0, routes |-> {}]
    /\ retiredRoutes' = {}
    /\ retained' = retained \ (leaseRetired \cup retiredFacts.routes)
    /\ leaseRetired' = {}

WakeUp ==
    /\ wpc = "wait" /\ wake
    /\ wake' = FALSE
    /\ \/ /\ ~stopping
          /\ wpc' = "take"
          /\ Drain
          /\ UNCHANGED <<pending, completed, running>>
       \/ /\ stopping
          /\ wpc' = "done"
          /\ pending' = None /\ completed' = None /\ running' = FALSE
          /\ retiredRequests' = 0
          /\ retiredFacts' = [nodes |-> 0, routes |-> {}]
          /\ retiredRoutes' = {}
          /\ retained' = {} /\ leaseRetired' = {}
    /\ UNCHANGED <<current, active, made, stopping>>

\* Between taking a request and saying so, IsRunning sees neither.
Take ==
    /\ wpc = "take"
    /\ active' = pending
    /\ pending' = None
    /\ wpc' = IF pending = None THEN "wait" ELSE "begin"
    /\ UNCHANGED <<completed, current, retiredRequests, retiredFacts,
                   retiredRoutes, wake, running, stopping, made, leases>>
Begin ==
    /\ wpc = "begin"
    /\ running' = TRUE
    /\ wpc' = "work"
    /\ UNCHANGED <<mailbox, stopping, active, made, leases>>

MakeFact(status, route, resolved, fms) ==
    /\ made' = [id |-> active.id, kind |-> active.kind,
                identity |-> active.identity, status |-> status,
                route |-> route, resolved |-> resolved, fms |-> fms]
    /\ wpc' = "conclude"
    /\ UNCHANGED <<mailbox, running, stopping, active>>

\* A request already superseded is not worked on.
WorkCancelled ==
    /\ wpc = "work" /\ Cancelled(active)
    /\ MakeFact("cancelled", None, FALSE, None)
    /\ UNCHANGED leases

\* The engine throws, or returns no route and no observation.
WorkInVain(status) ==
    /\ wpc = "work" /\ ~Cancelled(active)
    /\ MakeFact(status, None, FALSE, None)
    /\ UNCHANGED leases

\* The expanded FMS file as the worker finds it on disk.
Observe(onDisk) ==
    /\ wpc = "work" /\ ~Cancelled(active) /\ active.kind = "observe"
    /\ MakeFact("completed", None, FALSE, onDisk)
    /\ UNCHANGED leases

\* The FMS file a route is built from: the one on disk now, which nobody
\* compares with the one in the request's identity; with a valid preflight
\* candidate, none.
BuiltFrom(onDisk) == {onDisk, None}

\* A snapshot, resolved or not, whose lease the worker retains.
Prepare(route, resolved, onDisk) ==
    /\ wpc = "work" /\ ~Cancelled(active) /\ active.kind = "prepare"
    /\ route \in Routes
    /\ \E file \in BuiltFrom(onDisk) : MakeFact("completed", route, resolved, file)
    /\ retained' = retained \cup {route}
    /\ UNCHANGED leaseRetired

\* The last look at the sequence: a fact cancelled now keeps its lease.
Conclude ==
    /\ wpc = "conclude"
    /\ made' = IF Cancelled(active) THEN [made EXCEPT !.status = "cancelled"]
                                    ELSE made
    /\ leaseRetired' = IF Cancelled(active) THEN Retire(made) ELSE leaseRetired
    /\ running' = FALSE
    /\ active' = None
    /\ wpc' = "publish"
    /\ UNCHANGED <<mailbox, stopping, retained>>

\* PublishFact: without a free node the fact in the mailbox is recycled;
\* without one there the new fact is lost.
Publish ==
    /\ wpc = "publish"
    /\ wpc' = "drain"
    /\ made' = None
    /\ LET room == FactNodesInUse < FactNodes \/ completed # None
       IN /\ completed' = IF room THEN made ELSE None
          /\ leaseRetired' = Retire(IF room THEN completed ELSE None)
    /\ UNCHANGED <<pending, current, retiredRequests, retiredFacts,
                   retiredRoutes, wake, running, stopping, active, retained>>

DrainAfterWork ==
    /\ wpc = "drain"
    /\ wpc' = "wait"
    /\ Drain
    /\ wake' = (wake \/ pending # None)
    /\ UNCHANGED <<pending, completed, current, running, stopping, active, made>>
=============================================================================
