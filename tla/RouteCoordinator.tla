-------------------------- MODULE RouteCoordinator --------------------------
(***************************************************************************)
(* The flight loop's side of route preparation (XVatsimPlugin.cpp): in     *)
(* each callback it forms the identity of the route it desires, harvests   *)
(* at most one fact, cancels and withdraws when the desired identity has   *)
(* changed, judges the fact, and decides whether to post a request.  The   *)
(* worker runs between any two of its atomic operations.                   *)
(*                                                                         *)
(* `source' stands for the parts of the identity that change without the   *)
(* plan: the dataset, the preflight candidate and the anchor.              *)
(***************************************************************************)
EXTENDS RoutePreparationWorker

CONSTANTS MaxDisturbances,  \* bound: a change of the FMS file counts one; of plan
                            \* or dataset, a disconnect, a failed request two
          Derived           \* a snapshot the Brain made from an accepted one

\* The route that is shown, what it was made for, and the FMS file it was
\* built from.
Accepted == [identity : Identity \cup {None}, route : Routes \cup {None},
             resolved : BOOLEAN, fms : FmsFiles \cup {None}]

ASSUME CoordinatorAssumption ==
    /\ MaxDisturbances \in Nat
    /\ Derived \notin Routes \cup {None} /\ None \notin Accepted

VARIABLES
    world,      \* the plan, dataset and FMS file there are, and whether an
                \* earlier file has come back
    disturbances, \* what they count so far
    due,        \* which of the timers have run out
    pc,         \* where the callback is
    why,        \* what a cancellation is for
    want,       \* `desired', the callback's local identity
    harvested,  \* the fact the callback holds, or None
    epoch, desired, eligible, accepted, \* gRouteAsyncRuntime
    fmsSeen,    \* the observation it has accepted: of which plan, what
    brain       \* the route the Brain publishes, None, or Derived from one

shared == <<mailbox, workerVars, stopping, leases>>
runtime == <<epoch, desired, eligible, accepted, fmsSeen, brain>>
local == <<pc, why, want, harvested>>
outside == <<world, disturbances, due>>
vars == <<shared, runtime, local, outside>>

Disturb(count) == /\ disturbances + count <= MaxDisturbances
                  /\ disturbances' = disturbances + count
NoRoute == [identity |-> None, route |-> None, resolved |-> FALSE, fms |-> None]
HasRoute == accepted.route # None
NoFms == [plan |-> None, file |-> None]
Timers == {"retry", "observation", "unresolved"}

Init ==
    /\ InitMailbox
    /\ world \in [plan : Plans, source : Sources, fms : FmsFiles,
                  reverted : {FALSE}]
    /\ disturbances = 0 /\ due = Timers
    /\ pc = "idle" /\ why = None /\ want = None /\ harvested = None
    /\ epoch = Least(Ids) /\ desired = None /\ eligible = None /\ accepted = NoRoute
    /\ fmsSeen = NoFms /\ brain = None

\* The identity this callback would prepare a route for.
FmsOf(seen, plan) == IF seen.plan = plan THEN seen.file ELSE None
IdentityNow == [epoch |-> epoch, plan |-> world.plan, source |-> world.source,
                fms |-> FmsOf(fmsSeen, world.plan)]
AcceptedCurrent == HasRoute /\ accepted.identity = want

Held(facts) == {facts[i].identity.epoch : i \in {j \in DOMAIN facts : facts[j] # None}}
EpochsInUse == {epoch} \cup Held(<<pending, active, completed, made, harvested,
                                   eligible>>)
IdsInUse == LET holders == <<pending, active, completed, made, harvested, eligible>>
            IN {0} \cup {holders[i].id : i \in {j \in DOMAIN holders : holders[j] # None}}
HasLease(r) == \/ r \in retained \cup retiredFacts.routes
               \/ r \in {RouteOf(f) : f \in {completed, made, harvested, accepted}}
Alive(r) == HasLease(r) \/ brain = r \/ r \in retiredRoutes

\* RetireAcceptedRoute: the worker may let go of the lease from here on.
RetireNothing == leaseRetired
RetireAccepted == Retire(accepted)
\* QueueRouteRetirement of the snapshot the Brain published so far.
QueueBrainRoute == retiredRoutes \cup ({brain} \cap Routes)

-----------------------------------------------------------------------------
(* The callback. *)

\* No usable plan: what there is is invalidated, then the callback rests.
RefreshWithoutPlan ==
    /\ pc = "idle" /\ ~stopping /\ world.plan = None
    /\ IF desired = None /\ ~HasRoute /\ ~IsRunning
       THEN UNCHANGED <<pc, why>>
       ELSE pc' = "cancel" /\ why' = "invalidate"
    /\ UNCHANGED <<shared, runtime, want, harvested, outside>>

\* TryHarvest: the fact's node goes back to the worker, the lease stays here.
TakeFact ==
    /\ harvested' = completed
    /\ completed' = None
    /\ retiredFacts' = [retiredFacts EXCEPT !.nodes = @ + One(completed)]
    /\ wake' = (wake \/ completed # None)
    /\ UNCHANGED <<pending, current, retiredRequests, retiredRoutes>>

IsEligible(fact, identity) ==
    /\ eligible # None
    /\ fact.id = eligible.id
    /\ fact.identity = eligible.identity /\ fact.identity = identity
Answers(fact) == fact # None /\ eligible # None /\ fact.id = eligible.id

\* The identity is formed and a fact harvested; an observation that was
\* asked for with this identity becomes part of it.
Refresh ==
    /\ pc = "idle" /\ ~stopping /\ world.plan # None
    /\ TakeFact
    /\ LET observed == completed # None /\ completed.kind = "observe"
           ok == /\ observed /\ completed.status = "completed"
                 /\ IsEligible(completed, IdentityNow)
           identity == IF ok THEN [IdentityNow EXCEPT !.fms = completed.fms]
                             ELSE IdentityNow
           timers == IF fmsSeen.plan = world.plan THEN due
                     ELSE due \cup {"observation"}
       IN /\ want' = identity
          /\ fmsSeen' = [plan |-> world.plan, file |-> identity.fms]
          /\ due' = IF ok THEN timers \ {"observation"} ELSE timers
          /\ eligible' = IF observed /\ Answers(completed) THEN None ELSE eligible
          /\ pc' = IF desired = identity THEN "judge" ELSE "cancel"
          /\ why' = IF desired = identity THEN None ELSE "changed"
    /\ UNCHANGED <<workerVars, stopping, leases, epoch, desired, accepted, brain,
                   world, disturbances>>

CallCancelSequence ==
    /\ pc = "cancel" /\ CancelSequence
    /\ pc' = "cancelRequest"
    /\ UNCHANGED <<workerVars, stopping, leases, runtime, outside,
                   why, want, harvested>>

CallCancelRequest ==
    /\ pc = "cancelRequest" /\ CancelRequest
    /\ pc' = "withdraw"
    /\ UNCHANGED <<workerVars, stopping, leases, runtime, outside,
                   why, want, harvested>>

\* The end of CancelPending, and RetireAcceptedRoute(true): the fact in the
\* mailbox and the accepted route are retired, the Brain publishes none.
Withdraw ==
    /\ pc = "withdraw"
    /\ completed' = None
    /\ retiredFacts' = PushFact(completed)
    /\ leaseRetired' = Retire(completed) \cup RetireAccepted
    /\ retiredRoutes' = QueueBrainRoute
    /\ accepted' = NoRoute /\ brain' = None /\ eligible' = None
    /\ wake' = TRUE
    /\ UNCHANGED <<pending, current, retiredRequests, workerVars, stopping,
                   retained, want, harvested, world, disturbances>>
    /\ \/ /\ why = "changed"
          /\ desired' = want /\ due' = due \cup {"retry"}
          /\ pc' = "judge"
          /\ UNCHANGED <<epoch, fmsSeen, why>>
       \/ /\ why # "changed"
          /\ desired' = None /\ due' = Timers /\ fmsSeen' = NoFms
          /\ epoch' = Least(Ids \ EpochsInUse)
          /\ pc' = IF why = "stop" THEN "stop" ELSE "idle"
          /\ why' = None

\* DecideBrainRouteCompletion: the fact answers the eligible request and was
\* made for what is desired, FMS observation included.
AnyCompletion(fact) == TRUE
CompletionAccepted(fact) == /\ IsEligible(fact, desired)
                            /\ fact.identity.source # None
                            /\ fact.identity.fms # None
RouteFact == harvested # None /\ harvested.kind = "prepare"
Publishable == harvested.status = "completed" /\ CompletionAccepted(harvested)
SettlePublished == eligible' = IF Answers(harvested) /\ Publishable THEN None
                                                                  ELSE eligible
Settle == eligible' = IF Answers(harvested) THEN None ELSE eligible

\* A route fact is published, or its lease is given back.
Judge ==
    /\ pc = "judge" /\ pc' = "decide"
    /\ \/ /\ ~RouteFact
          /\ UNCHANGED <<leases, retiredRoutes, wake, accepted, brain, eligible, due>>
       \/ /\ RouteFact /\ Publishable
          /\ leaseRetired' = RetireAccepted
          /\ accepted' = [identity |-> harvested.identity, route |-> harvested.route,
                          resolved |-> harvested.resolved, fms |-> harvested.fms]
          /\ retiredRoutes' = QueueBrainRoute
          /\ brain' \in {harvested.route} \cup
                         (IF harvested.resolved THEN {Derived} ELSE {})
          /\ due' = IF harvested.resolved THEN due \cup {"retry", "unresolved"}
                                           ELSE due \ {"retry", "unresolved"}
          /\ wake' = TRUE
          /\ Settle /\ UNCHANGED retained
       \/ /\ RouteFact /\ ~Publishable
          /\ leaseRetired' = Retire(harvested)
          /\ wake' = (wake \/ harvested.route # None)
          /\ due' = due \ {"retry"}
          /\ Settle /\ UNCHANGED <<retained, retiredRoutes, accepted, brain>>
    /\ UNCHANGED <<pending, completed, current, retiredRequests, retiredFacts,
                   workerVars, stopping, epoch, desired, fmsSeen, why, want,
                   harvested, world, disturbances>>

PublishedNow == HasRoute /\ RouteOf(harvested) = accepted.route
\* BeginBrainOwnedRoutePolygonRefresh: an unresolved route is retried.
BrainNeedsWorker == /\ AcceptedCurrent /\ ~PublishedNow
                    /\ ~accepted.resolved /\ "unresolved" \in due

\* DecideRouteCoordinatorAction.
ActionWithoutQuietObservation ==
    IF world.source = None \/ eligible # None THEN None
    ELSE IF want.fms = None THEN "observe"
    ELSE IF (~AcceptedCurrent \/ BrainNeedsWorker) /\ "retry" \in due THEN "prepare"
    ELSE None
Action ==
    IF world.source = None \/ eligible # None THEN None
    ELSE IF want.fms = None THEN "observe"
    ELSE IF (~AcceptedCurrent \/ BrainNeedsWorker) /\ "retry" \in due THEN "prepare"
    ELSE IF AcceptedCurrent /\ "observation" \in due /\ ~IsRunning THEN "observe"
    ELSE None

\* The Brain's route moves on with the aircraft; then the decision.  When no
\* node is free for a request the callback ends like one without an action.
Decide ==
    /\ pc = "decide"
    /\ \/ UNCHANGED <<brain, retiredRoutes, wake>>
       \/ /\ AcceptedCurrent /\ ~PublishedNow /\ accepted.resolved
          /\ brain' = Derived
          /\ retiredRoutes' = QueueBrainRoute /\ wake' = TRUE
    /\ IF Action # None /\ HasRequestNode
       THEN /\ pc' = "post" /\ why' = Action
            /\ current' = Least(Ids \ IdsInUse)
            /\ UNCHANGED <<want, harvested>>
       ELSE /\ pc' = "idle" /\ why' = None /\ want' = None /\ harvested' = None
            /\ UNCHANGED current
    /\ UNCHANGED <<pending, completed, retiredRequests, retiredFacts, workerVars,
                   stopping, leases, epoch, desired, eligible, accepted, fmsSeen,
                   outside>>

Post ==
    /\ pc = "post"
    /\ LET request == [id |-> current, kind |-> why, identity |-> want]
       IN ExchangePending(request) /\ eligible' = request
    /\ due' = IF why = "prepare" THEN due \ {"retry"} ELSE due
    /\ pc' = "idle" /\ why' = None /\ want' = None /\ harvested' = None
    /\ UNCHANGED <<workerVars, stopping, leases, epoch, desired, accepted, fmsSeen,
                   brain, world, disturbances>>

-----------------------------------------------------------------------------
(* The session: a network disconnect or a reset invalidates; XPluginStop    *)
(* invalidates and then stops the worker and joins it.                      *)

Invalidate ==
    /\ pc = "idle" /\ ~stopping /\ Disturb(2)
    /\ pc' = "cancel" /\ why' = "invalidate"
    /\ UNCHANGED <<shared, runtime, want, harvested, world, due>>

XPluginStop ==
    /\ pc = "idle" /\ ~stopping
    /\ pc' = "cancel" /\ why' = "stop"
    /\ UNCHANGED <<shared, runtime, want, harvested, outside>>

StopBegins ==
    /\ pc = "stop" /\ stopping' = TRUE /\ pc' = "stopRequest"
    /\ UNCHANGED <<mailbox, workerVars, leases, runtime, why, want, harvested, outside>>

StopRequest ==
    /\ pc = "stopRequest" /\ CancelRequest /\ pc' = "stopFact"
    /\ UNCHANGED <<workerVars, stopping, leases, runtime, why, want, harvested, outside>>

StopUnsignalled ==
    /\ pc = "stopFact" /\ pc' = "join"
    /\ completed' = None /\ retiredFacts' = PushFact(completed)
    /\ leaseRetired' = Retire(completed)
    /\ UNCHANGED <<pending, current, retiredRequests, retiredRoutes, wake, workerVars,
                   stopping, retained, runtime, why, want, harvested, outside>>
StopFact ==
    /\ pc = "stopFact" /\ pc' = "join"
    /\ completed' = None /\ retiredFacts' = PushFact(completed)
    /\ leaseRetired' = Retire(completed)
    /\ wake' = TRUE
    /\ UNCHANGED <<pending, current, retiredRequests, retiredRoutes, workerVars,
                   stopping, retained, runtime, why, want, harvested, outside>>

Join ==
    /\ pc = "join" /\ wpc = "done" /\ pc' = "joined"
    /\ UNCHANGED <<shared, runtime, why, want, harvested, outside>>

-----------------------------------------------------------------------------
(* The world: the pilot's plan, the datasets, the file, and the clock. *)

Change ==
    /\ pc = "idle" /\ ~stopping /\ Disturb(2)
    /\ \/ \E p \in Plans \cup {None} : p # world.plan /\ world' = [world EXCEPT !.plan = p]
       \/ \E s \in Sources \cup {None} : s # world.source /\ world' = [world EXCEPT !.source = s]
    /\ UNCHANGED <<shared, runtime, local, due>>

\* The pilot saves a plan, or deletes the newest one and an earlier is back.
WithFile(f) == [world EXCEPT !.fms = f, !.reverted = @ \/ f < world.fms]
FileChanges ==
    /\ Disturb(1)
    /\ \E f \in FmsFiles \ {world.fms} : world' = WithFile(f)
    /\ UNCHANGED <<shared, runtime, local, due>>

Expire(timer) ==
    /\ pc = "idle" /\ ~stopping /\ timer \notin due
    /\ due' = due \cup {timer}
    /\ UNCHANGED <<shared, runtime, local, world, disturbances>>

coordinatorVars == <<runtime, local, outside>>
FreshRoutes == {r \in Routes : ~Alive(r)}  \* never empty: Routes is large enough
FreshRoute == Least(FreshRoutes)

Loop == WakeUp \/ Take \/ Begin \/ WorkCancelled \/ Conclude \/ Publish \/ DrainAfterWork
Undisturbed == UNCHANGED coordinatorVars
Disturbed == Disturb(2) /\ UNCHANGED <<runtime, local, world, due>>

WorkerLoops == Loop /\ Undisturbed
WorkerObserves == Observe(world.fms) /\ Undisturbed
WorkerPrepares == FreshRoutes # {} /\ Prepare(FreshRoute, TRUE, world.fms) /\ Undisturbed
WorkerFails == \/ \E status \in {"failed", "empty"} : WorkInVain(status) /\ Disturbed
               \/ FreshRoutes # {} /\ Prepare(FreshRoute, FALSE, world.fms) /\ Disturbed

Callback == \/ RefreshWithoutPlan \/ Refresh \/ CallCancelSequence
            \/ CallCancelRequest \/ Withdraw \/ Judge \/ Decide \/ Post
            \/ StopBegins \/ StopRequest \/ StopFact \/ Join

Next ==
    \/ Callback \/ Invalidate \/ XPluginStop
    \/ WorkerLoops \/ WorkerObserves \/ WorkerPrepares \/ WorkerFails
    \/ Change \/ FileChanges \/ \E timer \in Timers : Expire(timer)
    \/ pc = "joined" /\ UNCHANGED vars

Spec == Init /\ [][Next]_vars

(***************************************************************************)
(* The scheduler runs the worker and the flight loop calls back; timers    *)
(* run out.  The engine's failures are disturbances, so they end.          *)
(***************************************************************************)
Worker == WorkerLoops \/ WorkerObserves \/ WorkerPrepares
Fairness == /\ WF_vars(Callback) /\ WF_vars(Worker)
            /\ \A timer \in Timers : SF_vars(Expire(timer))
FairSpec == Spec /\ Fairness

-----------------------------------------------------------------------------
TypeOK ==
    /\ pending \in Request \cup {None} /\ active \in Request \cup {None}
    /\ completed \in Fact \cup {None} /\ made \in Fact \cup {None}
    /\ harvested \in Fact \cup {None} /\ eligible \in Request \cup {None}
    /\ current \in Ids \cup {None}
    /\ retiredRequests \in 0 .. RequestNodes
    /\ retiredFacts \in [nodes : 0 .. FactNodes, routes : SUBSET Routes]
    /\ retiredRoutes \subseteq Routes
    /\ leaseRetired \subseteq retained /\ retained \subseteq Routes
    /\ wake \in BOOLEAN /\ running \in BOOLEAN /\ stopping \in BOOLEAN
    /\ desired \in Identity \cup {None} /\ want \in Identity \cup {None}
    /\ RequestNodesInUse \in 0 .. RequestNodes
    /\ FactNodesInUse \in 0 .. FactNodes

\* The request the coordinator waits for is on its way: in a mailbox or in
\* the worker's hands.  Nothing else would end the wait: it has no timeout.
EligibleInFlight ==
    (pc = "idle" /\ eligible # None) =>
        \E x \in {pending, active, made, completed} : x # None /\ x.id = eligible.id

\* Between two callbacks the Brain publishes a route exactly when one is
\* accepted, and that route was made for the identity last desired.
BrainShowsDesired ==
    pc = "idle" => /\ (brain # None) <=> HasRoute
                   /\ HasRoute => accepted.identity = desired

\* The lease of an accepted route is one the worker retains, and a lease the
\* worker retains unretired has somebody left who will retire it.
LeasesAccountedFor ==
    /\ pc = "idle" /\ HasRoute => accepted.route \in retained \ leaseRetired
    /\ retained \ leaseRetired \subseteq
          {RouteOf(f) : f \in {completed, made, harvested, accepted}}
              \cup retiredFacts.routes

\* The plugin's stop never hangs: the worker is joined.
StopJoins == (pc = "stop") ~> (pc = "joined")

\* When the FMS file stays as it is, an accepted route comes to rest on it: it
\* was made for the file there is, and built from that file or from none.  The
\* second is not so when an earlier file has come back, for the worker may have
\* built the route from the file in between.
FmsNoticed ==
    <>[](HasRoute => /\ accepted.identity.fms = world.fms
                     /\ accepted.fms \in {world.fms, None} \/ world.reverted)

\* What is published follows the world: Publication in CurrentRoute.
Inputs == [plan |-> IF stopping THEN None ELSE world.plan, source |-> world.source]
Shown == IF HasRoute
         THEN [plan |-> accepted.identity.plan, source |-> accepted.identity.source]
         ELSE None
Publication == INSTANCE CurrentRoute
    WITH inputs <- Inputs, shown <- Shown, Plans <- Plans, Sources <- Sources
PublishesCurrentRoute == Publication!FairSpec
=============================================================================
