----------------------- MODULE RouteCoordinatorProofs -----------------------
(***************************************************************************)
(* For any pools, plans, sources and failures: between two callbacks the   *)
(* Brain publishes exactly the accepted route, made for what was desired,  *)
(* and whatever is shown is put up for the plan and the sources there are. *)
(* The request the coordinator waits for is on its way, the pools suffice, *)
(* and no lease is lost.                                                   *)
(***************************************************************************)
EXTENDS RouteCoordinator, FiniteSetTheorems, WellFoundedInduction, TLAPS

Cancelling == {"cancel", "cancelRequest", "withdraw"}
Stopped == {"stopRequest", "stopFact", "join", "joined"}

\* A finished route fact carries a route.
Carries(fact) == (fact # None /\ fact.kind = "prepare" /\ fact.status = "completed")
                     => fact.route \in Routes
FactsCarryRoutes == Carries(made) /\ Carries(completed) /\ Carries(harvested)

\* The Brain publishes a route exactly while one is accepted, for `desired'.
BrainFollowsAccepted == /\ (brain # None) <=> HasRoute
                        /\ HasRoute => accepted.identity = desired

Matches(identity) == /\ identity.plan = world.plan /\ identity.source = world.source
                     /\ world.plan # None

\* From its first step to its judgement a callback is about the world as it is.
CallbackIsAboutWorld ==
    /\ pc \in Cancelling /\ why = "changed" => Matches(want)
    /\ pc = "judge" => Matches(desired)
StopIsLast == stopping <=> pc \in Stopped
WorldOK == world \in [plan : Plans \cup {None}, source : Sources \cup {None},
                      fms : FmsFiles, reverted : BOOLEAN]

CoordinatorInv == /\ FactsCarryRoutes /\ BrainFollowsAccepted
                  /\ CallbackIsAboutWorld /\ StopIsLast /\ WorldOK

LEMMA InitInv == Init => CoordinatorInv
<1> SUFFICES ASSUME Init PROVE CoordinatorInv
  OBVIOUS
<1>1. WorldOK
  BY Zenon DEF Init, WorldOK
<1>2. FactsCarryRoutes /\ BrainFollowsAccepted /\ CallbackIsAboutWorld /\ StopIsLast
  BY WorkerAssumption DEF Init, InitMailbox, FactsCarryRoutes, Carries,
     BrainFollowsAccepted, HasRoute, NoRoute, CallbackIsAboutWorld, StopIsLast,
     Cancelling, Stopped
<1> QED BY <1>1, <1>2 DEF CoordinatorInv

-----------------------------------------------------------------------------
(* The mailboxes, the pools and the leases                                 *)

\* What the worker holds at each point of its loop.
WorkerHolds ==
    /\ wpc \in {"wait", "take", "begin", "work", "conclude", "publish", "drain", "done"}
    /\ active # None <=> wpc \in {"begin", "work", "conclude"}
    /\ made # None <=> wpc \in {"conclude", "publish"}
    /\ wpc = "conclude" => made.id = active.id

\* What the callback holds at each of its points: from the identity it has
\* formed to the request it posts.
HasIdentity == pc \in {"judge", "decide", "post"} \/ (pc \in Cancelling /\ why = "changed")

CallbackHolds ==
    /\ pc \in {"idle", "judge", "decide", "post", "stop"} \cup Cancelling \cup Stopped
    /\ pc \in Cancelling => why \in {"invalidate", "changed", "stop"}
    /\ HasIdentity => want \in Identity
    /\ ~HasIdentity => harvested = None
    /\ pc = "post" => why \in Kinds /\ current \in Ids /\ eligible = None
    /\ epoch \in Ids
    /\ fmsSeen.file \in FmsFiles \cup {None}
    /\ accepted \in Accepted

\* A fact that waits and one just harvested are all the fact nodes there are
\* in use; the callback that has decided to post has a request node.
NodesLeft ==
    /\ FactNodesInUse <= IF wpc = "drain" THEN 2 ELSE 1
    /\ pc = "post" => RequestNodesInUse < RequestNodes

\* The eligible request is the latest there is: behind it on its way there
\* is none, so its fact is not replaced by another.
Underway ==
    \/ pending # None /\ pending.id = eligible.id
    \/ /\ pending = None
       /\ \/ active # None /\ active.id = eligible.id
          \/ active = None /\ made # None /\ made.id = eligible.id
          \/ active = None /\ made = None /\ completed # None /\ completed.id = eligible.id
          \/ /\ pc = "judge" /\ harvested # None /\ harvested.kind = "prepare"
             /\ harvested.id = eligible.id

EligibleUnderway ==
    eligible # None /\ pc \in {"idle", "judge", "decide", "post"} => Underway

\* The holders of leases: the facts, the accepted route, and the nodes that
\* wait for the worker.  No lease has two of them, and the lease of a finished
\* route is retained and nobody has retired it.
Leased(r) == r \in retained \ leaseRetired
NotInRetired(x) == RouteOf(x) # None => RouteOf(x) \notin retiredFacts.routes
Live(fact) ==
    fact # None /\ fact.route # None /\ fact.status = "completed" => Leased(fact.route)
Apart(x, y) == RouteOf(x) = None \/ RouteOf(x) # RouteOf(y)
OnlyObserves(fact) == fact # None /\ fact.kind = "observe" => fact.route = None

\* The harvested fact's lease is the callback's, until it is judged.
Judging == pc \in Cancelling \cup {"judge"}

LeasesHeld ==
    /\ Live(made) /\ Live(completed) /\ (Judging => Live(harvested))
    /\ HasRoute => Leased(accepted.route)
    /\ NotInRetired(made) /\ NotInRetired(completed) /\ NotInRetired(accepted)
    /\ Judging => NotInRetired(harvested)
    /\ Apart(made, completed) /\ Apart(made, harvested) /\ Apart(made, accepted)
    /\ Apart(completed, harvested) /\ Apart(completed, accepted)
    /\ Judging => Apart(harvested, accepted)
    /\ OnlyObserves(made) /\ OnlyObserves(completed) /\ OnlyObserves(harvested)
    /\ pc \in {"decide", "post"} => \/ RouteOf(harvested) \in {None, accepted.route}
                                    \/ ~Leased(RouteOf(harvested))
    /\ stopping \/ pc = "stop" => ~HasRoute

LeasesFollowed ==
    retained \ leaseRetired \subseteq
        {RouteOf(completed), RouteOf(made), RouteOf(harvested), RouteOf(accepted)}
            \cup retiredFacts.routes

\* TypeOK, in the parts the proofs need one at a time.
ObjectsOK ==
    /\ pending \in Request \cup {None} /\ active \in Request \cup {None}
    /\ completed \in Fact \cup {None} /\ made \in Fact \cup {None}
    /\ harvested \in Fact \cup {None} /\ eligible \in Request \cup {None}
    /\ current \in Ids \cup {None}
    /\ desired \in Identity \cup {None} /\ want \in Identity \cup {None}
PoolsOK ==
    /\ retiredRequests \in 0 .. RequestNodes
    /\ retiredFacts \in [nodes : 0 .. FactNodes, routes : SUBSET Routes]
    /\ RequestNodesInUse \in 0 .. RequestNodes
    /\ FactNodesInUse \in 0 .. FactNodes
LeasesOK ==
    /\ retiredRoutes \subseteq Routes
    /\ leaseRetired \subseteq retained /\ retained \subseteq Routes
FlagsOK == wake \in BOOLEAN /\ running \in BOOLEAN /\ stopping \in BOOLEAN

PreparationInv ==
    /\ ObjectsOK /\ PoolsOK /\ LeasesOK /\ FlagsOK
    /\ WorkerHolds /\ CallbackHolds /\ NodesLeft
    /\ EligibleUnderway /\ LeasesHeld /\ LeasesFollowed

-----------------------------------------------------------------------------
(* The worker leaves the flight loop's state alone. *)

LEMMA MakesCarry ==
    ASSUME NEW status, NEW route, NEW resolved, NEW fms,
           MakeFact(status, route, resolved, fms),
           status = "completed" /\ active.kind = "prepare" => route \in Routes
    PROVE  Carries(made)'
BY DEF MakeFact, Carries

LEMMA WorkerKeepsFacts ==
    ASSUME FactsCarryRoutes, UNCHANGED harvested,
           Loop \/ Observe(world.fms) \/ Prepare(FreshRoute, TRUE, world.fms)
           \/ (\E status \in {"failed", "empty"} : WorkInVain(status))
           \/ Prepare(FreshRoute, FALSE, world.fms)
    PROVE  FactsCarryRoutes' /\ UNCHANGED stopping
<1> USE DEF FactsCarryRoutes, mailbox
<1>1. CASE WakeUp
  BY <1>1 DEF WakeUp, Carries
<1>2. CASE Take
  BY <1>2 DEF Take, Carries
<1>3. CASE Begin
  BY <1>3 DEF Begin, Carries
<1>4. CASE WorkCancelled
  BY <1>4, MakesCarry DEF WorkCancelled, MakeFact, Carries
<1>5. CASE Conclude
  <2>1. UNCHANGED <<completed, harvested, stopping>>
    BY <1>5 DEF Conclude
  <2>2. Carries(made)'
    BY <1>5 DEF Conclude, Carries
  <2> QED BY <2>1, <2>2 DEF Carries
<1>6. CASE Publish
  BY <1>6 DEF Publish, Carries
<1>7. CASE DrainAfterWork
  BY <1>7 DEF DrainAfterWork, Carries
<1>8. CASE Observe(world.fms)
  BY <1>8 DEF Observe, MakeFact, Carries
<1>9. CASE \E resolved \in BOOLEAN : Prepare(FreshRoute, resolved, world.fms)
  BY <1>9 DEF Prepare, MakeFact, Carries
<1>10. CASE \E status \in {"failed", "empty"} : WorkInVain(status)
  BY <1>10 DEF WorkInVain, MakeFact, Carries
<1> QED BY <1>1, <1>2, <1>3, <1>4, <1>5, <1>6, <1>7, <1>8, <1>9, <1>10 DEF Loop

WorkerStep == WorkerLoops \/ WorkerObserves \/ WorkerPrepares \/ WorkerFails

LEMMA WorkerInv ==
    ASSUME CoordinatorInv, WorkerStep
    PROVE  CoordinatorInv' /\ UNCHANGED <<Inputs, Shown>>
<1>1. UNCHANGED <<pc, why, want, harvested, desired, accepted, brain, world>>
  BY DEF WorkerStep, WorkerLoops, WorkerObserves, WorkerPrepares, WorkerFails,
         Undisturbed, Disturbed, coordinatorVars, runtime, local, outside
<1>2. FactsCarryRoutes' /\ UNCHANGED stopping
  BY <1>1, WorkerKeepsFacts DEF CoordinatorInv, WorkerStep, WorkerLoops,
     WorkerObserves, WorkerPrepares, WorkerFails
<1> QED BY <1>1, <1>2 DEF CoordinatorInv, BrainFollowsAccepted, HasRoute,
     CallbackIsAboutWorld, StopIsLast, WorldOK, Matches, Inputs, Shown

-----------------------------------------------------------------------------
(* The flight loop: one lemma for each group of steps, one fact for each    *)
(* conjunct a step can disturb.                                             *)

\* Steps that touch neither the accepted route nor the world.
LEMMA QuietStepInv ==
    ASSUME CoordinatorInv,
           RefreshWithoutPlan \/ CallCancelSequence \/ CallCancelRequest \/ Post
           \/ StopRequest \/ StopFact \/ Join \/ Invalidate \/ XPluginStop
           \/ \E timer \in Timers : Expire(timer)
    PROVE  CoordinatorInv' /\ UNCHANGED <<Inputs, Shown>>
<1>1. UNCHANGED <<made, accepted, desired, brain, world, stopping>>
  BY DEF RefreshWithoutPlan, CallCancelSequence, CallCancelRequest, Post, StopRequest,
         StopFact, Join, Invalidate, XPluginStop, Expire, shared, mailbox, workerVars,
         runtime, local, outside
<1>2. completed' \in {completed, None} /\ harvested' \in {harvested, None}
  BY DEF RefreshWithoutPlan, CallCancelSequence, CallCancelRequest, Post, StopRequest,
         StopFact, Join, Invalidate, XPluginStop, Expire, shared, mailbox, local,
         CancelSequence, CancelRequest, ExchangePending
<1>3. FactsCarryRoutes' /\ BrainFollowsAccepted' /\ WorldOK'
  BY <1>1, <1>2 DEF CoordinatorInv, FactsCarryRoutes, Carries,
       BrainFollowsAccepted, HasRoute, WorldOK
<1>4. StopIsLast'
  BY <1>1 DEF CoordinatorInv, StopIsLast, Stopped, RefreshWithoutPlan,
       CallCancelSequence, CallCancelRequest, Post, StopRequest, StopFact, Join,
       Invalidate, XPluginStop, Expire, local
<1>5. CallbackIsAboutWorld'
  BY <1>1 DEF CoordinatorInv, CallbackIsAboutWorld, Cancelling, Matches,
     RefreshWithoutPlan, CallCancelSequence, CallCancelRequest, Post, StopRequest,
     StopFact, Join, Invalidate, XPluginStop, Expire, local
<1> QED BY <1>1, <1>3, <1>4, <1>5 DEF CoordinatorInv, Inputs, Shown, HasRoute

LEMMA RefreshInv ==
    ASSUME CoordinatorInv, Refresh
    PROVE  CoordinatorInv' /\ UNCHANGED <<Inputs, Shown>>
<1>1. UNCHANGED <<made, accepted, desired, brain, world, stopping>> /\ pc = "idle"
  BY DEF Refresh, workerVars
<1>2. completed' = None /\ harvested' = completed
  BY DEF Refresh, TakeFact
<1>3. FactsCarryRoutes' /\ BrainFollowsAccepted' /\ WorldOK'
  BY <1>1, <1>2 DEF CoordinatorInv, FactsCarryRoutes, Carries,
       BrainFollowsAccepted, HasRoute, WorldOK
<1>4. StopIsLast'
  BY <1>1 DEF CoordinatorInv, StopIsLast, Stopped, Refresh
<1>5. want'.plan = world.plan /\ want'.source = world.source /\ world.plan # None
  BY DEF Refresh, IdentityNow
<1>6. pc' = "judge" => desired = want'
  BY DEF Refresh
<1>7. CallbackIsAboutWorld'
  BY <1>1, <1>5, <1>6 DEF CallbackIsAboutWorld, Matches
<1> QED BY <1>1, <1>3, <1>4, <1>7 DEF CoordinatorInv, Inputs, Shown, HasRoute

LEMMA WithdrawInv ==
    ASSUME CoordinatorInv, Withdraw
    PROVE  CoordinatorInv' /\ Shown' = None /\ UNCHANGED Inputs
<1>1. UNCHANGED <<made, harvested, world, stopping, want>> /\ completed' = None
  BY DEF Withdraw, workerVars
<1>2. accepted'.route = None /\ brain' = None /\ pc = "withdraw"
  BY DEF Withdraw, NoRoute
<1>3. FactsCarryRoutes' /\ BrainFollowsAccepted' /\ WorldOK'
  BY <1>1, <1>2 DEF CoordinatorInv, FactsCarryRoutes, Carries,
       BrainFollowsAccepted, HasRoute, WorldOK
<1>4. StopIsLast'
  BY <1>1 DEF CoordinatorInv, StopIsLast, Stopped, Withdraw
<1>5. CallbackIsAboutWorld'
  <2>1. CASE why = "changed"
    BY <1>1, <2>1 DEF CoordinatorInv, CallbackIsAboutWorld, Cancelling, Matches,
         Withdraw
  <2>2. CASE why # "changed"
    BY <1>1, <2>2 DEF CallbackIsAboutWorld, Cancelling, Withdraw
  <2> QED BY <2>1, <2>2
<1> QED BY <1>1, <1>2, <1>3, <1>4, <1>5 DEF CoordinatorInv, Inputs, Shown, HasRoute

\* Only Judge puts up a route: for `desired', which is about the world.
LEMMA JudgeInv ==
    ASSUME CoordinatorInv, Judge
    PROVE  /\ CoordinatorInv' /\ UNCHANGED Inputs
           /\ \/ UNCHANGED Shown
              \/ Shown' = Inputs /\ Inputs.plan # None /\ Inputs.source # None
<1>1. UNCHANGED <<made, completed, harvested, desired, world, stopping>>
  BY DEF Judge, workerVars
<1>2. pc = "judge" /\ pc' = "decide" /\ ~stopping
  BY DEF Judge, CoordinatorInv, StopIsLast, Stopped
<1>3. /\ FactsCarryRoutes' /\ WorldOK' /\ StopIsLast' /\ CallbackIsAboutWorld'
  BY <1>1, <1>2 DEF CoordinatorInv, FactsCarryRoutes, Carries, WorldOK, StopIsLast,
     Stopped, CallbackIsAboutWorld, Cancelling
<1>4. CASE UNCHANGED <<accepted, brain>>
  BY <1>1, <1>3, <1>4 DEF CoordinatorInv, BrainFollowsAccepted, HasRoute, Inputs, Shown
<1>5. CASE RouteFact /\ Publishable /\ ~UNCHANGED <<accepted, brain>>
  <2>1. harvested.identity = desired /\ harvested.identity.source # None
    BY <1>5 DEF Publishable, CompletionAccepted, IsEligible
  <2>2. harvested.route \in Routes
    BY <1>5 DEF CoordinatorInv, FactsCarryRoutes, Carries, RouteFact, Publishable
  <2>3. /\ accepted' = [identity |-> harvested.identity, route |-> harvested.route,
                        resolved |-> harvested.resolved, fms |-> harvested.fms]
        /\ brain' \in {harvested.route, Derived}
    BY <1>5 DEF Judge
  <2>4. brain' # None
    BY <2>2, <2>3, WorkerAssumption, CoordinatorAssumption
  <2>5. HasRoute'
    BY <2>2, <2>3, WorkerAssumption DEF HasRoute
  <2>6. BrainFollowsAccepted'
    BY <1>1, <2>1, <2>3, <2>4, <2>5 DEF BrainFollowsAccepted
  <2>7. Matches(desired)
    BY <1>2 DEF CoordinatorInv, CallbackIsAboutWorld
  <2>8. /\ UNCHANGED Inputs /\ Inputs.plan # None /\ Inputs.source # None
        /\ Inputs = [plan |-> desired.plan, source |-> desired.source]
    BY <1>1, <1>2, <2>1, <2>7 DEF Inputs, Matches
  <2>9. Shown' = [plan |-> desired.plan, source |-> desired.source]
    BY <2>1, <2>3, <2>5 DEF Shown
  <2> QED BY <1>3, <2>6, <2>8, <2>9 DEF CoordinatorInv
<1> QED BY <1>4, <1>5 DEF Judge

LEMMA DecideInv ==
    ASSUME CoordinatorInv, Decide
    PROVE  CoordinatorInv' /\ UNCHANGED <<Inputs, Shown>>
<1>1. UNCHANGED <<made, completed, accepted, desired, world, stopping>>
  BY DEF Decide, workerVars, outside
<1>2. pc = "decide" /\ pc' \in {"post", "idle"} /\ harvested' \in {harvested, None}
  BY DEF Decide
<1>3. brain' = brain \/ (brain' = Derived /\ HasRoute)
  BY DEF Decide, AcceptedCurrent
<1>4. BrainFollowsAccepted'
  BY <1>1, <1>3, CoordinatorAssumption DEF CoordinatorInv, BrainFollowsAccepted,
       HasRoute
<1>5. FactsCarryRoutes' /\ StopIsLast' /\ WorldOK' /\ CallbackIsAboutWorld'
  BY <1>1, <1>2 DEF CoordinatorInv, FactsCarryRoutes, Carries, StopIsLast, Stopped,
     WorldOK, CallbackIsAboutWorld, Cancelling
<1> QED BY <1>1, <1>4, <1>5 DEF CoordinatorInv, Inputs, Shown, HasRoute

\* The plan, the sources and the end of the plugin change the inputs, and
\* leave what is shown to the next callback.
LEMMA OutsideInv ==
    ASSUME CoordinatorInv, Change \/ FileChanges \/ StopBegins
    PROVE  /\ CoordinatorInv' /\ UNCHANGED Shown
           /\ Inputs' \in Publication!Inputs
<1>1. UNCHANGED <<made, completed, harvested, accepted, brain, desired, want, why>>
  BY DEF Change, FileChanges, StopBegins, shared, mailbox, workerVars, runtime, local
<1>2. WorldOK'
  <2>1. CASE Change
    BY <2>1 DEF Change, CoordinatorInv, WorldOK
  <2>2. CASE FileChanges
    <3>1. PICK f \in FmsFiles : world' = WithFile(f)
      BY <2>2 DEF FileChanges
    <3>2. (world.reverted \/ f < world.fms) \in BOOLEAN
      OBVIOUS
    <3> QED BY <3>1, <3>2 DEF WithFile, CoordinatorInv, WorldOK
  <2>3. CASE StopBegins
    BY <2>3 DEF StopBegins, outside, CoordinatorInv, WorldOK
  <2> QED BY <2>1, <2>2, <2>3
<1>3. FactsCarryRoutes' /\ BrainFollowsAccepted'
  BY <1>1 DEF CoordinatorInv, FactsCarryRoutes, Carries, BrainFollowsAccepted, HasRoute
<1>4. StopIsLast'
  BY DEF CoordinatorInv, StopIsLast, Stopped, Change, FileChanges, StopBegins,
       shared, local
<1>5. CallbackIsAboutWorld'
  <2>1. CASE Change \/ StopBegins
    BY <2>1 DEF Change, StopBegins, local, CallbackIsAboutWorld, Cancelling
  <2>2. CASE FileChanges
    <3>1. UNCHANGED <<pc, why, want, desired, world.plan, world.source>>
      BY <2>2 DEF FileChanges, WithFile, local, runtime, CoordinatorInv, WorldOK
    <3> QED BY <3>1 DEF CoordinatorInv, CallbackIsAboutWorld, Matches
  <2> QED BY <2>1, <2>2
<1>6. Inputs' \in Publication!Inputs
  BY <1>2 DEF WorldOK, Inputs, Publication!Inputs
<1> QED BY <1>1, <1>2, <1>3, <1>4, <1>5, <1>6 DEF CoordinatorInv, Shown, HasRoute

-----------------------------------------------------------------------------

\* Every step keeps the invariant, and is a step of CurrentRoute or none.
LEMMA StepInv ==
    ASSUME CoordinatorInv, [Next]_vars
    PROVE  CoordinatorInv' /\ [Publication!Next]_(Publication!vars)
<1> USE DEF Publication!Next, Publication!vars
<1>1. CASE WorkerStep
  BY <1>1, WorkerInv
<1>2. CASE \/ RefreshWithoutPlan \/ CallCancelSequence \/ CallCancelRequest \/ Post
           \/ StopRequest \/ StopFact \/ Join \/ Invalidate \/ XPluginStop
           \/ \E timer \in Timers : Expire(timer)
  BY <1>2, QuietStepInv
<1>3. CASE Refresh
  BY <1>3, RefreshInv
<1>4. CASE Withdraw
  BY <1>4, WithdrawInv DEF Publication!Withdraw
<1>5. CASE Judge
  BY <1>5, JudgeInv DEF Publication!Publish, Publication!Usable
<1>6. CASE Decide
  BY <1>6, DecideInv
<1>7. CASE Change \/ FileChanges \/ StopBegins
  BY <1>7, OutsideInv DEF Publication!Change
<1>8. CASE UNCHANGED vars
  <2>1. UNCHANGED <<made, completed, harvested, accepted, brain, desired, want, why,
                    pc, stopping, world>>
    BY <1>8 DEF vars, shared, mailbox, workerVars, runtime, local, outside
  <2> QED BY <2>1 DEF CoordinatorInv, FactsCarryRoutes, Carries, BrainFollowsAccepted,
             HasRoute, CallbackIsAboutWorld, Matches, StopIsLast, WorldOK, Inputs, Shown
<1> QED BY <1>1, <1>2, <1>3, <1>4, <1>5, <1>6, <1>7, <1>8 DEF Next, Callback, WorkerStep

\* The inductive invariant: facts carry the routes they finished, what the
\* Brain publishes is the accepted route, and from its first step to its
\* judgement a callback is about the plan and the sources there are.
THEOREM CoordinatorInvariant == Spec => []CoordinatorInv
<1>1. CoordinatorInv /\ [Next]_vars => CoordinatorInv'
  BY StepInv
<1> QED BY InitInv, <1>1, PTL DEF Spec

\* Between two callbacks the Brain publishes exactly the accepted route, and
\* that route was made for the identity last desired: a fact published late,
\* after its request was cancelled, is never shown.
THEOREM BrainShowsWhatIsDesired == Spec => []BrainShowsDesired
<1>1. CoordinatorInv => BrainShowsDesired
  BY DEF CoordinatorInv, BrainFollowsAccepted, BrainShowsDesired
<1> QED BY CoordinatorInvariant, <1>1, PTL

\* The flight loop and the worker implement CurrentRoute's safety: a route
\* is put up only for the plan and the sources there are when it is put up.
THEOREM ImplementsCurrentRoute == Spec => Publication!Spec
<1>1. Init => Publication!Init
  <2> SUFFICES ASSUME Init PROVE Publication!Init
    OBVIOUS
  <2>1. Shown = None /\ stopping = FALSE
    BY DEF Init, InitMailbox, NoRoute, Shown, HasRoute
  <2>2. Inputs \in Publication!Inputs
    BY <2>1, InitInv DEF CoordinatorInv, WorldOK, Inputs, Publication!Inputs
  <2> QED BY <2>1, <2>2 DEF Publication!Init
<1>2. CoordinatorInv /\ [Next]_vars => [Publication!Next]_(Publication!vars)
  BY StepInv
<1> QED BY <1>1, <1>2, CoordinatorInvariant, PTL DEF Spec, Publication!Spec


-----------------------------------------------------------------------------
(* The worker and the mailboxes: each step of its loop keeps every node    *)
(* and every lease with one holder.                                        *)

\* The worker frees what was retired: nobody holds any of it.
LEMMA WakeUpKeeps ==
    ASSUME PreparationInv, StopIsLast, WakeUp, UNCHANGED <<runtime, local>>
    PROVE  PreparationInv'
<1> USE WorkerAssumption, NoneAssumption, CoordinatorAssumption
    DEF PreparationInv, runtime, local
<1>1. ObjectsOK' /\ LeasesOK'
  BY DEF WakeUp, Drain, ObjectsOK, LeasesOK
<1>2. PoolsOK'
  BY DEF WakeUp, Drain, ObjectsOK, PoolsOK, RequestNodesInUse, FactNodesInUse, One
<1>3. FlagsOK'
  BY Zenon DEF WakeUp, FlagsOK
<1>4. WorkerHolds'
  BY DEF WakeUp, WorkerHolds
<1>5. CallbackHolds'
  BY DEF WakeUp, CallbackHolds, HasIdentity
<1>6. NodesLeft'
  BY DEF WakeUp, Drain, NodesLeft, ObjectsOK, PoolsOK, RequestNodesInUse,
       FactNodesInUse, One
<1>7. EligibleUnderway'
  BY DEF WakeUp, EligibleUnderway, Underway, StopIsLast, Stopped
<1>8. LeasesHeld' /\ LeasesFollowed'
  <2>1. CASE ~stopping
    <3>1. LeasesHeld'
      BY <2>1 DEF WakeUp, Drain, LeasesOK, PoolsOK, LeasesHeld, Leased,
           NotInRetired, Live, Apart, OnlyObserves, Judging, HasRoute, RouteOf,
           CallbackHolds, Accepted
    <3>2. LeasesFollowed'
      BY <2>1 DEF WakeUp, Drain, LeasesOK, PoolsOK, LeasesFollowed, RouteOf
    <3> QED BY <3>1, <3>2
  <2>2. CASE stopping
    <3>1. /\ made = None /\ harvested = None /\ ~HasRoute
          /\ ~Judging /\ pc \notin {"decide", "post"}
      BY <2>2 DEF WakeUp, WorkerHolds, CallbackHolds, LeasesHeld, StopIsLast,
           Stopped, Judging, Cancelling, HasIdentity
    <3>2. completed' = None /\ retained' = {} /\ leaseRetired' = {} /\ retiredFacts'.routes = {}
          /\ UNCHANGED <<made, stopping>>
      BY <2>2 DEF WakeUp
    <3>3. LeasesHeld'
      BY <3>1, <3>2 DEF LeasesHeld, Leased, NotInRetired, Live, Apart, OnlyObserves,
         Judging, HasRoute, RouteOf
    <3>4. LeasesFollowed'
      BY <3>2 DEF LeasesFollowed
    <3> QED BY <3>3, <3>4
  <2> QED BY <2>1, <2>2
<1> QED BY <1>1, <1>2, <1>3, <1>4, <1>5, <1>6, <1>7, <1>8

\* The request leaves the mailbox for the worker's hands.
LEMMA TakeKeeps ==
    ASSUME PreparationInv, Take, UNCHANGED <<runtime, local>>
    PROVE  PreparationInv'
<1> USE WorkerAssumption, NoneAssumption, CoordinatorAssumption
    DEF PreparationInv, runtime, local, mailbox, workerVars, leases
<1>1. ObjectsOK'
  BY DEF Take, ObjectsOK
<1>2. PoolsOK' /\ NodesLeft'
  BY DEF Take, ObjectsOK, WorkerHolds, PoolsOK, NodesLeft, RequestNodesInUse,
     FactNodesInUse, One
<1>3. LeasesOK'
  BY DEF Take, ObjectsOK, LeasesOK, Retire, RouteOf
<1>4. FlagsOK'
  BY Zenon DEF Take, FlagsOK
<1>5. WorkerHolds'
  BY DEF Take, WorkerHolds
<1>6. CallbackHolds'
  BY DEF Take, CallbackHolds, HasIdentity, Cancelling, Stopped
<1>7. EligibleUnderway'
  BY DEF Take, WorkerHolds, EligibleUnderway, Underway
<1>8. LeasesHeld'
  BY DEF Take, LeasesOK, PoolsOK, LeasesHeld, Leased, NotInRetired, Live, Apart,
     OnlyObserves, Judging, HasRoute, RouteOf, CallbackHolds, Accepted
<1>9. LeasesFollowed'
  BY DEF Take, LeasesOK, LeasesFollowed, RouteOf
<1> QED BY <1>1, <1>2, <1>3, <1>4, <1>5, <1>6, <1>7, <1>8, <1>9

\* The worker says that it runs.
LEMMA BeginKeeps ==
    ASSUME PreparationInv, Begin, UNCHANGED <<runtime, local>>
    PROVE  PreparationInv'
<1> USE WorkerAssumption, NoneAssumption, CoordinatorAssumption
    DEF PreparationInv, runtime, local, mailbox, workerVars, leases
<1>1. ObjectsOK'
  BY DEF Begin, ObjectsOK
<1>2. PoolsOK' /\ NodesLeft'
  BY DEF Begin, ObjectsOK, WorkerHolds, PoolsOK, NodesLeft, RequestNodesInUse,
     FactNodesInUse, One
<1>3. LeasesOK'
  BY DEF Begin, ObjectsOK, LeasesOK, Retire, RouteOf
<1>4. FlagsOK'
  BY Zenon DEF Begin, FlagsOK
<1>5. WorkerHolds'
  BY DEF Begin, WorkerHolds
<1>6. CallbackHolds'
  BY DEF Begin, CallbackHolds, HasIdentity, Cancelling, Stopped
<1>7. EligibleUnderway'
  BY DEF Begin, WorkerHolds, EligibleUnderway, Underway
<1>8. LeasesHeld'
  BY DEF Begin, LeasesOK, PoolsOK, LeasesHeld, Leased, NotInRetired, Live, Apart,
     OnlyObserves, Judging, HasRoute, RouteOf, CallbackHolds, Accepted
<1>9. LeasesFollowed'
  BY DEF Begin, LeasesOK, LeasesFollowed, RouteOf
<1> QED BY <1>1, <1>2, <1>3, <1>4, <1>5, <1>6, <1>7, <1>8, <1>9

\* A fact without a route: cancelled, failed, or an observation.
LEMMA EmptyHandedKeeps ==
    ASSUME PreparationInv, wpc = "work", UNCHANGED <<leases, runtime, local>>,
           NEW status \in {"completed", "cancelled", "failed", "empty"},
           NEW fms \in FmsFiles \cup {None}, MakeFact(status, None, FALSE, fms)
    PROVE  PreparationInv'
<1> USE WorkerAssumption, NoneAssumption, CoordinatorAssumption
    DEF PreparationInv, runtime, local, mailbox, workerVars, leases
<1>0. /\ made = None /\ active # None /\ made' \in Fact /\ made' # None
      /\ made'.id = active.id /\ made'.route = None
  <2>1. made = None /\ active \in Request /\ active # None
    BY DEF ObjectsOK, WorkerHolds
  <2>2. made' = [id |-> active.id, kind |-> active.kind, identity |-> active.identity,
                 status |-> status, route |-> None, resolved |-> FALSE, fms |-> fms]
    BY DEF MakeFact
  <2>3. made' \in Fact
    BY <2>1, <2>2, Zenon DEF Fact, Request
  <2> QED BY <2>1, <2>2, <2>3
<1>1. ObjectsOK'
  BY <1>0 DEF MakeFact, ObjectsOK
<1>2. PoolsOK' /\ NodesLeft'
  BY DEF MakeFact, ObjectsOK, WorkerHolds, PoolsOK, NodesLeft, RequestNodesInUse,
     FactNodesInUse, One
<1>3. LeasesOK'
  BY DEF MakeFact, ObjectsOK, LeasesOK, Retire, RouteOf
<1>4. FlagsOK'
  BY Zenon DEF MakeFact, FlagsOK
<1>5. WorkerHolds'
  BY <1>0 DEF MakeFact, WorkerHolds
<1>6. CallbackHolds'
  BY DEF MakeFact, CallbackHolds, HasIdentity, Cancelling, Stopped
<1>7. EligibleUnderway'
  BY DEF MakeFact, WorkerHolds, EligibleUnderway, Underway
<1>8. LeasesHeld'
  BY <1>0 DEF MakeFact, LeasesOK, PoolsOK, LeasesHeld, Leased, NotInRetired,
       Live, Apart, OnlyObserves, Judging, HasRoute, RouteOf, CallbackHolds,
       Accepted
<1>9. LeasesFollowed'
  BY <1>0 DEF MakeFact, LeasesOK, LeasesFollowed, RouteOf
<1> QED BY <1>1, <1>2, <1>3, <1>4, <1>5, <1>6, <1>7, <1>8, <1>9

\* A new snapshot: nobody has had its lease before.
LEMMA PrepareKeeps ==
    ASSUME PreparationInv, UNCHANGED <<runtime, local>>, NEW route \in FreshRoutes,
           NEW resolved \in BOOLEAN, NEW onDisk \in FmsFiles,
           Prepare(route, resolved, onDisk)
    PROVE  PreparationInv'
<1> USE WorkerAssumption, NoneAssumption, CoordinatorAssumption
    DEF PreparationInv, runtime, local, mailbox, workerVars, leases
<1>0. /\ made = None /\ active # None /\ made' \in Fact /\ made' # None
      /\ made'.id = active.id /\ made'.route = route /\ made'.kind = "prepare"
      /\ route \in Routes /\ route \notin retained \cup retiredFacts.routes
      /\ route # RouteOf(completed) /\ route # RouteOf(harvested) /\ route # RouteOf(accepted)
  <2>1. /\ made = None /\ active \in Request /\ active # None /\ active.kind = "prepare"
        /\ route \in Routes
    BY DEF Prepare, ObjectsOK, WorkerHolds, FreshRoutes
  <2>2. PICK file \in {onDisk, None} : MakeFact("completed", route, resolved, file)
    BY DEF Prepare, BuiltFrom
  <2>3. made' = [id |-> active.id, kind |-> active.kind, identity |-> active.identity,
                 status |-> "completed", route |-> route, resolved |-> resolved, fms |-> file]
    BY <2>2 DEF MakeFact
  <2>4. made' \in Fact
    BY <2>1, <2>3, Zenon DEF Fact, Request
  <2>5. /\ route \notin retained \cup retiredFacts.routes
        /\ route # RouteOf(completed) /\ route # RouteOf(harvested) /\ route # RouteOf(accepted)
    BY DEF FreshRoutes, Alive, HasLease
  <2> QED BY <2>1, <2>3, <2>4, <2>5
<1>1. ObjectsOK'
  BY <1>0 DEF Prepare, MakeFact, ObjectsOK
<1>2. PoolsOK' /\ NodesLeft'
  BY DEF Prepare, MakeFact, ObjectsOK, WorkerHolds, PoolsOK, NodesLeft,
       RequestNodesInUse, FactNodesInUse, One
<1>3. LeasesOK'
  BY DEF Prepare, MakeFact, ObjectsOK, LeasesOK, Retire, RouteOf
<1>4. FlagsOK'
  BY Zenon DEF Prepare, MakeFact, FlagsOK
<1>5. WorkerHolds'
  BY <1>0 DEF Prepare, MakeFact, WorkerHolds
<1>6. CallbackHolds'
  BY DEF Prepare, MakeFact, CallbackHolds, HasIdentity, Cancelling, Stopped
<1>7. EligibleUnderway'
  BY DEF Prepare, MakeFact, WorkerHolds, EligibleUnderway, Underway
<1>8. LeasesHeld'
  <2>1. /\ UNCHANGED <<completed, harvested, accepted, retiredFacts, leaseRetired, pc, stopping>>
        /\ retained' = retained \cup {route} /\ route # None
    BY <1>0 DEF Prepare, MakeFact
  <2>2. Live(made)' /\ OnlyObserves(made)' /\ NotInRetired(made)'
    BY <1>0, <2>1 DEF Live, Leased, OnlyObserves, NotInRetired, RouteOf, LeasesOK
  <2>3. Apart(made, completed)' /\ Apart(made, harvested)' /\ Apart(made, accepted)'
    BY <1>0, <2>1 DEF Apart, RouteOf
  <2>4. \A r : Leased(r)' <=> Leased(r) \/ r = route
    BY <1>0, <2>1 DEF Leased, LeasesOK
  <2> QED
    BY <1>0, <2>1, <2>2, <2>3, <2>4 DEF LeasesHeld, NotInRetired, Live, Apart,
         OnlyObserves, Judging, HasRoute, RouteOf
<1>9. LeasesFollowed'
  BY <1>0 DEF Prepare, MakeFact, LeasesOK, LeasesFollowed, RouteOf
<1> QED BY <1>1, <1>2, <1>3, <1>4, <1>5, <1>6, <1>7, <1>8, <1>9

\* The last look at the sequence.
LEMMA ConcludeKeeps ==
    ASSUME PreparationInv, Conclude, UNCHANGED <<runtime, local>>
    PROVE  PreparationInv'
<1> USE WorkerAssumption, NoneAssumption, CoordinatorAssumption
    DEF PreparationInv, runtime, local, mailbox, workerVars, leases
<1>0. /\ active # None /\ made # None /\ made' \in Fact /\ made' # None
      /\ made'.id = made.id /\ made'.route = made.route /\ made'.kind = made.kind
      /\ made.id = active.id /\ made.route \in Routes \cup {None}
      /\ \/ made'.status = "cancelled" /\ leaseRetired' = leaseRetired \cup ({made.route} \cap retained)
         \/ made'.status = made.status /\ leaseRetired' = leaseRetired
  BY DEF Conclude, ObjectsOK, WorkerHolds, Fact, Retire, RouteOf
<1>1. ObjectsOK'
  BY <1>0 DEF Conclude, ObjectsOK
<1>2. PoolsOK' /\ NodesLeft'
  BY DEF Conclude, ObjectsOK, WorkerHolds, PoolsOK, NodesLeft, RequestNodesInUse,
     FactNodesInUse, One
<1>3. LeasesOK'
  BY DEF Conclude, ObjectsOK, LeasesOK, Retire, RouteOf
<1>4. FlagsOK'
  BY Zenon DEF Conclude, FlagsOK
<1>5. WorkerHolds'
  BY <1>0 DEF Conclude, WorkerHolds
<1>6. CallbackHolds'
  BY DEF Conclude, CallbackHolds, HasIdentity, Cancelling, Stopped
<1>7. EligibleUnderway'
  BY <1>0 DEF Conclude, WorkerHolds, EligibleUnderway, Underway
<1>8. LeasesHeld'
  BY <1>0 DEF Conclude, LeasesOK, PoolsOK, LeasesHeld, Leased, NotInRetired,
       Live, Apart, OnlyObserves, Judging, HasRoute, RouteOf, CallbackHolds,
       Accepted
<1>9. LeasesFollowed'
  BY <1>0 DEF Conclude, LeasesOK, LeasesFollowed, RouteOf
<1> QED BY <1>1, <1>2, <1>3, <1>4, <1>5, <1>6, <1>7, <1>8, <1>9

\* There is room for the fact, and the one it replaces is not awaited.
LEMMA PublishKeeps ==
    ASSUME PreparationInv, Publish, UNCHANGED <<runtime, local>>
    PROVE  PreparationInv'
<1> USE WorkerAssumption, NoneAssumption, CoordinatorAssumption
    DEF PreparationInv, runtime, local, mailbox, workerVars, leases
<1>0. /\ active = None /\ made # None /\ made' = None /\ completed' = made
      /\ leaseRetired' = leaseRetired \cup ({RouteOf(completed)} \cap retained)
  BY DEF Publish, WorkerHolds, NodesLeft, PoolsOK, FactNodesInUse, One, Retire
<1>1. ObjectsOK'
  BY DEF Publish, ObjectsOK
<1>2. PoolsOK' /\ NodesLeft'
  BY DEF Publish, ObjectsOK, WorkerHolds, PoolsOK, NodesLeft, RequestNodesInUse,
     FactNodesInUse, One
<1>3. LeasesOK'
  BY DEF Publish, ObjectsOK, LeasesOK, Retire, RouteOf
<1>4. FlagsOK'
  BY Zenon DEF Publish, FlagsOK
<1>5. WorkerHolds'
  BY DEF Publish, WorkerHolds
<1>6. CallbackHolds'
  BY DEF Publish, CallbackHolds, HasIdentity, Cancelling, Stopped
<1>7. EligibleUnderway'
  BY <1>0 DEF Publish, WorkerHolds, EligibleUnderway, Underway
<1>8. LeasesHeld'
  BY <1>0 DEF Publish, LeasesOK, PoolsOK, LeasesHeld, Leased, NotInRetired, Live, Apart,
     OnlyObserves, Judging, HasRoute, RouteOf, CallbackHolds, Accepted
<1>9. LeasesFollowed'
  BY <1>0 DEF Publish, LeasesOK, LeasesFollowed, RouteOf
<1> QED BY <1>1, <1>2, <1>3, <1>4, <1>5, <1>6, <1>7, <1>8, <1>9

\* The worker frees what was retired meanwhile.
LEMMA DrainAfterWorkKeeps ==
    ASSUME PreparationInv, DrainAfterWork, UNCHANGED <<runtime, local>>
    PROVE  PreparationInv'
<1> USE WorkerAssumption, NoneAssumption, CoordinatorAssumption
    DEF PreparationInv, runtime, local, mailbox, workerVars, leases
<1>1. ObjectsOK'
  BY DEF DrainAfterWork, Drain, ObjectsOK
<1>2. PoolsOK' /\ NodesLeft'
  BY DEF DrainAfterWork, Drain, ObjectsOK, WorkerHolds, PoolsOK, NodesLeft,
     RequestNodesInUse, FactNodesInUse, One
<1>3. LeasesOK'
  BY DEF DrainAfterWork, Drain, ObjectsOK, LeasesOK, Retire, RouteOf
<1>4. FlagsOK'
  BY Zenon DEF DrainAfterWork, Drain, FlagsOK
<1>5. WorkerHolds'
  BY DEF DrainAfterWork, Drain, WorkerHolds
<1>6. CallbackHolds'
  BY DEF DrainAfterWork, Drain, CallbackHolds, HasIdentity, Cancelling, Stopped
<1>7. EligibleUnderway'
  BY DEF DrainAfterWork, Drain, WorkerHolds, EligibleUnderway, Underway
<1>8. LeasesHeld'
  BY DEF DrainAfterWork, Drain, LeasesOK, PoolsOK, LeasesHeld, Leased,
       NotInRetired, Live, Apart, OnlyObserves, Judging, HasRoute, RouteOf,
       CallbackHolds, Accepted
<1>9. LeasesFollowed'
  BY DEF DrainAfterWork, Drain, LeasesOK, LeasesFollowed, RouteOf
<1> QED BY <1>1, <1>2, <1>3, <1>4, <1>5, <1>6, <1>7, <1>8, <1>9

-----------------------------------------------------------------------------
(* The callback and the mailboxes                                          *)

\* Steps that leave the mailboxes, the leases and the accepted route alone.
Resting ==
    \/ RefreshWithoutPlan \/ CallCancelSequence \/ StopBegins \/ Join
    \/ Invalidate \/ XPluginStop \/ Change \/ FileChanges
    \/ \E timer \in Timers : Expire(timer)

LEMMA RestingKeeps ==
    ASSUME PreparationInv, StopIsLast, Resting
    PROVE  PreparationInv'
<1> USE WorkerAssumption, NoneAssumption, CoordinatorAssumption DEF PreparationInv
<1>1. /\ UNCHANGED <<pending, completed, retiredRequests, retiredFacts, retiredRoutes, wake>>
      /\ UNCHANGED <<running, wpc, active, made, retained, leaseRetired>>
      /\ UNCHANGED <<runtime, want, harvested>>
  BY DEF Resting, RefreshWithoutPlan, CallCancelSequence, CancelSequence,
       StopBegins, Join, Invalidate, XPluginStop, Change, FileChanges, Expire,
       shared, mailbox, workerVars, leases, local
<1>2. /\ current' \in {current, None} /\ (pc = "post" => current' = current)
      /\ (stopping' => stopping \/ pc = "stop")
  BY DEF Resting, RefreshWithoutPlan, CallCancelSequence, CancelSequence,
       StopBegins, Join, Invalidate, XPluginStop, Change, FileChanges, Expire,
       shared, mailbox, FlagsOK
<1>3. \/ UNCHANGED <<pc, why>>
      \/ /\ pc = "idle" /\ ~stopping /\ pc' = "cancel" /\ why' \in {"invalidate", "stop"}
      \/ pc = "cancel" /\ pc' = "cancelRequest" /\ why' = why
      \/ pc = "stop" /\ pc' = "stopRequest" /\ why' = why
      \/ pc = "join" /\ pc' = "joined" /\ why' = why
  BY DEF Resting, RefreshWithoutPlan, CallCancelSequence, StopBegins, Join, Invalidate,
     XPluginStop, Change, FileChanges, Expire, local
<1>4. ObjectsOK' /\ LeasesOK'
  BY <1>1, <1>2 DEF ObjectsOK, LeasesOK, runtime
<1>5. PoolsOK' /\ NodesLeft' /\ WorkerHolds'
  BY <1>1, <1>2, <1>3 DEF PoolsOK, NodesLeft, RequestNodesInUse, FactNodesInUse, One,
     WorkerHolds
<1>6. FlagsOK'
  <2>1. stopping' = stopping \/ stopping' = TRUE
    BY Zenon DEF Resting, RefreshWithoutPlan, CallCancelSequence, StopBegins,
         Join, Invalidate, XPluginStop, Change, FileChanges, Expire, shared
  <2> QED BY <1>1, <2>1, Zenon DEF FlagsOK
<1>7. CallbackHolds'
  BY <1>1, <1>2, <1>3 DEF CallbackHolds, HasIdentity, Cancelling, Stopped, runtime
<1>8. EligibleUnderway'
  BY <1>1, <1>3 DEF EligibleUnderway, Underway, runtime
<1>9. LeasesHeld' /\ LeasesFollowed'
  BY <1>1, <1>2, <1>3 DEF LeasesHeld, LeasesFollowed, Leased, NotInRetired,
       Live, Apart, OnlyObserves, Judging, HasRoute, RouteOf, CallbackHolds,
       HasIdentity, Cancelling, Stopped, runtime
<1> QED BY <1>4, <1>5, <1>6, <1>7, <1>8, <1>9

\* The number of a request, or of an epoch: of more than seven one is free.
LEMMA LeastIsIn ==
    ASSUME NEW S, S \subseteq Nat, S # {}
    PROVE  Least(S) \in S
<1>1. PICK x \in S : \A y \in S : <<y, x>> \notin OpToRel(<, Nat)
  BY NatLessThanWellFounded, WFMin
<1>2. \A y \in S : x <= y
  <2> SUFFICES ASSUME NEW y \in S PROVE x <= y
    OBVIOUS
  <2>1. <<y, x>> \notin OpToRel(<, Nat)
    BY <1>1
  <2>2. x \in Nat /\ y \in Nat
    OBVIOUS
  <2>3. ~(y < x)
    BY <2>1, <2>2 DEF OpToRel
  <2> QED BY <2>2, <2>3
<1> QED BY <1>2 DEF Least

LEMMA SevenAreNotAll ==
    ASSUME NEW a, NEW b, NEW c, NEW d, NEW e, NEW f, NEW g
    PROVE  \A S : S \subseteq {a, b, c, d, e, f, g} => Least(Ids \ S) \in Ids
<1> DEFINE two == {a} \cup {b}
           four == (two \cup {c}) \cup {d}
           six == (four \cup {e}) \cup {f}
           seven == six \cup {g}
<1>1. IsFiniteSet(two) /\ Cardinality(two) \in 0 .. 2
  <2>1. IsFiniteSet({a}) /\ Cardinality({a}) = 1
    BY FS_Singleton
  <2> QED BY <2>1, FS_AddElement
<1> HIDE DEF two
<1>2. IsFiniteSet(four) /\ Cardinality(four) \in 0 .. 4
  <2>1. IsFiniteSet(two \cup {c}) /\ Cardinality(two \cup {c}) \in 0 .. 3
    BY <1>1, FS_AddElement
  <2> QED BY <2>1, FS_AddElement
<1> HIDE DEF four
<1>3. IsFiniteSet(six) /\ Cardinality(six) \in 0 .. 6
  <2>1. IsFiniteSet(four \cup {e}) /\ Cardinality(four \cup {e}) \in 0 .. 5
    BY <1>2, FS_AddElement
  <2> QED BY <2>1, FS_AddElement
<1> HIDE DEF six
<1>4. IsFiniteSet(seven) /\ Cardinality(seven) \in 0 .. 7
  BY <1>3, FS_AddElement
<1> HIDE DEF seven
<1>5. ~(Ids \subseteq seven)
  <2> SUFFICES ASSUME Ids \subseteq seven PROVE FALSE
    OBVIOUS
  <2>1. IsFiniteSet(Ids) /\ Cardinality(Ids) <= Cardinality(seven)
    BY <1>4, FS_Subset
  <2>2. Cardinality(Ids) \in Nat
    BY <2>1, FS_CardinalityType
  <2> QED BY <1>4, <2>1, <2>2, WorkerAssumption
<1>6. seven = {a, b, c, d, e, f, g}
  BY DEF seven, six, four, two
<1> SUFFICES ASSUME NEW S, S \subseteq {a, b, c, d, e, f, g} PROVE Least(Ids \ S) \in Ids
  OBVIOUS
<1>7. Ids \ S \subseteq Nat /\ Ids \ S # {}
  BY <1>5, <1>6, WorkerAssumption
<1> QED BY <1>7, LeastIsIn

\* The identity is formed, and the fact leaves the mailbox for the callback.
LEMMA RefreshKeeps ==
    ASSUME PreparationInv, StopIsLast, WorldOK, Refresh
    PROVE  PreparationInv'
<1> USE WorkerAssumption, NoneAssumption, CoordinatorAssumption DEF PreparationInv
<1>1. /\ pc = "idle" /\ ~stopping /\ world.plan \in Plans /\ harvested' = completed /\ completed' = None
      /\ retiredFacts' = [retiredFacts EXCEPT !.nodes = @ + One(completed)]
      /\ UNCHANGED <<pending, current, retiredRequests, retiredRoutes, running, wpc, active, made>>
      /\ UNCHANGED <<stopping, retained, leaseRetired, epoch, desired, accepted, brain>>
  BY DEF Refresh, TakeFact, WorldOK, workerVars, leases
<1>2. harvested = None
  BY <1>1 DEF CallbackHolds, HasIdentity, Cancelling
<1>3. want' \in Identity /\ fmsSeen'.file \in FmsFiles \cup {None}
  <2>1. IdentityNow \in Identity
    BY <1>1 DEF IdentityNow, FmsOf, Identity, WorldOK, CallbackHolds
  <2>2. completed # None => completed.fms \in FmsFiles \cup {None}
    BY DEF ObjectsOK, Fact
  <2>3. want' \in {IdentityNow, [IdentityNow EXCEPT !.fms = completed.fms]}
        /\ (want' = IdentityNow \/ completed # None) /\ fmsSeen'.file = want'.fms
    BY DEF Refresh
  <2> HIDE DEF IdentityNow
  <2>4. want' \in Identity
    BY <2>1, <2>2, <2>3 DEF Identity
  <2> QED BY <2>3, <2>4 DEF Identity
<1>4. /\ pc' = "judge" \/ (pc' = "cancel" /\ why' = "changed")
      /\ eligible' \in {eligible, None}
      /\ completed # None /\ completed.kind = "observe" /\ eligible # None
             /\ completed.id = eligible.id => eligible' = None
  BY DEF Refresh, Answers
<1>5. ObjectsOK'
  BY <1>1, <1>3, <1>4 DEF ObjectsOK
<1>6. PoolsOK' /\ NodesLeft'
  BY <1>1, <1>4 DEF ObjectsOK, WorkerHolds, PoolsOK, NodesLeft, RequestNodesInUse,
     FactNodesInUse, One
<1>7. LeasesOK'
  BY <1>1 DEF LeasesOK
<1>8. FlagsOK'
  BY Zenon DEF Refresh, TakeFact, FlagsOK, workerVars
<1>9. WorkerHolds'
  BY <1>1 DEF WorkerHolds
<1>10. CallbackHolds'
  BY <1>1, <1>3, <1>4 DEF CallbackHolds, HasIdentity, Cancelling, Stopped
<1>11. EligibleUnderway'
  <2>1. completed # None => completed.kind \in {"prepare", "observe"}
    BY DEF ObjectsOK, Fact, Kinds
  <2> QED BY <1>1, <1>4, <2>1 DEF EligibleUnderway, Underway, ObjectsOK
<1>12. LeasesHeld'
  BY <1>1, <1>2, <1>4 DEF PoolsOK, LeasesHeld, Leased, NotInRetired, Live,
       Apart, OnlyObserves, Judging, HasRoute, RouteOf, CallbackHolds,
       HasIdentity, Cancelling, Accepted
<1>13. LeasesFollowed'
  BY <1>1, <1>2 DEF PoolsOK, LeasesFollowed, RouteOf
<1> QED BY <1>5, <1>6, <1>7, <1>8, <1>9, <1>10, <1>11, <1>12, <1>13

\* The request in the mailbox is given back.
LEMMA CancelRequestKeeps ==
    ASSUME PreparationInv, StopIsLast, CallCancelRequest \/ StopRequest
    PROVE  PreparationInv'
<1> USE WorkerAssumption, NoneAssumption, CoordinatorAssumption DEF PreparationInv
<1>1. /\ pending' = None /\ retiredRequests' = retiredRequests + One(pending)
      /\ UNCHANGED <<completed, current, retiredFacts, retiredRoutes, wake>>
      /\ UNCHANGED <<running, wpc, active, made, stopping, retained, leaseRetired>>
      /\ UNCHANGED <<epoch, desired, eligible, accepted, fmsSeen, brain, why, want, harvested>>
  BY DEF CallCancelRequest, StopRequest, CancelRequest, PushRequest, workerVars, leases,
     runtime
<1>2. \/ pc = "cancelRequest" /\ pc' = "withdraw"
      \/ pc = "stopRequest" /\ pc' = "stopFact"
  BY DEF CallCancelRequest, StopRequest
<1>3. ObjectsOK'
  BY <1>1 DEF ObjectsOK
<1>4. PoolsOK' /\ NodesLeft'
  BY <1>1, <1>2 DEF ObjectsOK, WorkerHolds, PoolsOK, NodesLeft, RequestNodesInUse,
     FactNodesInUse, One
<1>5. LeasesOK'
  BY <1>1 DEF LeasesOK
<1>6. FlagsOK'
  BY <1>1, Zenon DEF FlagsOK
<1>7. WorkerHolds'
  BY <1>1 DEF WorkerHolds
<1>8. CallbackHolds'
  BY <1>1, <1>2 DEF CallbackHolds, HasIdentity, Cancelling, Stopped
<1>9. EligibleUnderway'
  BY <1>2 DEF EligibleUnderway
<1>10. LeasesHeld'
  BY <1>1, <1>2 DEF LeasesHeld, Leased, NotInRetired, Live, Apart, OnlyObserves,
       Judging, HasRoute, RouteOf, CallbackHolds, HasIdentity, Cancelling,
       Accepted
<1>11. LeasesFollowed'
  BY <1>1 DEF LeasesFollowed, RouteOf
<1> QED BY <1>3, <1>4, <1>5, <1>6, <1>7, <1>8, <1>9, <1>10, <1>11

\* The fact in the mailbox and the accepted route are retired.
LEMMA WithdrawKeeps ==
    ASSUME PreparationInv, StopIsLast, Withdraw
    PROVE  PreparationInv'
<1> USE WorkerAssumption, NoneAssumption, CoordinatorAssumption DEF PreparationInv
<1>1. /\ pc = "withdraw" /\ completed' = None /\ accepted' = NoRoute /\ eligible' = None /\ wake' = TRUE
      /\ retiredFacts' = PushFact(completed)
      /\ leaseRetired' = Retire(completed) \cup Retire(accepted)
      /\ retiredRoutes' = QueueBrainRoute
      /\ UNCHANGED <<pending, current, retiredRequests, running, wpc, active, made>>
      /\ UNCHANGED <<stopping, retained, want, harvested>>
  BY DEF Withdraw, workerVars, RetireAccepted
<1>2. \/ why = "changed" /\ pc' = "judge" /\ desired' = want /\ UNCHANGED <<epoch, fmsSeen, why>>
      \/ /\ why # "changed" /\ desired' = None /\ pc' \in {"stop", "idle"}
         /\ epoch' = Least(Ids \ EpochsInUse) /\ fmsSeen' = NoFms
  BY DEF Withdraw
<1>3. Least(Ids \ EpochsInUse) \in Ids
  <2> DEFINE a == pending.identity.epoch
             b == active.identity.epoch
             c == completed.identity.epoch
             d == made.identity.epoch
             e == harvested.identity.epoch
             f == eligible.identity.epoch
  <2>1. EpochsInUse \subseteq {epoch, a, b, c, d, e, f}
    BY DEF EpochsInUse, Held
  <2> HIDE DEF a, b, c, d, e, f
  <2> QED BY <2>1, SevenAreNotAll, Zenon
<1>4. retiredFacts.nodes \in Nat /\ retiredFacts.routes \subseteq Routes
      /\ (completed # None => completed.route \in Routes \cup {None})
      /\ accepted # None /\ accepted.route \in Routes \cup {None} /\ NoRoute # None
      /\ NoRoute \in Accepted /\ NoRoute.route = None
  <2>1. NoRoute \in Accepted /\ NoRoute.route = None
    BY Zenon DEF Accepted, NoRoute
  <2>2. accepted \in Accepted /\ accepted.route \in Routes \cup {None}
    BY DEF CallbackHolds, Accepted
  <2> QED BY <2>1, <2>2 DEF PoolsOK, ObjectsOK, Fact
<1>5. retiredFacts'.nodes = retiredFacts.nodes + One(completed)
      /\ retiredFacts'.routes = retiredFacts.routes \cup ({RouteOf(completed)} \ {None})
      /\ leaseRetired' = leaseRetired \cup ({RouteOf(completed), accepted.route} \cap retained)
  BY <1>1, <1>4 DEF PushFact, One, Retire, RouteOf
<1>6. ObjectsOK'
  BY <1>1, <1>2 DEF ObjectsOK, CallbackHolds, HasIdentity, Cancelling
<1>7. PoolsOK' /\ NodesLeft'
  <2>1. retiredFacts' = [nodes |-> retiredFacts'.nodes, routes |-> retiredFacts'.routes]
    BY <1>1 DEF PushFact, PoolsOK
  <2>2. retiredFacts'.routes \in SUBSET Routes
    BY <1>4, <1>5 DEF RouteOf
  <2>3. retiredFacts'.nodes \in 0 .. FactNodes /\ FactNodesInUse' = FactNodesInUse
        /\ RequestNodesInUse' = RequestNodesInUse
    BY <1>1, <1>4, <1>5 DEF PoolsOK, FactNodesInUse, RequestNodesInUse, One
  <2> QED BY <1>1, <1>2, <2>1, <2>2, <2>3 DEF PoolsOK, NodesLeft
<1>8. LeasesOK'
  BY <1>1, <1>5 DEF LeasesOK, QueueBrainRoute
<1>9. FlagsOK'
  BY <1>1, Zenon DEF FlagsOK
<1>10. WorkerHolds'
  BY <1>1 DEF WorkerHolds
<1>11. CallbackHolds'
  <2>1. fmsSeen'.file \in FmsFiles \cup {None}
    BY <1>2 DEF CallbackHolds, NoFms
  <2> QED BY <1>1, <1>2, <1>3, <1>4, <2>1 DEF CallbackHolds, HasIdentity, Cancelling,
  Stopped
<1>12. EligibleUnderway'
  BY <1>1 DEF EligibleUnderway
<1>13. LeasesHeld'
  <2>1. HasRoute' = FALSE /\ RouteOf(accepted)' = None /\ RouteOf(completed)' = None
    BY <1>1, <1>4 DEF HasRoute, RouteOf
  <2> QED
    BY <1>1, <1>2, <1>4, <1>5, <2>1 DEF LeasesHeld, Leased, NotInRetired, Live,
         Apart, OnlyObserves, Judging, HasRoute, RouteOf, CallbackHolds,
         HasIdentity, Cancelling, Accepted
<1>14. LeasesFollowed'
  <2>1. RouteOf(accepted)' = None /\ RouteOf(completed)' = None /\ RouteOf(accepted) = accepted.route
    BY <1>1, <1>4 DEF RouteOf
  <2> QED BY <1>1, <1>4, <1>5, <2>1 DEF LeasesFollowed, LeasesOK, RouteOf
<1> QED BY <1>6, <1>7, <1>8, <1>9, <1>10, <1>11, <1>12, <1>13, <1>14

\* The fact in the mailbox is retired before the worker is joined.
LEMMA StopFactKeeps ==
    ASSUME PreparationInv, StopIsLast, StopFact
    PROVE  PreparationInv'
<1> USE WorkerAssumption, NoneAssumption, CoordinatorAssumption DEF PreparationInv
<1>1. /\ pc = "stopFact" /\ pc' = "join" /\ completed' = None /\ wake' = TRUE
      /\ retiredFacts' = PushFact(completed) /\ leaseRetired' = Retire(completed)
      /\ UNCHANGED <<pending, current, retiredRequests, retiredRoutes, running, wpc, active, made>>
      /\ UNCHANGED <<stopping, retained, why, want, harvested, runtime>>
  BY DEF StopFact, workerVars
<1>2. retiredFacts.nodes \in Nat /\ retiredFacts.routes \subseteq Routes
      /\ (completed # None => completed.route \in Routes \cup {None})
  BY DEF PoolsOK, ObjectsOK, Fact
<1>3. retiredFacts'.nodes = retiredFacts.nodes + One(completed)
      /\ retiredFacts'.routes = retiredFacts.routes \cup ({RouteOf(completed)} \ {None})
      /\ leaseRetired' = leaseRetired \cup ({RouteOf(completed)} \cap retained)
  BY <1>1, <1>2 DEF PushFact, One, Retire, RouteOf
<1>4. ObjectsOK'
  BY <1>1 DEF ObjectsOK, runtime
<1>5. PoolsOK' /\ NodesLeft'
  <2>1. retiredFacts' = [nodes |-> retiredFacts'.nodes, routes |-> retiredFacts'.routes]
    BY <1>1 DEF PushFact, PoolsOK
  <2>2. retiredFacts'.routes \in SUBSET Routes
    BY <1>2, <1>3 DEF RouteOf
  <2>3. retiredFacts'.nodes \in 0 .. FactNodes /\ FactNodesInUse' = FactNodesInUse
        /\ RequestNodesInUse' = RequestNodesInUse
    BY <1>1, <1>2, <1>3 DEF PoolsOK, FactNodesInUse, RequestNodesInUse, One
  <2> QED BY <1>1, <2>1, <2>2, <2>3 DEF PoolsOK, NodesLeft
<1>6. LeasesOK'
  BY <1>1, <1>3 DEF LeasesOK, runtime
<1>7. FlagsOK'
  BY <1>1, Zenon DEF FlagsOK
<1>8. WorkerHolds'
  BY <1>1 DEF WorkerHolds
<1>9. CallbackHolds'
  BY <1>1 DEF CallbackHolds, HasIdentity, Cancelling, Stopped, runtime
<1>10. EligibleUnderway'
  BY <1>1 DEF EligibleUnderway
<1>11. LeasesHeld'
  <2>1. harvested = None /\ ~HasRoute /\ stopping
    BY <1>1 DEF StopIsLast, Stopped, LeasesHeld, CallbackHolds, HasIdentity, Cancelling
  <2> QED BY <1>1, <1>2, <1>3, <2>1 DEF runtime, LeasesHeld, Leased,
       NotInRetired, Live, Apart, OnlyObserves, Judging, HasRoute, RouteOf,
       CallbackHolds, HasIdentity, Cancelling, Accepted
<1>12. LeasesFollowed'
  BY <1>1, <1>2, <1>3 DEF LeasesFollowed, LeasesOK, RouteOf, runtime
<1> QED BY <1>4, <1>5, <1>6, <1>7, <1>8, <1>9, <1>10, <1>11, <1>12

\* The fact's lease is the accepted route's from now on, or is retired.
LEMMA JudgeKeeps ==
    ASSUME PreparationInv, StopIsLast, Judge
    PROVE  PreparationInv'
<1> USE WorkerAssumption, NoneAssumption, CoordinatorAssumption DEF PreparationInv
<1>1. /\ pc = "judge" /\ pc' = "decide"
      /\ UNCHANGED <<pending, completed, current, retiredRequests, retiredFacts, running, wpc,
                     active, made, stopping, retained, epoch, desired, fmsSeen, why, want, harvested>>
  BY DEF Judge, workerVars, leases
<1>2. /\ harvested # None => harvested \in Fact
      /\ accepted # None /\ RouteOf(accepted) = accepted.route
  BY DEF ObjectsOK, CallbackHolds, RouteOf
<1>3. \/ /\ ~RouteFact
         /\ UNCHANGED <<leaseRetired, retiredRoutes, wake, accepted, eligible>>
      \/ /\ RouteFact /\ Publishable /\ harvested.status = "completed"
         /\ leaseRetired' = leaseRetired \cup ({accepted.route} \cap retained)
         /\ accepted' = [identity |-> harvested.identity, route |-> harvested.route,
                         resolved |-> harvested.resolved, fms |-> harvested.fms]
         /\ retiredRoutes' = QueueBrainRoute /\ wake' = TRUE
         /\ eligible' = IF Answers(harvested) THEN None ELSE eligible
      \/ /\ RouteFact
         /\ leaseRetired' = leaseRetired \cup ({harvested.route} \cap retained)
         /\ wake' = (wake \/ harvested.route # None)
         /\ eligible' = IF Answers(harvested) THEN None ELSE eligible
         /\ UNCHANGED <<retiredRoutes, accepted>>
  BY <1>2 DEF Judge, Settle, RetireAccepted, Retire, leases, Publishable,
       RouteFact, RouteOf
<1>4. accepted' \in Accepted /\ accepted' # None
  <2>1. CASE accepted' = accepted
    BY <2>1 DEF CallbackHolds
  <2>2. CASE accepted' # accepted
    <3>1. harvested \in Fact
      BY <1>2, <1>3, <2>2 DEF RouteFact
    <3>2. accepted' = [identity |-> harvested.identity, route |-> harvested.route,
                       resolved |-> harvested.resolved, fms |-> harvested.fms]
      BY <1>3, <2>2
    <3>3. accepted' \in Accepted
      BY <3>1, <3>2, Zenon DEF Fact, Accepted
    <3> QED BY <3>3
  <2> QED BY <2>1, <2>2
<1>5. \/ harvested = None \/ harvested.route = None
      \/ RouteFact
  BY <1>2 DEF LeasesHeld, OnlyObserves, RouteFact, Fact, Kinds
<1>6. ObjectsOK'
  BY <1>1, <1>3 DEF ObjectsOK
<1>7. PoolsOK' /\ NodesLeft'
  BY <1>1 DEF ObjectsOK, WorkerHolds, PoolsOK, NodesLeft, RequestNodesInUse,
     FactNodesInUse, One
<1>8. LeasesOK'
  BY <1>1, <1>3 DEF LeasesOK, QueueBrainRoute
<1>9. FlagsOK'
  <2>1. wake' \in BOOLEAN
    BY Zenon DEF Judge, FlagsOK
  <2> QED BY <1>1, <2>1, Zenon DEF FlagsOK
<1>10. WorkerHolds'
  BY <1>1 DEF WorkerHolds
<1>11. CallbackHolds'
  BY <1>1, <1>4 DEF CallbackHolds, HasIdentity, Cancelling, Stopped
<1>12. EligibleUnderway'
  BY <1>1, <1>3 DEF EligibleUnderway, Underway, RouteFact, Answers
<1>13. LeasesHeld'
  <2>1. CASE ~RouteFact
    BY <1>1, <1>2, <1>3, <1>5, <2>1 DEF LeasesHeld, Leased, NotInRetired, Live,
         Apart, OnlyObserves, Judging, HasRoute, RouteOf, CallbackHolds,
         HasIdentity, Cancelling, Accepted
  <2>2. CASE RouteFact /\ accepted' = accepted
    BY <1>1, <1>2, <1>3, <2>2 DEF RouteFact, LeasesHeld, Leased, NotInRetired,
         Live, Apart, OnlyObserves, Judging, HasRoute, RouteOf, CallbackHolds,
         HasIdentity, Cancelling, Accepted
  <2>3. CASE RouteFact /\ accepted' # accepted
    <3>1. /\ harvested \in Fact /\ harvested # None /\ harvested.status = "completed"
          /\ leaseRetired' = leaseRetired \cup ({accepted.route} \cap retained)
          /\ accepted'.route = harvested.route
      BY <1>2, <1>3, <2>3 DEF RouteFact
    <3>2. harvested.route # None =>
              /\ Leased(harvested.route) /\ harvested.route \notin retiredFacts.routes
              /\ harvested.route # accepted.route
      BY <1>1, <1>2, <3>1 DEF LeasesHeld, Live, Judging, NotInRetired, Apart, RouteOf
    <3> QED
      BY <1>1, <1>2, <1>4, <3>1, <3>2 DEF StopIsLast, Stopped, LeasesHeld,
           Leased, NotInRetired, Live, Apart, OnlyObserves, Judging, HasRoute,
           RouteOf, CallbackHolds, HasIdentity, Cancelling, Accepted
  <2> QED BY <2>1, <2>2, <2>3
<1>14. LeasesFollowed'
  <2>1. CASE accepted' = accepted
    BY <1>1, <1>3, <2>1 DEF LeasesFollowed, LeasesOK, RouteOf
  <2>2. CASE accepted' # accepted
    <3>1. /\ leaseRetired' = leaseRetired \cup ({accepted.route} \cap retained)
      BY <1>3, <2>2
    <3> QED BY <1>1, <1>2, <3>1 DEF LeasesFollowed, LeasesOK, RouteOf
  <2> QED BY <2>1, <2>2
<1> QED BY <1>6, <1>7, <1>8, <1>9, <1>10, <1>11, <1>12, <1>13, <1>14

\* The callback lets go of the fact, unless it has a request to post.
LEMMA DecideKeeps ==
    ASSUME PreparationInv, StopIsLast, Decide
    PROVE  PreparationInv'
<1> USE WorkerAssumption, NoneAssumption, CoordinatorAssumption DEF PreparationInv
<1>1. /\ pc = "decide"
      /\ UNCHANGED <<pending, completed, retiredRequests, retiredFacts, running, wpc, active, made,
                     stopping, retained, leaseRetired, epoch, desired, eligible, accepted, fmsSeen>>
  BY DEF Decide, workerVars, leases
<1>2. \/ /\ pc' = "post" /\ why' = Action /\ Action # None /\ HasRequestNode
         /\ current' = Least(Ids \ IdsInUse) /\ UNCHANGED <<want, harvested>>
      \/ pc' = "idle" /\ why' = None /\ want' = None /\ harvested' = None /\ UNCHANGED current
  BY DEF Decide
<1>3. Least(Ids \ IdsInUse) \in Ids
  <2>1. IdsInUse \subseteq {0, pending.id, active.id, completed.id, made.id, harvested.id, eligible.id}
    BY DEF IdsInUse
  <2> QED BY <2>1, SevenAreNotAll, Zenon
<1>4. Action # None => Action \in Kinds /\ eligible = None
  BY DEF Action, Kinds
<1>5. retiredRoutes' \subseteq Routes
  BY DEF Decide, LeasesOK, QueueBrainRoute
<1>6. ~stopping
  BY <1>1 DEF StopIsLast, Stopped
<1>7. ObjectsOK'
  BY <1>1, <1>2, <1>3 DEF ObjectsOK
<1>8. PoolsOK' /\ NodesLeft'
  BY <1>1, <1>2 DEF HasRequestNode, ObjectsOK, WorkerHolds, PoolsOK, NodesLeft,
     RequestNodesInUse, FactNodesInUse, One
<1>9. LeasesOK'
  BY <1>1, <1>5 DEF LeasesOK
<1>10. FlagsOK'
  <2>1. wake' \in BOOLEAN
    BY Zenon DEF Decide, FlagsOK
  <2> QED BY <1>1, <2>1, Zenon DEF FlagsOK
<1>11. WorkerHolds'
  BY <1>1 DEF WorkerHolds
<1>12. CallbackHolds'
  BY <1>1, <1>2, <1>3, <1>4 DEF CallbackHolds, HasIdentity, Cancelling, Stopped
<1>13. EligibleUnderway'
  BY <1>1, <1>2 DEF EligibleUnderway, Underway
<1>14. LeasesHeld'
  BY <1>1, <1>2, <1>6 DEF LeasesHeld, Leased, NotInRetired, Live, Apart,
       OnlyObserves, Judging, HasRoute, RouteOf, CallbackHolds, HasIdentity,
       Cancelling, Accepted
<1>15. LeasesFollowed'
  BY <1>1, <1>2 DEF LeasesFollowed, LeasesOK, RouteOf, LeasesHeld, Leased,
       CallbackHolds, Accepted
<1> QED BY <1>7, <1>8, <1>9, <1>10, <1>11, <1>12, <1>13, <1>14, <1>15

\* The request that is posted is the one the coordinator waits for.
LEMMA PostKeeps ==
    ASSUME PreparationInv, StopIsLast, Post
    PROVE  PreparationInv'
<1> USE WorkerAssumption, NoneAssumption, CoordinatorAssumption DEF PreparationInv
<1> DEFINE request == [id |-> current, kind |-> why, identity |-> want]
<1>1. /\ pc = "post" /\ pending' = request /\ eligible' = request /\ wake' = TRUE
      /\ retiredRequests' = retiredRequests + One(pending)
      /\ pc' = "idle" /\ why' = None /\ want' = None /\ harvested' = None
      /\ UNCHANGED <<completed, current, retiredFacts, retiredRoutes, running, wpc, active, made,
                     stopping, retained, leaseRetired, epoch, desired, accepted, fmsSeen>>
  BY DEF Post, ExchangePending, PushRequest, workerVars, leases
<1>2. request \in Request /\ request # None
  <2>1. request \in Request
    BY <1>1 DEF CallbackHolds, HasIdentity, Request
  <2> QED BY <2>1
<1> HIDE DEF request
<1>3. ~stopping
  BY <1>1 DEF StopIsLast, Stopped
<1>4. ObjectsOK'
  BY <1>1, <1>2 DEF ObjectsOK
<1>5. PoolsOK' /\ NodesLeft'
  BY <1>1, <1>2 DEF ObjectsOK, WorkerHolds, PoolsOK, NodesLeft, RequestNodesInUse,
     FactNodesInUse, One
<1>6. LeasesOK'
  BY <1>1 DEF LeasesOK
<1>7. FlagsOK'
  BY <1>1, Zenon DEF FlagsOK
<1>8. WorkerHolds'
  BY <1>1 DEF WorkerHolds
<1>9. CallbackHolds'
  BY <1>1 DEF CallbackHolds, HasIdentity, Cancelling, Stopped
<1>10. EligibleUnderway'
  BY <1>1, <1>2 DEF EligibleUnderway, Underway
<1>11. LeasesHeld'
  BY <1>1, <1>3 DEF LeasesHeld, Leased, NotInRetired, Live, Apart, OnlyObserves,
       Judging, HasRoute, RouteOf, CallbackHolds, HasIdentity, Cancelling,
       Accepted
<1>12. LeasesFollowed'
  BY <1>1 DEF LeasesFollowed, LeasesOK, RouteOf, LeasesHeld, Leased,
       CallbackHolds, Accepted
<1> QED BY <1>4, <1>5, <1>6, <1>7, <1>8, <1>9, <1>10, <1>11, <1>12

-----------------------------------------------------------------------------

LEMMA PreparationInit == Init => PreparationInv
<1> SUFFICES ASSUME Init PROVE PreparationInv
  OBVIOUS
<1>0. NoRoute \in Accepted /\ NoRoute.route = None
  BY Zenon DEF Accepted, NoRoute
<1> USE WorkerAssumption, NoneAssumption, CoordinatorAssumption DEF Init, InitMailbox
<1>1. epoch \in Ids
  <2>1. Least(Ids \ {}) \in Ids
    BY SevenAreNotAll
  <2>2. Ids # {}
    BY <2>1
  <2> QED BY <2>2, LeastIsIn
<1>2. accepted \in Accepted /\ accepted.route = None /\ accepted # None
  BY <1>0
<1>3. ObjectsOK /\ LeasesOK
  BY DEF ObjectsOK, LeasesOK
<1>4. FlagsOK
  BY Zenon DEF FlagsOK
<1>5. PoolsOK /\ NodesLeft
  BY DEF PoolsOK, NodesLeft, RequestNodesInUse, FactNodesInUse, One
<1>6. WorkerHolds /\ EligibleUnderway
  BY DEF WorkerHolds, EligibleUnderway
<1>7. CallbackHolds
  BY <1>1, <1>2 DEF CallbackHolds, HasIdentity, Cancelling, NoFms
<1>8. LeasesHeld /\ LeasesFollowed
  BY <1>2 DEF LeasesHeld, LeasesFollowed, Live, Apart, OnlyObserves, NotInRetired,
     HasRoute, Judging, Cancelling, RouteOf
<1> QED BY <1>3, <1>4, <1>5, <1>6, <1>7, <1>8 DEF PreparationInv

LEMMA PreparationStep ==
    ASSUME PreparationInv, CoordinatorInv, [Next]_vars
    PROVE  PreparationInv'
<1>1. StopIsLast /\ WorldOK
  BY DEF CoordinatorInv
<1>2. CASE WorkerStep
  <2>1. UNCHANGED <<runtime, local>>
    BY <1>2 DEF WorkerStep, WorkerLoops, WorkerObserves, WorkerPrepares,
         WorkerFails, Undisturbed, Disturbed, coordinatorVars
  <2>2. CASE WakeUp \/ Take \/ Begin \/ Conclude \/ Publish \/ DrainAfterWork
    BY <1>1, <2>1, <2>2, WakeUpKeeps, TakeKeeps, BeginKeeps, ConcludeKeeps, PublishKeeps,
       DrainAfterWorkKeeps
  <2>3. CASE \/ WorkCancelled \/ Observe(world.fms)
             \/ \E status \in {"failed", "empty"} : WorkInVain(status)
    <3>1. /\ wpc = "work" /\ UNCHANGED leases
          /\ \E status \in {"completed", "cancelled", "failed", "empty"} :
             \E fms \in FmsFiles \cup {None} : MakeFact(status, None, FALSE, fms)
      BY <1>1, <2>3 DEF WorkCancelled, Observe, WorkInVain, WorldOK
    <3> QED BY <2>1, <3>1, EmptyHandedKeeps
  <2>4. CASE FreshRoutes # {} /\ \E resolved \in BOOLEAN : Prepare(FreshRoute, resolved, world.fms)
    <3>1. FreshRoute \in FreshRoutes
      BY <2>4, LeastIsIn, WorkerAssumption DEF FreshRoute, FreshRoutes
    <3>2. PICK resolved \in BOOLEAN : Prepare(FreshRoute, resolved, world.fms)
      BY <2>4
    <3>3. world.fms \in FmsFiles
      BY <1>1 DEF WorldOK
    <3> QED BY <2>1, <3>1, <3>2, <3>3, PrepareKeeps
  <2> QED BY <1>2, <2>2, <2>3, <2>4 DEF WorkerStep, WorkerLoops, Loop, WorkerObserves,
             WorkerPrepares, WorkerFails
<1>3. CASE Resting
  BY <1>1, <1>3, RestingKeeps
<1>4. CASE Refresh
  BY <1>1, <1>4, RefreshKeeps
<1>5. CASE CallCancelRequest \/ StopRequest
  BY <1>1, <1>5, CancelRequestKeeps
<1>6. CASE Withdraw
  BY <1>1, <1>6, WithdrawKeeps
<1>7. CASE StopFact
  BY <1>1, <1>7, StopFactKeeps
<1>8. CASE Judge
  BY <1>1, <1>8, JudgeKeeps
<1>9. CASE Decide
  BY <1>1, <1>9, DecideKeeps
<1>10. CASE Post
  BY <1>1, <1>10, PostKeeps
<1>11. CASE UNCHANGED vars
  <2>1. /\ UNCHANGED <<pending, completed, current, retiredRequests, retiredFacts, retiredRoutes>>
        /\ UNCHANGED <<wake, running, wpc, active, made, stopping, retained, leaseRetired>>
        /\ UNCHANGED <<epoch, desired, eligible, accepted, fmsSeen, pc, why, want, harvested>>
    BY <1>11 DEF vars, shared, mailbox, workerVars, leases, runtime, local
  <2>2. ObjectsOK' /\ PoolsOK' /\ LeasesOK'
    BY <2>1 DEF PreparationInv, ObjectsOK, PoolsOK, LeasesOK, RequestNodesInUse,
       FactNodesInUse
  <2>3. FlagsOK'
    BY <2>1, Zenon DEF PreparationInv, FlagsOK
  <2>4. WorkerHolds' /\ CallbackHolds' /\ NodesLeft' /\ EligibleUnderway'
    BY <2>1 DEF PreparationInv, WorkerHolds, CallbackHolds, HasIdentity, NodesLeft,
       RequestNodesInUse, FactNodesInUse, EligibleUnderway, Underway
  <2>5. LeasesHeld' /\ LeasesFollowed'
    BY <2>1 DEF PreparationInv, LeasesHeld, LeasesFollowed, Leased, Live, Apart,
         OnlyObserves, NotInRetired, HasRoute, Judging
  <2> QED BY <2>2, <2>3, <2>4, <2>5 DEF PreparationInv
<1> QED BY <1>2, <1>3, <1>4, <1>5, <1>6, <1>7, <1>8, <1>9, <1>10, <1>11
        DEF Next, Callback, WorkerStep, Resting

\* The inductive invariant of the pools and the leases: every node and every
\* lease has one holder, and the request waited for is the latest there is.
THEOREM PreparationInvariant == Spec => []PreparationInv
<1>1. PreparationInv /\ CoordinatorInv /\ [Next]_vars => PreparationInv'
  BY PreparationStep
<1> QED BY PreparationInit, <1>1, CoordinatorInvariant, PTL DEF Spec

\* The mailboxes hold what they should, and neither pool runs over
\* (RoutePreparationWorker's node pools; gRouteAsyncRuntime).
THEOREM TypesAndPoolsHold == Spec => []TypeOK
<1>1. PreparationInv => TypeOK
  BY Zenon DEF PreparationInv, TypeOK, ObjectsOK, PoolsOK, LeasesOK, FlagsOK
<1> QED BY PreparationInvariant, <1>1, PTL

\* The coordinator never waits for a request that is gone: its wait has no
\* timeout, so the fact it waits for is never recycled, replaced or dropped.
THEOREM TheRequestIsOnItsWay == Spec => []EligibleInFlight
<1>1. PreparationInv => EligibleInFlight
  BY DEF PreparationInv, EligibleUnderway, Underway, EligibleInFlight
<1> QED BY PreparationInvariant, <1>1, PTL

\* The lease of the accepted route is retained and not retired under it, and
\* no lease is left without somebody who will give it back.
THEOREM NoLeaseIsLost == Spec => []LeasesAccountedFor
<1>1. PreparationInv => LeasesAccountedFor
  <2> SUFFICES ASSUME PreparationInv PROVE LeasesAccountedFor
    OBVIOUS
  <2>1. pc = "idle" /\ HasRoute => accepted.route \in retained \ leaseRetired
    BY DEF PreparationInv, LeasesHeld, Leased
  <2>2. retained \ leaseRetired \subseteq
            {RouteOf(f) : f \in {completed, made, harvested, accepted}} \cup retiredFacts.routes
    BY DEF PreparationInv, LeasesFollowed
  <2> QED BY <2>1, <2>2 DEF LeasesAccountedFor
<1> QED BY PreparationInvariant, <1>1, PTL

=============================================================================
