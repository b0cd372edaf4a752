---------------------------- MODULE MetarRuntime ----------------------------
(***************************************************************************)
(* The Brain's METAR runtime (BrainMetarRuntime.cpp) with its client: the  *)
(* report of the flight's airport, fetched again and again, and the        *)
(* report the pilot asks for, through one worker that fetches one report   *)
(* at a time (MetarFetch).                                                 *)
(*                                                                         *)
(* A cycle of the flight loop harvests, then settles the state as of that  *)
(* moment, then starts what is to be fetched next; the worker's thread     *)
(* takes steps in between.  The record metar is BrainOwnedMetarRuntimeState*)
(* and a function on it stands for a function of the code.                 *)
(*                                                                         *)
(* There is no clock: `due' holds the deadlines that have passed.          *)
(***************************************************************************)
EXTENDS MetarFetch

CONSTANTS
    Airports,
    NoAirport,
    Context,      \* what the flight may want: records of a mode and an airport
    NoContext,    \* the target context is not initialized
    FirstContext, \* what it may want when the plugin starts
    MaxEvents     \* how many lookups, retargets, boundaries ... happen in all

\* The requests there can be after so many events.
Requests(n) ==
    [airport : Airports, purpose : {"primary", "lookup"}, generation : 0 .. n + 1,
     lookupGeneration : 0 .. n, epoch : 1 .. n + 1]

ASSUME RuntimeAssumption ==
    /\ NoAirport \notin Airports
    /\ NoContext \notin Context /\ FirstContext \subseteq Context
    /\ Context \subseteq [vfr : BOOLEAN, airport : Airports \cup {NoAirport}]
    /\ MaxEvents \in Nat
    /\ Request = Requests(MaxEvents)

VARIABLES
    connected,    \* the plugin is enabled and xPilot is connected
    context,      \* what the flight wants: the mode and the airport it names
    selected,     \* the METAR drawer has been the selected one since the lookup
    asked,        \* history: the server's report when the pilot asked
    events,
    metar

environment == <<connected, context, selected, asked, events>>
vars == <<fetchVars, environment, metar>>

Report == [airport : Airports, report : Nat \ {0}]
NoReport == [airport |-> NoAirport, report |-> 0]
Timers == {"primary", "stale", "transient"}

Metar ==
    [epoch : Nat, suspended : BOOLEAN, contextKey : Context \cup {NoContext},
     active : Request \cup {NoRequest}, deferred : Fact \cup {NoFact},
     airport : Airports \cup {NoAirport}, generation : Nat, latched : BOOLEAN,
     report : Report \cup {NoReport},
     health : {"Unknown", "Pending", "Healthy", "Failed"},
     visible : {"Unknown", "Pending", "Fresh", "Cached", "Stale", "Unavailable"},
     lookup : Airports \cup {NoAirport}, lookupGeneration : Nat,
     awaiting : BOOLEAN, invalidated : BOOLEAN, lookupReport : Report \cup {NoReport},
     transient : {"None", "Pending", "Spotlight", "Failure"}, owned : BOOLEAN,
     due : SUBSET Timers]

Blank(epoch) ==
    [epoch |-> epoch, suspended |-> FALSE, contextKey |-> NoContext,
     active |-> NoRequest, deferred |-> NoFact,
     airport |-> NoAirport, generation |-> 0, latched |-> FALSE,
     report |-> NoReport, health |-> "Unknown", visible |-> "Unknown",
     lookup |-> NoAirport, lookupGeneration |-> 0,
     awaiting |-> FALSE, invalidated |-> FALSE, lookupReport |-> NoReport,
     transient |-> "None", owned |-> FALSE, due |-> {"primary", "stale"}]

TypeOK ==
    /\ FetchTypeOK
    /\ loop \in {"ready", "joining", "dispatch", "stopping"}
    /\ connected \in BOOLEAN /\ selected \in BOOLEAN
    /\ context \in Context
    /\ asked \in Nat /\ events \in Nat
    /\ metar \in Metar

Init ==
    /\ FetchInit
    /\ connected = TRUE /\ context \in FirstContext
    /\ selected = FALSE
    /\ asked = 0 /\ events = 0
    /\ metar = Blank(1)

-----------------------------------------------------------------------------
(* The presentation of a lookup.                                           *)

PresentationOwned(m) == m.owned /\ selected

DropLostPresentation(m) ==
    IF m.owned /\ ~selected THEN [m EXCEPT !.owned = FALSE, !.transient = "None"] ELSE m

\* A transient that is shown until its deadline, if the lookup still owns the drawer.
Present(m, transient) ==
    IF PresentationOwned(m)
    THEN [m EXCEPT !.transient = transient, !.due = @ \ {"transient"}]
    ELSE [m EXCEPT !.transient = "None", !.owned = FALSE]

EndSpotlight(m) ==
    IF m.transient = "Spotlight"
    THEN [m EXCEPT !.transient = "None", !.owned = FALSE]
    ELSE m

LookupFailure(m) == Present([m EXCEPT !.awaiting = FALSE], "Failure")

-----------------------------------------------------------------------------
(* The flight's airport.                                                   *)

\* In VFR the airport, once found, is kept.
Target(m) ==
    IF context.vfr /\ m.contextKey # NoContext /\ m.latched /\ m.airport # NoAirport
    THEN m.airport
    ELSE context.airport

SetTargetOnly(m, target) ==  \* mutant: the report of the airport before is kept
    IF m.airport = target THEN m
    ELSE [EndSpotlight(m) EXCEPT
             !.airport = target, !.latched = context.vfr, !.generation = @ + 1,
             !.due = @ \cup {"primary", "stale"},
             !.health = "Pending", !.visible = "Pending"]

SetTarget(m, target) ==
    LET latches == context.vfr /\ target # NoAirport
    IN  IF m.airport = target
        THEN [m EXCEPT !.latched = @ \/ latches]
        ELSE [EndSpotlight(m) EXCEPT
                 !.airport = target, !.latched = latches, !.generation = @ + 1,
                 !.report = NoReport, !.due = @ \cup {"primary", "stale"},
                 !.health = IF target = NoAirport THEN "Unknown" ELSE "Pending",
                 !.visible = IF target = NoAirport THEN "Unavailable" ELSE "Pending"]

Retarget(m) ==
    IF m.contextKey = context /\ ~m.suspended THEN m
    ELSE [SetTarget(m, Target(m)) EXCEPT !.contextKey = context, !.suspended = FALSE]

PrimaryFailureKeeps(m) ==  \* mutant: an airport whose report failed stays pending
    [m EXCEPT !.health = "Failed", !.due = @ \ {"primary"}]

PrimaryFailure(m) ==
    LET visible == IF m.report = NoReport THEN "Unavailable"
                   ELSE IF "stale" \in m.due THEN "Stale" ELSE "Cached"
        failed == [m EXCEPT !.health = "Failed", !.due = @ \ {"primary"},
                            !.visible = visible]
    IN  IF visible = m.visible THEN failed ELSE EndSpotlight(failed)

-----------------------------------------------------------------------------
(* A fact that has been harvested.                                         *)

LookupMatchesLate(m, request) ==  \* mutant: a lookup that timed out still counts
    request.lookupGeneration = m.lookupGeneration /\ request.airport = m.lookup

LookupMatchesAirport(m, request) ==  \* mutant: an earlier lookup of the airport counts
    ~m.invalidated /\ request.airport = m.lookup

LookupMatches(m, request) ==
    ~m.invalidated /\ request.lookupGeneration = m.lookupGeneration /\ request.airport = m.lookup

MatchesCurrent(m, request) ==
    /\ request.epoch = m.epoch
    /\ IF request.purpose = "lookup" THEN LookupMatches(m, request)
       ELSE request.generation = m.generation /\ request.airport = m.airport

\* The deadline of a report that is the same is not moved; a new one may be
\* as old as to be stale at once.
AcceptPrimary(m, report, isOld) ==
    LET healthy == [m EXCEPT !.health = "Healthy", !.due = @ \ {"primary"}]
        visible == IF "stale" \in m.due THEN "Stale" ELSE "Fresh"
    IN  IF m.report = report
        THEN IF visible = m.visible THEN healthy
             ELSE EndSpotlight([healthy EXCEPT !.visible = visible])
        ELSE EndSpotlight(
                [healthy EXCEPT !.report = report,
                                !.visible = IF isOld THEN "Stale" ELSE "Fresh",
                                !.due = IF isOld THEN @ \cup {"stale"} ELSE @ \ {"stale"}])

AcceptLookup(m, report) ==
    Present([m EXCEPT !.lookupReport = report, !.awaiting = FALSE], "Spotlight")

Commit(m, fact, isOld) ==
    LET request == fact.request
        report == [airport |-> request.airport, report |-> fact.report]
    IN  IF ~MatchesCurrent(m, request) THEN m
        ELSE IF request.purpose = "lookup"
             THEN IF fact.report = 0 THEN LookupFailure(m) ELSE AcceptLookup(m, report)
             ELSE IF fact.report = 0 THEN PrimaryFailure(m) ELSE AcceptPrimary(m, report, isOld)

CommitHarvested(m, fact, isOld) == IF fact = NoFact THEN m ELSE Commit(m, fact, isOld)

KeepDeferred(m, isOld) ==  \* mutant: the deferred fact is not dropped
    IF m.deferred = NoFact \/ ~metar.suspended THEN m ELSE Commit(m, m.deferred, isOld)

CommitDeferred(m, isOld) ==
    IF m.deferred = NoFact \/ ~metar.suspended THEN m
    ELSE Commit([m EXCEPT !.deferred = NoFact], m.deferred, isOld)

-----------------------------------------------------------------------------
(* Deadlines.                                                              *)

ExpireShown(m) ==  \* mutant: a lookup that waits has no deadline
    IF "transient" \notin m.due \/ m.transient \in {"None", "Pending"} THEN m
    ELSE [m EXCEPT !.transient = "None", !.owned = FALSE]

ExpireTransient(m) ==
    IF "transient" \notin m.due \/ m.transient = "None" THEN m
    ELSE IF m.transient = "Pending"
         THEN LookupFailure([m EXCEPT !.invalidated = TRUE])
         ELSE [m EXCEPT !.transient = "None", !.owned = FALSE]

BecomeStale(m) ==
    IF m.report # NoReport /\ m.visible # "Stale" /\ "stale" \in m.due
    THEN EndSpotlight([m EXCEPT !.visible = "Stale"])
    ELSE m

-----------------------------------------------------------------------------
(* The cycle of the flight loop.                                           *)

\* What a cycle makes of the state, with the fact it harvested.
Settled(m, fact, isOld) ==
    BecomeStale(ExpireTransient(DropLostPresentation(
        CommitDeferred(CommitHarvested(Retarget(m), fact, isOld), isOld))))

\* Disconnected, a fact is put aside for the cycle that finds xPilot connected.
PutAside(m, fact) ==
    [m EXCEPT !.suspended = TRUE, !.deferred = IF fact = NoFact THEN @ ELSE fact]

\* The harvest takes a fact that is there and joins the thread; nothing the
\* thread touches is read between the harvest and the dispatch.
Cycle ==
    /\ loop = "ready"
    /\ LET m == [DropLostPresentation(metar) EXCEPT
                    !.active = IF result = NoFact THEN @ ELSE NoRequest]
       IN  \E isOld \in BOOLEAN :
               metar' = IF connected THEN Settled(m, result, isOld) ELSE PutAside(m, result)
    /\ loop' = IF result # NoFact THEN "joining" ELSE IF connected THEN "dispatch" ELSE "ready"
    /\ result' = NoFact
    /\ UNCHANGED <<server, worker, job, fetched, running, environment>>

Join ==
    /\ loop = "joining" /\ Joined
    /\ loop' = IF connected THEN "dispatch" ELSE "ready"
    /\ UNCHANGED <<server, worker, job, fetched, running, result, environment, metar>>

BusyWhileRunning == running  \* mutant: a fact that is not harvested does not count

Busy == metar.active # NoRequest \/ running

PrimaryIsWanted(m) == m.airport # NoAirport /\ "primary" \in m.due
LookupIsWanted(m) == m.awaiting /\ ~m.invalidated /\ m.lookup # NoAirport

\* An airport without a report goes before a lookup, a lookup before a refresh.
NextPurpose(m) ==
    IF PrimaryIsWanted(m) /\ m.report = NoReport THEN "primary"
    ELSE IF LookupIsWanted(m) THEN "lookup" ELSE "primary"

MakeRequest(m, purpose) ==
    [airport |-> IF purpose = "lookup" THEN m.lookup ELSE m.airport,
     purpose |-> purpose, generation |-> m.generation,
     lookupGeneration |-> m.lookupGeneration, epoch |-> m.epoch]

Dispatch ==
    /\ loop = "dispatch"
    /\ ~Busy /\ (PrimaryIsWanted(metar) \/ LookupIsWanted(metar))
    /\ LET purpose == NextPurpose(metar)
           request == MakeRequest(metar, purpose)
       IN  \E created \in BOOLEAN :
               /\ Start(request, created)
               /\ metar' = IF created
                           THEN [metar EXCEPT
                                    !.active = request,
                                    !.health = IF purpose = "primary" THEN "Pending" ELSE @]
                           ELSE IF purpose = "primary" THEN PrimaryFailure(metar)
                                ELSE LookupFailure(metar)
    /\ loop' = "ready"
    /\ UNCHANGED environment

DispatchNothing ==
    /\ loop = "dispatch"
    /\ Busy \/ ~(PrimaryIsWanted(metar) \/ LookupIsWanted(metar))
    /\ loop' = "ready"
    /\ UNCHANGED <<server, worker, job, fetched, running, result, environment, metar>>

-----------------------------------------------------------------------------
\* One of the bounded number of things that happen between two cycles.
Event == loop = "ready" /\ events < MaxEvents /\ events' = events + 1

(* The lifecycle boundary: the worker is cancelled and joined, what it left *)
(* is dropped, and the state is forgotten or only taken out of flight.      *)

Interrupted(m) ==
    [m EXCEPT !.active = NoRequest, !.deferred = NoFact, !.awaiting = FALSE,
              !.invalidated = TRUE, !.transient = "None", !.owned = FALSE,
              !.contextKey = NoContext, !.epoch = @ + 1]

BeginBoundary ==
    /\ Event /\ loop' = "stopping"
    /\ UNCHANGED <<server, worker, job, fetched, running, result>>
    /\ UNCHANGED <<connected, context, selected, asked, metar>>

EndBoundary ==
    /\ loop = "stopping" /\ DropResult
    /\ loop' = "ready"
    /\ metar' \in {Interrupted(metar), Blank(metar.epoch + 1)}
    /\ UNCHANGED environment

-----------------------------------------------------------------------------
(* The pilot, the flight and time.                                         *)

CommitTextEntry(a) ==
    /\ Event /\ ~metar.suspended
    /\ metar' = [metar EXCEPT
                    !.lookupGeneration = @ + 1, !.lookup = a, !.awaiting = TRUE,
                    !.invalidated = FALSE, !.transient = "Pending", !.owned = TRUE,
                    !.lookupReport = IF @.airport = a THEN @ ELSE NoReport,
                    !.due = @ \ {"transient"}]
    /\ selected' = TRUE /\ asked' = server
    /\ UNCHANGED <<fetchVars, connected, context>>

SelectDrawer ==
    /\ Event /\ selected /\ selected' = FALSE
    /\ UNCHANGED <<fetchVars, connected, context, asked, metar>>

Disconnect ==
    /\ Event /\ connected /\ connected' = FALSE
    /\ UNCHANGED <<fetchVars, context, selected, asked, metar>>

Connect ==
    /\ loop = "ready" /\ ~connected /\ connected' = TRUE
    /\ UNCHANGED <<fetchVars, context, selected, asked, events, metar>>

SetContext ==
    /\ Event /\ context' \in Context \ {context}
    /\ UNCHANGED <<fetchVars, connected, selected, asked, metar>>

PublishReports == NewReports /\ UNCHANGED <<environment, metar>>

\* A deadline passes, seen by the next cycle.
Elapse(t) ==
    /\ loop = "ready" /\ t \notin metar.due
    /\ t = "transient" => metar.transient # "None"
    /\ t = "stale" => metar.report # NoReport
    /\ metar' = [metar EXCEPT !.due = @ \cup {t}]
    /\ UNCHANGED <<fetchVars, environment>>

Work == WorkerStep /\ UNCHANGED <<environment, metar>>

FlightLoop == Cycle \/ Join \/ Dispatch \/ DispatchNothing \/ EndBoundary

Next ==
    \/ FlightLoop \/ Work \/ BeginBoundary
    \/ SelectDrawer \/ Disconnect \/ Connect \/ SetContext
    \/ PublishReports \/ \E a \in Airports : CommitTextEntry(a)
    \/ \E t \in Timers : Elapse(t)

Spec == Init /\ [][Next]_vars

\* The simulator calls the flight loop and the system runs the thread again
\* and again, and what is shown until a deadline meets its deadline.
FairSpec ==
    /\ Spec
    /\ WF_vars(FlightLoop)
    /\ WF_vars(Work)
    /\ SF_vars(Elapse("transient"))

-----------------------------------------------------------------------------
(* Properties.                                                             *)

\* What a cycle shows of the flight's airport is true: there is a report,
\* of that airport, exactly when the state says so, and it is called fresh
\* only when the last fetch did not fail and cached only when it did.
PrimaryIsTrue ==
    /\ (metar.report # NoReport) <=> (metar.visible \in {"Fresh", "Cached", "Stale"})
    /\ metar.report # NoReport => metar.report.airport = metar.airport
    /\ metar.visible = "Fresh" => metar.health # "Failed"
    /\ metar.visible = "Cached" => metar.health # "Healthy"

\* A lookup that was told to have timed out, or that a boundary cut off, is not
\* shown when its answer comes after all. An answer that is there in the cycle
\* that finds the deadline passed is taken first, and shown.
LateAnswersAreNotShown == metar.invalidated => metar.transient \in {"None", "Failure"}

\* The report a lookup shows is of the airport the pilot asked for last, and
\* not older than the one there was when he asked.
SpotlightAnswersTheQuestion ==
    metar.transient = "Spotlight" =>
        /\ metar.lookupReport.airport = metar.lookup
        /\ metar.lookupReport.report >= asked

\* The report of an airport is never replaced by an older one while the
\* flight keeps the airport, if the server's own reports never go back: the
\* code compares no observation times.
ReportsNeverGoBack ==
    [][ /\ metar.report # NoReport /\ metar'.report # NoReport
        /\ metar.generation = metar'.generation /\ metar.epoch = metar'.epoch
        => metar'.report.report >= metar.report.report ]_vars

\* A fact the worker has published is dropped by a boundary only; otherwise
\* the loop takes it.
NoFactIsLost ==
    [][ result # NoFact /\ result' # result =>
            \/ loop = "ready" /\ metar.active = result.request /\ metar'.active = NoRequest
            \/ loop = "stopping" ]_vars

\* A lookup that waits is answered, times out or is dropped, unless xPilot is
\* not connected.
LookupIsAnswered ==
    (metar.transient = "Pending" /\ connected) ~> (metar.transient # "Pending" \/ ~connected)

\* The flight's airport does not stay pending.
PrimaryIsResolved ==
    (metar.visible = "Pending" /\ connected) ~> (metar.visible # "Pending" \/ ~connected)

=============================================================================
