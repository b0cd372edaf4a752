------------------------- MODULE MetarRuntimeProofs -------------------------
(***************************************************************************)
(* For any airports, flights, lookups and boundaries: what the Brain shows *)
(* of a report is true, late answers are not shown, no fact is lost, and   *)
(* the runtime calls the client only as MetarFetch allows.                 *)
(***************************************************************************)
EXTENDS MetarRuntime, TLAPS

-----------------------------------------------------------------------------
(* The inductive invariant                                                 *)

\* What the state m shows; each conjunct is one of the properties, for m.
PrimaryTrue(m) ==
    /\ (m.report # NoReport) <=> (m.visible \in {"Fresh", "Cached", "Stale"})
    /\ m.report # NoReport => m.report.airport = m.airport
    /\ m.visible = "Fresh" => m.health # "Failed"
    /\ m.visible = "Cached" => m.health # "Healthy"

NotLate(m) == m.invalidated => m.transient \in {"None", "Failure"}

SpotlightRight(m) ==
    m.transient = "Spotlight" =>
        m.lookupReport.airport = m.lookup /\ m.lookupReport.report >= asked

\* No report is newer than the server's.
Published(m) == m.report # NoReport => m.report.report <= server

\* The airport is the one wanted when the context was last looked at.
AirportOfContext(m) ==
    m.contextKey # NoContext =>
        \/ m.airport = m.contextKey.airport
        \/ m.contextKey.vfr /\ m.latched /\ m.airport # NoAirport

Sound(m) == /\ m \in Metar
            /\ PrimaryTrue(m) /\ SpotlightRight(m)
            /\ Published(m) /\ AirportOfContext(m)

Shows(m) == Sound(m) /\ NotLate(m)

\* A request was made in this epoch, for a lookup and an airport the pilot and
\* the flight have had.
OfNow(m, request) ==
    /\ request.epoch = m.epoch
    /\ request.generation <= m.generation
    /\ request.lookupGeneration <= m.lookupGeneration

\* The answer to the current lookup is not older than its question, and the
\* answer for the current airport not older than the report there is.
Recent(m, request, report) ==
    /\ report <= server
    /\ report # 0 =>
        /\ request.purpose = "lookup" /\ request.lookupGeneration = m.lookupGeneration
               => report >= asked
        /\ request.purpose = "primary" /\ request.generation = m.generation
           /\ m.report # NoReport
               => report >= m.report.report

\* There is one request, in one place: the thread has it, or its fact waits
\* for the harvest, or its fact was put aside while xPilot was disconnected.
OneRequest ==
    /\ running <=> worker # "none"
    /\ job # NoRequest <=> worker \in {"fetching", "publishing"}
    /\ job # NoRequest => metar.active = job /\ result = NoFact
    /\ result # NoFact => metar.active = result.request
    /\ metar.deferred # NoFact => metar.suspended /\ metar.active = NoRequest

AnswersAreRecent ==
    /\ metar.active # NoRequest => OfNow(metar, metar.active)
    /\ metar.deferred # NoFact => OfNow(metar, metar.deferred.request)
    /\ worker = "publishing" => Recent(metar, job, fetched)
    /\ result # NoFact => Recent(metar, result.request, result.report)
    /\ metar.deferred # NoFact => Recent(metar, metar.deferred.request, metar.deferred.report)

\* Lookups, changes of the airport and boundaries are events.
Counted ==
    /\ asked <= server /\ events <= MaxEvents
    /\ metar.epoch >= 1 /\ metar.epoch <= IF loop = "stopping" THEN events ELSE events + 1
    /\ metar.lookupGeneration <= events
    /\ metar.generation <=
           IF loop = "stopping" \/ metar.contextKey # context THEN events ELSE events + 1

\* A fact that was put aside has been committed when the loop may start a fetch.
NothingAside ==
    loop = "dispatch" \/ (loop = "joining" /\ connected) => metar.deferred = NoFact

RuntimeInv ==
    /\ TypeOK /\ Shows(metar)
    /\ OneRequest /\ AnswersAreRecent /\ Counted /\ NothingAside

-----------------------------------------------------------------------------
(* What a step of the cycle makes of the state                             *)

\* The two states are of the same requests, airport and lookup.
Same(m, n) ==
    /\ n.epoch = m.epoch /\ n.suspended = m.suspended /\ n.contextKey = m.contextKey
    /\ n.active = m.active /\ n.deferred = m.deferred
    /\ n.airport = m.airport /\ n.generation = m.generation /\ n.latched = m.latched
    /\ n.lookup = m.lookup /\ n.lookupGeneration = m.lookupGeneration

SameReport(m, n) == Same(m, n) /\ n.report = m.report

LEMMA MetarFields ==
    ASSUME NEW m \in Metar
    PROVE  /\ m.epoch \in Nat /\ m.generation \in Nat /\ m.lookupGeneration \in Nat
           /\ m.contextKey \in Context \cup {NoContext}
           /\ m.active \in Request \cup {NoRequest} /\ m.deferred \in Fact \cup {NoFact}
           /\ m.airport \in Airports \cup {NoAirport}
           /\ m.lookup \in Airports \cup {NoAirport}
           /\ m.report \in Report \cup {NoReport}
           /\ m.lookupReport \in Report \cup {NoReport}
           /\ m.due \in SUBSET Timers
           /\ m.health \in {"Unknown", "Pending", "Healthy", "Failed"}
           /\ m.visible \in {"Unknown", "Pending", "Fresh", "Cached", "Stale", "Unavailable"}
           /\ m.transient \in {"None", "Pending", "Spotlight", "Failure"}
           /\ m.suspended \in BOOLEAN /\ m.latched \in BOOLEAN /\ m.awaiting \in BOOLEAN
           /\ m.invalidated \in BOOLEAN /\ m.owned \in BOOLEAN
  BY DEF Metar

LEMMA EndSpotlightShows ==
    ASSUME NEW m, Sound(m)
    PROVE  LET n == EndSpotlight(m)
           IN  /\ Sound(n) /\ SameReport(m, n)
               /\ NotLate(m) => NotLate(n)
               /\ n.transient \in {m.transient, "None"} /\ n.transient # "Spotlight"
<1> DEFINE n == [m EXCEPT !.transient = "None", !.owned = FALSE]
<1>1. n \in Metar
  BY ZenonT(60) DEF Sound, Metar
<1>2. /\ SameReport(m, n) /\ n.transient = "None" /\ n.visible = m.visible
      /\ n.health = m.health
  BY DEF Sound, Metar, SameReport, Same
<1>3. Sound(n) /\ NotLate(n)
  BY <1>1, <1>2 DEF Sound, PrimaryTrue, NotLate, SpotlightRight, Published,
     AirportOfContext, SameReport, Same
<1> QED
  BY <1>2, <1>3 DEF EndSpotlight, SameReport, Same

LEMMA PresentShows ==
    ASSUME NEW m, Sound(m), NEW t \in {"Spotlight", "Failure"},
           t = "Spotlight" => /\ ~m.invalidated /\ m.lookupReport.airport = m.lookup
                              /\ m.lookupReport.report >= asked
    PROVE  Shows(Present(m, t)) /\ SameReport(m, Present(m, t))
<1> DEFINE shown == [m EXCEPT !.transient = t, !.due = @ \ {"transient"}]
           ended == [m EXCEPT !.transient = "None", !.owned = FALSE]
<1>1. m.due \ {"transient"} \in SUBSET Timers
  BY MetarFields DEF Sound
<1>2. shown \in Metar
  BY <1>1, ZenonT(60) DEF Sound, Metar
<1>3. ended \in Metar
  BY ZenonT(60) DEF Sound, Metar
<1>4. /\ SameReport(m, shown) /\ shown.visible = m.visible /\ shown.health = m.health
      /\ shown.transient = t /\ shown.lookupReport = m.lookupReport
      /\ shown.invalidated = m.invalidated
  BY DEF Sound, Metar, SameReport, Same
<1>5. /\ SameReport(m, ended) /\ ended.visible = m.visible /\ ended.health = m.health
      /\ ended.transient = "None"
  BY DEF Sound, Metar, SameReport, Same
<1>6. Shows(shown)
  BY <1>2, <1>4 DEF Shows, Sound, PrimaryTrue, NotLate, SpotlightRight, Published,
     AirportOfContext, SameReport, Same
<1>7. Shows(ended)
  BY <1>3, <1>5 DEF Shows, Sound, PrimaryTrue, NotLate, SpotlightRight, Published,
     AirportOfContext, SameReport, Same
<1> QED
  BY <1>4, <1>5, <1>6, <1>7 DEF Present

LEMMA LookupFailureShows ==
    ASSUME NEW m, Sound(m)
    PROVE  Shows(LookupFailure(m)) /\ SameReport(m, LookupFailure(m))
<1> DEFINE n == [m EXCEPT !.awaiting = FALSE]
<1>1. n \in Metar
  BY ZenonT(60) DEF Sound, Metar
<1>2. /\ SameReport(m, n) /\ n.visible = m.visible /\ n.health = m.health
      /\ n.transient = m.transient /\ n.lookupReport = m.lookupReport
  BY DEF Sound, Metar, SameReport, Same
<1>3. Sound(n)
  BY <1>1, <1>2 DEF Sound, PrimaryTrue, SpotlightRight, Published,
     AirportOfContext, SameReport, Same
<1> HIDE DEF n
<1>4. Shows(Present(n, "Failure")) /\ SameReport(n, Present(n, "Failure"))
  BY <1>3, PresentShows
<1> QED
  BY <1>2, <1>4 DEF LookupFailure, n, SameReport, Same

LEMMA DropLostShows ==
    ASSUME NEW m, Shows(m)
    PROVE  Shows(DropLostPresentation(m)) /\ SameReport(m, DropLostPresentation(m))
<1> DEFINE n == [m EXCEPT !.owned = FALSE, !.transient = "None"]
<1>1. n \in Metar
  BY ZenonT(60) DEF Shows, Sound, Metar
<1>2. /\ SameReport(m, n) /\ n.transient = "None" /\ n.visible = m.visible
      /\ n.health = m.health
  BY DEF Shows, Sound, Metar, SameReport, Same
<1>3. Shows(n)
  BY <1>1, <1>2 DEF Shows, Sound, PrimaryTrue, NotLate, SpotlightRight, Published,
     AirportOfContext, SameReport, Same
<1> QED
  BY <1>2, <1>3 DEF DropLostPresentation, SameReport, Same

\* Another airport: its number is new, and nothing is known of it yet.
Retargeted(m, n) ==
    /\ n.epoch = m.epoch /\ n.active = m.active /\ n.deferred = m.deferred
    /\ n.lookup = m.lookup /\ n.lookupGeneration = m.lookupGeneration
    /\ \/ n.generation = m.generation /\ n.report = m.report /\ n.airport = m.airport
       \/ n.generation = m.generation + 1 /\ n.report = NoReport

\* The state with another airport, and with the context that asked for it.
NewTarget(m, target, latches, key) ==
    [[EndSpotlight(m) EXCEPT
         !.airport = target, !.latched = latches, !.generation = @ + 1,
         !.report = NoReport, !.due = @ \cup {"primary", "stale"},
         !.health = IF target = NoAirport THEN "Unknown" ELSE "Pending",
         !.visible = IF target = NoAirport THEN "Unavailable" ELSE "Pending"]
     EXCEPT !.contextKey = key, !.suspended = FALSE]

LEMMA NewTargetShows ==
    ASSUME NEW m, Shows(m), NEW target \in Airports \cup {NoAirport}, NEW latches \in BOOLEAN,
           NEW key \in Context \cup {NoContext},
           key # NoContext => target = key.airport
    PROVE  LET k == NewTarget(m, target, latches, key)
           IN  /\ Shows(k) /\ Retargeted(m, k) /\ k.generation = m.generation + 1
               /\ k.contextKey = key /\ ~k.suspended
<1> DEFINE s == EndSpotlight(m)
           health == IF target = NoAirport THEN "Unknown" ELSE "Pending"
           visible == IF target = NoAirport THEN "Unavailable" ELSE "Pending"
           due == s.due \cup {"primary", "stale"}
           generation == s.generation + 1
           n == [s EXCEPT !.airport = target, !.latched = latches, !.generation = generation,
                          !.report = NoReport, !.due = due, !.health = health,
                          !.visible = visible]
           k == [n EXCEPT !.contextKey = key, !.suspended = FALSE]
<1>1. Shows(s) /\ SameReport(m, s) /\ s.transient # "Spotlight"
  BY EndSpotlightShows DEF Shows
<1> HIDE DEF s
<1>2. due \in SUBSET Timers /\ generation \in Nat /\ generation = m.generation + 1
  BY <1>1, MetarFields DEF Shows, Sound, Timers, SameReport, Same
<1>3. /\ health \in {"Unknown", "Pending"} /\ visible \in {"Unavailable", "Pending"}
      /\ health \in {"Unknown", "Pending", "Healthy", "Failed"}
      /\ visible \in {"Unknown", "Pending", "Fresh", "Cached", "Stale", "Unavailable"}
      /\ NoReport \in Report \cup {NoReport}
  OBVIOUS
<1> HIDE DEF health, visible, due, generation
<1>4. n \in Metar
  <2> DEFINE a == [s EXCEPT !.airport = target, !.latched = latches,
                            !.generation = generation, !.report = NoReport, !.due = due]
  <2>1. s \in Metar
    BY <1>1 DEF Shows, Sound
  <2>2. a \in Metar
    BY <2>1, <1>2, ZenonT(60) DEF Metar
  <2>3. n = [a EXCEPT !.health = health, !.visible = visible]
    OBVIOUS
  <2> HIDE DEF a, n
  <2>4. [a EXCEPT !.health = health, !.visible = visible] \in Metar
    BY <2>2, <1>3, ZenonT(60) DEF Metar
  <2> QED
    BY <2>3, <2>4
<1>5. /\ n.airport = target /\ n.generation = generation /\ n.report = NoReport
      /\ n.health = health /\ n.visible = visible /\ n.latched = latches
      /\ n.epoch = s.epoch /\ n.active = s.active /\ n.deferred = s.deferred
      /\ n.lookup = s.lookup /\ n.lookupGeneration = s.lookupGeneration
      /\ n.invalidated = s.invalidated /\ n.transient = s.transient
  BY <1>1 DEF Shows, Sound, Metar
<1> HIDE DEF n
<1>6. k \in Metar
  BY <1>4, ZenonT(60) DEF Metar
<1>7. /\ k.airport = target /\ k.generation = generation /\ k.report = NoReport
      /\ k.health = health /\ k.visible = visible /\ k.contextKey = key /\ k.suspended = FALSE
      /\ k.epoch = s.epoch /\ k.active = s.active /\ k.deferred = s.deferred
      /\ k.lookup = s.lookup /\ k.lookupGeneration = s.lookupGeneration
      /\ k.invalidated = s.invalidated /\ k.transient = s.transient
  BY <1>4, <1>5 DEF Metar
<1> HIDE DEF k
<1>8. Retargeted(m, k) /\ k.generation = m.generation + 1
  BY <1>1, <1>2, <1>7 DEF Retargeted, SameReport, Same
<1>9. PrimaryTrue(k) /\ NotLate(k) /\ SpotlightRight(k) /\ Published(k) /\ AirportOfContext(k)
  BY <1>1, <1>3, <1>7 DEF Shows, PrimaryTrue, NotLate, SpotlightRight, Published,
     AirportOfContext
<1> QED
  BY <1>6, <1>7, <1>8, <1>9 DEF Shows, Sound, NewTarget, k, n, health, visible,
       due, generation, s

\* A cycle looks at the flight's context: either the airport stays, or it is
\* the one the flight wants and the report before is gone.
LEMMA RetargetShows ==
    ASSUME NEW m, Shows(m), context \in Context
    PROVE  LET n == Retarget(m)
           IN  /\ Shows(n) /\ Retargeted(m, n)
               /\ n.contextKey = context /\ ~n.suspended
               /\ m.contextKey = context => n.generation = m.generation
<1> DEFINE n == Retarget(m)
           target == Target(m)
           latches == context.vfr /\ target # NoAirport
           s == SetTarget(m, target)
<1>1. context # NoContext /\ context.vfr \in BOOLEAN
      /\ context.airport \in Airports \cup {NoAirport}
  BY RuntimeAssumption
<1>2. m \in Metar
  BY DEF Shows, Sound
<1>3. target \in Airports \cup {NoAirport} /\ latches \in BOOLEAN
  BY <1>1, <1>2, MetarFields DEF Target
<1>4. CASE m.contextKey = context /\ ~m.suspended
  BY <1>4 DEF Retarget, Retargeted
<1>5. CASE ~(m.contextKey = context /\ ~m.suspended) /\ m.airport = target
  <2> DEFINE latched == m.latched \/ latches
             a == [m EXCEPT !.latched = latched]
             k == [a EXCEPT !.contextKey = context, !.suspended = FALSE]
  <2>1. latched \in BOOLEAN
    OBVIOUS
  <2>2. n = k
    BY <1>5 DEF Retarget, SetTarget
  <2>3. AirportOfContext(m)
    BY DEF Shows, Sound
  <2>4. \/ m.airport = context.airport
        \/ context.vfr /\ latched /\ m.airport # NoAirport
    BY <1>5 DEF Target
  <2> HIDE DEF latched
  <2>5. a \in Metar
    BY <1>2, <2>1, ZenonT(60) DEF Metar
  <2>6. /\ a.latched = latched
        /\ a.airport = m.airport /\ a.generation = m.generation /\ a.report = m.report
        /\ a.epoch = m.epoch /\ a.active = m.active /\ a.deferred = m.deferred
        /\ a.lookup = m.lookup /\ a.lookupGeneration = m.lookupGeneration
        /\ a.transient = m.transient /\ a.invalidated = m.invalidated
        /\ a.visible = m.visible /\ a.health = m.health /\ a.lookupReport = m.lookupReport
    BY <1>2 DEF Metar
  <2> HIDE DEF a
  <2>7. k \in Metar
    BY <1>1, <2>5, ZenonT(60) DEF Metar
  <2>8. /\ k.contextKey = context /\ k.suspended = FALSE /\ k.latched = latched
        /\ k.airport = m.airport /\ k.generation = m.generation /\ k.report = m.report
        /\ k.epoch = m.epoch /\ k.active = m.active /\ k.deferred = m.deferred
        /\ k.lookup = m.lookup /\ k.lookupGeneration = m.lookupGeneration
        /\ k.transient = m.transient /\ k.invalidated = m.invalidated
        /\ k.visible = m.visible /\ k.health = m.health /\ k.lookupReport = m.lookupReport
    BY <2>5, <2>6 DEF Metar
  <2> HIDE DEF k
  <2>9. Shows(k) /\ Retargeted(m, k)
    BY <2>4, <2>7, <2>8 DEF Shows, Sound, PrimaryTrue, NotLate, SpotlightRight,
         Published, AirportOfContext, Retargeted
  <2> QED
    BY <2>2, <2>8, <2>9
<1>6. CASE ~(m.contextKey = context /\ ~m.suspended) /\ m.airport # target
  <2>1. target = context.airport /\ m.contextKey # context
    BY <1>1, <1>6 DEF Target, Shows, Sound, AirportOfContext
  <2>2. n = NewTarget(m, target, latches, context)
    BY <1>6 DEF Retarget, SetTarget, NewTarget
  <2>3. context \in Context \cup {NoContext} /\ (context # NoContext => target = context.airport)
    BY <2>1
  <2> HIDE DEF n, target, latches
  <2>4. Shows(n) /\ Retargeted(m, n) /\ n.contextKey = context /\ ~n.suspended
    BY <1>3, <2>2, <2>3, NewTargetShows, Zenon
  <2> QED
    BY <2>1, <2>4 DEF n
<1> QED
  BY <1>4, <1>5, <1>6

-----------------------------------------------------------------------------
(* What a fact makes of the state                                          *)

\* The report stays, or a report that is not older takes its place.
ReportGrows(m, n) ==
    \/ n.report = m.report
    \/ n.report # NoReport /\ (m.report # NoReport => n.report.report >= m.report.report)

LEMMA PrimaryFailureShows ==
    ASSUME NEW m, Shows(m)
    PROVE  Shows(PrimaryFailure(m)) /\ SameReport(m, PrimaryFailure(m))
<1> DEFINE visible == IF m.report = NoReport THEN "Unavailable"
                      ELSE IF "stale" \in m.due THEN "Stale" ELSE "Cached"
           due == m.due \ {"primary"}
           failed == [m EXCEPT !.health = "Failed", !.due = due, !.visible = visible]
<1>1. m \in Metar
  BY DEF Shows, Sound
<1>2. /\ visible \in {"Unknown", "Pending", "Fresh", "Cached", "Stale", "Unavailable"}
      /\ visible \in {"Cached", "Stale", "Unavailable"}
      /\ visible = "Unavailable" <=> m.report = NoReport
  OBVIOUS
<1>3. due \in SUBSET Timers
  BY <1>1, MetarFields
<1> HIDE DEF visible, due
<1>4. failed \in Metar
  BY <1>1, <1>2, <1>3, ZenonT(60) DEF Metar
<1>5. /\ SameReport(m, failed) /\ failed.visible = visible /\ failed.health = "Failed"
      /\ failed.transient = m.transient /\ failed.lookupReport = m.lookupReport
      /\ failed.invalidated = m.invalidated
  BY <1>1 DEF Metar, SameReport, Same
<1>6. Shows(failed)
  BY <1>2, <1>4, <1>5 DEF Shows, Sound, PrimaryTrue, NotLate, SpotlightRight, Published,
     AirportOfContext, SameReport, Same
<1>7. PrimaryFailure(m) \in {failed, EndSpotlight(failed)}
  BY DEF PrimaryFailure, failed, due, visible
<1> HIDE DEF failed
<1>8. Shows(EndSpotlight(failed)) /\ SameReport(failed, EndSpotlight(failed))
  BY <1>6, EndSpotlightShows DEF Shows
<1>9. SameReport(m, EndSpotlight(failed))
  BY <1>5, <1>8 DEF SameReport, Same
<1> QED
  BY <1>5, <1>6, <1>7, <1>8, <1>9

\* A report of the airport, not newer than the server's.
LEMMA AcceptPrimaryShows ==
    ASSUME NEW m, Shows(m), NEW report \in Report, NEW isOld \in BOOLEAN,
           report.airport = m.airport, report.report <= server
    PROVE  LET n == AcceptPrimary(m, report, isOld)
           IN  Shows(n) /\ Same(m, n) /\ n.report = report
<1> DEFINE due == m.due \ {"primary"}
           healthy == [m EXCEPT !.health = "Healthy", !.due = due]
           visible == IF "stale" \in m.due THEN "Stale" ELSE "Fresh"
           seen == [healthy EXCEPT !.visible = visible]
           visibleNew == IF isOld THEN "Stale" ELSE "Fresh"
           dueNew == IF isOld THEN due \cup {"stale"} ELSE due \ {"stale"}
           new == [healthy EXCEPT !.report = report, !.visible = visibleNew, !.due = dueNew]
<1>1. m \in Metar /\ report # NoReport
  BY RuntimeAssumption DEF Shows, Sound, Report, NoReport
<1>2. /\ visible \in {"Unknown", "Pending", "Fresh", "Cached", "Stale", "Unavailable"}
      /\ visibleNew \in {"Unknown", "Pending", "Fresh", "Cached", "Stale", "Unavailable"}
      /\ visible \in {"Fresh", "Stale"} /\ visibleNew \in {"Fresh", "Stale"}
  OBVIOUS
<1>3. due \in SUBSET Timers /\ dueNew \in SUBSET Timers
  BY <1>1, MetarFields DEF Timers
<1> HIDE DEF visible, visibleNew, due, dueNew
<1>4. healthy \in Metar
  BY <1>1, <1>3, ZenonT(60) DEF Metar
<1>5. /\ SameReport(m, healthy) /\ healthy.visible = m.visible /\ healthy.health = "Healthy"
      /\ healthy.transient = m.transient /\ healthy.lookupReport = m.lookupReport
      /\ healthy.invalidated = m.invalidated /\ healthy.due = due
  BY <1>1 DEF Metar, SameReport, Same
<1> HIDE DEF healthy
<1>6. seen \in Metar
  BY <1>2, <1>4, ZenonT(60) DEF Metar
<1>7. /\ SameReport(healthy, seen) /\ seen.visible = visible /\ seen.health = "Healthy"
      /\ seen.transient = m.transient /\ seen.lookupReport = m.lookupReport
      /\ seen.invalidated = m.invalidated
  BY <1>4, <1>5 DEF Metar, SameReport, Same
<1> HIDE DEF seen
<1>8. new \in Metar
  <2>1. report \in Report \cup {NoReport}
    OBVIOUS
  <2> QED
    BY <1>2, <1>3, <1>4, <2>1, ZenonT(60) DEF Metar
<1>9. /\ Same(healthy, new) /\ new.report = report /\ new.visible = visibleNew
      /\ new.health = "Healthy" /\ new.transient = m.transient
      /\ new.lookupReport = m.lookupReport /\ new.invalidated = m.invalidated
  BY <1>4, <1>5 DEF Metar, Same
<1>10. AcceptPrimary(m, report, isOld) =
           IF m.report = report
           THEN IF visible = m.visible THEN healthy ELSE EndSpotlight(seen)
           ELSE EndSpotlight(new)
  BY <1>5 DEF AcceptPrimary, healthy, seen, visible, due, new, visibleNew, dueNew
<1> HIDE DEF new
<1>11. CASE m.report # report
  <2>1. Shows(new)
    BY <1>1, <1>2, <1>5, <1>8, <1>9 DEF Shows, Sound, PrimaryTrue, NotLate,
         SpotlightRight, Published, AirportOfContext, SameReport, Same
  <2>2. Shows(EndSpotlight(new)) /\ SameReport(new, EndSpotlight(new))
    BY <2>1, EndSpotlightShows DEF Shows
  <2> QED
    BY <1>5, <1>9, <1>10, <1>11, <2>2 DEF SameReport, Same
<1>12. CASE m.report = report /\ visible = m.visible
  <2>1. Shows(healthy)
    BY <1>1, <1>2, <1>4, <1>5, <1>12 DEF Shows, Sound, PrimaryTrue, NotLate,
         SpotlightRight, Published, AirportOfContext, SameReport, Same
  <2> QED
    BY <1>5, <1>10, <1>12, <2>1 DEF SameReport
<1>13. CASE m.report = report /\ visible # m.visible
  <2>1. Shows(seen)
    BY <1>1, <1>2, <1>5, <1>6, <1>7, <1>13 DEF Shows, Sound, PrimaryTrue, NotLate,
       SpotlightRight, Published, AirportOfContext, SameReport, Same
  <2>2. Shows(EndSpotlight(seen)) /\ SameReport(seen, EndSpotlight(seen))
    BY <2>1, EndSpotlightShows DEF Shows
  <2> QED
    BY <1>5, <1>7, <1>10, <1>13, <2>2 DEF SameReport, Same
<1> QED
  BY <1>11, <1>12, <1>13

LEMMA AcceptLookupShows ==
    ASSUME NEW m, Shows(m), NEW report \in Report, ~m.invalidated,
           report.airport = m.lookup, report.report >= asked
    PROVE  Shows(AcceptLookup(m, report)) /\ SameReport(m, AcceptLookup(m, report))
<1> DEFINE n == [m EXCEPT !.lookupReport = report, !.awaiting = FALSE]
<1>1. m \in Metar /\ report \in Report \cup {NoReport}
  BY DEF Shows, Sound
<1>2. n \in Metar
  BY <1>1, ZenonT(60) DEF Metar
<1>3. /\ SameReport(m, n) /\ n.visible = m.visible /\ n.health = m.health
      /\ n.transient = m.transient /\ n.lookupReport = report
      /\ n.invalidated = m.invalidated
  BY <1>1 DEF Metar, SameReport, Same
<1>4. Sound(n)
  BY <1>2, <1>3 DEF Shows, Sound, PrimaryTrue, SpotlightRight, Published,
     AirportOfContext, SameReport, Same
<1> HIDE DEF n
<1>5. Shows(Present(n, "Spotlight")) /\ SameReport(n, Present(n, "Spotlight"))
  BY <1>3, <1>4, PresentShows DEF SameReport, Same
<1> QED
  BY <1>3, <1>5 DEF AcceptLookup, n, SameReport, Same

\* A fact is committed to the request, the airport and the lookup it is for,
\* and what it changes is true.
LEMMA CommitShows ==
    ASSUME NEW m, Shows(m), NEW fact \in Fact, NEW isOld \in BOOLEAN,
           Recent(m, fact.request, fact.report)
    PROVE  LET n == Commit(m, fact, isOld)
           IN  Shows(n) /\ Same(m, n) /\ ReportGrows(m, n)
<1> DEFINE request == fact.request
           report == [airport |-> request.airport, report |-> fact.report]
<1>1. request \in Requests(MaxEvents) /\ fact.report \in Nat
  BY RuntimeAssumption DEF Fact
<1>2. request.airport \in Airports /\ request.purpose \in {"primary", "lookup"}
  BY <1>1 DEF Requests
<1>3. fact.report # 0 => report \in Report
  BY <1>1, <1>2 DEF Report
<1>4. report.airport = request.airport /\ report.report = fact.report
  OBVIOUS
<1> HIDE DEF report
<1>5. CASE ~MatchesCurrent(m, request)
  BY <1>5 DEF Commit, Same, ReportGrows
<1>6. CASE MatchesCurrent(m, request) /\ request.purpose = "lookup"
  <2>1. ~m.invalidated /\ request.lookupGeneration = m.lookupGeneration
        /\ request.airport = m.lookup
    BY <1>6 DEF MatchesCurrent, LookupMatches
  <2>2. CASE fact.report = 0
    <3>1. Commit(m, fact, isOld) = LookupFailure(m)
      BY <1>6, <2>2 DEF Commit
    <3> QED
      BY <3>1, LookupFailureShows DEF Shows, SameReport, ReportGrows
  <2>3. CASE fact.report # 0
    <3>1. Commit(m, fact, isOld) = AcceptLookup(m, report)
      BY <1>6, <2>3 DEF Commit, report
    <3>2. report.report >= asked
      BY <1>4, <1>6, <2>1, <2>3 DEF Recent
    <3>3. Shows(AcceptLookup(m, report)) /\ SameReport(m, AcceptLookup(m, report))
      BY <1>3, <1>4, <2>1, <2>3, <3>2, AcceptLookupShows
    <3> QED
      BY <3>1, <3>3 DEF SameReport, ReportGrows
  <2> QED
    BY <2>2, <2>3
<1>7. CASE MatchesCurrent(m, request) /\ request.purpose = "primary"
  <2>1. request.generation = m.generation /\ request.airport = m.airport
    BY <1>7 DEF MatchesCurrent
  <2>2. CASE fact.report = 0
    <3>1. Commit(m, fact, isOld) = PrimaryFailure(m)
      BY <1>7, <2>2 DEF Commit
    <3> QED
      BY <3>1, PrimaryFailureShows DEF SameReport, ReportGrows
  <2>3. CASE fact.report # 0
    <3>1. Commit(m, fact, isOld) = AcceptPrimary(m, report, isOld)
      BY <1>7, <2>3 DEF Commit, report
    <3>2. report.report <= server /\ (m.report # NoReport => report.report >= m.report.report)
      BY <1>4, <1>7, <2>1, <2>3 DEF Recent
    <3>3. /\ Shows(AcceptPrimary(m, report, isOld)) /\ Same(m, AcceptPrimary(m, report, isOld))
          /\ AcceptPrimary(m, report, isOld).report = report
      BY <1>3, <1>4, <2>1, <2>3, <3>2, AcceptPrimaryShows
    <3>4. report # NoReport
      BY <1>3, <2>3, RuntimeAssumption DEF Report, NoReport
    <3> QED
      BY <3>1, <3>2, <3>3, <3>4 DEF ReportGrows
  <2> QED
    BY <2>2, <2>3
<1> QED
  BY <1>2, <1>5, <1>6, <1>7

-----------------------------------------------------------------------------
(* A cycle                                                                 *)

LEMMA ExpireShows ==
    ASSUME NEW m, Shows(m)
    PROVE  Shows(ExpireTransient(m)) /\ SameReport(m, ExpireTransient(m))
<1> DEFINE late == [m EXCEPT !.invalidated = TRUE]
           over == [m EXCEPT !.transient = "None", !.owned = FALSE]
<1>1. m \in Metar
  BY DEF Shows, Sound
<1>2. late \in Metar /\ over \in Metar
  <2>1. late \in Metar
    BY <1>1, ZenonT(60) DEF Metar
  <2>2. over \in Metar
    BY <1>1, ZenonT(60) DEF Metar
  <2> QED
    BY <2>1, <2>2
<1>3. /\ SameReport(m, late) /\ late.visible = m.visible /\ late.health = m.health
      /\ late.transient = m.transient /\ late.lookupReport = m.lookupReport
  BY <1>1 DEF Metar, SameReport, Same
<1>4. /\ SameReport(m, over) /\ over.visible = m.visible /\ over.health = m.health
      /\ over.transient = "None"
  BY <1>1 DEF Metar, SameReport, Same
<1>5. Sound(late) /\ Shows(over)
  BY <1>2, <1>3, <1>4 DEF Shows, Sound, PrimaryTrue, NotLate, SpotlightRight, Published,
     AirportOfContext, SameReport, Same
<1>6. ExpireTransient(m) \in {m, LookupFailure(late), over}
  BY DEF ExpireTransient, late, over
<1> HIDE DEF late, over
<1>7. Shows(LookupFailure(late)) /\ SameReport(late, LookupFailure(late))
  BY <1>5, LookupFailureShows
<1>8. SameReport(m, m) /\ SameReport(m, LookupFailure(late))
  BY <1>3, <1>7 DEF SameReport, Same
<1> QED
  BY <1>4, <1>5, <1>6, <1>7, <1>8

LEMMA BecomeStaleShows ==
    ASSUME NEW m, Shows(m)
    PROVE  Shows(BecomeStale(m)) /\ SameReport(m, BecomeStale(m))
<1> DEFINE stale == [m EXCEPT !.visible = "Stale"]
<1>1. m \in Metar
  BY DEF Shows, Sound
<1>2. stale \in Metar
  BY <1>1, ZenonT(60) DEF Metar
<1>3. /\ SameReport(m, stale) /\ stale.visible = "Stale" /\ stale.health = m.health
      /\ stale.transient = m.transient /\ stale.lookupReport = m.lookupReport
      /\ stale.invalidated = m.invalidated
  BY <1>1 DEF Metar, SameReport, Same
<1>4. CASE m.report # NoReport /\ m.visible # "Stale" /\ "stale" \in m.due
  <2>1. Shows(stale)
    BY <1>2, <1>3, <1>4 DEF Shows, Sound, PrimaryTrue, NotLate, SpotlightRight,
         Published, AirportOfContext, SameReport, Same
  <2>2. BecomeStale(m) = EndSpotlight(stale)
    BY <1>4 DEF BecomeStale
  <2> HIDE DEF stale
  <2>3. Shows(EndSpotlight(stale)) /\ SameReport(stale, EndSpotlight(stale))
    BY <2>1, EndSpotlightShows DEF Shows
  <2> QED
    BY <1>3, <2>2, <2>3 DEF SameReport, Same
<1>5. CASE ~(m.report # NoReport /\ m.visible # "Stale" /\ "stale" \in m.due)
  <2>1. BecomeStale(m) = m
    BY <1>5 DEF BecomeStale
  <2> QED
    BY <2>1 DEF SameReport, Same
<1> QED
  BY <1>4, <1>5

\* What a fact has to be to be committed to a state, now or by the next cycle.
Answers(m, fact) ==
    fact \in Fact /\ OfNow(m, fact.request) /\ Recent(m, fact.request, fact.report)

\* An answer stays one when the airport changes: its request is not for the new one.
LEMMA RetargetedAnswers ==
    ASSUME NEW m \in Metar, NEW n \in Metar, Retargeted(m, n), NEW request \in Request,
           OfNow(m, request)
    PROVE  /\ OfNow(n, request)
           /\ \A report \in Nat : Recent(m, request, report) => Recent(n, request, report)
<1>1. request.generation \in Nat /\ m.generation \in Nat
  BY RuntimeAssumption, MetarFields DEF Requests
<1> QED
  BY <1>1 DEF Retargeted, OfNow, Recent

\* The state after a cycle, of what was before.
Moved(m, n) ==
    /\ n.epoch = m.epoch /\ n.active = m.active
    /\ n.lookup = m.lookup /\ n.lookupGeneration = m.lookupGeneration
    /\ \/ n.generation = m.generation /\ n.airport = m.airport /\ ReportGrows(m, n)
       \/ n.generation = m.generation + 1

LEMMA SettledShows ==
    ASSUME NEW m, Shows(m), context \in Context, NEW fact \in Fact \cup {NoFact},
           NEW isOld \in BOOLEAN,
           fact # NoFact => Answers(m, fact),
           m.deferred # NoFact => Answers(m, m.deferred) /\ metar.suspended,
           fact = NoFact \/ m.deferred = NoFact
    PROVE  LET n == Settled(m, fact, isOld)
           IN  /\ Shows(n) /\ Moved(m, n)
               /\ n.deferred = NoFact /\ n.contextKey = context /\ ~n.suspended
               /\ m.contextKey = context => n.generation = m.generation
               /\ fact = NoFact /\ m.deferred = NoFact /\ n.generation = m.generation
                      => n.report = m.report
<1> DEFINE a == Retarget(m)
           b == CommitHarvested(a, fact, isOld)
           c == CommitDeferred(b, isOld)
           d == DropLostPresentation(c)
           e == ExpireTransient(d)
           n == BecomeStale(e)
<1>1. Settled(m, fact, isOld) = n
  BY DEF Settled
<1>2. /\ Shows(a) /\ Retargeted(m, a) /\ a.contextKey = context /\ ~a.suspended
      /\ m.contextKey = context => a.generation = m.generation
  BY RetargetShows
<1>3. a.deferred = m.deferred /\ a \in Metar /\ m \in Metar
  BY <1>2 DEF Retargeted, Shows, Sound
<1>4. fact # NoFact => Answers(a, fact)
  <2> SUFFICES ASSUME fact # NoFact PROVE Answers(a, fact)
    OBVIOUS
  <2>1. fact.request \in Request /\ fact.report \in Nat
    BY DEF Fact
  <2> QED
    BY <1>2, <1>3, <2>1, RetargetedAnswers DEF Answers
<1>5. m.deferred # NoFact => Answers(a, m.deferred)
  <2> SUFFICES ASSUME m.deferred # NoFact PROVE Answers(a, m.deferred)
    OBVIOUS
  <2>1. m.deferred.request \in Request /\ m.deferred.report \in Nat
    BY DEF Fact, Answers
  <2> QED
    BY <1>2, <1>3, <2>1, RetargetedAnswers DEF Answers
<1> HIDE DEF a
<1>6. /\ Shows(b) /\ Same(a, b) /\ ReportGrows(a, b)
      /\ fact = NoFact => b = a
  <2>1. CASE fact = NoFact
    BY <1>2, <2>1 DEF CommitHarvested, Same, ReportGrows
  <2>2. CASE fact # NoFact
    BY <1>2, <1>4, <2>2, CommitShows DEF CommitHarvested, Answers
  <2> QED
    BY <2>1, <2>2
<1> HIDE DEF b
<1>7. /\ Shows(c) /\ c.deferred = NoFact /\ ReportGrows(b, c)
      /\ Same([b EXCEPT !.deferred = NoFact], c)
      /\ m.deferred = NoFact => c = b
  <2>1. CASE m.deferred = NoFact
    <3>1. b.deferred = NoFact /\ c = b
      BY <1>3, <1>6, <2>1 DEF CommitDeferred, Same
    <3>2. b \in Metar
      BY <1>6 DEF Shows, Sound
    <3>3. Same([b EXCEPT !.deferred = NoFact], b)
      BY <3>1, <3>2 DEF Same, Metar
    <3> QED
      BY <1>6, <3>1, <3>3 DEF ReportGrows
  <2>2. CASE m.deferred # NoFact
    <3> DEFINE k == [b EXCEPT !.deferred = NoFact]
    <3>1. b.deferred = m.deferred /\ b = a
      BY <1>3, <1>6, <2>2 DEF Same
    <3>2. c = Commit(k, m.deferred, isOld)
      BY <2>2, <3>1 DEF CommitDeferred
    <3>3. b \in Metar
      BY <1>6 DEF Shows, Sound
    <3>4. k \in Metar
      BY <3>3, ZenonT(60) DEF Metar
    <3>5. /\ k.report = b.report /\ k.visible = b.visible /\ k.health = b.health
          /\ k.transient = b.transient /\ k.lookupReport = b.lookupReport
          /\ k.invalidated = b.invalidated /\ k.airport = b.airport /\ k.lookup = b.lookup
          /\ k.contextKey = b.contextKey /\ k.latched = b.latched
          /\ k.lookupGeneration = b.lookupGeneration /\ k.generation = b.generation
          /\ k.deferred = NoFact
      BY <3>3 DEF Metar
    <3> HIDE DEF k
    <3>6. Shows(k)
      BY <1>6, <3>4, <3>5 DEF Shows, Sound, PrimaryTrue, NotLate, SpotlightRight,
         Published, AirportOfContext
    <3>7. m.deferred \in Fact /\ Recent(k, m.deferred.request, m.deferred.report)
      BY <1>5, <2>2, <3>1, <3>5 DEF Answers, Recent
    <3>8. Shows(c) /\ Same(k, c) /\ ReportGrows(k, c)
      BY <3>2, <3>6, <3>7, CommitShows
    <3> QED
      BY <2>2, <3>5, <3>8 DEF Same, ReportGrows, k
  <2> QED
    BY <2>1, <2>2
<1> HIDE DEF c
<1>8. Shows(d) /\ SameReport(c, d)
  BY <1>7, DropLostShows
<1> HIDE DEF d
<1>9. Shows(e) /\ SameReport(d, e)
  BY <1>8, ExpireShows
<1> HIDE DEF e
<1>10. Shows(n) /\ SameReport(e, n)
  BY <1>9, BecomeStaleShows
<1> HIDE DEF n
<1>11. Same(c, n) /\ n.report = c.report
  BY <1>8, <1>9, <1>10 DEF SameReport, Same
<1>12. /\ c.epoch = a.epoch /\ c.active = a.active /\ c.lookup = a.lookup
       /\ c.lookupGeneration = a.lookupGeneration /\ c.generation = a.generation
       /\ c.airport = a.airport /\ c.contextKey = a.contextKey /\ c.suspended = a.suspended
  <2>1. b \in Metar
    BY <1>6 DEF Shows, Sound
  <2> QED
    BY <1>6, <1>7, <2>1 DEF Same, Metar
<1>13. ReportGrows(a, c)
  <2>1. fact = NoFact => b = a
    BY <1>6
  <2>2. m.deferred = NoFact => c = b
    BY <1>7
  <2> QED
    BY <1>6, <1>7, <2>1, <2>2 DEF ReportGrows
<1>14. Moved(m, n)
  BY <1>2, <1>11, <1>12, <1>13 DEF Moved, Same, Retargeted, ReportGrows
<1>15. fact = NoFact /\ m.deferred = NoFact => c = a
  BY <1>6, <1>7
<1>16. m \in Metar /\ (n.generation = m.generation => a.report = m.report)
  BY <1>2, <1>3, <1>11, <1>12, MetarFields DEF Same, Retargeted
<1> QED
  BY <1>1, <1>2, <1>7, <1>10, <1>11, <1>12, <1>14, <1>15, <1>16 DEF Same

-----------------------------------------------------------------------------
(* The steps                                                               *)

\* The action of ReportsNeverGoBack.
NeverBack ==
    /\ metar.report # NoReport /\ metar'.report # NoReport
    /\ metar.generation = metar'.generation /\ metar.epoch = metar'.epoch
    => metar'.report.report >= metar.report.report

\* The action of NoFactIsLost.
TakenOrDropped ==
    result # NoFact /\ result' # result =>
        \/ loop = "ready" /\ metar.active = result.request /\ metar'.active = NoRequest
        \/ loop = "stopping"

LEMMA ReportField ==
    ASSUME NEW m \in Metar, m.report # NoReport
    PROVE  m.report.report \in Nat
  BY MetarFields DEF Report

LEMMA RuntimeInvInit == Init => RuntimeInv
<1> SUFFICES ASSUME Init PROVE RuntimeInv
  OBVIOUS
<1>1. metar = Blank(1)
  BY DEF Init
<1>2. Blank(1) \in Metar
  BY ZenonT(60) DEF Blank, Metar, Timers
<1>3. Shows(metar)
  BY <1>1, <1>2 DEF Blank, Shows, Sound, PrimaryTrue, NotLate, SpotlightRight,
       Published, AirportOfContext
<1>4. TypeOK
  <2>1. metar \in Metar /\ context \in Context /\ server \in Nat /\ asked \in Nat /\ events \in Nat
        /\ fetched \in Nat
    BY <1>1, <1>2, RuntimeAssumption DEF Init, FetchInit
  <2>2. connected \in BOOLEAN /\ selected \in BOOLEAN /\ running \in BOOLEAN
    BY DEF Init, FetchInit
  <2> QED
    BY <2>1, <2>2, Zenon DEF Init, FetchInit, TypeOK, FetchTypeOK
<1>5. OneRequest /\ AnswersAreRecent
  BY <1>1 DEF Init, FetchInit, Blank, OneRequest, AnswersAreRecent
<1>6. Counted /\ NothingAside
  BY <1>1, RuntimeAssumption DEF Init, FetchInit, Blank, Counted, NothingAside
<1> QED
  BY <1>3, <1>4, <1>5, <1>6 DEF RuntimeInv

\* A request and a fact are what the types say.
LEMMA Typed ==
    ASSUME TypeOK
    PROVE  /\ metar \in Metar /\ context \in Context
           /\ server \in Nat /\ asked \in Nat /\ events \in Nat /\ fetched \in Nat
           /\ job \in Request \cup {NoRequest} /\ result \in Fact \cup {NoFact}
           /\ NoRequest \notin Request /\ NoFact \notin Fact
  BY FetchAssumption DEF TypeOK, FetchTypeOK, Fact

\* The thread's steps leave the flight loop's state alone.
LEMMA WorkStep ==
    ASSUME RuntimeInv, Work
    PROVE  RuntimeInv' /\ TakenOrDropped
<1> USE Typed DEF RuntimeInv
<1>1. UNCHANGED <<metar, environment, server, loop>>
  BY DEF Work, WorkerStep, Fetch, Publish, Leave
<1>2. Shows(metar)'
  BY <1>1 DEF environment, Shows, Sound, PrimaryTrue, NotLate, SpotlightRight,
       Published, AirportOfContext
<1>3. Counted' /\ NothingAside'
  BY <1>1 DEF environment, Counted, NothingAside
<1>4. CASE Fetch
  <2>1. worker = "fetching" /\ worker' = "publishing" /\ fetched' \in {0, server}
        /\ UNCHANGED <<job, running, result>>
    BY <1>4 DEF Fetch
  <2>2. TypeOK'
    <3>1. fetched' \in Nat /\ job' \in Request
      BY <2>1 DEF TypeOK, FetchTypeOK
    <3> QED
      BY <1>1, <2>1, <3>1, Zenon DEF TypeOK, FetchTypeOK, environment
  <2>3. OneRequest'
    BY <1>1, <2>1 DEF OneRequest
  <2>4. job # NoRequest /\ metar.active = job /\ OfNow(metar, job)
    BY <2>1 DEF OneRequest, AnswersAreRecent
  <2>5. Recent(metar, job, fetched)'
    BY <1>1, <2>1 DEF environment, Recent, Shows, Sound, Published, Counted
  <2>6. AnswersAreRecent'
    BY <1>1, <2>1, <2>5 DEF environment, AnswersAreRecent, OfNow, Recent
  <2> QED
    BY <1>2, <1>3, <2>1, <2>2, <2>3, <2>6 DEF TakenOrDropped
<1>5. CASE Publish
  <2>1. worker = "publishing" /\ worker' = "leaving" /\ job' = NoRequest /\ fetched' = 0
        /\ result' = [request |-> job, report |-> fetched] /\ UNCHANGED running
    BY <1>5 DEF Publish
  <2>2. job \in Request /\ result = NoFact /\ metar.active = job
    BY <2>1 DEF OneRequest, TypeOK, FetchTypeOK
  <2>3. result' \in Fact /\ result'.request = job /\ result'.report = fetched
    BY <2>1, <2>2 DEF Fact
  <2>4. TypeOK'
    <3>1. result' \in Fact \cup {NoFact} /\ job' \in Request \cup {NoRequest} /\ fetched' \in Nat
      BY <2>1, <2>3
    <3> QED
      BY <1>1, <2>1, <3>1, Zenon DEF TypeOK, FetchTypeOK, environment
  <2>5. OneRequest'
    BY <1>1, <2>1, <2>2, <2>3 DEF OneRequest
  <2>6. AnswersAreRecent'
    BY <1>1, <2>1, <2>2, <2>3 DEF environment, AnswersAreRecent, OfNow, Recent
  <2> QED
    BY <1>2, <1>3, <2>2, <2>4, <2>5, <2>6 DEF TakenOrDropped
<1>6. CASE Leave
  <2>1. worker = "leaving" /\ worker' = "none" /\ running' = FALSE
        /\ UNCHANGED <<job, fetched, result>>
    BY <1>6 DEF Leave
  <2>2. TypeOK'
    BY <1>1, <2>1, Zenon DEF TypeOK, FetchTypeOK, environment
  <2>3. OneRequest'
    BY <1>1, <2>1 DEF OneRequest
  <2>4. AnswersAreRecent'
    BY <1>1, <2>1 DEF environment, AnswersAreRecent, OfNow, Recent
  <2> QED
    BY <1>2, <1>3, <2>1, <2>2, <2>3, <2>4 DEF TakenOrDropped
<1> QED
  BY <1>4, <1>5, <1>6 DEF Work, WorkerStep

\* Steps that leave the state, the thread and the question alone.
Quiet ==
    \/ Join \/ DispatchNothing \/ BeginBoundary
    \/ SelectDrawer \/ Disconnect \/ Connect \/ SetContext \/ PublishReports

LEMMA QuietStep ==
    ASSUME RuntimeInv, Quiet
    PROVE  RuntimeInv' /\ UNCHANGED <<result, metar>>
<1> USE Typed DEF RuntimeInv
<1>1. UNCHANGED <<metar, worker, job, fetched, running, result, asked>>
  BY DEF Quiet, Join, DispatchNothing, BeginBoundary, SelectDrawer, Disconnect, Connect,
     SetContext, PublishReports, NewReports, environment, fetchVars
<1>2. server' \in Nat /\ server' >= server
  BY DEF Quiet, Join, DispatchNothing, BeginBoundary, SelectDrawer, Disconnect, Connect,
     SetContext, PublishReports, NewReports, environment, fetchVars
<1>3. /\ loop' \in {"ready", "joining", "dispatch", "stopping"}
      /\ connected' \in BOOLEAN /\ selected' \in BOOLEAN
      /\ context' \in Context /\ events' \in Nat
  <2>1. connected' \in BOOLEAN /\ selected' \in BOOLEAN
    BY Zenon DEF Quiet, Join, DispatchNothing, BeginBoundary, SelectDrawer, Disconnect,
       Connect, SetContext, PublishReports, environment, TypeOK
  <2>2. loop' \in {"ready", "joining", "dispatch", "stopping"} /\ context' \in Context
    BY DEF Quiet, Join, DispatchNothing, BeginBoundary, SelectDrawer, Disconnect,
       Connect, SetContext, PublishReports, NewReports, environment, fetchVars, TypeOK
  <2>3. events' \in Nat
    BY DEF Quiet, Join, DispatchNothing, BeginBoundary, SelectDrawer, Disconnect,
       Connect, SetContext, PublishReports, environment, Event
  <2> QED
    BY <2>1, <2>2, <2>3
<1>4. TypeOK'
  BY <1>1, <1>2, <1>3, Zenon DEF TypeOK, FetchTypeOK
<1>5. Shows(metar)'
  BY <1>1, <1>2, ReportField DEF Shows, Sound, PrimaryTrue, NotLate,
       SpotlightRight, Published, AirportOfContext
<1>6. OneRequest'
  BY <1>1 DEF OneRequest
<1>7. AnswersAreRecent'
  <2>1. \A request, report : report \in Nat /\ Recent(metar, request, report)
                                 => Recent(metar, request, report)'
    BY <1>1, <1>2 DEF Recent
  <2>2. \A request : OfNow(metar, request) => OfNow(metar, request)'
    BY <1>1 DEF OfNow
  <2>3. /\ result # NoFact => result.report \in Nat
        /\ metar.deferred # NoFact => metar.deferred.report \in Nat
    BY MetarFields DEF Fact
  <2> QED
    BY <1>1, <2>1, <2>2, <2>3 DEF AnswersAreRecent
<1>8. Counted'
  <2>1. metar.epoch \in Nat /\ metar.generation \in Nat /\ metar.lookupGeneration \in Nat
    BY MetarFields
  <2>2. CASE Join \/ DispatchNothing \/ PublishReports
    BY <1>1, <1>2, <2>1, <2>2 DEF Join, DispatchNothing, PublishReports, NewReports,
       environment, Counted
  <2>3. CASE BeginBoundary
    BY <1>1, <2>1, <2>3, RuntimeAssumption DEF BeginBoundary, Event, Counted
  <2>4. CASE SelectDrawer \/ Disconnect \/ Connect
    BY <1>1, <2>1, <2>4, RuntimeAssumption DEF SelectDrawer, Disconnect, Connect, Event,
       Counted, fetchVars
  <2>5. CASE SetContext
    BY <1>1, <2>1, <2>5, RuntimeAssumption DEF SetContext, Event, Counted, fetchVars
  <2> QED
    BY <2>2, <2>3, <2>4, <2>5 DEF Quiet
<1>9. NothingAside'
  <2>1. CASE Join \/ PublishReports
    BY <1>1, <2>1 DEF Join, PublishReports, NewReports, environment, NothingAside
  <2>2. CASE ~(Join \/ PublishReports)
    BY <1>1, <2>2 DEF Quiet, DispatchNothing, BeginBoundary, SelectDrawer,
         Disconnect, Connect, SetContext, Event, fetchVars, NothingAside
  <2> QED
    BY <2>1, <2>2
<1> QED
  BY <1>1, <1>4, <1>5, <1>6, <1>7, <1>8, <1>9

\* Time: a deadline passes, and what is shown waits for the next cycle.
LEMMA ElapseStep ==
    ASSUME RuntimeInv, NEW t \in Timers, Elapse(t)
    PROVE  RuntimeInv' /\ NeverBack /\ UNCHANGED result
<1> USE Typed DEF RuntimeInv
<1> DEFINE due == metar.due \cup {t}
<1>1. due \in SUBSET Timers
  BY MetarFields
<1>2. metar' = [metar EXCEPT !.due = due] /\ UNCHANGED <<fetchVars, environment>>
  BY DEF Elapse
<1> HIDE DEF due
<1>3. metar' \in Metar
  <2>1. [metar EXCEPT !.due = due] \in Metar
    BY <1>1, ZenonT(60) DEF Metar
  <2> QED
    BY <1>2, <2>1
<1>4. /\ SameReport(metar, metar') /\ metar'.visible = metar.visible
      /\ metar'.health = metar.health /\ metar'.transient = metar.transient
      /\ metar'.lookupReport = metar.lookupReport /\ metar'.invalidated = metar.invalidated
  BY <1>2 DEF Metar, SameReport, Same
<1>5. TypeOK'
  BY <1>2, <1>3, Zenon DEF TypeOK, FetchTypeOK, fetchVars, environment
<1>6. Shows(metar)'
  BY <1>2, <1>3, <1>4 DEF fetchVars, environment, SameReport, Same, Shows, Sound,
     PrimaryTrue, NotLate, SpotlightRight, Published, AirportOfContext
<1>7. OneRequest'
  BY <1>2, <1>4 DEF OneRequest, SameReport, Same, fetchVars
<1>8. AnswersAreRecent'
  BY <1>2, <1>4 DEF AnswersAreRecent, OfNow, Recent, SameReport, Same,
       fetchVars, environment
<1>9. Counted'
  BY <1>2, <1>4 DEF Counted, SameReport, Same, fetchVars, environment
<1>11. NothingAside'
  BY <1>2, <1>4 DEF NothingAside, SameReport, Same, fetchVars, environment
<1>10. NeverBack
  BY <1>4, ReportField DEF NeverBack, SameReport, Same
<1> QED
  BY <1>2, <1>5, <1>6, <1>7, <1>8, <1>9, <1>10, <1>11 DEF fetchVars

\* A state that is asked a question, and one that is interrupted, is a state.
LEMMA TransientType ==
    ASSUME NEW m \in Metar, NEW t \in {"None", "Pending", "Spotlight", "Failure"},
           NEW owned \in BOOLEAN
    PROVE  [m EXCEPT !.transient = t, !.owned = owned] \in Metar
  BY ZenonT(60) DEF Metar

LEMMA EpochType ==
    ASSUME NEW m \in Metar, NEW key \in Context \cup {NoContext}, NEW epoch \in Nat
    PROVE  [m EXCEPT !.contextKey = key, !.epoch = epoch] \in Metar
  BY ZenonT(60) DEF Metar

LEMMA QuestionType ==
    ASSUME NEW m \in Metar, NEW a \in Airports \cup {NoAirport}, NEW generation \in Nat
    PROVE  [m EXCEPT !.lookupGeneration = generation, !.lookup = a, !.awaiting = TRUE,
                     !.invalidated = FALSE, !.transient = "Pending", !.owned = TRUE] \in Metar
<1> DEFINE b == [m EXCEPT !.lookupGeneration = generation, !.lookup = a,
                          !.awaiting = TRUE, !.invalidated = FALSE]
           c == [b EXCEPT !.transient = "Pending", !.owned = TRUE]
<1>1. b \in Metar
  BY ZenonT(60) DEF Metar
<1> HIDE DEF b
<1>2. c \in Metar
  BY <1>1, TransientType
<1> QED
  BY <1>2 DEF b

LEMMA InterruptedType ==
    ASSUME NEW m \in Metar
    PROVE  Interrupted(m) \in Metar
<1> DEFINE epoch == m.epoch + 1
           a == [m EXCEPT !.active = NoRequest, !.deferred = NoFact,
                          !.awaiting = FALSE, !.invalidated = TRUE]
           b == [a EXCEPT !.transient = "None", !.owned = FALSE]
           c == [b EXCEPT !.contextKey = NoContext, !.epoch = epoch]
<1>1. epoch \in Nat
  BY MetarFields
<1>2. a \in Metar
  BY ZenonT(60) DEF Metar
<1>3. Interrupted(m) = c
  BY DEF Interrupted
<1> HIDE DEF a, epoch
<1>4. b \in Metar
  BY <1>2, TransientType
<1> HIDE DEF b
<1>5. c \in Metar
  BY <1>1, <1>4, EpochType
<1> QED
  BY <1>3, <1>5

\* A new question: every request there is was made before it.
LEMMA QuestionStep ==
    ASSUME RuntimeInv, NEW a \in Airports, CommitTextEntry(a)
    PROVE  RuntimeInv' /\ NeverBack /\ UNCHANGED result
<1> USE Typed DEF RuntimeInv
<1> DEFINE generation == metar.lookupGeneration + 1
           report == IF metar.lookupReport.airport = a THEN metar.lookupReport ELSE NoReport
           due == metar.due \ {"transient"}
           n == [metar EXCEPT !.lookupGeneration = generation, !.lookup = a, !.awaiting = TRUE,
                              !.invalidated = FALSE, !.transient = "Pending", !.owned = TRUE]
           k == [n EXCEPT !.lookupReport = report, !.due = due]
<1>1. /\ metar' = k /\ selected' = TRUE /\ asked' = server
      /\ events' = events + 1 /\ events < MaxEvents /\ loop = "ready" /\ ~metar.suspended
      /\ UNCHANGED <<fetchVars, connected, context>>
  BY DEF CommitTextEntry, Event
<1>2. /\ generation \in Nat /\ due \in SUBSET Timers /\ report \in Report \cup {NoReport}
      /\ a \in Airports \cup {NoAirport} /\ generation = metar.lookupGeneration + 1
  BY MetarFields
<1> HIDE DEF generation, report, due
<1>3. n \in Metar
  BY <1>2, QuestionType
<1>4. /\ n.transient = "Pending" /\ n.invalidated = FALSE /\ n.lookupGeneration = generation
      /\ n.epoch = metar.epoch /\ n.suspended = metar.suspended /\ n.active = metar.active
      /\ n.contextKey = metar.contextKey /\ n.deferred = metar.deferred
      /\ n.airport = metar.airport /\ n.generation = metar.generation
      /\ n.latched = metar.latched /\ n.report = metar.report
      /\ n.visible = metar.visible /\ n.health = metar.health
  BY DEF Metar
<1> HIDE DEF n
<1>5. k \in Metar
  BY <1>2, <1>3, ZenonT(60) DEF Metar
<1>6. /\ k.transient = "Pending" /\ k.invalidated = FALSE /\ k.lookupGeneration = generation
      /\ k.epoch = metar.epoch /\ k.suspended = metar.suspended /\ k.active = metar.active
      /\ k.contextKey = metar.contextKey /\ k.deferred = metar.deferred
      /\ k.airport = metar.airport /\ k.generation = metar.generation
      /\ k.latched = metar.latched /\ k.report = metar.report
      /\ k.visible = metar.visible /\ k.health = metar.health
  BY <1>3, <1>4 DEF Metar
<1> HIDE DEF k
<1>7. TypeOK'
  <2>1. asked' \in Nat /\ events' \in Nat /\ metar' \in Metar
    BY <1>1, <1>5
  <2> QED
    BY <1>1, <2>1, Zenon DEF TypeOK, FetchTypeOK, fetchVars
<1>8. Shows(metar)'
  BY <1>1, <1>5, <1>6 DEF fetchVars, Shows, Sound, PrimaryTrue, NotLate, SpotlightRight,
     Published, AirportOfContext
<1>9. OneRequest'
  BY <1>1, <1>6 DEF OneRequest, fetchVars
<1>10. AnswersAreRecent'
  <2>1. metar.deferred = NoFact /\ metar.lookupGeneration \in Nat
    BY <1>1, MetarFields DEF OneRequest
  <2>2. \A request \in Request : OfNow(metar, request) =>
            /\ OfNow(metar, request)'
            /\ \A report_ : Recent(metar, request, report_) => Recent(metar, request, report_)'
    BY <1>1, <1>2, <1>6, <2>1, RuntimeAssumption DEF OfNow, Recent, Requests, fetchVars
  <2>3. /\ metar.active # NoRequest => metar.active \in Request
        /\ job # NoRequest => job = metar.active
        /\ result # NoFact => result.request = metar.active /\ metar.active # NoRequest
    BY MetarFields DEF OneRequest, Fact
  <2>4. worker = "publishing" => job # NoRequest
    BY DEF OneRequest
  <2> QED
    BY <1>1, <1>6, <2>1, <2>2, <2>3, <2>4 DEF AnswersAreRecent, fetchVars
<1>11. Counted'
  <2>1. metar.epoch \in Nat /\ metar.generation \in Nat /\ metar.lookupGeneration \in Nat
    BY MetarFields
  <2> QED
    BY <1>1, <1>2, <1>6, <2>1, RuntimeAssumption DEF Counted, fetchVars
<1>12. NeverBack
  BY <1>1, <1>6, ReportField DEF NeverBack
<1>13. NothingAside'
  BY <1>1 DEF NothingAside, fetchVars
<1> QED
  BY <1>1, <1>7, <1>8, <1>9, <1>10, <1>11, <1>12, <1>13 DEF fetchVars

\* The end of a boundary: nothing is on its way any more.
LEMMA BoundaryStep ==
    ASSUME RuntimeInv, EndBoundary
    PROVE  RuntimeInv' /\ NeverBack /\ TakenOrDropped
<1> USE Typed DEF RuntimeInv
<1>1. /\ loop = "stopping" /\ loop' = "ready" /\ worker = "none" /\ running' = FALSE
      /\ result' = NoFact /\ metar' \in {Interrupted(metar), Blank(metar.epoch + 1)}
      /\ UNCHANGED <<server, worker, job, fetched, environment>>
  BY DEF EndBoundary, DropResult, Joined
<1>2. metar.epoch \in Nat /\ metar.epoch + 1 \in Nat /\ metar.generation \in Nat
      /\ metar.lookupGeneration \in Nat
  BY MetarFields
<1>3. /\ metar' \in Metar /\ metar'.epoch = metar.epoch + 1 /\ metar'.active = NoRequest
      /\ metar'.deferred = NoFact /\ metar'.contextKey = NoContext
      /\ metar'.generation \in {metar.generation, 0}
      /\ metar'.lookupGeneration \in {metar.lookupGeneration, 0}
      /\ PrimaryTrue(metar') /\ metar'.transient = "None"
      /\ metar'.report \in {metar.report, NoReport}
  <2>1. CASE metar' = Interrupted(metar)
    <3>1. Interrupted(metar) \in Metar
      BY InterruptedType
    <3>2. /\ metar'.report = metar.report /\ metar'.visible = metar.visible
          /\ metar'.health = metar.health /\ metar'.airport = metar.airport
          /\ metar'.epoch = metar.epoch + 1 /\ metar'.active = NoRequest
          /\ metar'.deferred = NoFact /\ metar'.contextKey = NoContext
          /\ metar'.generation = metar.generation /\ metar'.transient = "None"
          /\ metar'.lookupGeneration = metar.lookupGeneration
      BY <2>1 DEF Interrupted, Metar
    <3>3. PrimaryTrue(metar')
      BY <3>2 DEF Shows, Sound, PrimaryTrue
    <3> QED
      BY <2>1, <3>1, <3>2, <3>3
  <2>2. CASE metar' = Blank(metar.epoch + 1)
    <3>1. \A n \in Nat : Blank(n) \in Metar
      BY ZenonT(60) DEF Blank, Metar, Timers
    <3>2. PrimaryTrue(metar')
      BY <2>2 DEF PrimaryTrue, Blank
    <3> QED
      BY <1>2, <2>2, <3>1, <3>2 DEF Blank
  <2> QED
    BY <1>1, <2>1, <2>2
<1>4. TypeOK'
  <2>1. context' \in Context /\ asked' \in Nat /\ events' \in Nat /\ server' \in Nat
        /\ fetched' \in Nat /\ job' \in Request \cup {NoRequest}
    BY <1>1 DEF environment
  <2>2. connected' \in BOOLEAN /\ selected' \in BOOLEAN
    BY <1>1, Zenon DEF environment, TypeOK
  <2> QED
    BY <1>1, <1>3, <2>1, <2>2, Zenon DEF TypeOK, FetchTypeOK
<1>5. Shows(metar)'
  BY <1>1, <1>3 DEF environment, Shows, Sound, PrimaryTrue, NotLate, SpotlightRight,
     Published, AirportOfContext
<1>6. OneRequest'
  BY <1>1, <1>3 DEF OneRequest
<1>7. AnswersAreRecent'
  BY <1>1, <1>3 DEF AnswersAreRecent
<1>8. Counted' /\ NothingAside'
  BY <1>1, <1>2, <1>3, RuntimeAssumption DEF Counted, NothingAside, environment
<1>9. NeverBack
  BY <1>2, <1>3 DEF NeverBack
<1> QED
  BY <1>1, <1>4, <1>5, <1>6, <1>7, <1>8, <1>9 DEF TakenOrDropped

LEMMA ActiveType ==
    ASSUME NEW m \in Metar, NEW active \in Request \cup {NoRequest}
    PROVE  [m EXCEPT !.active = active] \in Metar
  BY ZenonT(60) DEF Metar

\* A cycle: the fact that is there is committed, or put aside.
LEMMA CycleStep ==
    ASSUME RuntimeInv, Cycle
    PROVE  RuntimeInv' /\ NeverBack /\ TakenOrDropped
<1> USE Typed DEF RuntimeInv
<1> DEFINE d == DropLostPresentation(metar)
           active == IF result = NoFact THEN d.active ELSE NoRequest
           m == [d EXCEPT !.active = active]
<1>1. /\ loop = "ready" /\ result' = NoFact
      /\ loop' = IF result # NoFact THEN "joining" ELSE IF connected THEN "dispatch" ELSE "ready"
      /\ UNCHANGED <<server, worker, job, fetched, running, environment>>
  BY DEF Cycle
<1>2. \E isOld \in BOOLEAN :
          metar' = IF connected THEN Settled(m, result, isOld) ELSE PutAside(m, result)
  BY DEF Cycle
<1>3. Shows(d) /\ SameReport(metar, d)
  BY DropLostShows
<1> HIDE DEF d
<1>4. /\ active \in Request \cup {NoRequest} /\ d \in Metar
      /\ active = IF result = NoFact THEN metar.active ELSE NoRequest
  BY <1>3, MetarFields DEF Shows, Sound, SameReport, Same
<1> HIDE DEF active
<1>5. m \in Metar
  BY <1>4, ActiveType
<1>6. /\ m.active = active /\ m.epoch = metar.epoch /\ m.suspended = metar.suspended
      /\ m.contextKey = metar.contextKey /\ m.deferred = metar.deferred
      /\ m.airport = metar.airport /\ m.generation = metar.generation
      /\ m.latched = metar.latched /\ m.report = metar.report /\ m.lookup = metar.lookup
      /\ m.lookupGeneration = metar.lookupGeneration
      /\ m.visible = d.visible /\ m.health = d.health /\ m.transient = d.transient
      /\ m.invalidated = d.invalidated /\ m.lookupReport = d.lookupReport
  BY <1>3, <1>4 DEF Metar, SameReport, Same
<1> HIDE DEF m
<1>7. Shows(m)
  BY <1>3, <1>5, <1>6 DEF SameReport, Same, Shows, Sound, PrimaryTrue, NotLate,
       SpotlightRight, Published, AirportOfContext
<1>8. result # NoFact =>
          /\ Answers(m, result) /\ metar.active = result.request /\ m.active = NoRequest
          /\ metar.deferred = NoFact /\ job = NoRequest
  BY <1>4, <1>6 DEF Answers, OneRequest, AnswersAreRecent, OfNow, Recent, Fact
<1>9. m.deferred # NoFact => Answers(m, m.deferred) /\ metar.suspended
  BY <1>6, MetarFields DEF Answers, OneRequest, AnswersAreRecent, OfNow, Recent
<1>10. TypeOK' <=> metar' \in Metar
  BY <1>1, Zenon DEF TypeOK, FetchTypeOK, environment
<1>11. TakenOrDropped <=> (result # NoFact => metar'.active = NoRequest)
  BY <1>1, <1>8 DEF TakenOrDropped
<1>12. CASE connected
  <2>1. PICK isOld \in BOOLEAN : metar' = Settled(m, result, isOld)
    BY <1>2, <1>12
  <2>2. /\ Shows(metar') /\ Moved(m, metar')
        /\ metar'.deferred = NoFact /\ metar'.contextKey = context /\ ~metar'.suspended
        /\ m.contextKey = context => metar'.generation = m.generation
        /\ result = NoFact /\ m.deferred = NoFact /\ metar'.generation = m.generation
               => metar'.report = m.report
    BY <1>6, <1>7, <1>8, <1>9, <2>1, SettledShows
  <2>3. metar' \in Metar
    BY <2>2 DEF Shows, Sound
  <2>4. Shows(metar)'
    BY <1>1, <2>2 DEF environment, Shows, Sound, PrimaryTrue, NotLate, SpotlightRight,
       Published, AirportOfContext
  <2>5. metar'.active = IF result = NoFact THEN metar.active ELSE NoRequest
    BY <1>4, <1>6, <2>2 DEF Moved
  <2>6. OneRequest' /\ NothingAside'
    BY <1>1, <2>2, <2>5 DEF OneRequest, NothingAside
  <2>7. \A request \in Request : OfNow(metar, request) => OfNow(metar, request)'
    BY <1>6, <2>2, MetarFields, RuntimeAssumption DEF OfNow, Moved, Requests
  <2>8. worker = "publishing" => Recent(metar, job, fetched)'
    <3> SUFFICES ASSUME worker = "publishing" PROVE Recent(metar, job, fetched)'
      OBVIOUS
    <3>1. /\ job \in Request /\ result = NoFact /\ metar.deferred = NoFact /\ OfNow(metar, job)
          /\ Recent(metar, job, fetched)
      BY DEF OneRequest, AnswersAreRecent
    <3>2. job.generation \in Nat /\ metar.generation \in Nat
      BY <3>1, RuntimeAssumption, MetarFields DEF Requests
    <3>3. /\ metar'.lookupGeneration = metar.lookupGeneration
          /\ metar'.generation \in {metar.generation, metar.generation + 1}
          /\ metar'.generation = metar.generation => metar'.report = metar.report
      BY <1>6, <2>2, <3>1 DEF Moved
    <3> QED
      BY <1>1, <3>1, <3>2, <3>3 DEF Recent, OfNow, environment
  <2>9. AnswersAreRecent'
    BY <1>1, <2>2, <2>5, <2>7, <2>8, MetarFields DEF AnswersAreRecent
  <2>10. Counted'
    BY <1>1, <1>6, <2>2, MetarFields DEF Counted, Moved, environment
  <2>11. NeverBack
    BY <1>6, <2>2, MetarFields DEF NeverBack, Moved, ReportGrows, Report
  <2> QED
    BY <1>10, <1>11, <2>3, <2>4, <2>5, <2>6, <2>9, <2>10, <2>11
<1>13. CASE ~connected
  <2> DEFINE deferred == IF result = NoFact THEN m.deferred ELSE result
             n == [m EXCEPT !.suspended = TRUE, !.deferred = deferred]
  <2>1. deferred \in Fact \cup {NoFact}
    BY <1>5, MetarFields
  <2>2. metar' = n
    BY <1>2, <1>13 DEF PutAside
  <2>3. deferred # NoFact => Answers(m, deferred) /\ m.active = NoRequest
    BY <1>4, <1>6, <1>8, <1>9 DEF OneRequest
  <2> HIDE DEF deferred
  <2>4. metar' \in Metar
    <3>1. n \in Metar
      BY <1>5, <2>1, ZenonT(60) DEF Metar
    <3> QED
      BY <2>2, <3>1
  <2>5. /\ metar'.active = m.active /\ metar'.epoch = m.epoch /\ metar'.suspended
        /\ metar'.contextKey = m.contextKey /\ metar'.deferred = deferred
        /\ metar'.airport = m.airport /\ metar'.generation = m.generation
        /\ metar'.latched = m.latched /\ metar'.report = m.report /\ metar'.lookup = m.lookup
        /\ metar'.lookupGeneration = m.lookupGeneration
        /\ metar'.visible = m.visible /\ metar'.health = m.health
        /\ metar'.transient = m.transient
        /\ metar'.invalidated = m.invalidated /\ metar'.lookupReport = m.lookupReport
    BY <1>5, <2>2 DEF Metar
  <2> HIDE DEF n
  <2>6. Shows(metar)'
    BY <1>1, <1>7, <2>4, <2>5 DEF environment, Shows, Sound, PrimaryTrue, NotLate,
       SpotlightRight, Published, AirportOfContext
  <2>7. OneRequest' /\ NothingAside'
    BY <1>1, <1>4, <1>6, <1>13, <2>3, <2>5 DEF OneRequest, NothingAside, environment
  <2>8. AnswersAreRecent'
    <3>1. \A request, report : Recent(m, request, report) => Recent(metar, request, report)'
      BY <1>1, <2>5 DEF Recent, environment
    <3>2. \A request : OfNow(m, request) => OfNow(metar, request)'
      BY <2>5 DEF OfNow
    <3>3. metar'.active # NoRequest => OfNow(m, metar'.active)
      BY <1>4, <1>6, <2>5 DEF AnswersAreRecent, OfNow
    <3>4. worker = "publishing" => Recent(m, job, fetched)
      BY <1>6 DEF AnswersAreRecent, Recent
    <3>5. deferred # NoFact =>
              OfNow(m, deferred.request) /\ Recent(m, deferred.request, deferred.report)
      BY <2>3 DEF Answers
    <3> QED
      BY <1>1, <2>5, <3>1, <3>2, <3>3, <3>4, <3>5 DEF AnswersAreRecent
  <2>9. Counted'
    BY <1>1, <1>6, <2>5 DEF Counted, environment
  <2>10. NeverBack
    BY <1>6, <2>5, ReportField DEF NeverBack
  <2> QED
    BY <1>8, <1>10, <1>11, <2>4, <2>5, <2>6, <2>7, <2>8, <2>9, <2>10
<1> QED
  BY <1>12, <1>13

\* The next fetch is for an airport, and its numbers are those of now.
LEMMA RequestMade ==
    ASSUME RuntimeInv, loop = "dispatch", PrimaryIsWanted(metar) \/ LookupIsWanted(metar)
    PROVE  LET request == MakeRequest(metar, NextPurpose(metar))
           IN  request \in Request /\ OfNow(metar, request)
<1> USE Typed DEF RuntimeInv
<1> DEFINE purpose == NextPurpose(metar)
           request == MakeRequest(metar, purpose)
<1>1. /\ metar.epoch \in 1 .. MaxEvents + 1
      /\ metar.generation \in 0 .. MaxEvents + 1
      /\ metar.lookupGeneration \in 0 .. MaxEvents
  BY MetarFields, RuntimeAssumption DEF Counted
<1>2. purpose \in {"primary", "lookup"}
  BY DEF NextPurpose
<1>3. (IF purpose = "lookup" THEN metar.lookup ELSE metar.airport) \in Airports
  BY MetarFields DEF NextPurpose, PrimaryIsWanted, LookupIsWanted
<1> HIDE DEF purpose
<1>4. request \in Requests(MaxEvents)
  BY <1>1, <1>2, <1>3 DEF MakeRequest, Requests
<1>5. OfNow(metar, request)
  BY <1>1 DEF OfNow, MakeRequest
<1> QED
  BY <1>4, <1>5, RuntimeAssumption DEF purpose

\* A fetch is started, or fails to start; no other one is under way.
LEMMA DispatchStep ==
    ASSUME RuntimeInv, Dispatch
    PROVE  RuntimeInv' /\ NeverBack /\ UNCHANGED result
<1> USE Typed DEF RuntimeInv
<1> DEFINE purpose == NextPurpose(metar)
           request == MakeRequest(metar, purpose)
<1>1. PICK created \in BOOLEAN :
          /\ Start(request, created)
          /\ metar' = IF created
                      THEN [metar EXCEPT
                               !.active = request,
                               !.health = IF purpose = "primary" THEN "Pending" ELSE @]
                      ELSE IF purpose = "primary" THEN PrimaryFailure(metar)
                           ELSE LookupFailure(metar)
  BY DEF Dispatch
<1>2. /\ loop = "dispatch" /\ loop' = "ready" /\ ~running /\ metar.active = NoRequest
      /\ UNCHANGED environment
  BY DEF Dispatch, Busy
<1>3. request \in Request /\ OfNow(metar, request)
  BY RequestMade DEF Dispatch
<1>4. worker = "none" /\ job = NoRequest /\ result = NoFact /\ metar.deferred = NoFact
  BY <1>2 DEF OneRequest, NothingAside, Fact
<1>5. /\ worker' = IF created THEN "fetching" ELSE "none"
      /\ job' = IF created THEN request ELSE NoRequest
      /\ running' = created /\ result' = NoFact /\ UNCHANGED <<server, fetched>>
  BY <1>1 DEF Start
<1>6. CASE created
  <2> DEFINE health == IF purpose = "primary" THEN "Pending" ELSE metar.health
             n == [metar EXCEPT !.active = request, !.health = health]
  <2>1. health \in {"Unknown", "Pending", "Healthy", "Failed"} /\ health \in {"Pending", metar.health}
    BY MetarFields
  <2>2. metar' = n
    BY <1>1, <1>6
  <2>3. request \in Request \cup {NoRequest}
    BY <1>3
  <2> HIDE DEF health, request
  <2>4. metar' \in Metar
    <3>1. n \in Metar
      BY <2>1, <2>3, ZenonT(60) DEF Metar
    <3> QED
      BY <2>2, <3>1
  <2>5. /\ metar'.active = request /\ metar'.health = health
        /\ metar'.epoch = metar.epoch /\ metar'.suspended = metar.suspended
        /\ metar'.contextKey = metar.contextKey /\ metar'.deferred = metar.deferred
        /\ metar'.airport = metar.airport /\ metar'.generation = metar.generation
        /\ metar'.latched = metar.latched /\ metar'.report = metar.report
        /\ metar'.lookup = metar.lookup /\ metar'.lookupGeneration = metar.lookupGeneration
        /\ metar'.visible = metar.visible /\ metar'.transient = metar.transient
        /\ metar'.invalidated = metar.invalidated /\ metar'.lookupReport = metar.lookupReport
    BY <2>2 DEF Metar
  <2>6. TypeOK'
    <3>1. job' \in Request /\ worker' = "fetching" /\ running' = TRUE
      BY <1>3, <1>5, <1>6
    <3> QED
      BY <1>2, <1>5, <2>4, <3>1, Zenon DEF TypeOK, FetchTypeOK, environment
  <2>7. Shows(metar)'
    BY <1>2, <1>5, <2>1, <2>4, <2>5 DEF environment, Shows, Sound, PrimaryTrue, NotLate,
       SpotlightRight, Published, AirportOfContext
  <2>8. OneRequest' /\ NothingAside'
    BY <1>2, <1>3, <1>4, <1>5, <1>6, <2>5 DEF OneRequest, NothingAside
  <2>9. AnswersAreRecent'
    BY <1>3, <1>4, <1>5, <1>6, <2>5 DEF AnswersAreRecent, OfNow
  <2>10. Counted'
    BY <1>2, <1>5, <2>5 DEF Counted, environment
  <2>11. NeverBack
    BY <2>5, ReportField DEF NeverBack
  <2> QED
    BY <1>4, <1>5, <2>6, <2>7, <2>8, <2>9, <2>10, <2>11
<1>7. CASE ~created
  <2>1. Shows(metar') /\ SameReport(metar, metar')
    BY <1>1, <1>7, PrimaryFailureShows, LookupFailureShows DEF Shows
  <2>2. metar' \in Metar
    BY <2>1 DEF Shows, Sound
  <2>3. TypeOK'
    <3>1. job' = NoRequest /\ worker' = "none" /\ running' = FALSE
      BY <1>5, <1>7
    <3> QED
      BY <1>2, <1>5, <2>2, <3>1, Zenon DEF TypeOK, FetchTypeOK, environment
  <2>4. Shows(metar)'
    BY <1>2, <1>5, <2>1 DEF environment, Shows, Sound, PrimaryTrue, NotLate,
       SpotlightRight, Published, AirportOfContext
  <2>5. OneRequest' /\ NothingAside'
    BY <1>2, <1>4, <1>5, <1>7, <2>1 DEF OneRequest, NothingAside, SameReport, Same
  <2>6. AnswersAreRecent'
    BY <1>2, <1>4, <1>5, <1>7, <2>1 DEF AnswersAreRecent, SameReport, Same
  <2>7. Counted'
    BY <1>2, <1>5, <2>1 DEF Counted, environment, SameReport, Same
  <2>8. NeverBack
    BY <2>1, ReportField DEF NeverBack, SameReport, Same
  <2> QED
    BY <1>4, <1>5, <2>3, <2>4, <2>5, <2>6, <2>7, <2>8
<1> QED
  BY <1>6, <1>7

-----------------------------------------------------------------------------
(* The theorems                                                            *)

LEMMA RuntimeInvStep ==
    ASSUME RuntimeInv, [Next]_vars
    PROVE  RuntimeInv' /\ [NeverBack]_vars /\ [TakenOrDropped]_vars
<1>1. CASE Cycle
  BY <1>1, CycleStep
<1>2. CASE Dispatch
  BY <1>2, DispatchStep DEF TakenOrDropped
<1>3. CASE EndBoundary
  BY <1>3, BoundaryStep
<1>4. CASE Work
  <2>1. RuntimeInv' /\ TakenOrDropped /\ metar' = metar
    BY <1>4, WorkStep DEF Work
  <2>2. NeverBack
    BY <2>1, ReportField DEF NeverBack, RuntimeInv, Shows, Sound
  <2> QED
    BY <2>1, <2>2
<1>5. CASE Quiet
  <2>1. RuntimeInv' /\ UNCHANGED <<result, metar>>
    BY <1>5, QuietStep
  <2>2. NeverBack
    BY <2>1, ReportField DEF NeverBack, RuntimeInv, Shows, Sound
  <2> QED
    BY <2>1, <2>2 DEF TakenOrDropped
<1>6. ASSUME NEW a \in Airports, CommitTextEntry(a)
      PROVE  RuntimeInv' /\ NeverBack /\ TakenOrDropped
  BY <1>6, QuestionStep DEF TakenOrDropped
<1>7. ASSUME NEW t \in Timers, Elapse(t)
      PROVE  RuntimeInv' /\ NeverBack /\ TakenOrDropped
  BY <1>7, ElapseStep DEF TakenOrDropped
<1>8. CASE UNCHANGED vars
  BY <1>8 DEF vars, fetchVars, environment, RuntimeInv, TypeOK, FetchTypeOK,
       Shows, Sound, PrimaryTrue, NotLate, SpotlightRight, Published,
       AirportOfContext, OneRequest, AnswersAreRecent, OfNow, Recent, Counted,
       NothingAside
<1> QED
  BY <1>1, <1>2, <1>3, <1>4, <1>5, <1>6, <1>7, <1>8 DEF Next, FlightLoop, Quiet

\* The invariant of the runtime and its client holds throughout.
THEOREM RuntimeInvariant == Spec => []RuntimeInv
<1>1. RuntimeInv /\ [Next]_vars => RuntimeInv'
  BY RuntimeInvStep
<1> QED
  BY RuntimeInvInit, <1>1, PTL DEF Spec

\* The state is what the types say (BrainOwnedMetarRuntimeState and the client's).
THEOREM TypesHold == Spec => []TypeOK
<1>1. RuntimeInv => TypeOK
  BY DEF RuntimeInv
<1> QED
  BY RuntimeInvariant, <1>1, PTL

\* What is shown of the flight's airport is true: a report there is, of that
\* airport, called fresh or cached as the last fetch went.
THEOREM WhatIsShownIsTrue == Spec => []PrimaryIsTrue
<1>1. RuntimeInv => PrimaryIsTrue
  BY DEF RuntimeInv, Shows, Sound, PrimaryTrue, PrimaryIsTrue
<1> QED
  BY RuntimeInvariant, <1>1, PTL

\* A lookup that timed out or was cut off never shows its late answer.
THEOREM LateAnswersStayHidden == Spec => []LateAnswersAreNotShown
<1>1. RuntimeInv => LateAnswersAreNotShown
  BY DEF RuntimeInv, Shows, NotLate, LateAnswersAreNotShown
<1> QED
  BY RuntimeInvariant, <1>1, PTL

\* A lookup shows the airport asked for last, as of the question or later.
THEOREM LookupsAnswerTheQuestion == Spec => []SpotlightAnswersTheQuestion
<1>1. RuntimeInv => SpotlightAnswersTheQuestion
  BY DEF RuntimeInv, Shows, Sound, SpotlightRight, SpotlightAnswersTheQuestion
<1> QED
  BY RuntimeInvariant, <1>1, PTL

\* While the flight keeps its airport, its report is never replaced by an older one.
THEOREM ReportsOnlyGrow == Spec => ReportsNeverGoBack
<1>1. RuntimeInv /\ [Next]_vars => [NeverBack]_vars
  BY RuntimeInvStep
<1>2. Spec => [][NeverBack]_vars
  BY RuntimeInvariant, <1>1, PTL DEF Spec
<1> QED
  BY <1>2 DEF NeverBack, ReportsNeverGoBack

\* A published fact is taken by the loop that waits for it, or dropped by a boundary.
THEOREM FactsAreTaken == Spec => NoFactIsLost
<1>1. RuntimeInv /\ [Next]_vars => [TakenOrDropped]_vars
  BY RuntimeInvStep
<1>2. Spec => [][TakenOrDropped]_vars
  BY RuntimeInvariant, <1>1, PTL DEF Spec
<1> QED
  BY <1>2 DEF TakenOrDropped, NoFactIsLost

-----------------------------------------------------------------------------
(* The runtime uses its client as MetarFetch says a client can be used     *)

\* The runtime's calls, seen by the client: a cycle that may start a fetch is
\* as good as one that has not begun.
Fetcher == INSTANCE MetarFetch WITH loop <- IF loop = "dispatch" THEN "ready" ELSE loop

\* Whatever the runtime does with the client, MetarFetch does too: with the
\* client's own proof (MetarClientProofs), what the runtime was checked with
\* is what the client delivers.
THEOREM RuntimeCallsAsAllowed == Spec => Fetcher!FetchSpec
<1>1. Init => Fetcher!FetchInit
  BY DEF Init, FetchInit, Fetcher!FetchInit
<1>2. RuntimeInv /\ [Next]_vars => [Fetcher!FetchNext]_Fetcher!fetchVars
  <2> SUFFICES ASSUME RuntimeInv, [Next]_vars
               PROVE  Fetcher!FetchNext \/ UNCHANGED Fetcher!fetchVars
    BY DEF Fetcher!fetchVars
  <2> USE DEF Fetcher!fetchVars, Fetcher!FetchNext
  <2>1. CASE Cycle
    BY <2>1 DEF Cycle, Fetcher!CallTryHarvest, Fetcher!TakeResult
  <2>2. CASE Join
    BY <2>2 DEF Join, Joined, Fetcher!HarvestJoins, Fetcher!Joined
  <2>3. CASE Dispatch
    <3>1. PICK request \in Request, created \in BOOLEAN : Start(request, created)
      BY <2>3, RequestMade DEF Dispatch
    <3> QED
      BY <2>3, <3>1 DEF Dispatch, Start, Fetcher!CallStart, Fetcher!Start
  <2>4. CASE DispatchNothing
    BY <2>4 DEF DispatchNothing
  <2>5. CASE BeginBoundary
    BY <2>5 DEF BeginBoundary, Event, Fetcher!CallCancelAndJoin
  <2>6. CASE EndBoundary
    BY <2>6 DEF EndBoundary, DropResult, Joined, Fetcher!CancelJoins,
         Fetcher!DropResult, Fetcher!Joined
  <2>7. CASE Work
    BY <2>7 DEF Work, WorkerStep, Fetch, Publish, Leave, Fetcher!WorkerStep,
         Fetcher!Fetch, Fetcher!Publish, Fetcher!Leave
  <2>8. CASE PublishReports
    BY <2>8 DEF PublishReports, NewReports, Fetcher!NewReports
  <2>9. CASE UNCHANGED fetchVars
    BY <2>9 DEF fetchVars
  <2> QED
    BY <2>1, <2>2, <2>3, <2>4, <2>5, <2>6, <2>7, <2>8, <2>9
       DEF Next, FlightLoop, SelectDrawer, Disconnect, Connect, SetContext,
           CommitTextEntry, Elapse, vars
<1> QED
  BY <1>1, <1>2, RuntimeInvariant, PTL DEF Spec, Fetcher!FetchSpec

=============================================================================
