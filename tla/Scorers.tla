------------------------------- MODULE Scorers -------------------------------
(***************************************************************************)
(* One scorer at a time, given a line, what its sources would say if they  *)
(* were there, whether they are there, and a profile the store accepts     *)
(* (core/preferences/store.py runs floors.py on every path).  A world is a *)
(* record of what one scorer reads; its Boolean fields named in            *)
(* SourceFields say which of the sources can be consulted.                 *)
(***************************************************************************)
EXTENDS WayScorers, AuthorityScorers, Pacing

CONSTANTS
  Subjects,        \* the scorers
  Worlds(_),       \* what a scorer may be given
  Profiles(_)      \* the profiles a runner may write, as far as the scorer reads them

\* The registry's entries.
Registered ==
  {"legality", "segment_hostility", "crossings", "stop_density", "surface_profile", "lighting",
   "services_along", "resupply_schedule", "transit", "bailouts", "crew_points", "cell_coverage",
   "microclimate", "heat_stress", "sun_exposure", "air_quality", "warnings", "closures",
   "trail_status", "access_hours", "hazards", "pacing_model", "start_time_optimizer"}

\* What may be missing of a world: whole layers and services, and the answers of some.
SourceFields ==
  {"ways", "nodes", "amenities", "stopsLayer", "coverageLayer", "surface", "railways",
   "flowlines", "boundaries", "parks", "registry", "contact", "dem", "history"}
AnswerFields == {"nws", "meteo", "air", "covered", "jurisdictions"}

\* What a scorer reads of these.
MayMiss(name) ==
  CASE name \in {"legality", "segment_hostility", "surface_profile", "lighting"} -> {"ways"}
    [] name = "crossings" -> {"ways", "nodes"}
    [] name = "stop_density" -> {"nodes"}
    [] name = "services_along" -> {"amenities", "parks"}
    [] name = "resupply_schedule" -> {"amenities"}
    [] name = "transit" -> {"stopsLayer"}
    [] name = "bailouts" -> {"stopsLayer", "ways"}
    [] name = "crew_points" -> {"amenities", "ways"}
    [] name = "cell_coverage" -> {"coverageLayer"}
    [] name \in {"microclimate", "heat_stress"} -> {"contact", "nws", "meteo"}
    [] name = "sun_exposure" -> {"contact", "nws", "meteo", "surface"}
    [] name = "air_quality" -> {"air"}
    [] name = "warnings" -> {"contact", "nws"}
    [] name \in {"closures", "trail_status"} -> {"boundaries", "parks", "registry", "jurisdictions"}
    [] name = "access_hours" -> {"boundaries", "parks", "registry", "jurisdictions", "ways"}
    [] name = "hazards" -> {"ways", "railways", "flowlines", "nodes"}
    [] name = "pacing_model" -> {"dem", "history", "covered"}
    [] name = "start_time_optimizer" -> {"contact", "nws", "meteo", "surface", "amenities", "stopsLayer"}

\* What else is read by those whose sources answer in part.
Given(name) ==
  CASE name = "microclimate" -> {"etas", "calls", "at", "start", "eta", "hours", "says"}
    [] name = "heat_stress" -> {"etas", "calls", "at", "start", "eta", "hours", "says", "wbgt"}
    [] name = "air_quality" -> {"etas"}
    [] name = "warnings" -> {"day", "alerts"}
    [] name = "trail_status" -> {"etas", "clock", "start", "records"}
    [] name = "access_hours" ->
         {"etas", "clock", "start", "weekday", "gates", "spans", "coast", "gauge", "highs"}
    [] name = "pacing_model" -> {"start", "ground", "runs", "drift"}
    [] name = "start_time_optimizer" ->
         {"etas", "calls", "at", "start", "hours", "says", "window", "begin", "weekday", "noon", "places", "halts"}
    [] OTHER -> {}

\* A world is of what its scorer reads, a line is cut into segments that have a length,
\* and a place is somewhere on it.
ASSUME ScorersAssumption ==
  /\ Subjects \subseteq Registered
  /\ \A name \in Subjects : \A w \in Worlds(name) :
       /\ w = [f \in DOMAIN w |-> w[f]] /\ Given(name) \subseteq DOMAIN w
       /\ (SourceFields \cup AnswerFields) \cap DOMAIN w = MayMiss(name)
       /\ \A f \in MayMiss(name) \cap SourceFields : w[f] \in BOOLEAN
       /\ "nws" \in MayMiss(name) => 1 .. Sites \subseteq DOMAIN w.nws
       /\ "calls" \in Given(name) => w.calls \in Nat
       /\ "jurisdictions" \in MayMiss(name) =>
            \A j \in w.jurisdictions : /\ j = [id |-> j.id, agency |-> j.agency, answered |-> j.answered]
                                        /\ {j.agency, j.answered} \subseteq BOOLEAN
  /\ \A name \in Subjects : \A p \in Profiles(name) : p.water \in Int
  /\ \A w \in Worlds("surface_profile") : Cut(w.start)
  /\ \A w \in Worlds("resupply_schedule") :
       /\ Cut(w.start) /\ w.wbgt \in Int \cup {Unknown}
       /\ \A p \in w.places : p.d \in 0 .. Length(w) /\ p.hours \in Seq(Seq(Rule))

VARIABLES subject, world, profile, result

judgeVars == <<subject, world, profile, result>>

Pending == Result({}, {}, {})
Judge(name, outcome) ==
  /\ subject = name /\ result = Pending
  /\ result' = outcome
  /\ UNCHANGED <<subject, world, profile>>

InitJudge ==
  /\ subject \in Subjects
  /\ world \in Worlds(subject)
  /\ profile \in {p \in Profiles(subject) : CheckFloors(p)}
  /\ result = Pending

Score(name, w, p) ==
  CASE name = "legality" -> Legality(w)
    [] name = "segment_hostility" -> Hostility(w, p)
    [] name = "crossings" -> Crossings(w)
    [] name = "stop_density" -> StopDensity(w, p)
    [] name = "surface_profile" -> Surface(w, p)
    [] name = "lighting" -> Lighting(w, p)
    [] name = "services_along" -> Services(w)
    [] name = "resupply_schedule" -> Resupply(w, p)
    [] name = "transit" -> Transit(w)
    [] name = "bailouts" -> Bailouts(w)
    [] name = "crew_points" -> CrewPoints(w)
    [] name = "cell_coverage" -> CellCoverage(w)
    [] name = "microclimate" -> Microclimate(w)
    [] name = "heat_stress" -> Heat(w)
    [] name = "sun_exposure" -> Sun(w, p)
    [] name = "air_quality" -> AirQuality(w)
    [] name = "warnings" -> Alerts(w)
    [] name = "closures" -> Closures(w)
    [] name = "trail_status" -> TrailStatus(w)
    [] name = "access_hours" -> AccessHours(w)
    [] name = "hazards" -> Hazards(w)
    [] name = "pacing_model" -> PacingModel(w)
    [] name = "start_time_optimizer" -> StartTimes(w)

NextJudge == \E name \in Subjects : Judge(name, Score(name, world, profile))

SpecJudge == InitJudge /\ [][NextJudge]_judgeVars

-----------------------------------------------------------------------------
Judged == result # Pending

\* The same line, with every source there, and all that are asked answering for nothing.
Answering(asked) == [s \in DOMAIN asked |-> [reply |-> "hours", cost |-> 0]]
Revealed(w) ==
  [f \in DOMAIN w |->
     CASE f \in SourceFields -> TRUE
       [] f \in {"nws", "meteo", "air"} -> Answering(w[f])
       [] f = "covered" -> PointsOf
       [] f = "jurisdictions" -> {[j EXCEPT !.answered = TRUE] : j \in w[f]}
       [] OTHER -> w[f]]
\* Where the code says nothing of a source it did not reach: README, Disagreements.
KnownSilence ==
  \/ subject = "closures" /\ ~world.parks
  \/ subject = "warnings" /\ SiteAlerts(world) # 1 .. Sites
  \/ subject = "sun_exposure" /\ CloudKnown(world)
  \/ subject = "start_time_optimizer" /\ Answered(world) \notin {{}, 1 .. Sites}
\* If a sheet would carry another flag, measure another segment or give another time had
\* every source been there, it names a source that was not consulted: nothing is left out
\* without a word (scope 12, "unknown, not absent").
AbsenceIsReported ==
  Judged /\ ~KnownSilence =>
    LET revealed == Score(subject, Revealed(world), profile)
    IN  \/ revealed.flags \subseteq result.flags /\ revealed.known \subseteq result.known
        \/ \E e \in result.coverage : ~e.checked

\* No profile that the store accepts, whatever it tolerates, takes a hard flag off a line
\* or puts one on it: safety is not a preference (core/preferences/floors.py).
FloorsIgnoreTheProfile ==
  Judged => \A p \in Profiles(subject) :
              CheckFloors(p) => HardFlags(Score(subject, world, p)) = HardFlags(result)

\* A line is refused for want of water if, and only if, it has a stretch, longer than the
\* floor at the heat of the day, on which every tap is known to be shut as the runner comes by.
Dry(a, b) ==
  \A p \in world.places :
    p.kind = "water" /\ p.off <= Buffer /\ a < p.d /\ p.d < b => IsOpen(p.hours, world.weekday, p.d) = FALSE
DryGapsAreFlagged ==
  Judged /\ subject = "resupply_schedule" /\ world.etas /\ world.amenities =>
    (HardFlags(result) # {}
       <=> \E a, b \in 0 .. Length(world) : a < b /\ Dry(a, b) /\ Exceeds(b - a, DryGapHard, world.wbgt))

\* A sustained stretch of a surface is one on the ground, however the line is cut into
\* segments: it is flagged where it begins if, and only if, the line has that much of it.
OnSurface(class, d) == \E i \in SegmentAt(world, d) : TagsOf(world, i) # Unknown /\ TagsOf(world, i).surface = class
SustainedOnTheGround(class) ==
  \E a \in 0 .. Length(world) : \A d \in a .. (a + SustainedSurface - 1) : d < Length(world) /\ OnSurface(class, d)
SustainedIsOnTheGround ==
  Judged /\ subject = "surface_profile" /\ world.ways /\ profile.surface \in DOMAIN FlaggedClass =>
    ((\E f \in result.flags : f.code = "sustained_surface") <=> SustainedOnTheGround(FlaggedClass[profile.surface]))

\* A place is called shut, and so left out of the supplies, only if it is shut however the
\* parts of its hours that could not be read turn out (ADR 0046 section 5).
ShutIsCertain ==
  Judged /\ subject = "resupply_schedule" =>
    \A p \in world.places : ClosedForCertain(p.hours, world.weekday, p.d)
=============================================================================
