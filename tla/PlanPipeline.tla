---------------------------- MODULE PlanPipeline ----------------------------
(***************************************************************************)
(* A plan and the passes that score it (core/plan/pipeline.py, refresh.py  *)
(* and core/scorers/registry.py): drawn by the router and scored, scored   *)
(* again for another day, and scored again over a line that was edited.    *)
(* A pass runs the scorers that are wanted, in the order of the registry,  *)
(* each reading the results before it, and carries the others' results     *)
(* from the stored plan.  The context is one for all the passes of a plan. *)
(*                                                                         *)
(* What a result keeps here besides its own data is where and when it was  *)
(* really measured: the day, the line of its totals, and the ground under  *)
(* each measurement.                                                       *)
(***************************************************************************)
EXTENDS RouterPaths

CONSTANTS
  Scorers,      \* the registry's names, in its order
  Reads,        \* PRIOR_DEPENDENCIES: what each scorer reads of those before it
  TimeDependent,\* the scorers whose answer is of a day
  Hard, Soft,   \* of a scorer and a day: the places that are flagged when measured
  Finds,        \* the sets of waypoints a scorer may find: [kind, pos, at]
  Partial,      \* the scorers that ask several sources, of which some may not answer
  Dates,
  Asked,        \* the sets of scorers somebody may ask for
  First,        \* the lines and days a plan is first drawn on, <<line, day>>
  Handed,       \* and those of the lines that were handed in
  MaxPasses, MaxMishaps \* bounds: passes over the plan, and what may go wrong in them

VARIABLES
  plan,      \* the stored plan, or NoPlan
  pass,      \* the pass that is running, or NoPass
  coverage,  \* ctx.coverage: the results whose entries were recorded
  delta,     \* what the last re-scoring told of itself, with the plan it replaced, or NoDelta
  passes, mishaps

planVars == <<plan, pass, coverage, delta, passes, mishaps>>

NoPlan == [at |-> "none"]
NoPass == [at |-> "none"]
NoDelta == [at |-> "none"]
NoDate == 0
NoLine == <<>>
\* The lines there are, and the ways of their points, as the router or the layers tell.
Lines == {PathToRoute(path) : path \in Paths}
PathOf == [line \in Lines |-> CHOOSE path \in Paths : PathToRoute(path) = line]
RouterWays == [line \in Lines |-> MatchedWays(Answered(PathOf[line], RouteBody(FALSE, TRUE)))]
Snapped == [line \in Lines |-> SnappedDistances(line)]
LayerWays == [line \in Lines |-> AssignWayIds(line)]
Names == {Scorers[i] : i \in DOMAIN Scorers}

\* A scorer reads only what is before it in the registry; a point has a distance and a place.
ASSUME PipelineAssumption ==
  /\ Scorers \in Seq(Names) /\ TimeDependent \subseteq Names /\ Asked \subseteq SUBSET Names
  /\ \A i \in DOMAIN Scorers : Reads[Scorers[i]] \subseteq {Scorers[j] : j \in 1 .. i - 1}
  /\ First \cup Handed \subseteq Lines \X Dates /\ NoDate \notin Dates
  /\ \A line \in Lines : line # NoLine /\ line \in Seq([at : Int, place : Int \X Int])
  /\ Tolerance \in Nat

\* closure: what is asked for, and all that it reads.
ClosedOnce(names) ==   \* a bug: what is read by what is read is left out
  names \cup UNION {Reads[s] : s \in names}
Closure(names) ==
  LET within[i \in 0 .. Len(Scorers)] ==
        IF i = 0 THEN names ELSE within[i - 1] \cup UNION {Reads[s] : s \in within[i - 1]}
  IN  within[Len(Scorers)]
RescoreSet == Closure(TimeDependent)

-----------------------------------------------------------------------------
\* A result: the day it is of, what it measured, flagged and found with the ground that was
\* under each, the line of its totals, since when it is carried, how much of what it asked
\* answered, and the days and lines of the results it was handed.
Result(s) == [name |-> s, day |-> pass.day, measured |-> {}, hard |-> {}, soft |-> {},
              found |-> {}, total |-> NoLine, carriedFrom |-> NoDate, answered |-> "nothing", lost |-> FALSE, read |-> {}]
Unavailable(s) == Result(s)
OnGround(segments, id) == [id |-> id, ends |-> segments[id].ends]
Earlier == {pass.results[i] : i \in DOMAIN pass.results}
Prior(s) == {r \in Earlier : r.name \in Reads[s]}
Flagged(all, places) == {m \in all : pass.segments[m.id].along \cap places # {}}
Within(segment, at) == segment.start <= at /\ at <= segment.start + segment.length
Beside(segment, at) == \E near \in (at - Tolerance) .. (at + Tolerance) : Within(segment, near)
Place(segments, w) ==
  [kind |-> w.kind, pos |-> w.pos, at |-> w.at,
   on |-> {segments[id].ends : id \in {k \in DOMAIN segments : Beside(segments[k], w.at)}}]
Measured(s, found, answered) ==
  LET all == {OnGround(pass.segments, id) : id \in DOMAIN pass.segments}
  IN  [Result(s) EXCEPT
         !.measured = all, !.answered = answered, !.total = pass.line,
         !.hard = Flagged(all, Hard[s][pass.day]), !.soft = Flagged(all, Soft[s][pass.day]),
         !.found = {Place(pass.segments, w) : w \in found},
         !.read = {<<r.day, r.total>> : r \in {q \in Prior(s) : q.answered # "nothing"}}]

\* carry: it keeps the day it was measured for, and goes where its ground went.
Rekeyed(kept, landed) == {[m EXCEPT !.id = landed[m.id]] : m \in {k \in kept : k.id \in DOMAIN landed}}
SinceThen(result) == [result EXCEPT !.carriedFrom = IF @ # NoDate THEN @ ELSE pass.asOf]
Grounded(result, landed) ==
  [SinceThen(result) EXCEPT
     !.measured = Rekeyed(@, landed), !.hard = Rekeyed(@, landed), !.soft = Rekeyed(@, landed),
     !.found = {w \in @ : \E id \in DOMAIN landed : Within(pass.segments[landed[id]], w.at)},
     !.total = NoLine]
\* Regrounded.lost_anything, which stays with the result until it is regrounded again.
Kept(result) == <<Cardinality(result.measured), Cardinality(result.hard), Cardinality(result.soft),
                  Cardinality(result.found), result.total = NoLine>>
Carry(result) ==
  LET grounded == Grounded(result, Landed(plan.segments, pass.segments))
  IN  IF ~Moved(plan.line, plan.segments, pass.line, pass.segments) THEN SinceThen(result)
      ELSE [grounded EXCEPT !.lost = Kept(grounded) # Kept(result)]
Stored(s) == CHOOSE r \in {plan.results[i] : i \in DOMAIN plan.results} : r.name = s

-----------------------------------------------------------------------------
\* _score_pass: the router knows the ways, or the layers do, or nobody; a re-scoring asks
\* no router, and a repair has none.
Matchers(kind, line) ==
  (IF kind \in {"rescore", "repair"} \/ RouterWays[line] = NoWays THEN {} ELSE {"router"}) \cup {"layers", "nobody"}
WaysOf(line, matcher) ==
  CASE matcher = "router" -> RouterWays[line] [] matcher = "layers" -> LayerWays[line] [] OTHER -> NoWays
\* matching_coverage, and the entry that stands in for it where the router matched.
MatchingCoverage(line, matcher) ==
  <<"way_matching", CASE matcher = "router" -> "all"
                      [] matcher = "layers" /\ IsUsable(LayerWays[line]) -> "all"
                      [] OTHER -> "nothing">>

\* score_once: the manifest of the pass is its own, and the context's is put aside.
BeginWith(kind, line, day, wanted) ==
  /\ pass = NoPass /\ passes < MaxPasses
  /\ \E matcher \in Matchers(kind, line) :
       /\ coverage' = <<MatchingCoverage(line, matcher)>>
       /\ pass' = [at |-> "scoring", kind |-> kind, line |-> line, day |-> day,
                   matched |-> matcher, segments |-> Cut(line, WaysOf(line, matcher)),
                   wanted |-> wanted, results |-> <<>>, late |-> FALSE,
                   asOf |-> IF plan = NoPlan THEN day ELSE plan.day, outer |-> coverage]
  /\ delta' = NoDelta
  /\ passes' = passes + 1
  /\ UNCHANGED <<plan, mishaps>>

\* The loop draws a line and scores it, and then candidates it may not keep.
Draw(line, day) == plan = NoPlan /\ BeginWith("draw", line, day, Names)
Propose(line) == plan # NoPlan /\ line # plan.line /\ BeginWith("propose", line, plan.day, Names)
\* score_route, for a line that was handed in, which stands as it is.
Repair(line, day) == plan = NoPlan /\ BeginWith("repair", line, day, Names)
\* rescore_plan, for a day: what depends on it by default, or what is asked for, and what
\* that reads.
Refresh(day, only) == plan # NoPlan /\ BeginWith("rescore", plan.line, day, Closure(only))
\* rescore_plan, for a line: everything by default.
Edit(line, only) == plan # NoPlan /\ line # plan.line /\ BeginWith("rescore", line, plan.day, Closure(only))

\* run_scorers, one scorer at a time.  A deadline ends the scoring and not the carrying.
Scorer == Scorers[Len(pass.results) + 1]
Scoring == pass.at = "scoring" /\ Len(pass.results) < Len(Scorers)
Mishap == mishaps < MaxMishaps /\ mishaps' = mishaps + 1
Give(result) == pass' = [pass EXCEPT !.results = Append(@, result)]
CarryOne == /\ Scoring /\ Scorer \notin pass.wanted
            /\ Give(Carry(Stored(Scorer)))
            /\ UNCHANGED <<plan, coverage, delta, passes, mishaps>>
Skip == /\ Scoring /\ Scorer \in pass.wanted /\ pass.late
        /\ Give(Unavailable(Scorer))
        /\ UNCHANGED <<plan, coverage, delta, passes, mishaps>>
ScoreOne == /\ Scoring /\ Scorer \in pass.wanted /\ ~pass.late
            /\ \/ \E found \in Finds[Scorer] : Give(Measured(Scorer, found, "all")) /\ UNCHANGED mishaps
               \/ \E found \in Finds[Scorer] :
                    Scorer \in Partial /\ Give(Measured(Scorer, found, "part")) /\ Mishap
               \/ Give(Unavailable(Scorer)) /\ Mishap
            /\ UNCHANGED <<plan, coverage, delta, passes>>
Late == /\ Scoring /\ Scorer \in pass.wanted /\ ~pass.late
        /\ pass' = [pass EXCEPT !.late = TRUE] /\ Mishap
        /\ UNCHANGED <<plan, coverage, delta, passes>>
Covered(results) == [i \in DOMAIN results |-> <<results[i].name, results[i].answered>>]
Drain == /\ pass.at = "scoring" /\ ~Scoring
         /\ coverage' = coverage \o Covered(pass.results)
         /\ pass' = [pass EXCEPT !.at = "scored"]
         /\ UNCHANGED <<plan, delta, passes, mishaps>>

PutAsideNot == coverage' = coverage   \* a bug: the pass leaves its manifest on the context
\* The context gets its own manifest back, whatever happened.
PutAside == coverage' = pass.outer
\* build_plan.  No pass asks for turns; the shortest route waits for somebody to ask
\* (longrun metrics).
Scored ==
  [at |-> "stored", line |-> pass.line, segments |-> pass.segments, matched |-> pass.matched,
   day |-> pass.day, results |-> pass.results, coverage |-> coverage,
   original |-> IF pass.kind = "propose" THEN plan.line ELSE NoLine,
   cues |-> IF pass.kind = "repair" THEN NoRouter ELSE NotRequested, shortest |-> NoLine]

\* RefreshDelta and result_diff: flags by their number, sources by whether they answered,
\* and what a carried result lost of its ground.
ResultIn(p, s) == CHOOSE r \in {p.results[i] : i \in DOMAIN p.results} : r.name = s
Flags(p, s) == <<Cardinality(ResultIn(p, s).hard), Cardinality(ResultIn(p, s).soft)>>
Answering(p) == {s \in Names : ResultIn(p, s).answered # "nothing"}
Told(was, now) ==
  [moved |-> {s \in Names : Flags(was, s) # Flags(now, s)},
   stopped |-> Answering(was) \ Answering(now),
   lost |-> {s \in Names : ResultIn(now, s).lost}]

\* The plan keeps its trade-offs; the pass of a candidate may be dropped.
Keep == /\ pass.at = "scored"
        /\ \/ plan' = Scored
           \/ pass.kind = "propose" /\ plan' = plan
        /\ delta' = IF pass.kind = "rescore" THEN [at |-> "told", was |-> plan, told |-> Told(plan, Scored)]
                    ELSE NoDelta
        /\ PutAside
        /\ pass' = NoPass
        /\ UNCHANGED <<passes, mishaps>>
\* An offline miss in the matching, or heights of another line: the pass raises.
Raise == /\ pass.at = "scoring" /\ pass.results = <<>>
         /\ PutAside /\ Mishap
         /\ pass' = NoPass
         /\ UNCHANGED <<plan, delta, passes>>

InitPlan == plan = NoPlan /\ pass = NoPass /\ coverage = <<>> /\ delta = NoDelta /\ passes = 0 /\ mishaps = 0
BeginPass ==
  \/ \E first \in First : Draw(first[1], first[2])
  \/ \E handed \in Handed : Repair(handed[1], handed[2])
  \/ \E line \in Lines : Propose(line)
  \/ \E day \in Dates, only \in Asked \cup {RescoreSet} : Refresh(day, only)
  \/ \E line \in Lines, only \in Asked \cup {Names} : Edit(line, only)
NextPass == BeginPass \/ CarryOne \/ Skip \/ ScoreOne \/ Late \/ Drain \/ Keep \/ Raise
SpecPasses == InitPlan /\ [][NextPass]_planVars

-----------------------------------------------------------------------------
Results == {plan.results[i] : i \in DOMAIN plan.results}
Fresh == {r \in Results : r.carriedFrom = NoDate}

\* "Carrying sun_exposure while re-running heat_stress against a new date" is a wrong number
\* rather than a stale one (ADR 0030): what a scorer read, it read of its own day and line.
PriorsAreOfTheirPass ==
  plan # NoPlan => \A r \in Fresh : r.read \subseteq {<<r.day, r.total>>}

\* However often it is carried, a result is of the day it tells; a measurement, whichever
\* edits renamed the segments in between, of ground that each pass has moved no farther than
\* the tolerance from where it was measured; and a total of the line it was summed over
\* (ScorerResult.carried_from, ADR 0032).
Traceable(ends, was) ==
  /\ Dist(ends[1], was[1]) <= passes * Tolerance
  /\ Dist(ends[2], was[2]) <= passes * Tolerance
CarriedIsWhatItTells ==
  plan # NoPlan =>
    \A r \in Results :
      /\ r.day = IF r.carriedFrom = NoDate THEN plan.day ELSE r.carriedFrom
      /\ \A m \in r.measured \cup r.hard \cup r.soft :
           m.id \in DOMAIN plan.segments /\ Traceable(plan.segments[m.id].ends, m.ends)
      /\ r.total \in {NoLine, plan.line}

\* The two together: a number that is told is of the day, the line and the ground it tells.
ResultsAreWhatTheyTell == PriorsAreOfTheirPass /\ CarriedIsWhatItTells

\* A waypoint that is carried is still on the ground it was found on, or beside.
WaypointsStayOnTheirGround ==
  plan # NoPlan =>
    \A r \in Results : \A w \in r.found :
      \E id \in DOMAIN plan.segments :
        Within(plan.segments[id], w.at) /\ \E ends \in w.on : Traceable(plan.segments[id].ends, ends)

\* What a plan says was asked is what its own results asked, one by one in their order: no
\* rejected candidate's, and no failed pass's, on the context they all share (score_once).
CoverageIsOfThePlan ==
  /\ plan # NoPlan => plan.coverage = <<MatchingCoverage(plan.line, plan.matched)>> \o Covered(plan.results)
  /\ pass = NoPass => coverage = <<>>

\* The way a segment is scored as is a way its first point lies on (segment_route: `way_ids`
\* "gives the OSM way each point lies on").
WaysAreOfTheGround ==
  plan # NoPlan =>
    \A id \in DOMAIN plan.segments :
      plan.segments[id].way \in {NoWay, 0} \/ OnWay(plan.segments[id].way, plan.segments[id].ends[1])
=============================================================================
