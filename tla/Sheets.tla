------------------------------- MODULE Sheets -------------------------------
(***************************************************************************)
(* What is read of a stored plan: the report of gpx_verify                 *)
(* (core/verify), the acceptance metrics (core/plan/metrics.py), the plan  *)
(* sheet (core/export/sheet_md.py and sheet_html.py), and the course a     *)
(* device is given (core/export/course.py, fit.py, tcx.py), which holds so *)
(* many points and no more.                                                *)
(*                                                                         *)
(* All of them are read off the plan, so they are operators of it; the one *)
(* thing written back is the length of the shortest route.                 *)
(***************************************************************************)
EXTENDS PlanPipeline

CONSTANTS
  MaxSnap,      \* checks.MAX_SNAP_DISTANCE_M
  SameLine,     \* diff.SAME_LINE_M
  Heights,      \* the heights along each line
  Target, Slack,\* the length asked for, or NoTarget, and how far from it is well enough
  Locks,        \* the locked ranges of the request, <<start, end>>
  MaxGap, Spike, Unsampled, NoTarget,   \* checks.MAX_POINT_GAP_M, SPIKE_THRESHOLD_M
  WorstN,       \* sheet_md.WORST_N
  DeviceMax,    \* DEVICE_COURSE_POINT_MAX
  NeverDrop, KindPriority,              \* course.py
  Finders,      \* WAYPOINT_PRIORITY
  Licensed      \* the sources LICENCES knows

Length(line) == Last(line).at
\* A registry names a scorer once, and way_matching is none; legality asks one source.  No
\* two points of a line are at one distance, a lock holds some of the line, and what a
\* finder finds is along the line.
ASSUME SheetsAssumption ==
  /\ \A i, j \in DOMAIN Scorers : Scorers[i] = Scorers[j] => i = j
  /\ "way_matching" \notin Names /\ "legality" \notin Partial
  /\ \A line \in Lines : line[1].at = 0 /\ \A i, j \in DOMAIN line : i < j => line[i].at < line[j].at
  /\ \A lock \in Locks : /\ lock \in Nat \X Nat /\ lock[1] < lock[2]
                         /\ \A line \in Lines : lock[1] < Length(line)
  /\ \A s \in Names : \A found \in Finds[s] :
       /\ IsFiniteSet(found)
       /\ \A w \in found : w.pos \in Nat /\ w.at \in Nat /\ \A line \in Lines : w.at <= Length(line)
  /\ WorstN \in Nat \ {0} /\ DeviceMax \in Nat
  /\ {"gate", "hazard"} \subseteq NeverDrop /\ Len(KindPriority) \in Nat
  /\ \A i, j \in DOMAIN KindPriority : KindPriority[i] = KindPriority[j] => i = j
Has(p, s) == s \in Names
Rows(p, s) == ResultIn(p, s)

-----------------------------------------------------------------------------
\* ---- core/verify: a check passes, fails, or is skipped because nothing can answer it.
Report(bad) == IF bad THEN "failed" ELSE "passed"
\* _offenders_from: nothing to go by when the scorer did not run, or nothing answered it.
LookedAt(p, s) == Has(p, s) /\ Rows(p, s).answered # "nothing"
Offends(p, s) == Rows(p, s).hard # {}
Gaps(line) == {i \in 2 .. Len(line) : line[i].at - line[i - 1].at > MaxGap}
Jump(x, y) == x - y > Spike \/ y - x > Spike
Spikes(heights) ==
  {i \in 2 .. Len(heights) - 1 :
     /\ Unsampled \notin {heights[k] : k \in i - 1 .. i + 1}
     /\ Jump(heights[i], heights[i - 1]) /\ Jump(heights[i + 1], heights[i])
     /\ ~Jump(heights[i + 1], heights[i - 1])}

\* route_diff: the stretches of a line, from the last point that is on the other to the
\* next that is, whose points are not points of the other.
Off(a, b, i) == \A k \in DOMAIN b : Dist(a[i].place, b[k].place) > SameLine
Spans(a, b) ==
  LET stretches ==
        {x \in (DOMAIN a) \X (DOMAIN a) :
           /\ x[1] <= x[2] /\ \A k \in x[1] .. x[2] : Off(a, b, k)
           /\ x[1] = 1 \/ ~Off(a, b, x[1] - 1)
           /\ x[2] = Len(a) \/ ~Off(a, b, x[2] + 1)}
  IN  {<<a[IF x[1] = 1 THEN 1 ELSE x[1] - 1].at, a[IF x[2] = Len(a) THEN x[2] ELSE x[2] + 1].at>> : x \in stretches}
Broken(lock, a, b) == \E span \in Spans(a, b) : span[1] < lock[2] /\ span[2] > lock[1]

\* gpx_verify, without check 8, which is check 5 of another scorer, and check 9: no request
\* has a time constraint.
Verified(p) ==
  [valid_gpx |-> Report(Len(p.line) < 2),
   on_network |-> CASE p.matched = "router" -> "passed"   \* snapped by the router, at no distance
                    [] p.matched = "layers" -> Report(\E i \in DOMAIN p.line : Snapped[p.line][i] > MaxSnap)
                    [] OTHER -> "skipped",
   no_gaps |-> Report(Gaps(p.line) # {}),
   elevation_sane |-> Report(Spikes(Heights[p.line]) # {}),
   no_illegal_ways |-> IF LookedAt(p, "legality") THEN Report(Offends(p, "legality")) ELSE "skipped",
   no_active_closures |->
     IF ~LookedAt(p, "closures") THEN "skipped"
     ELSE IF Offends(p, "closures") THEN "failed"
     ELSE IF Rows(p, "closures").answered = "part" THEN "skipped" ELSE "passed",
   distance_in_tolerance |->
     IF Target = NoTarget THEN "skipped"
     ELSE Report(Length(p.line) - Target > Slack \/ Target - Length(p.line) > Slack),
   locks_intact |->
     IF p.original = NoLine THEN "skipped"
     ELSE Report(\E lock \in Locks : Broken(lock, p.original, p.line))]

-----------------------------------------------------------------------------
\* ---- core/plan/metrics.py: the two LTS numbers are the hostility scorer's own totals, and
\* the detour needs the length of the shortest legal route.
Metrics(p) ==
  [lts |-> IF Has(p, "segment_hostility") THEN Rows(p, "segment_hostility").total ELSE NoLine,
   detour |-> IF p.shortest = NoLine THEN "not measured" ELSE "measured"]
\* longrun metrics --router --write
MeasureDetour ==
  /\ pass = NoPass /\ plan # NoPlan /\ plan.shortest # plan.line
  /\ plan' = [plan EXCEPT !.shortest = plan.line]
  /\ UNCHANGED <<pass, coverage, delta, passes, mishaps>>

-----------------------------------------------------------------------------
\* ---- core/export/course.py, which chooses what a device can hold.
\* merge_waypoints: of two of one kind at one position, the one found by whom is trusted.
Rank(s) == IF \E i \in DOMAIN Finders : Finders[i] = s THEN CHOOSE i \in DOMAIN Finders : Finders[i] = s ELSE 99
All(p) == UNION {{[kind |-> w.kind, pos |-> w.pos, at |-> w.at, by |-> r.name] : w \in r.found} :
                   r \in {p.results[i] : i \in DOMAIN p.results}}
Waypoints(p) ==
  {w \in All(p) : \A v \in All(p) : v.kind = w.kind /\ v.pos = w.pos => Rank(w.by) <= Rank(v.by)}
\* In the order in which a runner meets them; and so many of some, the first that are met.
Before(v, w) == v.at < w.at \/ (v.at = w.at /\ v.pos <= w.pos)
Foremost(ws) == CHOOSE w \in ws : \A v \in ws : Before(w, v)
With(picked, ws) == IF ws = {} THEN picked ELSE picked \cup {Foremost(ws)}
FirstOf(ws, n) ==
  LET picked[k \in 0 .. n] == IF k = 0 THEN {} ELSE With(picked[k - 1], ws \ picked[k - 1])
  IN  picked[n]

\* One kind's share: those that are a spacing from the last, and then the first that are left.
Far(of_kind, picked, share, length) ==
  {w \in of_kind : \A v \in picked : (w.at - v.at) * share >= length}
Spaced(of_kind, share, length) ==
  LET picked[k \in 0 .. share] ==
        IF k = 0 THEN {} ELSE With(picked[k - 1], Far(of_kind, picked[k - 1], share, length))
  IN  picked[share]
ShareTruncated(of_kind, share, length) == FirstOf(of_kind, share)   \* a bug: the tail is cut
Share(of_kind, share, length) ==
  LET spaced == Spaced(of_kind, share, length)
  IN  spaced \cup FirstOf(of_kind \ spaced, share - Cardinality(spaced))

\* select_for_device: each kind in its turn, with what the kinds before it have left.
OfKind(ws, kind) == {w \in ws : w.kind = kind}
Admitted(kept, of_kind, length) ==
  LET budget == DeviceMax - Cardinality(kept)
  IN  IF budget <= 0 \/ of_kind = {} THEN kept
      ELSE kept \cup Share(of_kind, IF Cardinality(of_kind) < budget THEN Cardinality(of_kind) ELSE budget, length)
NeverDropped(ws) == {w \in ws : w.kind \in NeverDrop}
Course(ws, length) ==
  LET kept[k \in 0 .. Len(KindPriority)] ==
        IF k = 0 THEN NeverDropped(ws) ELSE Admitted(kept[k - 1], OfKind(ws, KindPriority[k]), length)
  IN  IF Cardinality(ws) <= DeviceMax THEN ws ELSE kept[Len(KindPriority)]

\* fit_course and tcx_course: each is put on the line at the point nearest its distance.
Gap(x, y) == IF x < y THEN y - x ELSE x - y
PutAt(line, at) ==
  CHOOSE i \in DOMAIN line : \A k \in DOMAIN line :
    Gap(line[i].at, at) < Gap(line[k].at, at) \/ (Gap(line[i].at, at) = Gap(line[k].at, at) /\ i <= k)
CoursePoints(p) == {[kind |-> w.kind, place |-> p.line[PutAt(p.line, w.at)].place] :
                      w \in Course(Waypoints(p), Length(p.line))}

-----------------------------------------------------------------------------
\* ---- the plan sheet.  ScorerResult.worst: hard before soft, and a few of each scorer.
Marks(r) == {<<"HARD", m.id>> : m \in r.hard} \cup {<<"soft", m.id>> : m \in r.soft \ r.hard}
Worse(f, g) == (f[1] = "HARD" /\ g[1] = "soft") \/ (f[1] = g[1] /\ f[2] < g[2])
Worst(r) == {f \in Marks(r) : Cardinality({g \in Marks(r) : Worse(g, f)}) < WorstN}
FlagsSection(p) == [s \in Names |-> Worst(Rows(p, s))]
\* The map draws one flag on a segment, the most serious of all the scorers'.
FlaggedBy(p, id) ==
  [hard |-> \E s \in Names : id \in {m.id : m \in Rows(p, s).hard},
   soft |-> \E s \in Names : id \in {m.id : m \in Rows(p, s).soft}]
Drawn(p) ==
  [id \in DOMAIN p.segments |->
     IF FlaggedBy(p, id).hard THEN "HARD" ELSE IF FlaggedBy(p, id).soft THEN "soft" ELSE "plain"]
\* The strips along the line: what is measured, at the segment that has its name now.
Strip(p, s) == {m.id : m \in {k \in Rows(p, s).measured : k.id \in DOMAIN p.segments}}

VerifySection(report) == {<<c, report[c]>> : c \in {k \in DOMAIN report : report[k] # "passed"}}
Sources(p) == {p.coverage[i] : i \in DOMAIN p.coverage}
Unchecked(p) == {s[1] : s \in {x \in Sources(p) : x[2] # "all"}}
Checked(p) == {s[1] : s \in {x \in Sources(p) : x[2] # "nothing"}}
CoverageSection(p) == [notChecked |-> Unchecked(p), checked |-> Checked(p)]
Credit(sources) == [s \in sources |-> IF s \in Licensed THEN "licence" ELSE "LICENCE NOT RECORDED"]
\* How many results the manifest says were carried and not measured again.
ManifestBlock(p) == Cardinality({s \in Names : Rows(p, s).carriedFrom # NoDate})
CueSection(p) == IF p.cues.checked THEN p.cues.cues ELSE p.cues.reason
MetricsSection(p) == <<IF Metrics(p).lts = NoLine THEN "not measured" ELSE "measured", Metrics(p).detour>>

\* _summary_of: the totals of a route, which a carried result may have lost; and _not_run.
SummaryOf(p, s) == IF Has(p, s) THEN Rows(p, s).total ELSE NoLine
NotRun(p, s) == IF Has(p, s) /\ s \in Unchecked(p) THEN "not checked" ELSE "did not run"
Found(p, s) == IF Rows(p, s).found = {} THEN "none found" ELSE "rows"
ResupplySection(p) ==
  IF SummaryOf(p, "resupply_schedule") = NoLine THEN NotRun(p, "resupply_schedule")
  ELSE Found(p, "resupply_schedule")
SunHeatSection(p) ==
  IF ~Has(p, "heat_stress") /\ ~Has(p, "sun_exposure") THEN "not established"
  ELSE {Strip(p, s) : s \in Names \cap {"heat_stress", "sun_exposure"}}
StartTimeSection(p) ==
  IF ~Has(p, "start_time_optimizer") THEN "nothing" ELSE Found(p, "start_time_optimizer")
\* These two are established when there is a result, and one that failed is there too.
LogisticsSection(p) ==
  [s \in {"bailouts", "crew_points"} |-> IF Has(p, s) THEN Found(p, s) ELSE NotRun(p, s)]
\* The facts at the head of a sheet: the totals that are known.
Facts(p) == {s \in {"sun_exposure", "heat_stress", "resupply_schedule"} : SummaryOf(p, s) # NoLine}

\* longrun summary: what ran, and what did not answer.
Summary(p) ==
  [s \in Names |->
     [state |-> IF s \in Unchecked(p) /\ Rows(p, s).measured = {} THEN "unavailable" ELSE "ran",
      hard |-> Cardinality(Rows(p, s).hard)]]

Markdown(p) ==
  [metrics |-> MetricsSection(p), resupply |-> ResupplySection(p), sun |-> SunHeatSection(p),
   start |-> StartTimeSection(p), flagged |-> FlagsSection(p), logistics |-> LogisticsSection(p),
   cues |-> CueSection(p), failing |-> VerifySection(Verified(p)), coverage |-> CoverageSection(p),
   credit |-> Credit(Checked(p))]
Html(p) ==
  [facts |-> Facts(p), drawn |-> Drawn(p), strips |-> [s \in Names |-> Strip(p, s)],
   flagged |-> FlagsSection(p), report |-> Verified(p), coverage |-> CoverageSection(p),
   carried |-> ManifestBlock(p), credit |-> Credit({x[1] : x \in Sources(p)})]

-----------------------------------------------------------------------------
SpecRead == InitPlan /\ [][NextPass \/ MeasureDetour]_planVars

\* What was found against the law or closed fails the report; a check that passes heard
\* all that it asks; and where locks are intact, every point of a lock is where it was.
ReportTells(p) ==
  LET report == Verified(p)
  IN  /\ \A r \in {q \in Results : q.hard # {}} :
           /\ r.name = "legality" => report.no_illegal_ways = "failed"
           /\ r.name = "closures" => report.no_active_closures = "failed"
      /\ report.no_illegal_ways = "passed" => "legality" \notin Unchecked(p)
      /\ report.no_active_closures = "passed" => "closures" \notin Unchecked(p)
      /\ report.locks_intact = "passed" =>
           \A lock \in Locks, i \in DOMAIN p.original :
             lock[1] <= p.original[i].at /\ p.original[i].at <= lock[2] => ~Off(p.original, p.line, i)

\* Both sheets have room for a few flags of each scorer, and a hard one is among them and on
\* the map, where it was found; they name what did not answer, tell no total that nobody
\* summed over this line, and credit everything they used; and the detour is of this line,
\* or there is none.
SheetTells(p) ==
  LET sheet == Markdown(p)
      page == Html(p)
      short == Summary(p)
  IN  /\ \A r \in Results :
           /\ (r.hard # {} => \E f \in sheet.flagged[r.name] : f[1] = "HARD")
           /\ (r.answered # "all" => r.name \in sheet.coverage.notChecked)
           /\ (r.answered = "nothing" => short[r.name] = [state |-> "unavailable", hard |-> 0])
           /\ (r.carriedFrom = NoDate /\ r.answered # "nothing" => page.strips[r.name] = DOMAIN p.segments)
      /\ \A r \in Results : \A m \in r.hard : page.drawn[m.id] = "HARD" /\ Traceable(p.segments[m.id].ends, m.ends)
      /\ \A id \in DOMAIN p.segments : page.drawn[id] = "HARD" => \E r \in Results : \E m \in r.hard : m.id = id
      /\ \A s \in page.facts : p.line = ResultIn(p, s).total /\ s \in DOMAIN sheet.credit
      /\ (sheet.resupply \in {"none found", "rows"} => "resupply_schedule" \in sheet.coverage.checked)
      /\ page.carried = Cardinality(Results \ Fresh)
      /\ {p.shortest, Metrics(p).lts} \subseteq {NoLine, p.line}

\* A device has room for a few points, and is given no more unless none may be dropped: no
\* hazard and no gate is, and what is
\* dropped is no farther past one of its kind that is kept than those would be, evenly
\* spaced (select_for_device: the survivors span the whole route).
CourseTells(p) ==
  LET all == Waypoints(p)
      kept == Course(all, Length(p.line))
  IN  /\ Cardinality(kept) <= DeviceMax \/ kept = NeverDropped(all)
      /\ OfKind(all, "gate") \cup OfKind(all, "hazard") \subseteq kept
      /\ \A w \in all \ kept :
           LET same == OfKind(kept, w.kind)
           IN  same # {} => \E v \in same :
                 v.at <= w.at /\ (w.at - v.at) * Cardinality(same) <= Length(p.line)

\* A re-scoring that tells of no moved flag, no silenced source and no lost ground leaves
\* every carried flag and measurement where it was, and the same number of hard ones.
DeltaTells ==
  delta # NoDelta /\ delta.told = [moved |-> {}, stopped |-> {}, lost |-> {}] =>
    \A r \in Results :
      LET was == ResultIn(delta.was, r.name)
      IN  /\ Cardinality(r.hard) = Cardinality(was.hard) /\ (was.answered # "nothing" => r.answered # "nothing")
          /\ r.carriedFrom # NoDate => /\ {m.ends : m \in r.hard} = {m.ends : m \in was.hard}
                                      /\ {m.ends : m \in r.measured} = {m.ends : m \in was.measured}

\* What is read of a plan is of that plan, and is all that a reader has to be told.  (No
\* plan is replaced while a pass runs, so it is enough to read it between the passes.)
WhatIsReadIsOfThePlan ==
  /\ CoverageIsOfThePlan
  /\ plan # NoPlan /\ pass = NoPass => ReportTells(plan) /\ SheetTells(plan) /\ CourseTells(plan)
  /\ DeltaTells

\* Until drifts of less than a tolerance add up, a segment is drawn in red exactly where its
\* ends agree with those of a hard flag.
MapTells(p) ==
  \A id \in DOMAIN p.segments :
    Drawn(p)[id] = "HARD" <=> \E r \in Results : \E m \in r.hard : EndsAgree(m.ends, p.segments[id].ends)
\* What the cue_sheet and route tools read of the path behind a line.
PathTells == [line \in Lines |-> CuesTell(PathOf[line]) /\ SummaryTells(PathOf[line])]

\* And it is of its ground: a carried waypoint is where it was found (carry), what is red on
\* the map is what was flagged there, and the turns and ways are those of the router's path.
WhatIsReadIsOfTheGround ==
  /\ WaypointsStayOnTheirGround
  /\ plan # NoPlan /\ pass = NoPass => MapTells(plan) /\ PathTells[plan.line]
=============================================================================
