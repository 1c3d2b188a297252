--------------------------- MODULE AuthorityScorers ---------------------------
(***************************************************************************)
(* The scorers that ask whoever is in charge of the ground: closures,      *)
(* trail_status and access_hours, through the adapter registry             *)
(* (core/data/jurisdictions.py, core/data/features.py), the tides of       *)
(* access_hours (core/data/tides.py, _coastal.py), and what hazards reads  *)
(* off the layers (its warnings are in WeatherScorers).  A record is known *)
(* by where it lies, when it holds and how good its source is.  A unit of  *)
(* distance takes a unit of time, and a missing end of a window is Unknown.*)
(***************************************************************************)
EXTENDS OpeningHours

\* ---- jurisdictions.py: whoever the two layers name; parks are managed by agencies.
ScanAnswered(w) == w.boundaries \/ w.parks
Crossed(w) == {j \in w.jurisdictions : IF j.agency THEN w.parks ELSE w.boundaries}
Agencies(w) == {j \in Crossed(w) : j.agency}
Unqualified(w, name) == IF w.parks /\ w.unqualified THEN {NotAsked(name)} ELSE {}
Answers(asked) == {Entry(j.id, j.answered) : j \in asked}
NobodyAsked(asked) == {NotAsked(j.id) : j \in asked}
Records(w, asked) == {r \in w.records : \E j \in asked : j.answered /\ j.id = r.by}

\* ---- features.py: a window is of instants, and an arrival is one if the offset is known.
Timeless(r) == r.from = Unknown /\ r.until = Unknown
InWindow(r, t) == (r.from = Unknown \/ r.from <= t) /\ (r.until = Unknown \/ t <= r.until)
ActiveAt(w, r, t) == IF Timeless(r) THEN TRUE ELSE IF ~w.clock THEN Unknown ELSE InWindow(r, t)

\* ---- closures.py: is_hard, the five gates of ADR 0013.
ClosureBuffer == 2
MinHardTier == 2
WideTier == 3
StandingLength == 10
LiesAlong(r) == r.parallel /\ r.off <= ClosureBuffer
Standing(r) == Unknown \in {r.from, r.until} \/ r.until - r.from > StandingLength
\* An arrival that nobody can place excuses nothing.
MayMeet(w, r) == w.etas /\ w.clock => InWindow(r, r.d)
IsHard(w, r) ==
  r.blocks /\ LiesAlong(r) /\ MayMeet(w, r) /\ ~Standing(r) /\ r.tier <= MinHardTier /\ r.sure
SegmentOf(w, d) == CHOOSE i \in SegmentAt(w, d) : TRUE
\* A record of no place is a note about the whole line, from the lesser sources only.
NotedWide(w, r) ==
  r.tier >= WideTier
    /\ (w.etas /\ w.clock => (r.until = Unknown \/ r.until >= 0) /\ (r.from = Unknown \/ r.from <= Length(w)))
ClosureFlag(w, r) ==
  IF ~r.placed THEN Soft("closures", Route, "closure_jurisdiction_wide")
  ELSE IF IsHard(w, r) THEN Hard("closures", SegmentOf(w, r.d), "closed_to_pedestrians")
  ELSE Soft("closures", SegmentOf(w, r.d), "closure_nearby")
OnRoute(w, r) == IF r.placed THEN r.off <= 3 * ClosureBuffer ELSE NotedWide(w, r)
\* The three scorers below count what they found on every segment, none where nobody answered.
Closures(w) ==
  IF ~ScanAnswered(w) THEN Result(Segments, {}, {NotAsked("closures")})
  ELSE Result(Segments,
              IF w.registry THEN {ClosureFlag(w, r) : r \in {s \in Records(w, Crossed(w)) : OnRoute(w, s)}} ELSE {},
              Unqualified(w, "closures")
                \cup (IF w.boundaries /\ w.registry THEN {} ELSE {NotAsked("closures")})
                \cup (IF w.registry THEN Answers(Crossed(w)) ELSE {}))

\* What trail_status and access_hours share: agencies only, and nobody to ask is an answer.
AgencyCoverage(w, name) ==
  Unqualified(w, name) \cup
    (IF ~w.parks THEN {NotAsked(name)}
     ELSE IF Agencies(w) = {} THEN {Asked(name)}
     ELSE IF w.registry THEN Answers(Agencies(w)) ELSE NobodyAsked(Agencies(w)))
AgencyRecords(w) == IF w.parks /\ w.registry THEN Records(w, Agencies(w)) ELSE {}

\* ---- trail_status.py: prose, and so never hard; one of no place is put at the start.
AlertReach == 5
Applies(w, r) == ~w.etas \/ ActiveAt(w, r, IF r.placed THEN r.d ELSE 0) # FALSE
TrailStatus(w) ==
  Result(Segments, {Soft("trail_status", SegmentOf(w, IF r.placed THEN r.d ELSE 0), "trail_alert") :
                r \in {s \in AgencyRecords(w) : (s.placed => s.off <= AlertReach) /\ Applies(w, s)}},
         AgencyCoverage(w, "trail_status"))

\* ---- access_hours.py: the rules of a gate are judged together; a rule's window says
\* when it holds, its hours when the gate is open.
GateReach == 3
Holding(w, gate, t) == {r \in gate.rules : ActiveAt(w, r, t) = TRUE}
Dated(rules) == {r \in rules : ~Timeless(r)}
Applicable(w, gate, t) ==
  LET holding == Holding(w, gate, t) IN IF Dated(holding) # {} THEN Dated(holding) ELSE holding
Unsure(w, gate, t) == \E r \in gate.rules : ActiveAt(w, r, t) = Unknown
GateState(w, gate, t) ==
  LET answers == {IsOpen(r.hours, w.weekday, t) : r \in Applicable(w, gate, t)}
  IN  IF answers = {} THEN Unknown
      ELSE IF TRUE \in answers THEN TRUE
      ELSE IF Unknown \in answers \/ Unsure(w, gate, t) THEN Unknown ELSE FALSE
\* A rule for a whole park is tested wherever the line enters the agency's ground.
GatePlaces(w, gate) ==
  IF gate.placed THEN (IF gate.off <= GateReach THEN {gate.d} ELSE {})
  ELSE IF w.spans[gate.by] = {} THEN {0} ELSE {s[1] : s \in w.spans[gate.by]}
StateOnArrival(w, gate, d) == IF w.etas THEN GateState(w, gate, d) ELSE Unknown
GateFlag(w, gate, d) ==
  IF StateOnArrival(w, gate, d) = TRUE THEN {}
  ELSE {Soft("access_hours", SegmentOf(w, d),
             IF StateOnArrival(w, gate, d) = FALSE THEN "gate_closed_at_eta" ELSE "gate_hours_unknown")}
Gates(w) == {g \in w.gates : \E j \in Agencies(w) : w.parks /\ w.registry /\ j.answered /\ j.id = g.by}
GateFlags(w) == UNION {UNION {GateFlag(w, g, d) : d \in GatePlaces(w, g)} : g \in Gates(w)}
\* shift_to_open: how much later a start would find it open, the same day; nothing else.
ShiftToOpen(w, gate, d) ==
  LET opens == {NextOpen(ReadHours(r.hours), w.weekday, d) :
                  r \in {q \in Applicable(w, gate, d) : q.hours # <<>>}} \ {Unknown}
  IN  IF opens = {} \/ \E m \in opens : m <= d THEN Unknown
      ELSE (CHOOSE m \in opens : \A n \in opens : m <= n) - d

\* ---- _coastal.py and tides.py: runs of one kind of coast, each with its nearest gauge.
TideWindow == 2
CoastKind(w, i) == w.coast[i]
CoastRuns(w) == UNION {Stretches({i \in Segments : CoastKind(w, i) = k}) : k \in {"tidal", "beach"}}
MiddleSegment(r) == r[1] + (r[2] - r[1] + 1) \div 2
Governed(w, r) == w.gauge[MiddleSegment(r)]      \* within reach, and it answered
Ends(w, r) == {Begins(w, r[1]), w.start[r[2] + 1]}
HighWaterAt(w, t) == \E h \in w.highs : Apart(h, t) <= TideWindow
Conflict(w, r) == w.etas /\ \E e \in Ends(w, r) : HighWaterAt(w, e)
TideFlag(w, r, code) ==
  [Soft("access_hours", r[1], code) EXCEPT !.tier = IF CoastKind(w, r[1]) = "tidal" THEN "safety" ELSE "comfort"]
TideFlags(w) ==
  IF ~w.ways THEN {}
  ELSE {TideFlag(w, r, "tide_unknown") : r \in {s \in CoastRuns(w) : ~Governed(w, s)}}
    \cup {TideFlag(w, r, "tide_conflict_at_eta") : r \in {s \in CoastRuns(w) : Governed(w, s) /\ Conflict(w, s)}}
TideCoverage(w) ==
  IF ~w.ways THEN {NotAsked("ways")} ELSE {Entry("noaa_coops", Governed(w, r)) : r \in CoastRuns(w)}
AccessHours(w) ==
  Result(Segments, GateFlags(w) \cup TideFlags(w), AgencyCoverage(w, "access_hours") \cup TideCoverage(w))

\* ---- hazards.py: each source is asked by itself, and named whether it answered or not.
HazardTags(w, i) == w.ways /\ i \in Tagged(w)
Carried(w, i) == HazardTags(w, i) /\ (TagsOf(w, i).bridge \/ TagsOf(w, i).tunnel \/ TagsOf(w, i).culvert)
Hazard(code, set) == {Soft("hazards", i, code) : i \in set}
OnWays(w) == {i \in Segments : HazardTags(w, i)}
WayHazards(w) ==
  Hazard("tunnel", {i \in OnWays(w) : TagsOf(w, i).tunnel})
    \cup Hazard("bridge_no_walkway", {i \in OnWays(w) : TagsOf(w, i).bridge /\ TagsOf(w, i).walkway = FALSE
                                                        /\ TagsOf(w, i).major})
AtGrade(w, set) == {i \in set : ~Carried(w, i)}
Fords(w) == {i \in OnWays(w) : TagsOf(w, i).ford}
Rail(w) == IF w.railways THEN Hazard("rail_at_grade", AtGrade(w, w.rails)) ELSE {}
Wet(w) == IF w.flowlines THEN AtGrade(w, w.waters) ELSE {}
Water(w) ==
  Hazard("confirmed_ford", Wet(w) \cap Fords(w)) \cup Hazard("possible_water_crossing", Wet(w) \ Fords(w))
Snow(w) == {i \in Segments : w.high[i] = TRUE /\ w.winter}
NoElevation(w) == {i \in Segments : w.high[i] = Unknown}
Hazards(w) ==
  Result(Segments \ (NoElevation(w) \cup (Wet(w) \ Fords(w))),
         WayHazards(w) \cup Rail(w) \cup Water(w) \cup Hazard("seasonal_snow", Snow(w))
           \cup (IF w.nodes THEN Hazard("cattle_grid", w.grids) ELSE {}),
         {Entry("ways", w.ways), Entry("railways", w.railways), Entry("flowlines", w.flowlines),
          Entry("nodes", w.nodes), Entry("dem", NoElevation(w) = {})})
=============================================================================
