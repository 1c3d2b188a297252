----------------------------- MODULE RouterPaths -----------------------------
(***************************************************************************)
(* What GraphHopper answers and what is made of it                         *)
(* (core/routing/graphhopper.py, core/geo/gpx.py), and the ways that the   *)
(* layers have, for a line no router knows (core/geo/matching.py).         *)
(*                                                                         *)
(* A path is a sequence of coordinates.  It comes with what was asked for: *)
(* the ways of its steps, in half-open ranges of indices counted from 0,   *)
(* and its turns, each at such an index.  A line is made of it by leaving  *)
(* out the points that are too close and filling in those that are too far,*)
(* so that no index of the one is an index of the other.                   *)
(***************************************************************************)
EXTENDS Segments, FiniteSets

CONSTANTS
  Paths,          \* the paths GraphHopper has: coordinates, ways, turns
  Network,        \* the ways of the layers, each with the places it goes through
  NoWay,          \* the way of a point that has none
  Dedupe, MaxSpacing,     \* DEFAULT_DEDUPE_M, DEFAULT_MAX_SPACING_M
  MatchTolerance,         \* matching.DEFAULT_TOLERANCE_M
  AmbiguousGap            \* AMBIGUOUS_GAP_M

\* route_body: the turns and the ways come with a path only if they are asked for.
RouteBody(instructions, details) == [instructions |-> instructions, details |-> details]
Answered(path, body) ==
  [path EXCEPT !.turns = IF body.instructions THEN @ ELSE {},
               !.ways = IF body.details THEN @ ELSE {}]

-----------------------------------------------------------------------------
\* ---- normalize and densify, and what they make of an index.
Farther(points, place, dedupe) ==
  LET step == Dist(Last(points).place, place)
  IN  IF step < dedupe THEN points ELSE Append(points, [at |-> Last(points).at + step, place |-> place])
Normalize(places, dedupe) ==
  FoldLeft(LAMBDA points, place : Farther(points, place, dedupe),
           <<[at |-> 0, place |-> places[1]]>>, Tail(places))
Between(p, q, k, n) == <<p[1] + ((q[1] - p[1]) * k) \div n, p[2] + ((q[2] - p[2]) * k) \div n>>
Filled(p, q) ==
  LET steps == Dist(p, q) \div MaxSpacing
  IN  [k \in 1 .. steps |-> Between(p, q, k, steps + 1)]
Densify(points) ==
  LET upTo[i \in DOMAIN points] ==
        IF i = 1 THEN <<points[1].place>>
        ELSE upTo[i - 1] \o Filled(points[i - 1].place, points[i].place) \o <<points[i].place>>
  IN  Normalize(upTo[Len(points)], 0)
PathToRoute(path) == Densify(Normalize(path.coordinates, Dedupe))

\* cumulative_after_normalize: how far along the line each coordinate of the path is.
Along(places) ==
  LET upTo[i \in DOMAIN places] ==
        IF i = 1 THEN [at |-> 0, anchor |-> places[1]]
        ELSE LET step == Dist(upTo[i - 1].anchor, places[i])
             IN  IF step < Dedupe THEN upTo[i - 1] ELSE [at |-> upTo[i - 1].at + step, anchor |-> places[i]]
  IN  [i \in DOMAIN places |-> upTo[i].at]

-----------------------------------------------------------------------------
\* ---- the ways.  _way_ids_per_point: as many as the line has points, by the indices of
\* the path; and path_way_classes, by the steps of the path.
Holds(range, index) == range.from <= index /\ index < range.to
TellOf(path, index) ==
  LET told == {r \in path.ways : Holds(r, index)}
  IN  IF told = {} THEN NoWay ELSE (CHOOSE r \in told : TRUE).way
WayIdsPerPoint(path, count) == [i \in 1 .. count |-> TellOf(path, i - 1)]
PathWayClasses(path) ==
  [i \in 1 .. Len(path.coordinates) - 1 |->
     [way |-> TellOf(path, i - 1), m |-> Dist(path.coordinates[i], path.coordinates[i + 1])]]

\* map_match, and the same from the cassette, which keeps the points of the line.
MapMatch(path) ==
  LET line == PathToRoute(path) IN [line |-> line, ways |-> WayIdsPerPoint(path, Len(line))]
Replayed(match) == [match EXCEPT !.line = PathToRoute([coordinates |-> [i \in DOMAIN @ |-> @[i].place]])]
\* matched_way_ids: a match without a single way is no match.
MatchedWays(path) ==
  LET match == Replayed(MapMatch(path))
  IN  IF Len(match.ways) # Len(match.line) \/ \A i \in DOMAIN match.ways : match.ways[i] = NoWay
      THEN NoWays ELSE match.ways

\* assign_way_ids: the nearest way, if it is near enough.
DistanceTo(way, place) ==
  LET far == {Dist(place, q) : q \in way.places} IN CHOOSE m \in far : \A n \in far : m <= n
Nearest(place) ==
  CHOOSE w \in Network : \A v \in Network :
    \/ DistanceTo(w, place) < DistanceTo(v, place)
    \/ DistanceTo(w, place) = DistanceTo(v, place) /\ w.id <= v.id
SnappedDistances(line) == [i \in DOMAIN line |-> DistanceTo(Nearest(line[i].place), line[i].place)]
AssignWayIds(line) ==
  [i \in DOMAIN line |->
     LET way == Nearest(line[i].place)
     IN  IF DistanceTo(way, line[i].place) <= MatchTolerance THEN way.id ELSE NoWay]
\* WayMatch.is_usable: half of the points have a way.
IsUsable(ways) == 2 * Cardinality({i \in DOMAIN ways : ways[i] # NoWay}) >= Len(ways)

-----------------------------------------------------------------------------
\* ---- the turns.  path_to_cues: where a turn is on the line, not in the path.
Clamped(index, places) == IF index + 1 > Len(places) THEN Len(places) ELSE index + 1
PathToCues(path, turns) ==
  LET along == Along(path.coordinates)
  IN  [k \in DOMAIN turns |->
         LET i == Clamped(turns[k].index, path.coordinates)
         IN  [at |-> along[i], place |-> path.coordinates[i],
              named |-> turns[k].named, arrives |-> turns[k].arrives]]
\* _flag_ambiguity: an unnamed way, or a turn too soon after another.
Ambiguous(cues, k) ==
  \/ ~cues[k].named /\ ~cues[k].arrives
  \/ k < Len(cues) /\ cues[k + 1].at - cues[k].at \in 0 .. AmbiguousGap - 1
FlagAmbiguity(cues) ==
  [k \in DOMAIN cues |-> [at |-> cues[k].at, place |-> cues[k].place, ambiguous |-> Ambiguous(cues, k)]]

\* CueSheet: turns, or why there are none.
CueSheet(reason, cues) == [checked |-> reason = "none", reason |-> reason, cues |-> cues]
NotRequested == CueSheet("not requested", <<>>)
NoRouter == CueSheet("no router", <<>>)
CueSheetOf(path) ==
  CASE path.turns = {} -> NotRequested
    [] path.turns = {<<>>} -> CueSheet("not returned", <<>>)
    [] OTHER -> CueSheet("none", FlagAmbiguity(PathToCues(path, CHOOSE turns \in path.turns : TRUE)))
\* GraphHopperRouter.route_cues: one request, and two readings of its answer.
RouteCues(path) ==
  LET answer == Answered(path, RouteBody(TRUE, FALSE))
  IN  [line |-> PathToRoute(answer), cues |-> CueSheetOf(answer)]
\* route_summaries: a line, and what it is made of.
RouteSummary(path) ==
  LET answer == Answered(path, RouteBody(FALSE, TRUE))
  IN  [line |-> PathToRoute(answer), steps |-> PathWayClasses(answer)]

-----------------------------------------------------------------------------
OnWay(id, place) == \E w \in Network : w.id = id /\ DistanceTo(w, place) <= MatchTolerance

\* A turn is told at the distance where the runner meets it, however the points were thinned
\* and filled (Cue.cum_dist_m: "8.1 km early on an 18.2 km route, and a plausible number"),
\* in the order it is met, and the last is at the end; two turns that cannot be told apart
\* are flagged.
CuesTell(path) ==
  LET read == RouteCues(path)
      cues == read.cues.cues
  IN  read.cues.checked =>
        /\ \A k \in DOMAIN cues :
             \E i \in DOMAIN read.line : read.line[i].at = cues[k].at /\ Dist(read.line[i].place, cues[k].place) < Dedupe
        /\ \A k \in 2 .. Len(cues) :
             /\ cues[k - 1].at <= cues[k].at
             /\ cues[k].at - cues[k - 1].at < AmbiguousGap => cues[k - 1].ambiguous
        /\ Last(cues).at = Last(read.line).at
\* What a line is said to be made of is ground it is on, metre for metre (route_summaries).
SummaryTells(path) ==
  LET steps == RouteSummary(path).steps
  IN  \A i \in DOMAIN steps :
        steps[i].way # NoWay =>
          OnWay(steps[i].way, path.coordinates[i]) /\ OnWay(steps[i].way, path.coordinates[i + 1])
=============================================================================
