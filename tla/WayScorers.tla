------------------------------ MODULE WayScorers ------------------------------
(***************************************************************************)
(* The scorers that read the ways and nodes of the map: legality,          *)
(* segment_hostility (and core/routing/lts.py), crossings, stop_density,   *)
(* surface_profile and lighting.  A world says whether the ways and the    *)
(* nodes layer are there, what the way of each segment is tagged with,     *)
(* which roads meet the line, where the stops are and how dark it will be. *)
(***************************************************************************)
EXTENDS Scoring

\* ---- legality.py: the first check that fails is the segment's one flag.
Motorway(t) == t.highway = "motorway"
RailwayRow(t) == t.railway = "live" /\ t.highway = Unknown /\ t.foot # "allowed"
FootDenied(t) == t.foot \in {"no", "private"}
AccessDenied(t) == t.foot # "allowed" /\ t.access \in {"no", "private"}

Violations(t) ==
  (IF Motorway(t) THEN {1} ELSE {}) \cup (IF RailwayRow(t) THEN {2} ELSE {})
    \cup (IF FootDenied(t) THEN {3} ELSE {}) \cup (IF AccessDenied(t) THEN {4} ELSE {})
Codes == <<"motorway", "railway_row", "foot", "access">>
Violation(t) == Codes[CHOOSE c \in Violations(t) : \A d \in Violations(t) : c <= d]

Legality(w) ==
  IF ~w.ways THEN Unavailable("legality")
  ELSE Result(Tagged(w),
              {Hard("legality", i, Violation(TagsOf(w, i))) :
                 i \in {j \in Tagged(w) : Violations(TagsOf(w, j)) # {}}},
              {Asked("ways")})

\* ---- lts.py: 1 to 4 from the class, and up or down by what else is known.
Separated == {"path"}
StressByHighway == [residential |-> 1, tertiary |-> 2, secondary |-> 3, primary |-> 4, motorway |-> 4]
HighSpeed == 60
ModerateSpeed == 40
Base(h) == IF h \in DOMAIN StressByHighway THEN StressByHighway[h] ELSE 2

\* The posted speed or the surveyed one, whichever is higher; what is not known is Unknown.
Speed(t) ==
  IF t.surveyed # Unknown /\ (t.posted = Unknown \/ t.surveyed > t.posted)
  THEN t.surveyed ELSE t.posted
BySidewalk(level, t) ==
  IF t.sidewalk = TRUE THEN (IF level > 1 THEN level - 1 ELSE level)
  ELSE IF t.sidewalk = FALSE THEN level + 1 ELSE level
BySpeed(t) ==
  IF Speed(t) = Unknown THEN 0
  ELSE IF Speed(t) >= HighSpeed THEN 1 ELSE IF Speed(t) <= ModerateSpeed THEN -1 ELSE 0
ByLanes(t) == IF t.lanes # Unknown /\ t.lanes >= 4 THEN 1 ELSE 0
ByTraffic(t) == CASE t.aadt = "heavy" -> 1 [] t.aadt = "light" -> -1 [] OTHER -> 0
Clamp(level) == IF level < 1 THEN 1 ELSE IF level > 4 THEN 4 ELSE level
Level(t) ==
  IF t.highway \in Separated THEN 1
  ELSE Clamp(BySidewalk(Base(t.highway), t) + BySpeed(t) + ByLanes(t) + ByTraffic(t))

\* ---- hostility.py: the hard line is the floor's, the soft one the runner's.
HardLevel == 4
Hostile(w, profile, i) ==
  IF Level(TagsOf(w, i)) >= HardLevel THEN {Hard("segment_hostility", i, "lts")}
  ELSE IF Level(TagsOf(w, i)) > profile.traffic THEN {Soft("segment_hostility", i, "lts")}
  ELSE {}
Hostility(w, profile) ==
  IF ~w.ways THEN Unavailable("segment_hostility")
  ELSE Result(Tagged(w), UNION {Hostile(w, profile, i) : i \in Tagged(w)}, {Asked("ways")})

\* ---- crossings.py: roads of secondary class and above that the line meets at grade.
Secondary == 2
Primary == 3
CrossingHardSpeed == 40
\* Whether two ways pass at different heights: a bridge or tunnel, or known layers that differ.
GradeSeparated(w, road) ==
  LET own == IF road.at \in Tagged(w) THEN TagsOf(w, road.at) ELSE Unknown
  IN  \/ road.bridge
      \/ /\ own # Unknown
         /\ \/ own.bridge
            \/ Unknown \notin {own.layer, road.layer} /\ own.layer # road.layer
Met(w) == {road \in w.roads : ~road.own /\ road.rank >= Secondary /\ ~GradeSeparated(w, road)}
\* A road whose signals nobody looked up is not one without signals.
Unsignalized(w) == {road \in Met(w) : w.nodes /\ ~road.signal}
CrossingFlag(road) ==
  IF road.rank >= Primary /\ road.posted # Unknown /\ road.posted > CrossingHardSpeed
  THEN Hard("crossings", road.at, "unsignalized_primary_crossing")
  ELSE Soft("crossings", road.at, "unsignalized_crossing")
Crossings(w) ==
  IF ~w.ways THEN Unavailable("crossings")
  ELSE Result(IF w.nodes THEN Segments ELSE Segments \ {road.at : road \in Met(w)},
              {CrossingFlag(road) : road \in Unsignalized(w)},
              {Asked("ways"), Entry("nodes", w.nodes)})

\* ---- stop_density.py: stops in a window around a segment, which is held inside the line.
Window == 10
Smaller(a, b) == IF a < b THEN a ELSE b
Larger(a, b) == IF a < b THEN b ELSE a
WindowSpan(w) == Smaller(Window, Length(w))
WindowLow(w, i) ==
  Smaller(Larger((Begins(w, i) + w.start[i + 1] - WindowSpan(w)) \div 2, 0), Length(w) - WindowSpan(w))
StopsAround(w, i) ==
  Cardinality({s \in w.stops : WindowLow(w, i) <= s.d /\ s.d <= WindowLow(w, i) + WindowSpan(w)})
StopDensity(w, profile) ==
  IF ~w.nodes THEN Unavailable("stop_density")
  ELSE Result(Segments,
              {Soft("stop_density", i, "stops_per_km_above_tolerance") :
                 i \in {j \in Segments : StopsAround(w, j) * Window > profile.stops * WindowSpan(w)}},
              {Asked("nodes")})

\* ---- surface.py: long enough stretches of what the runner would rather not run on.
SustainedSurface == 5
SustainedShoulder == 3
FlaggedClass == [paved |-> "unpaved", dirt |-> "paved"]
\* In the roadway: a road known to have neither a sidewalk nor a shoulder.
OnShoulder(t) ==
  IF t.highway \in Separated \cup {Unknown} THEN FALSE
  ELSE IF Unknown \in {t.sidewalk, t.shoulder} THEN Unknown
  ELSE t.sidewalk = FALSE /\ t.shoulder = FALSE
OfClass(w, class) == {i \in Tagged(w) : TagsOf(w, i).surface = class}
InRoadway(w) == {i \in Tagged(w) : OnShoulder(TagsOf(w, i)) = TRUE}
SustainedBySegment(w, set, least) ==   \* a bug: each segment is measured by itself
  {r \in Segments \X Segments : r[1] = r[2] /\ r[1] \in set /\ Span(w, r) >= least}
Sustained(w, set, least) == {r \in Stretches(set) : Span(w, r) >= least}
SurfaceFlags(w, profile) ==
  (IF profile.surface \notin DOMAIN FlaggedClass THEN {}
   ELSE {Soft("surface_profile", r[1], "sustained_surface") :
           r \in Sustained(w, OfClass(w, FlaggedClass[profile.surface]), SustainedSurface)})
    \cup {Soft("surface_profile", r[1], "sustained_shoulder_running") :
            r \in Sustained(w, InRoadway(w), SustainedShoulder)}
Surface(w, profile) ==
  IF ~w.ways THEN Unavailable("surface_profile")
  ELSE Result({i \in Tagged(w) : TagsOf(w, i).surface # Unknown}, SurfaceFlags(w, profile),
              {Asked("ways")})

\* ---- lighting.py: a dark segment on a way known to be unlit.
Lit(w, i) == IF w.ways /\ i \in Tagged(w) THEN TagsOf(w, i).lit ELSE Unknown
DarkUnknown(w) == {i \in Segments : w.dark[i] > 0 /\ Lit(w, i) = Unknown}
Lighting(w, profile) ==
  IF ~w.etas THEN Unavailable("lighting")
  ELSE Result(Segments \ DarkUnknown(w),
              {Soft("lighting", i, "unlit_in_darkness") :
                 i \in {j \in Segments : w.dark[j] > 0 /\ Lit(w, j) = FALSE /\ ~profile.darkness}},
              {Asked("pvlib")} \cup (IF w.ways THEN {Asked("ways")} ELSE {})
                \cup (IF ~w.ways \/ DarkUnknown(w) # {} THEN {NotAsked("ways")} ELSE {}))
=============================================================================
