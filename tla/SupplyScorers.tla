---------------------------- MODULE SupplyScorers ----------------------------
(***************************************************************************)
(* The scorers that look for what a runner needs on the way and for a way  *)
(* out: services, resupply_schedule, bailouts, transit, crew_points and    *)
(* cell_coverage, with the caps that core/preferences/floors.py puts on    *)
(* what a profile may tolerate.  A unit of distance takes a unit of time.  *)
(***************************************************************************)
EXTENDS OpeningHours

\* ---- floors.py: what the profile store takes, whoever asks it to.
MaxTrafficTolerance == 3
DryGapHard == 15
CheckTrafficTolerance(profile) == profile.traffic <= MaxTrafficTolerance
CheckWaterGap(profile) == profile.water <= DryGapHard
CheckFloorsTraffic(profile) == CheckTrafficTolerance(profile)   \* a bug: the water gap is forgotten
CheckFloors(profile) == CheckTrafficTolerance(profile) /\ CheckWaterGap(profile)

\* ---- services.py: who is near the line, and how far it is to the next one.
Kinds == {"water", "toilet", "food"}
Buffer == 2
Along(w, kind) == {p \in w.places : p.kind = kind /\ p.off <= Buffer}
NextAhead(marks, from) ==
  LET ahead == {m \in marks : m >= from}
  IN  IF ahead = {} THEN Unknown ELSE (CHOOSE m \in ahead : \A n \in ahead : m <= n) - from
InPark(w, i) == IF w.parks THEN i \in w.parkland ELSE Unknown
Services(w) ==
  IF ~w.amenities THEN Unavailable("services_along")
  ELSE Result({i \in Segments : InPark(w, i) # Unknown}, {},
              {Asked("nodes"), Entry("parks", w.parks)})

\* ---- resupply_schedule.py: what is open when the runner comes by.
WbgtSoft == 26
WbgtHard == 30
Over(wbgt) == IF wbgt = Unknown \/ wbgt <= WbgtSoft THEN 0
              ELSE IF wbgt >= WbgtHard THEN WbgtHard - WbgtSoft ELSE wbgt - WbgtSoft
\* heat_scaled: a threshold shrinks to half as the heat goes from the soft to the hard line.
Exceeds(gap, threshold, wbgt) ==
  2 * (WbgtHard - WbgtSoft) * gap > threshold * (2 * (WbgtHard - WbgtSoft) - Over(wbgt))
OpenAt(w, p) == IsOpen(p.hours, w.weekday, p.d)
\* What is not known to be shut counts as open.
CountedShut(w, kind) == {p.d : p \in Along(w, kind)}   \* a bug: the hours are not asked for
Counted(w, kind) == {p.d : p \in {q \in Along(w, kind) : OpenAt(w, q) # FALSE}}
UnreadHours(w) == {p \in w.places : p.kind \in Kinds /\ p.off <= Buffer /\ OpenAt(w, p) = Unknown}
DryGap(w) == WidestGap(Counted(w, "water"), Length(w))
ToiletGap(w) == WidestGap(Counted(w, "toilet"), Length(w))

\* Both thresholds are the profile's to shrink: the hard line is asked about under the soft one.
FlagGaps(w, profile) ==
  (IF ~Exceeds(DryGap(w), profile.water, w.wbgt) THEN {}
   ELSE IF Exceeds(DryGap(w), DryGapHard, w.wbgt)
   THEN {HardStrain("resupply_schedule", 1, "dry_gap_above_hard_floor")}
   ELSE {SoftStrain("resupply_schedule", 1, "dry_gap_above_tolerance")})
  \cup (IF ~Exceeds(ToiletGap(w), profile.toilet, w.wbgt) THEN {}
        ELSE {Soft("resupply_schedule", 1, "toilet_gap_above_tolerance")})
Resupply(w, profile) ==
  IF ~w.etas \/ ~w.amenities THEN Unavailable("resupply_schedule")
  ELSE Result(IF UnreadHours(w) = {} THEN Segments ELSE {}, FlagGaps(w, profile),
              {Asked("nodes")} \cup (IF UnreadHours(w) = {} THEN {} ELSE {NotAsked("nodes")}))

\* ---- transit.py: a stop's calendar says whether it is served at an instant, or nothing.
EndpointReach == 1
Finish(w) == Length(w)
Nearest(w, d) ==
  {h \in w.halts : \A g \in w.halts : Apart(h.d, d) + h.off <= Apart(g.d, d) + g.off}
Far(h, d) == Apart(h.d, d) + h.off > EndpointReach
\* Nothing is said of an end that has no stop at all around it.
EndFlags(w) ==
  {Soft("transit", Route, "finish_after_last_departure") :
     h \in {g \in Nearest(w, Finish(w)) : ~Far(g, Finish(w)) /\ g.served = FALSE}}
  \cup {Soft("transit", Route, "finish_unserved") : h \in {g \in Nearest(w, Finish(w)) : Far(g, Finish(w))}}
  \cup {Soft("transit", Route, "start_unserved") : h \in {g \in Nearest(w, 0) : Far(g, 0)}}
\* Only the finish is reported when the feed does not say.
FinishUnknown(w) == \E h \in Nearest(w, Finish(w)) : h.served = Unknown
Transit(w) ==
  IF ~w.stopsLayer THEN Unavailable("transit")
  ELSE Result(IF FinishUnknown(w) THEN {} ELSE {Route}, EndFlags(w),
              {Entry("transit_stops", ~FinishUnknown(w))})

\* ---- bailouts.py: from the middle of each segment to a stop in service or a drivable road.
Reach == 2
InService(w) == {h \in w.halts : ~w.etas \/ h.served = TRUE}
Unreadable(w) == w.etas /\ \E h \in w.halts : h.served = Unknown
Exits(w, i) ==
  (IF w.stopsLayer THEN {Apart(h.d, Middle(w, i)) + h.off : h \in InService(w)} ELSE {})
  \cup (IF w.ways THEN {Apart(d, Middle(w, i)) : d \in w.drivable} ELSE {})
Bailouts(w) ==
  IF ~w.stopsLayer /\ ~w.ways THEN Unavailable("bailouts")
  ELSE Result(IF w.stopsLayer /\ w.ways THEN Segments ELSE {},
              {Soft("bailouts", i, "no_bailout_in_reach") :
                 i \in {j \in Segments : \A d \in Exits(w, j) : d > Reach}},
              {Entry("transit_stops", w.stopsLayer /\ ~Unreadable(w)), Entry("ways", w.ways)})

\* ---- crew_points.py: parking near the line with a road near it.  A layer in which no
\* way is drivable reads as no layer at all, and then no parking is turned away.
MeetReach == 4
RoadReach == 1
Roads(w) == IF w.ways THEN w.drivable ELSE {}
MeetPoints(w) ==
  {p \in w.parking : p.off <= MeetReach /\ (Roads(w) = {} \/ \E d \in Roads(w) : Apart(d, p.d) <= RoadReach)}
CrewPoints(w) ==
  IF ~w.amenities THEN Unavailable("crew_points")
  ELSE Result(IF Roads(w) = {} THEN {} ELSE {p.d : p \in MeetPoints(w)}, {},
              {Asked("amenities"), Entry("ways", Roads(w) # {}), NotAsked("router")})
LargestMeetGap(w) == WidestGap({p.d : p \in MeetPoints(w)}, Length(w))

\* ---- cell_coverage.py: points outside every filed polygon, and their long runs.
GapFlag == 3
PointAt(w, k) == w.start[k]     \* the points of the line: where its segments meet, and its end
DarkSpan(w, i) == {i, i + 1} \subseteq w.darkPoints
DarkRuns(w) ==
  {r \in (1 .. N + 1) \X (1 .. N + 1) :
     r[1] <= r[2] /\ r[1] .. r[2] \subseteq w.darkPoints
       /\ r[1] - 1 \notin w.darkPoints /\ r[2] + 1 \notin w.darkPoints}
CellCoverage(w) ==
  IF ~w.coverageLayer THEN Unavailable("cell_coverage")
  ELSE Result(Segments,
              {Soft("cell_coverage", CHOOSE i \in SegmentAt(w, PointAt(w, r[1])) : TRUE, "no_signal_gap") :
                 r \in {q \in DarkRuns(w) : PointAt(w, q[2]) - PointAt(w, q[1]) >= GapFlag}},
              {Asked("fcc_bdc")})
=============================================================================
