------------------------------ MODULE ScorersMC ------------------------------
(* A line of four segments, and for each scorer what its sources may say.   *)
EXTENDS Scorers

Starts == {<<0, 4, 9, 14, 20>>, <<0, 2, 4, 6, 9>>}
Long == <<0, 4, 9, 14, 20>>
Half == {TRUE, FALSE}
Maybe == {TRUE, FALSE, Unknown}
AtMost(n, set) == {s \in SUBSET set : Cardinality(s) <= n}
\* Two segments are anything of a set, and the others one thing.
Lines(any, other) == {<<a, b, other, b>> : <<a, b>> \in any \X any}

\* ---- ways and nodes
LegalTags == [highway : {"motorway", "path", Unknown}, railway : {"live", Unknown},
              foot : {"allowed", "no", Unknown}, access : {"no", Unknown}]
LegalityWorlds == [ways : Half, way : Lines({Unknown} \cup LegalTags, Unknown)]
StressTags == [highway : {"path", "residential", "secondary", "primary"}, sidewalk : Maybe,
               posted : {40, 60, Unknown}, surveyed : {60, Unknown}, lanes : {2, 4, Unknown},
               aadt : {"heavy", "light", Unknown}]
HostilityWorlds == [ways : Half, way : {<<t, Unknown, t, Unknown>> : t \in StressTags}]
RoadSet == [at : {1, 3}, own : Half, rank : 1 .. 3, bridge : Half, layer : {0, 1, Unknown},
          signal : Half, posted : {40, 60, Unknown}]
CrossingTags == {Unknown, [bridge |-> TRUE, layer |-> Unknown], [bridge |-> FALSE, layer |-> 0]}
CrossingWorlds == [ways : Half, nodes : Half, way : {<<t, t, t, t>> : t \in CrossingTags},
                   roads : {{r} : r \in RoadSet}]
StopWorlds == [nodes : Half, start : Starts, stops : AtMost(3, [d : {0, 3, 5, 9, 14}])]
Grounds == {Unknown} \cup
  {[surface |-> s, highway |-> "residential", sidewalk |-> FALSE, shoulder |-> o] :
     s \in {"paved", "unpaved", Unknown}, o \in {FALSE, Unknown}}
SurfaceWorlds == [ways : Half, start : Starts, way : [Segments -> Grounds]]
LitWays == {Unknown} \cup [lit : Maybe]
LightingWorlds == [ways : Half, etas : Half, dark : [Segments -> {0, 1}], way : Lines(LitWays, Unknown)]

\* ---- supplies and ways out; a tap's hours are at most two rules of one part each
Rules == [days : {Weekdays, {1}}, spans : {{}, {<<8, 16>>}, {<<20, 4>>}, {<<8, Unknown>>}},
          state : {TRUE, FALSE}, additional : {FALSE}]
Later == [days : {Weekdays, {1}}, spans : {{}, {<<4, 12>>}}, state : Maybe, additional : {FALSE}]
Hours == {<<>>, <<Unread>>} \cup {<< <<r>> >> : r \in Rules}
           \cup {<< <<r>>, q>> : r \in Rules, q \in {Unread} \cup {<<s>> : s \in Later}}
Tap(d, hours) == [kind |-> "water", d |-> d, off |-> 1, hours |-> hours]
Shut == << <<[days |-> Weekdays, spans |-> {}, state |-> FALSE, additional |-> FALSE]>> >>
OneTap == {{Tap(10, h)} : h \in Hours}
TwoTaps ==
  {{Tap(d, <<>>), Tap(e, Shut)} : d \in {0, 4, 16, 20}, e \in {0, 10, 16}}
    \cup {{Tap(10, <<>>), [kind |-> "toilet", d |-> 16, off |-> 1, hours |-> h]} : h \in {<<>>, Shut}}
    \cup {{}, {[Tap(10, <<>>) EXCEPT !.off = 3]}, {Tap(10, <<Unread>>)}}
ResupplyWorlds ==
  [start : {Long}, etas : {TRUE}, amenities : {TRUE}, places : OneTap, weekday : {1, 2}, wbgt : {28}]
  \cup [start : {Long}, etas : Half, amenities : Half, places : TwoTaps, weekday : {1},
         wbgt : {25, 28, 31, Unknown}]
ServiceWorlds == [amenities : Half, parks : Half, parkland : SUBSET Segments]
HaltSets == AtMost(2, [d : {0, 10, 20}, off : {1, 3}, served : Maybe])
TransitWorlds == [start : {Long}, stopsLayer : Half, halts : HaltSets]
BailoutWorlds == [start : Starts, stopsLayer : Half, ways : Half, etas : Half, halts : HaltSets,
                  drivable : {{}, {4}, {4, 14}}]
CrewWorlds == [start : {Long}, amenities : Half, ways : Half, drivable : {{}, {4}, {4, 14}},
               parking : AtMost(2, [d : {0, 5, 14}, off : {1, 5}])]
CellWorlds == [start : Starts, coverageLayer : Half, darkPoints : SUBSET (1 .. N + 1)]

\* ---- weather, of two sites
Replies == {"hours", "fails"}
Asks(costs) == [1 .. Sites -> [reply : Replies, cost : costs]]
Weather == [etas : Half, contact : Half, calls : 0 .. 3, nws : Asks({0, 2}), meteo : Asks({1}),
            at : {<<0, 20>>}, start : {Long}, eta : {<<0, 4, 9, 14>>},
            hours : {<< <<0, 20>>, <<0, 20>> >>, << <<0, 5>>, <<10, 20>> >>}, says : {<<TRUE, TRUE>>, <<TRUE, FALSE>>}]
With(w, more) == [f \in DOMAIN w \cup DOMAIN more |-> IF f \in DOMAIN w THEN w[f] ELSE more[f]]
HeatWorlds == {With(w, [wbgt |-> x]) : w \in Weather, x \in {<<25, 28, 31, 28>>, <<25, 25, 31, 25>>}}
SunWorlds == {With(w, [surface |-> s, lit |-> <<TRUE, FALSE, TRUE, FALSE>>]) : w \in Weather, s \in Half}
AirWorlds == [etas : Half, calls : 0 .. 2, air : Asks({0, 1})]
WarningWorlds == [contact : Half, calls : 0 .. 2, nws : Asks({0, 1}), day : {0, 5, 9}, today : {0, 1},
                  alerts : AtMost(1, [code : {"flood_warning"}, at : {{1}, {2}}, from : {0, 6}, until : {6, 9}])]

\* ---- whoever is in charge: a county and an agency
County == [id |-> "county", agency |-> FALSE, answered |-> TRUE]
Agency == [id |-> "agency", agency |-> TRUE, answered |-> TRUE]
InCharge == {{}, {County}, {County, Agency}, {[County EXCEPT !.answered = FALSE], Agency},
             {County, [Agency EXCEPT !.answered = FALSE]}}
Authority == [start : {Long}, boundaries : Half, parks : Half, registry : Half, unqualified : Half,
              jurisdictions : InCharge, etas : Half, clock : Half]
Record(by, d, tier) ==
  [by : {by}, placed : Half, blocks : Half, d : {d}, off : {1, 9}, parallel : Half,
   from : {0, 8, Unknown}, until : {9, 12, Unknown}, tier : {tier}, sure : Half]
Some == {r \in Record("county", 9, 1) : r.blocks /\ r.sure} \cup {r \in Record("agency", 14, 2) : r.parallel}
          \cup {r \in Record("county", 4, 3) : r.blocks /\ r.parallel}
Plain == {w \in Authority : w.clock = w.etas /\ ~w.unqualified}
ClosureWorlds == {With(w, [records |-> {r}]) : w \in Plain, r \in Some}
                   \cup {With(w, [records |-> {}]) : w \in Authority}
TrailWorlds == {With(w, [records |-> {r}]) : w \in Plain, r \in {q \in Some : q.by = "agency"}}
                 \cup {With(w, [records |-> {}]) : w \in Authority}
GateRules == [from : {0, Unknown}, until : {Unknown}, hours : {Shut} \cup
              {<< <<[days |-> Weekdays, spans |-> s, state |-> TRUE, additional |-> FALSE]>> >> :
                 s \in {{<<8, 16>>}, {<<12, 20>>}, {<<8, Unknown>>}}}]
GateSet == [by : {"agency"}, placed : Half, d : {9}, off : {1, 4}, rules : AtMost(2, GateRules) \ {{}}]
Coasts == {<<"none", "none", "none", "none">>, <<"tidal", "tidal", "beach", "none">>, <<"tidal", "none", "tidal", "tidal">>}
Calm == [start |-> Long, weekday |-> 1, gates |-> {}, spans |-> [agency |-> {}], ways |-> TRUE,
         coast |-> <<"none", "none", "none", "none">>, gauge |-> <<TRUE, TRUE, TRUE, TRUE>>, highs |-> {}]
AccessWorlds ==
  {With(With(w, [gates |-> {g}, spans |-> [agency |-> s]]), Calm) :
     w \in {v \in Plain : v.boundaries}, g \in GateSet, s \in {{}, {<<4, 9>>, <<14, 20>>}}}
  \cup {With(With(w, [coast |-> c, gauge |-> g, highs |-> h, ways |-> y]), Calm) :
          w \in {v \in Plain : v.boundaries /\ v.registry}, c \in Coasts, h \in {{}, {8}, {14}}, y \in Half,
          g \in {<<TRUE, TRUE, TRUE, TRUE>>, <<TRUE, FALSE, TRUE, TRUE>>}}
HazardTagsSet == {Unknown} \cup
  {[tunnel |-> t, bridge |-> b, culvert |-> FALSE, walkway |-> y, major |-> TRUE, ford |-> ~b] :
     t \in Half, b \in Half, y \in Maybe}
HazardWorlds == [ways : Half, railways : Half, flowlines : Half, nodes : Half, winter : Half,
                 way : {<<t, Unknown, t, t>> : t \in HazardTagsSet}, rails : {{}, {1}, {2}}, waters : {{}, {1}, {2}},
                 grids : {{}, {3}}, high : {<<a, FALSE, FALSE, TRUE>> : a \in Maybe}]

\* ---- when: a history of a few runs, terrain in part, and the hours of a day
Sample(d, t, ele) == [d |-> d, t |-> t, ele |-> ele]
Steady == <<Sample(0, 0, 10), Sample(2, 1, 10), Sample(4, 2, 10), Sample(6, 3, 10), Sample(8, 4, 10), Sample(10, 5, 10)>>
Halting == <<Sample(0, 0, 10), Sample(2, 1, 10), Sample(4, 9, 11), Sample(6, 10, 12), Sample(9, 11, Unknown)>>
Recorded == [sport : {"running", "cycling", Unknown}, race : Half, points : {Steady, Halting}]
Terrain == {<<5, 5, 5, 5, 5>>, <<5, 5, 9, 60, 9>>}
PacingWorlds ==
  [start : Starts, dem : Half, covered : {{}, {1, 2, 4, 5}, 1 .. 5}, ground : Terrain, history : Half,
   runs : {<<>>} \cup {<<r>> : r \in Recorded} \cup {<<r, s>> : <<r, s>> \in Recorded \X Recorded},
   drift : {4}, device : {FALSE}]
Forecasts == {w \in Weather : w.etas /\ w.contact /\ w.calls \in {1, 3} /\ w.hours[1] = <<0, 20>>}
SweepWorlds ==
  {With([start |-> <<0, 2, 4, 6, 9>>, etas |-> e],
        With(w, [surface |-> f, amenities |-> a, stopsLayer |-> a, window |-> v, begin |-> 8, weekday |-> 1, noon |-> 14,
                 halts |-> {[departs |-> {17, 20}]}, places |-> {Tap(4, << <<r>> >>)}])) :
     w \in Forecasts, e \in Half, f \in Half, a \in Half, v \in {<<>>, <<5, 13>>},
     r \in {q \in Rules : q.state /\ q.days = Weekdays /\ q.spans \in {{<<8, 16>>}, {<<20, 4>>}}}}

MC_Worlds(name) ==
  CASE name = "legality" -> LegalityWorlds
    [] name = "segment_hostility" -> HostilityWorlds
    [] name = "crossings" -> CrossingWorlds
    [] name = "stop_density" -> StopWorlds
    [] name = "surface_profile" -> SurfaceWorlds
    [] name = "lighting" -> LightingWorlds
    [] name = "services_along" -> ServiceWorlds
    [] name = "resupply_schedule" -> ResupplyWorlds
    [] name = "transit" -> TransitWorlds
    [] name = "bailouts" -> BailoutWorlds
    [] name = "crew_points" -> CrewWorlds
    [] name = "cell_coverage" -> CellWorlds
    [] name = "microclimate" -> Weather
    [] name = "heat_stress" -> HeatWorlds
    [] name = "sun_exposure" -> SunWorlds
    [] name = "air_quality" -> AirWorlds
    [] name = "warnings" -> WarningWorlds
    [] name = "closures" -> ClosureWorlds
    [] name = "trail_status" -> TrailWorlds
    [] name = "access_hours" -> AccessWorlds
    [] name = "hazards" -> HazardWorlds
    [] name = "pacing_model" -> PacingWorlds
    [] name = "start_time_optimizer" -> SweepWorlds
MC_Subjects == Registered

Plainly == [traffic |-> 2, water |-> 10, toilet |-> 10, surface |-> "either", stops |-> 2,
            darkness |-> FALSE, sun |-> "either"]
MC_Profiles(name) ==
  CASE name = "segment_hostility" -> {[Plainly EXCEPT !.traffic = t] : t \in 1 .. 4}
    [] name = "resupply_schedule" -> {[Plainly EXCEPT !.water = d, !.toilet = t] : d \in {8, 15, 20}, t \in {10, 15}}
    [] name = "surface_profile" -> {[Plainly EXCEPT !.surface = s] : s \in {"paved", "either"}}
    [] name = "stop_density" -> {[Plainly EXCEPT !.stops = s] : s \in {1, 3}}
    [] name = "lighting" -> {[Plainly EXCEPT !.darkness = k] : k \in Half}
    [] name = "sun_exposure" -> {[Plainly EXCEPT !.sun = s] : s \in {"shade", "sun", "either"}}
    [] OTHER -> {Plainly}
=============================================================================
