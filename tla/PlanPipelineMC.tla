--------------------------- MODULE PlanPipelineMC ---------------------------
(***************************************************************************)
(* A line of 60 along one street and a way that is illegal to run, a detour*)
(* of the same length, and one that is longer by less than the tolerance.  *)
(***************************************************************************)
EXTENDS Sheets

MC_Scorers == <<"legality", "services_along", "sun_exposure", "heat_stress", "resupply_schedule", "closures">>
MC_Names == {MC_Scorers[i] : i \in DOMAIN MC_Scorers}
MC_Reads == [s \in MC_Names |-> CASE s = "heat_stress" -> {"sun_exposure"}
                                  [] s = "resupply_schedule" -> {"heat_stress"} [] OTHER -> {}]
MC_TimeDependent == {"sun_exposure", "heat_stress", "resupply_schedule", "closures"}
MC_Partial == {"closures"}
Door == <<0, 0>>
Gate == <<20, 0>>
Track == <<40, 0>>
Path == <<40, 5>>
Home == <<60, 0>>
Everywhere == {Door, Gate, <<21, 0>>, Track, Path, <<36, 5>>}
MC_Hard == [s \in MC_Names |-> [day \in {1, 2} |->
              CASE s = "legality" -> {Track}
                [] s = "closures" /\ day = 2 -> {Gate, <<21, 0>>}
                [] OTHER -> {}]]
MC_Soft == [s \in MC_Names |-> [day \in {1, 2} |->
              CASE s = "closures" -> {Door, Gate, <<21, 0>>} [] s = "heat_stress" /\ day = 2 -> Everywhere [] OTHER -> {}]]
Spot(kind, pos, at) == [kind |-> kind, pos |-> pos, at |-> at]
\* Three taps and a toilet, one of the taps known to both finders; and a gate.
MC_Finds == [s \in MC_Names |->
               CASE s = "services_along" -> {{Spot("water", 1, 2), Spot("water", 2, 4), Spot("water", 3, 57), Spot("toilet", 4, 30)}}
                 [] s = "resupply_schedule" -> {{Spot("water", 2, 5)}}
                 [] s = "closures" -> {{Spot("gate", 5, 21)}}
                 [] OTHER -> {{}}]

Span(from, to, way) == [from |-> from, to |-> to, way |-> way]
Turn(index, named, arrives) == [index |-> index, named |-> named, arrives |-> arrives]
\* A street as far as the track, with no point between; a path through the gate, with two
\* points where its ways meet; and one nobody has matched, off the network.
StraightPath == [coordinates |-> <<Door, Track, Home>>, ways |-> {Span(0, 1, 1), Span(1, 2, 2)},
                 turns |-> {<<Turn(0, TRUE, FALSE), Turn(1, FALSE, FALSE), Turn(2, TRUE, TRUE)>>}]
AroundPath == [coordinates |-> <<Door, Gate, <<20, 1>>, Path, Home>>, ways |-> {Span(0, 1, 1), Span(1, 4, 3)},
               turns |-> {<<Turn(0, TRUE, FALSE), Turn(1, TRUE, FALSE), Turn(3, TRUE, FALSE), Turn(4, TRUE, TRUE)>>}]
WidePath == [coordinates |-> <<Door, <<21, 0>>, <<36, 5>>, <<61, 0>>>>, ways |-> {}, turns |-> {<<>>}]
MC_Paths == {StraightPath, AroundPath, WidePath}
Street(id, places) == [id |-> id, places |-> places]
MC_Network == {Street(1, {<<x, 0>> : x \in 0 .. 40}), Street(2, {<<x, 0>> : x \in 40 .. 60}),
               Street(3, {Gate, <<20, 1>>, Path, Home})}
Straight == PathToRoute(StraightPath)
Around == PathToRoute(AroundPath)
Wide == PathToRoute(WidePath)
MC_First == {<<Straight, 1>>}
MC_Handed == {<<Around, 1>>}
MC_Asked == {{"resupply_schedule"}, {"legality"}}
MC_Heights == [line \in Lines |-> IF line = Around THEN <<1, 60, 2, 1>> ELSE <<1, 9, Unsampled, 1>>]
MC_Locks == {<<5, 30>>, <<40, 45>>}
MC_NeverDrop == {"hazard", "gate"}
MC_KindPriority == <<"water", "toilet">>
MC_Finders == <<"resupply_schedule", "services_along">>
MC_Licensed == {"legality", "services_along"}
=============================================================================
