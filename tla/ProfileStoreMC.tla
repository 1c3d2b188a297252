--------------------------- MODULE ProfileStoreMC ----------------------------
(* Three pairs of ends, between which a road, quieter streets, and a trail lead.*)
EXTENDS ProfileStore

Way(lts, unpaved, highway) == [lts |-> lts, unpaved |-> unpaved, highway |-> highway]
Busy == Way(4, FALSE, "secondary")
Street == Way(1, FALSE, "residential")
Trail == Way(1, TRUE, "path")
\* The router's own effort of a metre is 10 of almost any way; DistanceInfluence is 1 beside
\* it, as 70 is beside the 720 seconds a kilometre takes at 5 km/h.
Stretch(at, m, tags) == [at |-> at, m |-> m, tags |-> tags, effort |-> 10]
Easier(stretch) == [stretch EXCEPT !.effort = 9]
\* Lines that share their first stretch.  The loop is one that a bonus on paths makes the
\* fitter prefer to the side streets, and not the router.
MC_Networks ==
  [east  |-> [road |-> {Stretch(0, 2, Street), Stretch(1, 18, Busy)},
              side |-> {Stretch(0, 2, Street), Stretch(2, 19, Street)}],
   west  |-> [side |-> {Stretch(0, 4, Street), Stretch(1, 36, Street)},
              trail |-> {Stretch(0, 4, Street), Stretch(2, 46, Trail)}],
   north |-> [road |-> {Stretch(0, 2, Unknown), Stretch(1, 18, Busy)},
              side |-> {Stretch(0, 2, Unknown), Stretch(2, 20, Street)},
              trail |-> {Stretch(0, 2, Unknown), Easier(Stretch(3, 20, Trail))},
              loop |-> {Stretch(0, 2, Unknown), Stretch(4, 39, Trail)}]]
MC_Silent(tasks) == {{}, {t \in tasks : t[1] = "north"}}
MC_Least == -6
MC_Grid == {-1, 0, 1}
MC_Edits ==
  [tolerance |-> {40}, surface |-> {"dirt"}, traffic |-> {4}, pacing |-> {"mine"},
   routing |-> {[Unfitted EXCEPT !.params = [Neutral EXCEPT !["path_bonus"] = 1]]}]
Symmetric == Permutations(Processes)
=============================================================================
