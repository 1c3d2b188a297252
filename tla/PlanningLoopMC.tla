--------------------------- MODULE PlanningLoopMC ---------------------------
(***************************************************************************)
(* Small streets for PlanningLoop.  Safety is tier 1, comfort tier 2; the  *)
(* weights are in units of which Margin is 3, so 5 against 3 is a           *)
(* trade-off and 5 against 1 is not.                                        *)
(***************************************************************************)
EXTENDS PlanningLoop

S(w) == [tier |-> 1, hard |-> FALSE, weight |-> w]
H(w) == [tier |-> 1, hard |-> TRUE, weight |-> w]
C(w) == [tier |-> 2, hard |-> FALSE, weight |-> w]
o == NoFlag

Line(ground, flags) == [ground |-> ground, flags |-> flags]

\* A line with a hard flag at b, a detour by x and y that trades it for a
\* comfort flag, a shorter one by e close to it, and detours around c, one of
\* which ties with the detour by x and y.
A == Line(<<"a", "b", "c">>, <<o, S(5), C(5)>>)
B == Line(<<"a", "x", "y", "c">>, <<o, o, o, C(5)>>)
E == Line(<<"a", "e", "c">>, <<o, S(3), C(2)>>)
F == Line(<<"a", "b", "z">>, <<C(1), S(5), o>>)
G == Line(<<"a", "x", "y", "z">>, <<o, o, o, C(5)>>)
W == Line(<<"w", "a", "c">>, <<H(6), o, o>>)

BaseRoutes == {A, B, E, F, G, W}
BaseLocks == {<<>>, <<Lock(2, 3, "user")>>}

AllStreets == {"a", "b", "c", "d", "e", "w", "x", "y", "z"}
=============================================================================
