----------------------------- MODULE PlanEditsMC -----------------------------
(***************************************************************************)
(* PlanEdits on a line of four streets.  x is the other street between b's *)
(* corners; y comes to where b starts from somewhere else.                 *)
(***************************************************************************)
EXTENDS PlanEdits

FourStreets == <<"a", "b", "c", "d">>
SomeStreets == {"a", "b", "c", "d", "x", "y"}
Corners == [s \in SomeStreets |->
  CASE s = "a" -> <<0, 1>> [] s \in {"b", "x"} -> <<1, 2>> [] s = "c" -> <<2, 3>>
    [] s = "d" -> <<3, 4>> [] s = "y" -> <<5, 1>>]
TheLoopsLock == {Lock(1, 3, "loop")}

On(kind, from, to) ==
  [kind |-> kind, from |-> from, to |-> to, whose |-> "any", streets |-> <<>>, only |-> {}, by |-> "page"]
Mine(from, to) == [On("unlock", from, to) EXCEPT !.whose = "user"]
Choice(from, to, streets, only) ==
  [On("choose", from, to) EXCEPT !.streets = streets, !.only = only]

InShell(gesture) == [gesture EXCEPT !.by = "shell"]
DrawnAgain(streets, only) == InShell([On("reroute", 0, 1) EXCEPT !.streets = streets, !.only = only])

MixedEdits == {On("lock", 2, 4), Mine(1, 4), On("avoid", 0, 1),
               Choice(1, 2, <<"x">>, {"signals"}), DrawnAgain(<<"y", "b", "c">>, {"signals"})}
=============================================================================
