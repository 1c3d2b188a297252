---------------------------- MODULE PlanGestures ----------------------------
(***************************************************************************)
(* What whoever makes gestures one at a time may rely on: each is made at  *)
(* most once, on the plan that the ones before it left, whole.  To whoever *)
(* makes two at once nothing is promised.                                  *)
(***************************************************************************)
CONSTANTS Edits,          \* the gestures there may be
          StoredPlan,     \* the plan before any
          After(_, _),    \* what a gesture makes of a plan
          Nothing         \* what is promised of the plan after two at once

VARIABLES made, plan

Init == made = {} /\ plan = StoredPlan

Make(e) == /\ e \notin made
           /\ made' = made \cup {e}
           /\ plan' = After(plan, e)

MakeTogether == made' = Edits /\ plan' = Nothing

Spec == Init /\ [][MakeTogether \/ \E e \in Edits : Make(e)]_<<made, plan>>
=============================================================================
