---------------------------- MODULE RouterCacheMC ----------------------------
(***************************************************************************)
(* RouterCache with live plans pinned to a snapshot and a replay.  Of the   *)
(* lookups, one that has to do without when it fails and one that does not *)
(* fail; a route that fails ends its plan, as a death does.                *)
(***************************************************************************)
EXTENDS RouterCache, TLC

Detour == [kind |-> "alternatives", about |-> "span"]
Match == [kind |-> "match", about |-> "line"]
AllCalls == {Detour, Match}

\* The live, pinned plans of a run are alike.
AlikePlans == Permutations(Plans \cap Pinned)
=============================================================================
