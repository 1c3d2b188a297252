--------------------------- MODULE RegionBuildMC ---------------------------
(***************************************************************************)
(* Two regions that share a way; the extract of one is not there at first, *)
(* and that of the other is replaced by one with another way.              *)
(***************************************************************************)
EXTENDS RegionBuild, TLC

CONSTANTS east, west, own, shared

TwoExtents == east :> <<{shared}, {shared, own}>> @@ west :> <<{shared}, {shared}>>
EastIsClipped == east :> 1 @@ west :> 0

Full == [only |-> {}, force |-> FALSE]
Forced == [only |-> {}, force |-> TRUE]
Only(steps) == [only |-> steps, force |-> TRUE]
UsualCommands == {Full, Forced, Only({"layers"}), Only({"speed_surveys"})}
=============================================================================
