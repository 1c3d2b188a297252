--------------------------- MODULE AdapterLadderMC ---------------------------
(* A city in a county, and a park of it; six adapters on four ladders.      *)
EXTENDS AdapterLadder

MC_Adapters == 1 .. 6
MC_TierOf == <<1, 1, 2, 2, 3, 4>>
MC_Claims == <<{"county"}, {"county", "city"}, {"county", "city"}, {"county"}, {"park"}, {"city", "park"}>>
MC_FacetOf == <<"works", "works", "works", "roads", "works", "works">>
MC_Complete == {1, 3, 4, 5, 6}
MC_Keyless == {4}
MC_ScopeOf == <<"polygon", "jurisdictions", "feed", "feed", "feed", "polygon">>
MC_Jurisdictions == {"city", "county", "park"}
MC_Ids == [j \in MC_Jurisdictions |-> IF j = "city" THEN {"city", "county"} ELSE {j}]
MC_Lines == {"asked", "detour"}
MC_Crosses == [l \in MC_Lines |-> IF l = "asked" THEN <<"county", "city", "park">> ELSE <<"county", "park", "city">>]
MC_Bounds == [l \in MC_Lines |-> l]
=============================================================================
