\* Two lines asked about in turn, with a third jurisdiction over the cap and few fetches.
SPECIFICATION Spec
CONSTANTS
  Adapters <- MC_Adapters
  TierOf <- MC_TierOf
  Claims <- MC_Claims
  FacetOf <- MC_FacetOf
  Complete <- MC_Complete
  Keyless <- MC_Keyless
  ScopeOf <- MC_ScopeOf
  Jurisdictions <- MC_Jurisdictions
  Ids <- MC_Ids
  Lines <- MC_Lines
  Crosses <- MC_Crosses
  Bounds <- MC_Bounds
  Live = TRUE
  MaxJurisdictions = 2
  MaxFetches = 6
  MaxLines = 3
INVARIANTS PaidOnce SameGroundSameAnswer BetterRungsFirst
CHECK_DEADLOCK FALSE
