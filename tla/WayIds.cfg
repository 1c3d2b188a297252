\* A plan drawn over one path with no point between its ends, and matched by the router.
SPECIFICATION SpecPasses
CONSTANTS
  Scorers <- MC_Scorers
  Reads <- MC_Reads
  TimeDependent <- MC_TimeDependent
  Hard <- MC_Hard
  Soft <- MC_Soft
  Finds <- MC_Finds
  Partial <- MC_Partial
  Paths <- MC_Paths
  Network <- MC_Network
  NoWay = 0
  Dedupe = 2
  MaxSpacing = 30
  MatchTolerance = 3
  AmbiguousGap = 21
  Dates = {1, 2}
  Asked <- MC_Asked
  First <- MC_First
  Handed <- MC_Handed
  MaxPasses = 3
  MaxMishaps = 1
  MaxLen = 45
  Tolerance = 1
  MaxSnap = 2
  SameLine = 1
  Heights <- MC_Heights
  Target = 60
  Slack = 0
  Locks <- MC_Locks
  MaxGap = 24
  Spike = 50
  Unsampled = 999
  NoTarget = NoTarget
  WorstN = 1
  DeviceMax = 3
  NeverDrop <- MC_NeverDrop
  KindPriority <- MC_KindPriority
  Finders <- MC_Finders
  Licensed <- MC_Licensed
INVARIANT WaysAreOfTheGround
CHECK_DEADLOCK FALSE
