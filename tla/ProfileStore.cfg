SPECIFICATION Spec
CONSTANTS
  Parameters = {"lts4", "path_bonus"}
  Least <- MC_Least
  Most = 2
  Unknown = Unknown
  DistanceInfluence = 1
  Grid <- MC_Grid
  MinPairs = 3
  MinDifference = 5
  PerRequest = 2
  Nobody = Nobody
  Networks <- MC_Networks
  Runner = "runner"
  Silent <- MC_Silent
  Edits <- MC_Edits
  Processes = {one, other}
  NoFile = NoFile
  Absent = Absent
  Alone = TRUE
  MaxEdits = 2
  MaxCrashes = 1
INVARIANTS StatedStands FitIsEarned DrawnAsCosted
CHECK_DEADLOCK FALSE
SYMMETRY Symmetric
