\* Every scorer, on a line of four segments.
SPECIFICATION SpecJudge
CONSTANTS
  N = 4
  Sites = 2
  DayLength = 24
  Unknown = Unknown
  Subjects <- MC_Subjects
  Worlds <- MC_Worlds
  Profiles <- MC_Profiles
INVARIANTS AbsenceIsReported FloorsIgnoreTheProfile DryGapsAreFlagged SustainedIsOnTheGround ShutIsCertain
CHECK_DEADLOCK FALSE
