SPECIFICATION FairSpec
CONSTANTS
  Margin = 3
  Routes <- BaseRoutes
  Streets <- AllStreets
  RequestLocks <- BaseLocks
  RequestRounds = {1, 3}
  Candidates = 2
  MaxRounds = 2
  MaxQuestions = 1
  MaxLost = 1
INVARIANTS
  ParkedMeansAsked
  CapsAreKept
  NeverReasked
  NoWorseThanAsked
PROPERTY Settles
CHECK_DEADLOCK FALSE
