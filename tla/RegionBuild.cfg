SPECIFICATION Spec
CONSTANTS
  east = east
  west = west
  own = own
  shared = shared
  Regions = {east, west}
  Ways = {own, shared}
  Extent <- TwoExtents
  Speeds = {50}
  None = None
  Unread = Unread
  Commands <- UsualCommands
  FirstDate <- EastIsClipped
  MaxDate = 2
  MaxBuilds = 3
  MaxCrashes = 1
INVARIANTS
  RecordedIsCommitted
  LevelsCoverTheRegion
  SurveysAreScored
CHECK_DEADLOCK FALSE
