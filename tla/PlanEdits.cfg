SPECIFICATION FairSpec
CONSTANTS
  Streets <- SomeStreets
  Ends <- Corners
  Line <- FourStreets
  StoredLocks <- TheLoopsLock
  Scorers = {"signals", "traffic"}
  Edits <- MixedEdits
  MaxWorkers = 2
  Torn = Torn
INVARIANTS
  NoStaleMeasurement
  EveryPlanIsUsable
  LoopLocksStand
PROPERTIES
  OneAtATimeIsAtomic
  GesturesEnd
CHECK_DEADLOCK FALSE
