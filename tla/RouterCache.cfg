\* Two live plans with snapshots, and one that replays, on one cache file.
SPECIFICATION Spec
CONSTANTS
  Plans = {first, second, replay}
  Calls <- AllCalls
  Offline = {replay}
  Pinned = {first, second}
  Unpinned = Unpinned
  Nothing = Nothing
  ApiCallsMax = 2
  MaxGraph = 1
  MaxLookups = 2
  MaxLegs = 3
INVARIANTS
  Metered
  PaidOnce
  RecordingsAreTrue
PROPERTY OfflineLeavesNoTrace
SYMMETRY AlikePlans
CHECK_DEADLOCK FALSE
