SPECIFICATION FairSpec
CONSTANTS
  Jobs = {j1, j2}
  j1 = j1
  j2 = j2
  NoFile = NoFile
  Torn = Torn
  MaxSubmissions = 3
  MaxWorkers = 2
  Eager = FALSE
  MaxQuestions = 2
  MaxCrashes = 1
  MaxSaveFailures = 1
INVARIANTS
  PausesAreWhole
  WhatIsToldIsSo
PROPERTIES
  CompleteIsFinal
  KeepsLifecycle
CHECK_DEADLOCK FALSE
