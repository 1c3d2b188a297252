\* Two processes and a hosted page, and one death anywhere; or two processes that judge.
SPECIFICATION SpecBoth
CONSTANTS
  Questions <- MC_Questions
  Probes <- MC_Probes
  RepeatOf <- MC_RepeatOf
  Sayings <- MC_Sayings
  Processes = {p1, p2}
  NoFile = NoFile
  Torn = Torn
  OneDoor = TRUE
  MaxCrashes = 1
  Numbers <- MC_Numbers
  Submissions <- MC_Submissions
  Unmeasured = Unmeasured
  NoGap = NoGap
  MaxChanges = 2
  MaxVerdicts = 2
INVARIANTS WhatWasSaidIsRead
PROPERTIES FirstAnswerStands
CHECK_DEADLOCK FALSE
