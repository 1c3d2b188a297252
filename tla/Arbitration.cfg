SPECIFICATION SpecField
CONSTANTS
  Margin = 3
  Keys <- SomeKeys
  MaxField = 4
INVARIANTS
  BestIsUnbeaten
  HardSafetyIsNeverTraded
PROPERTY OrderDoesNotDecide
CHECK_DEADLOCK FALSE
