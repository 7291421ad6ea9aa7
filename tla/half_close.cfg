\* Nothing is lost and no application fails.
SPECIFICATION Spec
CONSTANTS
  MaxUnits = 1
  MaxLosses = 0
  MaxConnections = 1
  Reorder = 0
  Capacity = 4
  AppsFail = FALSE
  AccurateTimers = TRUE
PROPERTY
  GivesUpOnlyWhenUseless
CHECK_DEADLOCK FALSE
