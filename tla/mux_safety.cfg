\* Packets one place early or dropped by a full network, applications that fail, timers at any time.
SPECIFICATION Spec
CONSTANTS
  MaxUnits = 1
  MaxLosses = 0
  MaxConnections = 2
  Reorder = 1
  Capacity = 2
  AppsFail = TRUE
  AccurateTimers = FALSE
INVARIANTS
  TypeOK
  
  EveryEntryHasSocket
  
  
PROPERTIES
  ClientNeverReopens
  
CHECK_DEADLOCK FALSE
