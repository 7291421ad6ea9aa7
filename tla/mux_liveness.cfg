\* One loss, packets in order; timers due once the network is empty.
SPECIFICATION LiveSpec
CONSTANTS
  MaxUnits = 1
  MaxLosses = 1
  MaxConnections = 2
  Reorder = 0
  Capacity = 4
  AppsFail = FALSE
  AccurateTimers = TRUE
PROPERTIES
  ServerReached
  CloseReachesClient
  EndOfFileEnds
  SpokenOrphanEnds
CHECK_DEADLOCK FALSE
