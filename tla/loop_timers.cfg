\* Seconds of four microseconds; dates within a second, at its end, beyond it, and long past.
SPECIFICATION Spec
CONSTANTS
  USEC = 4
  HORIZON = 3
  NMux = 2
  Timeouts = {1, 4, 6}
  IdleTimeouts = {2, 4, 6}
  StartTime = 3
  MaxTime = 6
INVARIANTS
  TypeOK
  SleepsPastNoTimer
  WakesForATimer
  
CHECK_DEADLOCK FALSE
