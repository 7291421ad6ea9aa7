\* Packets less than a turn of the ring late, in any order, lost and repeated.
SPECIFICATION Spec
CONSTANTS
  LOSS_BUFFER_SIZE = 4
  MaxSeqNo = 11
  MaxLate = 3
INVARIANTS
  TypeOK
  LossesCounted
  SomeReceived
CHECK_DEADLOCK FALSE
