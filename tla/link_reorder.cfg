\* Losses, and DATA and ACK packets one place early.
SPECIFICATION Spec
CONSTANTS
  BITS = 2
  ltable <- MCltable
  atable <- MCatable
  BLKSIZE = 2
  DOFS_LENGTH = 2
  BLOCKNO_MOD = 16
  Symbol <- Symbols
  MaxSeqNo = 5
  LossRatio <- MCNoLoss
  random <- MCrandom
  BASE_WINDOW = 2
  SS_THRESHOLD = 3
  MAX_WINDOW = 5
  MAX_BLOCKS = 2
  MaxRead = 2
  Source <- MCSource5
  DataReorder = 1
  AckReorder = 1
  Duplicates = FALSE
  Losses = TRUE
  AccurateTimers = FALSE
  Capacity = 3
INVARIANTS
  TypeOK
  BlocksInStep
  LinkInv
  SentTableInWindow
  FreedOnlyWhenDelivered
  
  MemoryBounded
PROPERTY
  ImplementsStream
CHECK_DEADLOCK FALSE
