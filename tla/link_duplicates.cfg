\* Blocks of three packets, so that rows are kept while they are eliminated; losses and
\* duplicates, DATA packets one place early, ACKs in order.
SPECIFICATION Spec
CONSTANTS
  BITS = 2
  ltable <- MCltable
  atable <- MCatable
  BLKSIZE = 3
  DOFS_LENGTH = 2
  BLOCKNO_MOD = 16
  Symbol <- Symbols
  MaxSeqNo = 4
  LossRatio <- MCNoLoss
  random <- MCrandom
  BASE_WINDOW = 3
  SS_THRESHOLD = 4
  MAX_WINDOW = 6
  MAX_BLOCKS = 2
  MaxRead = 3
  Source <- MCSource4
  DataReorder = 1
  AckReorder = 0
  Duplicates = TRUE
  Losses = TRUE
  AccurateTimers = FALSE
  Capacity = 2
INVARIANTS
  RowsConsistent
  DofsSound
  QuietMeansReceived
  
CHECK_DEADLOCK FALSE
