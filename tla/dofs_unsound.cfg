\* DATA and ACK packets one place early, no loss: blocks of three.
SPECIFICATION Spec
CONSTANTS
  BITS = 2
  ltable <- MCltable
  atable <- MCatable
  BLKSIZE = 3
  DOFS_LENGTH = 2
  BLOCKNO_MOD = 16
  Symbol <- Symbols
  MaxSeqNo = 4
  LossRatio <- MCNoLoss
  random <- MCrandom
  BASE_WINDOW = 4
  SS_THRESHOLD = 6
  MAX_WINDOW = 8
  MAX_BLOCKS = 2
  MaxRead = 3
  Source <- MCSource4
  DataReorder = 1
  AckReorder = 1
  Duplicates = FALSE
  Losses = FALSE
  AccurateTimers = FALSE
  Capacity = 4
INVARIANT
  DofsSound
CHECK_DEADLOCK FALSE
