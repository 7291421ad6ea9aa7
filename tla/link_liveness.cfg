\* Two losses, everything in order, timers that only give up what is lost.
SPECIFICATION LiveSpec
CONSTANTS
  BITS = 2
  ltable <- MCltable
  atable <- MCatable
  BLKSIZE = 2
  DOFS_LENGTH = 2
  BLOCKNO_MOD = 16
  Symbol <- Symbols
  MaxSeqNo = 10
  LossRatio <- MCLossRatio
  random <- MCrandom
  BASE_WINDOW = 2
  SS_THRESHOLD = 3
  MAX_WINDOW = 20
  MAX_BLOCKS = 2
  MaxRead = 2
  Source <- MCSource5
  DataReorder = 0
  AckReorder = 0
  Duplicates = FALSE
  Losses = TRUE
  AccurateTimers = TRUE
  Capacity = 10
  MaxLosses = 2
PROPERTIES
  OutstandingDrains
  
CHECK_DEADLOCK FALSE
