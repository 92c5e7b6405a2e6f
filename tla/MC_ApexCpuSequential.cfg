SPECIFICATION SeqSpec
CONSTANTS
  REG_FILE_SIZE = 4
  PREG_FILE_SIZE = 20
  iq_SIZE = 8
  rob_SIZE = 16
  lsq_SIZE = 6
  DATA_MEMORY_SIZE = 4
  INT_MAX = 7
  MaxForgotten = 2
  Overlays = {"none"}
  NoValue = NoValue
  Programs <- SequentialPrograms
  Scheduled <- MCScheduled
  BitAnd <- MCAnd
  BitOr <- MCOr
  BitXor <- MCXor
PROPERTY ComputesInOrder
PROPERTY Halts
CHECK_DEADLOCK FALSE
