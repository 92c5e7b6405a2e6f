SPECIFICATION Spec
CONSTANTS
  REG_FILE_SIZE = 2
  PREG_FILE_SIZE = 6
  iq_SIZE = 5
  rob_SIZE = 6
  lsq_SIZE = 3
  DATA_MEMORY_SIZE = 4
  INT_MAX = 3
  MaxForgotten = 2
  Overlays = {"none"}
  NoValue = NoValue
  Programs <- ClaimPrograms
  BitAnd <- MCAnd
  BitOr <- MCOr
  BitXor <- MCXor
INVARIANT ReadyMeansValid
CHECK_DEADLOCK FALSE
