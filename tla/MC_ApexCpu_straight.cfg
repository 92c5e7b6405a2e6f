SPECIFICATION Spec
CONSTANTS
  REG_FILE_SIZE = 2
  PREG_FILE_SIZE = 4
  iq_SIZE = 4
  rob_SIZE = 8
  lsq_SIZE = 3
  DATA_MEMORY_SIZE = 4
  INT_MAX = 3
  MaxForgotten = 2
  Overlays = {"none"}
  NoValue = NoValue
  Programs <- StraightPrograms
  BitAnd <- MCAnd
  BitOr <- MCOr
  BitXor <- MCXor
INVARIANT TypeOK
INVARIANT SlotsFresh
INVARIANT NothingSkipped
INVARIANT StoreIsOldest
INVARIANT MemoryNotLost
INVARIANT LostAccountedFor
PROPERTY RetiresEachOnce
PROPERTY MemoryInOrder
CHECK_DEADLOCK FALSE
