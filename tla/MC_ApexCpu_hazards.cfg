SPECIFICATION Spec
CONSTANTS
  REG_FILE_SIZE = 2
  PREG_FILE_SIZE = 4
  iq_SIZE = 3
  rob_SIZE = 3
  lsq_SIZE = 2
  DATA_MEMORY_SIZE = 4
  INT_MAX = 3
  MaxForgotten = 2
  Overlays = {"none", "opcode", "rd", "rs1", "imm"}
  NoValue = NoValue
  Programs <- HazardPrograms
  BitAnd <- MCAnd
  BitOr <- MCOr
  BitXor <- MCXor
INVARIANT RobRoom
INVARIANT IqRoom
INVARIANT OneOwner
INVARIANT LsqIndexIsOwn
INVARIANT RobInProgramOrder
PROPERTY NoneOverwritten
 
PROPERTY RetiresInProgramOrder
PROPERTY InOrderRetirement
CHECK_DEADLOCK FALSE
