SPECIFICATION Spec
CONSTANTS
  lsq_SIZE = 2
  InsnPc <- MCInsnPc
  PregTag <- MCPregTag
  Valid <- MCValid
  Word <- MCWord
  NoData = NoData
INVARIANT TypeOK
PROPERTY ImplementsStoreQueue
