SPECIFICATION Spec
CONSTANTS
  rob_SIZE = 3
  InsnPc <- MCInsnPc
  Opcode = {"ADD"}
  Reg <- MCReg
  LsqIndex <- MCLsqIndex
  Word <- MCWord
  NoResult = NoResult
INVARIANT TypeOK
PROPERTY ImplementsRetireQueue
