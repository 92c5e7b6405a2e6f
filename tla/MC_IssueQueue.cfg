SPECIFICATION Spec
CONSTANTS
  iq_SIZE = 3
  PregTag <- MCPregTag
  Word <- MCWord
  Opcode = {"ADD"}
  MaxForgotten = 2
INVARIANTS
  TypeOK
  CounterNeverAhead
PROPERTY MixedIsForever
