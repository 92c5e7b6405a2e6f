SPECIFICATION Spec
CONSTANT PREG_FILE_SIZE = 4
INVARIANTS
  TypeOK
  IndexInv
PROPERTIES
  LoadFillsList
  ImplementsFifo
