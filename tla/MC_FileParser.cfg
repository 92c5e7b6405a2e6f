SPECIFICATION Spec
CONSTANTS
  Files <- MCFiles
  Stale = {0, 7}
INVARIANT TypeOK
INVARIANT PrintsAsWritten
INVARIANT StaysInMemory
INVARIANT NothingLeftOpen
CHECK_DEADLOCK FALSE
