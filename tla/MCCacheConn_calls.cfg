SPECIFICATION Spec
CONSTANTS
  ULLONG_MAX = 65535
  LLONG_MAX = 32767
  INT_MAX = 127
  ReaderTrim = 8
  Ops <- AllOf
  Password = TRUE
  MaxCalls = 3
  MaxFaults = 2
  NULL = NULL
INVARIANTS OwnAnswer 
PROPERTIES Implements
