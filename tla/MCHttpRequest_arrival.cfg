CONSTANTS
  ULLONG_MAX = 65535
  UINT_MAX = 255
  HTTP_MAX_HEADER_SIZE = 1000
  InMax = 220
  Streams <- MCStreams
SPECIFICATION Spec
INVARIANTS  HandlerReadsFields
PROPERTY ArrivesWhole
CHECK_DEADLOCK FALSE
