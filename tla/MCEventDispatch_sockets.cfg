SPECIFICATION Spec
CONSTANTS
  NConn = 3
  MaxFd = 2
  MaxSend = 1
  RespLen = 2
INVARIANTS
  RefsExact
  OwnSocket
  EventsAreOwn
  EdgeKept
