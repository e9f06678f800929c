CONSTANTS
  NConn = 2
  Workers = {w1, w2}
  Addrs = {a1, a2}
  Kinds = {"register", "login", "inline"}
  ReqLen = 1
  RespLen = 2
  InMax = 2
  MaxSend = 2
  w1 = w1
  w2 = w2
  a1 = a1
  a2 = a2
SPECIFICATION Spec
SYMMETRY Symmetry
INVARIANTS
  ResponseIsolation
  WireInOrder
  
  MapsAgree
PROPERTIES
  ClosedIsFinal
