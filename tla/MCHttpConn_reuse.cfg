CONSTANTS
  NConn = 2
  Workers = {w1}
  Addrs = {a1, a2}
  Kinds = {"login"}
  ReqLen = 1
  RespLen = 2
  InMax = 1
  MaxSend = 1
  w1 = w1
  a1 = a1
  a2 = a2
SPECIFICATION Spec
SYMMETRY Symmetry
INVARIANTS
  ReleasedFindsNone
