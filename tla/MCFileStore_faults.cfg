CONSTANTS
  Users = {u1, u2}
  Files = {f1}
  Ids = {d1, d2}
  Copies = {1, 2}
  MaxTrouble = 1
  UploadOnce = TRUE
  OwnOnly = TRUE
  u1 = u1
  u2 = u2
  f1 = f1
  d1 = d1
  d2 = d2
  d3 = d3
SPECIFICATION Spec
SYMMETRY Symmetry
INVARIANTS
  
  
  
  SharesAgree
  CountersBounded
