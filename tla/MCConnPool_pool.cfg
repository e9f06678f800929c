CONSTANTS
  Users = {u1, u2, u3, u4, u5}
  MinConns = 1
  MaxConns = 3
  Careless = {u5}
  u1 = u1
  u2 = u2
  u3 = u3
  u4 = u4
  u5 = u5
SPECIFICATION Spec
SYMMETRY Symmetry
INVARIANTS
  NotShared
  NoneLost
  NoSleepOnFree
