CONSTANTS
  Users = {u1, u2}
  Files = {f1}
  Ids = {d1}
  Copies = {1}
  MaxTrouble = 1
  UploadOnce = TRUE
  OwnOnly = TRUE
  MaxDrawn = 2
  u1 = u1
  u2 = u2
  f1 = f1
  f2 = f2
  d1 = d1
  d2 = d2
SPECIFICATION PicSpec
SYMMETRY Symmetry
INVARIANTS
  ContentIsKept
  RefsCounted
