SPECIFICATION FairSpec
CONSTANTS
  Threads = {loop, w1, w2}
  Loop = loop
  DbMin = 1
  DbMax = 2
  CacheMin = 1
  CacheMax = 1
  Names = {u1}
  Pwds = {p1, p2}
  UniqueNames = TRUE
  Requests = 3
  MaxFaults = 1
  loop = loop
  w1 = w1
  w2 = w2
  u1 = u1
  p1 = p1
  p2 = p2
INVARIANTS
  
  TokenOfAccount
  TokenStays
  AllReturned
PROPERTIES
  RequestsEnd
CHECK_DEADLOCK FALSE
