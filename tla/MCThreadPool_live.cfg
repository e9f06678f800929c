CONSTANTS
  Workers = {w1, w2}
  Waiters = {x1}
  Tasks = {t1, t2}
  w1 = w1
  w2 = w2
  w3 = w3
  t1 = t1
  t2 = t2
  t3 = t3
  x1 = x1
  x2 = x2
SPECIFICATION FairSpec
PROPERTIES
  Implements
  TasksEnd
  WaitersReturn
  StopEnds
