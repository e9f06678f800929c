CONSTANTS
  Lengths = {1, 2}
  Size = 3
  MaxBehind = 2
  MaxLines = 4
  Null = Null
  Names = {base, stamped}
  Base = base
  RollSize = 2
  CheckEvery = 2
  FlushInterval = 0
  Day = 2
  MaxUnits = 12
  MaxTime = 3
  MaxFaults = 1
  NoFile = NoFile
SPECIFICATION FairServiceSpec
INVARIANTS
  Ready
  LinesKept
  UnitsKept
PROPERTIES
  OnlyGrows
  WriterServes
CHECK_DEADLOCK FALSE
