SPECIFICATION CodeSpec
CONSTANTS
  t1 = t1
  t2 = t2
  Threads = {t1, t2}
  Base = 4
  Length = 4
  PageSize = 4
  Platforms = {"x86", "arm", "m1"}
  Sources <- Behind
  MaxWrite = 2
  UsizeMax = 15
  U32 = 16
SYMMETRY Symmetry
INVARIANTS
  CodeRuns
  WriteIsSafe
CHECK_DEADLOCK FALSE
