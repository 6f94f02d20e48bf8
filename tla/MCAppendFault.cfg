SPECIFICATION CodeSpec
CONSTANTS
  t1 = t1
  t2 = t2
  Threads = {t1}
  Base = 4
  Length = 4
  PageSize = 2
  Platforms = {"m1"}
  Sources <- Behind
  MaxWrite = 3
  UsizeMax = 15
  U32 = 16
INVARIANT WriteIsSafe
CHECK_DEADLOCK FALSE
