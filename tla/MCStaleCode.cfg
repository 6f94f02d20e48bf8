SPECIFICATION CodeSpec
CONSTANTS
  t1 = t1
  t2 = t2
  Threads = {t1}
  Base = 4
  Length = 4
  PageSize = 4
  Platforms = {"arm"}
  Sources <- InFront
  MaxWrite = 2
  UsizeMax = 15
  U32 = 16
INVARIANT CodeRuns
CHECK_DEADLOCK FALSE
