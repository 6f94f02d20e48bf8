SPECIFICATION FairAllocSpec
CONSTANTS
  UsizeMax = 15
  U32 = 16
  PageSize = 2
  WindowsGranularity = 4
  NumPages = 7
  MaxAddress = 13
  AllocRequests <- MCRequests
  RetryCount = 2
  EnvSteps = 1
  FixedNoReplace = FALSE
  Systems = {"linux", "windows", "macos"}
  ThisProcess = 1
  MaxHeld = 2
INVARIANTS
  ResultFits
  NothingLeaked
  FindsRoom
PROPERTIES
  OthersKept
  AllocateReturns
CHECK_DEADLOCK FALSE
