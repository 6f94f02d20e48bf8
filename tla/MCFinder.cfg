SPECIFICATION FairSpec
CONSTANTS
  t1 = t1
  t2 = t2
  t3 = t3
  a1 = a1
  a2 = a2
  a3 = a3
  f1 = f1
  f2 = f2
  c1 = c1
  c2 = c2
  Null = Null
  Threads = {t1, t2, t3}
  Copies = {c1, c2}
  CopyOf <- TwoCopies
  PrivateCopies = {c1}
  Pids = {1}
  Addresses = {a1, a2, a3}
  Files = {f1, f2}
  Systems = {"unix", "windows"}
  MaxFailures = 1
  MaxStarts = 2
INVARIANTS
  TypeOK
  OneHeaderUndisturbed
  FoundIsMapped
  UnreadyOnlyBriefly
  NeverReinitialized
  NoMappingLeaked
PROPERTIES
  CacheStable
  FindReturns
CHECK_DEADLOCK FALSE
