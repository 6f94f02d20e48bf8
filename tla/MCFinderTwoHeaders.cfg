SPECIFICATION Spec
CONSTANTS
  t1 = t1
  t2 = t2
  t3 = t3
  a1 = a1
  a2 = a2
  a3 = a3
  f1 = f1
  f2 = f2
  c1 = c1
  c2 = c2
  Null = Null
  Threads = {t1, t3}
  Copies = {c1, c2}
  CopyOf <- TwoCopies
  PrivateCopies = {}
  Pids = {1}
  Addresses = {a1, a2}
  Files = {f1, f2}
  Systems = {"unix"}
  MaxFailures = 0
  MaxStarts = 1
INVARIANT OneHeaderAddress
CHECK_DEADLOCK FALSE
