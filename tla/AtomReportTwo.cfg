SPECIFICATION Spec
CONSTANTS
  t1 = t1
  t2 = t2
  t3 = t3
  a1 = a1
  a2 = a2
  Tids <- ThreeTids
  Addrs <- TwoAddrs
  Ops = {"load"}
  MaxLines = 3
  Commas = {0}
INVARIANT MoreThanTwoThreads
