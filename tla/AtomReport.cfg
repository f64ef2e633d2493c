SPECIFICATION Spec
CONSTANTS
  t1 = t1
  t2 = t2
  t3 = t3
  a1 = a1
  a2 = a2
  Tids <- TwoTids
  Addrs <- TwoAddrs
  Ops = {"load", "store"}
  MaxLines = 3
  Commas = {0, 1}
SYMMETRY TidAddrSymmetry
INVARIANTS ReportsShared FailsOnlyOnCut FailureCutsReport
