SPECIFICATION RunSpec
CONSTANTS
  main = main
  w1 = w1
  w2 = w2
  i1 = i1
  i2 = i2
  i3 = i3
  v1 = v1
  v2 = v2
  a1 = a1
  a2 = a2
  Threads <- AllThreads
  Main = main
  Tids <- ThreeIds
  Vars <- TwoVars
  Addrs <- TwoAddrs
  Ops = {"load", "store"}
  MaxLines = 3
  Commas = {0}
  None = None
SYMMETRY Symmetry
INVARIANTS ConcurrentReported KeptReported GroupHasTwoThreads
