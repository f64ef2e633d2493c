SPECIFICATION FairSpec
CONSTANTS
  main = main
  w1 = w1
  w2 = w2
  NoOwner = NoOwner
  Threads <- AllThreads
  Main = main
  Joined = {w1}
  MaxProbes = 1
  BufSize = 7
  Faults = {"noinit", "fopen", "panic", "crash"}
PROPERTIES ProbesReturn ExitCompletes
