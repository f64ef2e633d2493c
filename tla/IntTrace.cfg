SPECIFICATION Spec
CONSTANTS
  main = main
  w1 = w1
  w2 = w2
  NoOwner = NoOwner
  Threads <- AllThreads
  Main = main
  Joined <- Workers
  MaxProbes = 2
  BufSize = 7
  Faults = {"noinit", "fopen", "panic", "crash"}
SYMMETRY WorkerSymmetry
INVARIANTS TypeOK WholeLines RealTimeOrder SealedComplete NoStaleStream CleanExitComplete
PROPERTY ImplementsEventLog
