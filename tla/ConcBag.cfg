SPECIFICATION FairSpec
CONSTANTS
  t1 = t1
  t2 = t2
  a1 = a1
  a2 = a2
  a3 = a3
  Null = Null
  Inserters <- TwoInserters
  Addrs <- ThreeAddrs
  MaxItems = 2
  MaxCollects = 2
INVARIANTS TypeOK ReachableLive Accounted
PROPERTY InsertReturns
