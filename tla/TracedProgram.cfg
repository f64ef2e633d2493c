SPECIFICATION Spec
CONSTANTS
  t1 = t1
  t2 = t2
  Threads <- TwoThreads
  Addrs = {"x"}
  Modes = {"read", "write"}
  Unhooked = {"unlock", "store"}
  MaxOps = 3
  None = None
SYMMETRY ThreadSymmetry
INVARIANTS TypeOK ReadsFromLogged LoadStoreOrder ProtectedOrder SectionsReadOffLog
