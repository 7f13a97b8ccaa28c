CONSTANTS
  Threads = {t1, t2, t3}
  LockObjects = {l1, l2, l3}
  MaxDirect = 2
  NoThread = NoThread
  NoLock = NoLock
  Direct = Direct
SYMMETRY Symmetry
SPECIFICATION Spec
INVARIANTS TypeOK MutualExclusion DepthCounts
