SPECIFICATION FairSpec
CONSTANTS
  Objects = {o1, o2}
  Threads = {t1, t2}
  NoObject = NoObject
  Arity = 1
INVARIANTS
  SafeUnlessUnsound
  ConstructionNotFreed
PROPERTIES
  GarbageIsFreed
