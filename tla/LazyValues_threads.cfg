SPECIFICATION FairSpec
CONSTANTS
  a = a
  b = b
  t1 = t1
  t2 = t2
  Threads = {t1, t2}
  Lazies = {a, b}
  Deps <- TwoDeps
  None = None
  MaxSem = 1
CONSTRAINT OneShares
INVARIANTS
  MutexesOfStack
  SemNeverBlocks
PROPERTIES
  ImplementsCallByNeed
  WaitEnds
