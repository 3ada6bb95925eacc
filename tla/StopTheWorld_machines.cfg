SPECIFICATION FairSpec
CONSTANTS
  c1 = c1
  c2 = c2
  t1 = t1
  t2 = t2
  t3 = t3
  Collectors = {c1, c2}
  Threads = {t1, t2, t3}
  Owner <- TwoMachines
  None = None
CONSTRAINTS
  SecondIsPlain
  FirstInOrder
INVARIANTS
  HandlerOfOwner
  NothingLeftOver
PROPERTIES
  StopsTheWorld
  CollectionsEnd
  StoppedThreadsContinue
