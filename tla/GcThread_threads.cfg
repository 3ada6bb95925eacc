SPECIFICATION FairSpec
CONSTANTS
  Threads = {t1, t2, t3}
  Main = Main
  Gc = Gc
  None = None
INVARIANTS
  ForkFindsAllAtRest
  MarkFindsAllAtRest
PROPERTIES
  ForkEnds
  StopEnds
  GcThreadStarts
  CollectionEnds
