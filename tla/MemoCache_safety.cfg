SPECIFICATION Spec
CONSTANTS
  Threads = {t1, t2, t3}
  Blocks = {o1, o2, o3, o4, o5}
  Contents <- Flat
  Unused <- NoObject
  SameObject <- EqualObjects
  Keeps <- MemoizableObject
  MaxBytes = 24
  NoBlock = NoBlock
  NoThread = NoThread
  MaxDepth = 2
CONSTRAINT NotYetExposed
SYMMETRY Symmetry
INVARIANTS CacheSoundUnlessExposed AnswersRightUnlessExposed FlagTellsMiss
