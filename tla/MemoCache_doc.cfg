SPECIFICATION Spec
CONSTANTS
  Threads = {t1, t2}
  Blocks = {o1, o2, o3, o4, o5}
  Contents <- Pairs
  Unused <- NoObject
  SameObject <- EqualObjects
  Keeps <- MemoizableObject
  MaxBytes = 48
  NoBlock = NoBlock
  NoThread = NoThread
  MaxDepth = 2
SYMMETRY Symmetry
INVARIANT AnswersRight
