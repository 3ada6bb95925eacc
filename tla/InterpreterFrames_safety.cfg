SPECIFICATION FramesSpec
CONSTANTS
  StackSize = 37
  Program <- All
  Values <- References
  Tuples <- Pairs
  MaxDepth = 3
  MaxWords = 3
CONSTRAINT Bounded
VIEW LiveWords
INVARIANTS
  StackRootsCovered
PROPERTIES
  ImplementsCallStack
CHECK_DEADLOCK FALSE
