SPECIFICATION FramesSpec
CONSTANTS
  StackSize = 37
  Program <- TryNative
  Values <- References
  Tuples <- Pairs
  MaxDepth = 3
  MaxWords = 4
VIEW LiveWords
PROPERTIES
  ErrorsAreCaught
CHECK_DEADLOCK FALSE
