SPECIFICATION Spec
CONSTANTS
  Rows <- MCRows
  Undocumented <- NotAsDocumented
  Unconverted <- NotAsPassed
  None = None
INVARIANTS
  InUseNotFreedUnlessExposed
  UniqueGivenBackOnce
  CallsAsDocumented
  ConvertedAsPassed
