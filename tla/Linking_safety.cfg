SPECIFICATION Spec
CONSTANTS
  NoSymbol = NoSymbol
  Files = {"lib", "main"}
  Programs <- Sources
  Handlers <- NativeHandlers
  BlockSize = 2
  Default = {"memo"}
  MaxLoads = 2
INVARIANTS
  LinksRight
  LoadsWhatLinks
  RoomForSymbols
  EvaluatedAsAnnotated
CHECK_DEADLOCK FALSE
