SPECIFICATION Spec
CONSTANTS
  Objs = {o1, o2, o3}
  Global = Global
  None = None
  MaxLength = 1
  MaxSlots = 2
SYMMETRY HeapSymmetry
INVARIANTS
  OneReferenceUnlessExposed
  SharedHoldNoUnique
  FrameKept
  ResumesAtLocked
CONSTRAINT Small
