SPECIFICATION Spec
CONSTANTS
  PageSize = 3
  NPages = 2
  SectorPages = 1
  Align = 1
  Value = {a, b}
  MaxLen = 3
INVARIANT ChunkFits
