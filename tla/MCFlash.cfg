SPECIFICATION Spec
CONSTANTS
  PageSize = 3
  NPages = 2
  SectorPages = 1
  Align = 1
  Value = {a, b}
  MaxLen = 3
INVARIANTS ContentsOK ReadBack
PROPERTIES PagesInOrder IsStore ProgramEnds
SYMMETRY ValueSymmetry
