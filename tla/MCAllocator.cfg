\* A page of four blocks, or two pages of four blocks, in any order: at adjacent addresses (16 and 20), a multiple of what an int tells apart (16 blocks) from each other (4 and 20) or from NULL (16), or neither (4 and 16).
SPECIFICATION Spec
CONSTANTS
  PAGES = 2
  BLOCKS = 4
  MINALLOC = 2
  HALF_INT = 2
  Frames = {1, 4, 5}
  ReqLens <- SomeLens
  MaxHeld = 3
INVARIANTS
  TablesInv
PROPERTIES
  OnlyEmptyFreesCorrupt
  ImplementsHeap
