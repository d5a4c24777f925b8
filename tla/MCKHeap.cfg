SPECIFICATION Spec
CONSTANTS
  PageSize = 8
  HeaderSize = 2
  FooterSize = 1
  StartAddress = 0
  MinSize = 16
  MaxAddress = 32
  KHEAP_INDEX_NUM = 8
  Sizes = {1, 6}
INVARIANTS
  BlocksTileHeap
  IndexIsHoles
  FindsSmallestHole
  HolesMerged
PROPERTIES
  AllocatorSpec
CHECK_DEADLOCK FALSE
