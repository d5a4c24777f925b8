SPECIFICATION Spec
CONSTANTS
  p1 = p1
  p2 = p2
  p3 = p3
  Processes <- MCProcesses
  FirstProcess = p1
  NumFrames = 8
  KernelFrames = 767
  PAGE_SIZE = 4096
  Values = {0, 1}
  Zero = 0
  MaxExecs = 1
  Tables = Tables
SYMMETRY MCSymmetry
CHECK_DEADLOCK FALSE
INVARIANTS
  CountIsOtherSharers
  WriterIsAlone
  FramesAccounted
PROPERTIES
  OthersCannotWrite
