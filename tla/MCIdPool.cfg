SPECIFICATION FairSpec
CONSTANTS
  Allocators = {a1, a2}
  CleanThread = clean
  NoThread = NoThread
  WordBits = 2
  InitSize = 2
  MaxSize = 6
CHECK_DEADLOCK FALSE
INVARIANTS
  IdPoolInv
  RaceNeedsUnlocked
PROPERTIES
  LockComesFree
