SPECIFICATION FairSpec
CONSTANTS
  main = main
  r1 = r1
  r2 = r2
  kernelProcess = kernelProcess
  Threads <- MCThreads
  MainThread = main
  Processes = {kernelProcess}
  MainProcess = kernelProcess
  NoProcess = NoProcess
  IrqThreads = {r1, r2}
  Priority = 1
  MaxPreempt = 0
  KEYBOARD_BUF_SIZE = 2
  MaxNest = 3
INVARIANTS
  NoWaiterWithInput
  BlockedReaderFound
PROPERTIES
  SchedSpec
  TakenIsWokenUnlessSuspended
