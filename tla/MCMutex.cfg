SPECIFICATION FairSpec
CONSTANTS
  main = main
  w1 = w1
  w2 = w2
  w3 = w3
  kernelProcess = kernelProcess
  Threads <- MCThreads
  MainThread = main
  Processes = {kernelProcess}
  MainProcess = kernelProcess
  NoProcess = NoProcess
  IrqThreads = {}
  Priority = 1
  MaxPreempt = 0
INVARIANTS
  MutualExclusion
  WakeupNotLost
PROPERTIES
  SchedSpec
  WaiterIsWokenUnlessStranded
