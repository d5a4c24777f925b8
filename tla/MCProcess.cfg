SPECIFICATION Spec
CONSTANTS
  main = main
  clean = clean
  t1 = t1
  t2 = t2
  t3 = t3
  kernelProcess = kernelProcess
  init = init
  p1 = p1
  p2 = p2
  Threads <- MCThreads
  MainThread = main
  CleanThread = clean
  Processes <- MCProcesses
  MainProcess = kernelProcess
  InitProcess = init
  NoProcess = NoProcess
  NoThread = NoThread
  IrqThreads = {}
  Priority = 1
  MaxForks = 2
  MaxPreempt = 0
SYMMETRY MCSymmetry
INVARIANTS
  NoMissedExit
  ReapedOnce
  LoadedDirExists
  WaiterReleasesLock
PROPERTIES
  SchedSpec
