SPECIFICATION Spec
CONSTANTS
  main = main
  clean = clean
  w1 = w1
  w2 = w2
  kernelProcess = kernelProcess
  userProcess = userProcess
  child = child
  Threads <- MCThreads
  MainThread = main
  CleanThread = clean
  Processes = {kernelProcess, userProcess}
  WorkerProcess = userProcess
  Zombies = {child}
  MainProcess = kernelProcess
  NoProcess = NoProcess
  IrqThreads = {}
  Priority = 1
  MaxPreempt = 0
INVARIANTS
  ExitFindsReadyThread
  OnlyDeadCleaned
  LockHolderCanRun
PROPERTIES
  ContractUntilReap
