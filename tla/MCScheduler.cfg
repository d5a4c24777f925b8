SPECIFICATION FairSchedSpec
CONSTANTS
  main = main
  clean = clean
  user1 = user1
  user2 = user2
  kernelProcess = kernelProcess
  userProcess = userProcess
  Threads <- MCThreads
  MainThread = main
  Processes = {kernelProcess, userProcess}
  MainProcess = kernelProcess
  NoProcess = NoProcess
  IrqThreads = {user1}
  Priority = 2
  MaxPreempt = 1
INVARIANTS
  SchedInv
PROPERTIES
  DeadNeverResumes
  ReadyRuns
