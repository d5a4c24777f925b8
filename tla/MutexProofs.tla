----------------------------- MODULE MutexProofs -----------------------------
(***************************************************************************)
(* Proofs about Mutex, for any number of workers.                          *)
(***************************************************************************)
EXTENDS Mutex, SchedulerProofs

-----------------------------------------------------------------------------
(***************************************************************************)
(* Every step of the mutex is a step of the scheduler's contract.          *)
(***************************************************************************)

\* The thread that mutex_unlock wakes up is asleep and is not its caller.
LEMMA WokenIsAsleep ==
  ASSUME MutexInv, self \in Workers, pc[self] = "unlock_wake",
         waiting_task_queue # <<>>
  PROVE  LET h == Head(waiting_task_queue)
         IN  /\ h \in Workers
             /\ h # self
             /\ status[h] = "TASK_WAITING"
             /\ pc[h] \in {"lock_sleep", "lock_xchg"}
<1> DEFINE h == Head(waiting_task_queue)
<1>1. h \in Workers /\ Linked(waiting_task_queue, h)
  BY RemoveHead, Zenon DEF MutexInv, TypeOK, BlockedIsQueued
<1>2. status[h] = "TASK_WAITING" \/ pc[h] = "lock_mark"
  BY <1>1 DEF MutexInv, BlockedIsQueued, InWaitQueue
<1>3. HoldsYdlock(h) => h = self
  BY <1>1 DEF MutexInv, QueueGuarded, HoldsYdlock
<1>4. h # self
  BY <1>1, <1>2 DEF MutexInv, BlockedInLock
<1> QED
  BY <1>1, <1>2, <1>3, <1>4 DEF MutexInv, BlockedInLock, HoldsYdlock

\* Each step calls at most one scheduler function, within its contract.
LEMMA StepsScheduler == MutexInv /\ [Next]_vars => [SchedNext]_schedVars
<1> SUFFICES ASSUME MutexInv, [Next]_vars PROVE [SchedNext]_schedVars
  OBVIOUS
<1>1. ASSUME schedule_thread_yield, self \in Workers PROVE SchedNext
  BY <1>1 DEF MutexInv, NobodyDies, SchedNext, YieldThread, Workers, self
<1>2. CASE LockYield \/ UnlockYield \/ LockSleep
  BY <1>1, <1>2 DEF LockYield, UnlockYield, LockSleep, Goto
<1>3. CASE LockMark
  <2>1. self \in Workers /\ pc[self] = "lock_mark" /\ schedule_mark_thread_block
    BY <1>3 DEF LockMark, Goto
  <2>2. status[self] = "TASK_RUNNING" /\ crt_thread_node # MainThread
    BY <2>1 DEF MutexInv, CurrentWorkerRuns, self, Workers
  <2> QED
    BY <2>1, <2>2 DEF SchedNext, BlockThread, self
<1>4. CASE UnlockWake
  <2>1. self \in Workers /\ pc[self] = "unlock_wake"
    BY <1>4 DEF UnlockWake, Goto
  <2>2. CASE waiting_task_queue = <<>>
    BY <1>4, <2>2 DEF UnlockWake
  <2>3. CASE waiting_task_queue # <<>>
    <3> DEFINE h == Head(waiting_task_queue)
    <3>1. h \in Threads /\ h # crt_thread_node /\ status[h] = "TASK_WAITING"
      BY <2>1, <2>3, WokenIsAsleep DEF Workers, self
    <3>2. add_thread_node_to_schedule(h)
      BY <1>4, <2>3 DEF UnlockWake
    <3> QED
      BY <3>1, <3>2 DEF SchedNext, WakeThread
  <2> QED
    BY <2>2, <2>3
<1>5. ASSUME NEW t \in Workers, StartWorker(t) PROVE SchedNext
  BY <1>5, ThreadsAssumption DEF StartWorker, SchedNext, StartThread, Workers
<1>6. CASE Tick
  BY <1>6 DEF Tick, SchedNext, TimerInterrupt
<1>7. CASE \/ LockCalled \/ LockXchg \/ LockTry \/ LockBlockRelease
           \/ LockRelease \/ UnlockCalled \/ UnlockXchg \/ UnlockRelease
  BY <1>7 DEF LockCalled, LockXchg, LockTry, LockBlockRelease, LockRelease,
              UnlockCalled, UnlockXchg, UnlockRelease, UnchangedScheduler
<1>8. CASE UNCHANGED vars
  BY <1>8 DEF vars
<1> QED
  BY <1>2, <1>3, <1>4, <1>5, <1>6, <1>7, <1>8 DEF Next, WorkerStep

-----------------------------------------------------------------------------
(***************************************************************************)
(* The invariant, one lemma per kind of step.                              *)
(***************************************************************************)

\* The places a worker may go from and to without a change of the locks, of the
\* wait queue or of a status.
Harmless(l, m) ==
  \/ l = "outside" /\ m = "lock_xchg"
  \/ l = "lock_xchg" /\ m = "lock_yield"
  \/ l = "lock_yield" /\ m = "lock_xchg"
  \/ l = "critical" /\ m = "unlock_xchg"
  \/ l = "unlock_xchg" /\ m = "unlock_yield"
  \/ l = "unlock_yield" /\ m = "unlock_xchg"
  \/ l = "lock_sleep" /\ m = "lock_xchg"

\* A worker that moves between such places, and perhaps gives up the processor.
LEMMA HarmlessStep ==
  ASSUME MutexInv, SchedInv', KeepsBlocked, UNCHANGED mutexVars,
         NEW l, NEW m, Goto(l, m), Harmless(l, m),
         \/ UNCHANGED <<crt_thread_node, status>> /\ l # "lock_sleep"
         \/ status'[crt_thread_node'] = "TASK_RUNNING"
  PROVE  MutexInv'
<1>1. /\ self \in Workers /\ pc[self] = l
      /\ pc' = [pc EXCEPT ![self] = m]
      /\ pc \in [Workers -> Labels]
  BY DEF Goto, MutexInv, TypeOK
<1>2. /\ pc' \in [Workers -> Labels]
      /\ pc'[self] = m
      /\ \A t \in Workers : t # self => pc'[t] = pc[t]
  BY <1>1 DEF Harmless, Labels
<1>3. Workers \subseteq Threads
  BY DEF Workers
<1>4. TypeOK'
  BY <1>2 DEF MutexInv, TypeOK, SchedInv, mutexVars
<1>5. \A t \in Workers : /\ HoldsMutex(t)' <=> HoldsMutex(t)
                         /\ HoldsYdlock(t)' <=> HoldsYdlock(t)
  BY <1>1, <1>2 DEF Harmless, HoldsMutex, HoldsYdlock
<1>6. LocksMarked' /\ MutualExclusion' /\ QueueGuarded'
  BY <1>5 DEF MutexInv, LocksMarked, MutualExclusion, QueueGuarded, mutexVars
<1>7. \A t \in Workers : InWaitQueue(t)' <=> InWaitQueue(t)
  BY DEF InWaitQueue, mutexVars
<1>8. \A t \in Workers : (pc'[t] = "lock_mark") <=> (pc[t] = "lock_mark")
  BY <1>1, <1>2 DEF Harmless
<1>9. BlockedIsQueued'
  BY <1>3, <1>7, <1>8
     DEF MutexInv, BlockedIsQueued, KeepsBlocked, mutexVars
<1>10. BlockedInLock'
  <2>1. status[self] = "TASK_WAITING" => l = "lock_sleep"
    BY <1>1 DEF MutexInv, CurrentWorkerRuns, Harmless
  <2> QED
    BY <2>1, <1>1, <1>2, <1>3, <1>7, <1>8
       DEF MutexInv, BlockedInLock, KeepsBlocked, Harmless
<1>11. NobodyDies'
  BY DEF MutexInv, NobodyDies, KeepsBlocked
<1>12. CurrentWorkerRuns'
  <2>1. CASE status'[crt_thread_node'] = "TASK_RUNNING"
    BY <2>1 DEF CurrentWorkerRuns, self
  <2>2. CASE UNCHANGED <<crt_thread_node, status>> /\ l # "lock_sleep"
    <3>1. status[self] = "TASK_RUNNING"
      BY <1>1, <2>2 DEF MutexInv, CurrentWorkerRuns, Harmless
    <3> QED
      BY <3>1, <2>2 DEF CurrentWorkerRuns, self
  <2> QED
    BY <2>1, <2>2
<1>13. WakeupNotLost'
  <2> SUFFICES ASSUME waiting_task_queue # <<>>, ~hold
               PROVE  \E t \in Workers :
                        /\ status'[t] \in {"TASK_READY", "TASK_RUNNING"}
                        /\ pc'[t] \in {"lock_xchg", "lock_yield", "lock_try",
                                       "lock_sleep"}
    BY DEF WakeupNotLost, mutexVars
  <2>1. PICK t \in Workers :
          /\ status[t] \in {"TASK_READY", "TASK_RUNNING"}
          /\ pc[t] \in {"lock_xchg", "lock_yield", "lock_try", "lock_sleep"}
    BY DEF MutexInv, WakeupNotLost
  <2>2. status'[t] \in {"TASK_READY", "TASK_RUNNING"}
    BY <2>1, <1>3 DEF KeepsBlocked
  <2>3. pc'[t] \in {"lock_xchg", "lock_yield", "lock_try", "lock_sleep"}
    BY <2>1, <1>1, <1>2 DEF Harmless
  <2> QED
    BY <2>2, <2>3
<1> QED
  BY <1>4, <1>6, <1>9, <1>10, <1>11, <1>12, <1>13 DEF MutexInv

\* The timer interrupt.
LEMMA TickStep ==
  ASSUME MutexInv, SchedInv', Tick
  PROVE  MutexInv'
<1>1. /\ KeepsBlocked
      /\ \/ crt_thread_node' = crt_thread_node /\ status' = status
         \/ status'[crt_thread_node'] = "TASK_RUNNING"
  BY ScheduleKeepsBlocked DEF Tick, timer_callback, MutexInv
<1>2. UNCHANGED <<hold, ydlock, waiting_task_queue, pc>>
  BY DEF Tick, mutexVars
<1>3. Workers \subseteq Threads
  BY DEF Workers
<1>4. TypeOK' /\ LocksMarked' /\ MutualExclusion' /\ QueueGuarded'
  BY <1>2 DEF MutexInv, TypeOK, SchedInv, LocksMarked, MutualExclusion,
              QueueGuarded, HoldsMutex, HoldsYdlock
<1>5. BlockedIsQueued' /\ BlockedInLock' /\ NobodyDies'
  BY <1>1, <1>2, <1>3
     DEF MutexInv, BlockedIsQueued, BlockedInLock, NobodyDies, InWaitQueue,
         KeepsBlocked
<1>6. CurrentWorkerRuns'
  BY <1>1, <1>2 DEF MutexInv, CurrentWorkerRuns, self
<1>7. WakeupNotLost'
  BY <1>1, <1>2, <1>3 DEF MutexInv, WakeupNotLost, KeepsBlocked
<1> QED
  BY <1>4, <1>5, <1>6, <1>7 DEF MutexInv

\* A worker is started: it is outside, and was neither waiting nor running.
LEMMA StartStep ==
  ASSUME MutexInv, SchedInv', NEW w \in Workers, StartWorker(w)
  PROVE  MutexInv'
<1>1. /\ status' = [status EXCEPT ![w] = "TASK_READY"]
      /\ preempt_count' = [preempt_count EXCEPT ![w] = 0]
      /\ crt_thread_node' = crt_thread_node
      /\ crt_thread_node = MainThread
      /\ status[w] = "TASK_NONE"
  BY DEF StartWorker, add_thread_to_schedule
<1>2. UNCHANGED <<hold, ydlock, waiting_task_queue, pc>>
  BY DEF StartWorker, mutexVars
<1>3. /\ Workers \subseteq Threads
      /\ status \in [Threads -> TaskStatus]
      /\ preempt_count \in [Threads -> 0..MaxPreempt]
  BY DEF Workers, MutexInv, SchedInv, SchedTypeOK
<1>4. /\ status'[w] = "TASK_READY"
      /\ \A t \in Threads : t # w => status'[t] = status[t]
      /\ \A t \in Threads : preempt_count'[t] = 0
  BY <1>1, <1>3 DEF MutexInv, NobodyDies
<1>5. TypeOK' /\ LocksMarked' /\ MutualExclusion' /\ QueueGuarded'
  BY <1>2 DEF MutexInv, TypeOK, SchedInv, LocksMarked, MutualExclusion,
              QueueGuarded, HoldsMutex, HoldsYdlock
<1>6. BlockedIsQueued' /\ BlockedInLock' /\ NobodyDies'
  BY <1>1, <1>2, <1>3, <1>4
     DEF MutexInv, BlockedIsQueued, BlockedInLock, NobodyDies, InWaitQueue
<1>7. CurrentWorkerRuns'
  BY <1>1 DEF CurrentWorkerRuns, self, Workers
<1>8. WakeupNotLost'
  BY <1>1, <1>2, <1>3, <1>4 DEF MutexInv, WakeupNotLost
<1> QED
  BY <1>5, <1>6, <1>7, <1>8 DEF MutexInv

\* ydlock is taken: no other thread had it.
LEMMA TakeYdlockStep ==
  ASSUME MutexInv, SchedInv', UnchangedScheduler,
         NEW l, NEW m, Goto(l, m),
         \/ l = "lock_xchg" /\ m = "lock_try"
         \/ l = "unlock_xchg" /\ m = "unlock_wake",
         ~ydlock, ydlock', UNCHANGED <<hold, waiting_task_queue>>,
         ydlock' \in BOOLEAN
  PROVE  MutexInv'
<1>1. /\ self \in Workers /\ pc[self] = l
      /\ pc' = [pc EXCEPT ![self] = m]
      /\ pc \in [Workers -> Labels]
      /\ UNCHANGED <<crt_thread_node, status, preempt_count>>
  BY DEF Goto, MutexInv, TypeOK, UnchangedScheduler, schedVars
<1>2. /\ pc' \in [Workers -> Labels]
      /\ pc'[self] = m
      /\ \A t \in Workers : t # self => pc'[t] = pc[t]
  BY <1>1 DEF Labels
<1>3. TypeOK'
  BY <1>2 DEF MutexInv, TypeOK, SchedInv
<1>4. \A t \in Workers : (HoldsMutex(t)' <=> HoldsMutex(t))
  BY <1>1, <1>2 DEF HoldsMutex
<1>5. \A t \in Workers : HoldsYdlock(t)' => t = self
  BY <1>2 DEF HoldsYdlock, MutexInv, LocksMarked
<1>6. LocksMarked' /\ MutualExclusion' /\ QueueGuarded'
  BY <1>4, <1>5 DEF MutexInv, LocksMarked, MutualExclusion, QueueGuarded
<1>7. status[self] = "TASK_RUNNING"
  BY <1>1 DEF MutexInv, CurrentWorkerRuns
<1>8. BlockedIsQueued' /\ BlockedInLock' /\ NobodyDies'
  BY <1>1, <1>2, <1>7
     DEF MutexInv, BlockedIsQueued, BlockedInLock, NobodyDies, InWaitQueue
<1>9. CurrentWorkerRuns'
  BY <1>1, <1>7 DEF CurrentWorkerRuns, self
<1>10. WakeupNotLost'
  BY <1>1, <1>2 DEF MutexInv, WakeupNotLost
<1> QED
  BY <1>3, <1>6, <1>8, <1>9, <1>10 DEF MutexInv

\* ydlock is released by the thread that has it.
LEMMA DropYdlockStep ==
  ASSUME MutexInv, SchedInv', UnchangedScheduler,
         NEW l, NEW m, yieldlock_unlock(l, m),
         \/ l = "lock_block_release" /\ m = "lock_sleep"
         \/ l = "lock_release" /\ m = "critical"
         \/ l = "unlock_release" /\ m = "outside"
  PROVE  MutexInv'
<1>1. /\ self \in Workers /\ pc[self] = l
      /\ pc' = [pc EXCEPT ![self] = m]
      /\ pc \in [Workers -> Labels]
      /\ UNCHANGED <<crt_thread_node, status, preempt_count, hold,
                     waiting_task_queue>>
      /\ ydlock' = FALSE
  BY DEF yieldlock_unlock, Goto, MutexInv, TypeOK, UnchangedScheduler, schedVars
<1>2. /\ pc' \in [Workers -> Labels]
      /\ pc'[self] = m
      /\ \A t \in Workers : t # self => pc'[t] = pc[t]
  BY <1>1 DEF Labels
<1>3. TypeOK'
  BY <1>1, <1>2 DEF MutexInv, TypeOK, SchedInv
<1>4. \A t \in Workers : HoldsMutex(t)' <=> HoldsMutex(t)
  BY <1>1, <1>2 DEF HoldsMutex
<1>5. \A t \in Workers : ~HoldsYdlock(t)'
  BY <1>1, <1>2 DEF HoldsYdlock, MutexInv, QueueGuarded
<1>6. LocksMarked' /\ MutualExclusion' /\ QueueGuarded'
  BY <1>1, <1>4, <1>5 DEF MutexInv, LocksMarked, MutualExclusion, QueueGuarded
<1>7. BlockedIsQueued' /\ BlockedInLock' /\ NobodyDies'
  BY <1>1, <1>2
     DEF MutexInv, BlockedIsQueued, BlockedInLock, NobodyDies, InWaitQueue
<1>8. CurrentWorkerRuns'
  BY <1>1, <1>2 DEF MutexInv, CurrentWorkerRuns, self
<1>9. WakeupNotLost'
  BY <1>1, <1>2 DEF MutexInv, WakeupNotLost
<1> QED
  BY <1>3, <1>6, <1>7, <1>8, <1>9 DEF MutexInv

\* The mutex is taken, or its caller enters the wait queue.
LEMMA LockTryStep ==
  ASSUME MutexInv, SchedInv', LockTry
  PROVE  MutexInv'
<1>1. /\ self \in Workers /\ pc[self] = "lock_try"
      /\ pc \in [Workers -> Labels]
      /\ UNCHANGED <<crt_thread_node, status, preempt_count, ydlock>>
      /\ waiting_task_queue \in Seq(Workers) /\ NoRepeat(waiting_task_queue)
  BY DEF LockTry, Goto, MutexInv, TypeOK, BlockedIsQueued, UnchangedScheduler,
         schedVars
<1>2. status[self] = "TASK_RUNNING"
  BY <1>1 DEF MutexInv, CurrentWorkerRuns
<1>3. ~InWaitQueue(self)
  BY <1>1, <1>2 DEF MutexInv, BlockedIsQueued
<1>4. CASE ~hold
  <2>1. /\ hold' = TRUE /\ waiting_task_queue' = waiting_task_queue
        /\ pc' = [pc EXCEPT ![self] = "lock_release"]
    BY <1>4 DEF LockTry, Goto
  <2>2. /\ pc' \in [Workers -> Labels]
        /\ pc'[self] = "lock_release"
        /\ \A t \in Workers : t # self => pc'[t] = pc[t]
    BY <1>1, <2>1 DEF Labels
  <2>3. \A t \in Workers : HoldsMutex(t)' => t = self
    BY <1>4, <2>2 DEF HoldsMutex, MutexInv, LocksMarked
  <2>4. \A t \in Workers : HoldsYdlock(t)' <=> HoldsYdlock(t)
    BY <1>1, <2>2 DEF HoldsYdlock
  <2>5. TypeOK' /\ LocksMarked' /\ MutualExclusion' /\ QueueGuarded'
    BY <1>1, <2>1, <2>2, <2>3, <2>4
       DEF MutexInv, TypeOK, SchedInv, LocksMarked, MutualExclusion, QueueGuarded
  <2>6. BlockedIsQueued' /\ BlockedInLock' /\ NobodyDies'
    BY <1>1, <1>2, <2>1, <2>2
       DEF MutexInv, BlockedIsQueued, BlockedInLock, NobodyDies, InWaitQueue
  <2>7. CurrentWorkerRuns' /\ WakeupNotLost'
    BY <1>1, <1>2, <2>1 DEF CurrentWorkerRuns, WakeupNotLost, self
  <2> QED
    BY <2>5, <2>6, <2>7 DEF MutexInv
<1>5. CASE hold
  <2>1. /\ hold' = hold
        /\ waiting_task_queue' = Append(waiting_task_queue, self)
        /\ pc' = [pc EXCEPT ![self] = "lock_mark"]
    BY <1>5 DEF LockTry, Goto
  <2>2. /\ pc' \in [Workers -> Labels]
        /\ pc'[self] = "lock_mark"
        /\ \A t \in Workers : t # self => pc'[t] = pc[t]
    BY <1>1, <2>1 DEF Labels
  <2>3. /\ waiting_task_queue' \in Seq(Workers)
        /\ NoRepeat(waiting_task_queue')
        /\ \A t : Linked(waiting_task_queue', t)
                    <=> (Linked(waiting_task_queue, t) \/ t = self)
    BY <1>1, <1>3, <2>1, AppendNode, Zenon DEF InWaitQueue
  <2>4. \A t \in Workers : /\ HoldsMutex(t)' <=> HoldsMutex(t)
                           /\ HoldsYdlock(t)' <=> HoldsYdlock(t)
    BY <1>1, <2>2 DEF HoldsMutex, HoldsYdlock
  <2>5. TypeOK' /\ LocksMarked' /\ MutualExclusion' /\ QueueGuarded'
    BY <1>1, <2>1, <2>2, <2>3, <2>4
       DEF MutexInv, TypeOK, SchedInv, LocksMarked, MutualExclusion, QueueGuarded
  <2>6. BlockedIsQueued' /\ BlockedInLock' /\ NobodyDies'
    BY <1>1, <1>2, <2>2, <2>3
       DEF MutexInv, BlockedIsQueued, BlockedInLock, NobodyDies, InWaitQueue
  <2>7. CurrentWorkerRuns' /\ WakeupNotLost'
    BY <1>1, <1>2, <1>5, <2>1 DEF CurrentWorkerRuns, WakeupNotLost, self
  <2> QED
    BY <2>5, <2>6, <2>7 DEF MutexInv
<1> QED
  BY <1>4, <1>5

\* The caller, already in the wait queue, marks itself blocked.
LEMMA LockMarkStep ==
  ASSUME MutexInv, SchedInv', LockMark
  PROVE  MutexInv'
<1>1. /\ self \in Workers /\ pc[self] = "lock_mark"
      /\ pc \in [Workers -> Labels]
      /\ pc' = [pc EXCEPT ![self] = "lock_block_release"]
      /\ UNCHANGED <<crt_thread_node, preempt_count, hold, ydlock,
                     waiting_task_queue>>
      /\ status' = [status EXCEPT ![self] = "TASK_WAITING"]
  BY DEF LockMark, Goto, MutexInv, TypeOK, schedule_mark_thread_block, mutexVars,
         self
<1>2. /\ pc' \in [Workers -> Labels]
      /\ pc'[self] = "lock_block_release"
      /\ \A t \in Workers : t # self => pc'[t] = pc[t]
  BY <1>1 DEF Labels
<1>3. /\ Workers \subseteq Threads
      /\ status \in [Threads -> TaskStatus]
  BY DEF Workers, MutexInv, SchedInv, SchedTypeOK
<1>4. /\ status'[self] = "TASK_WAITING"
      /\ \A t \in Threads : t # self => status'[t] = status[t]
  BY <1>1, <1>3
<1>5. \A t \in Workers : /\ HoldsMutex(t)' <=> HoldsMutex(t)
                         /\ HoldsYdlock(t)' <=> HoldsYdlock(t)
  BY <1>1, <1>2 DEF HoldsMutex, HoldsYdlock
<1>6. TypeOK' /\ LocksMarked' /\ MutualExclusion' /\ QueueGuarded'
  BY <1>1, <1>2, <1>5
     DEF MutexInv, TypeOK, SchedInv, LocksMarked, MutualExclusion, QueueGuarded
<1>7. BlockedIsQueued' /\ BlockedInLock'
  BY <1>1, <1>2, <1>3, <1>4
     DEF MutexInv, BlockedIsQueued, BlockedInLock, InWaitQueue
<1>8. NobodyDies'
  BY <1>1, <1>3, <1>4 DEF MutexInv, NobodyDies
<1>9. CurrentWorkerRuns'
  BY <1>1, <1>2, <1>4 DEF CurrentWorkerRuns, self
<1>10. WakeupNotLost'
  BY <1>1, <1>2, <1>3, <1>4 DEF MutexInv, WakeupNotLost
<1> QED
  BY <1>6, <1>7, <1>8, <1>9, <1>10 DEF MutexInv

\* The mutex is freed and the head of the wait queue, if any, is woken up.
LEMMA UnlockWakeStep ==
  ASSUME MutexInv, SchedInv', UnlockWake
  PROVE  MutexInv'
<1>1. /\ self \in Workers /\ pc[self] = "unlock_wake"
      /\ pc \in [Workers -> Labels]
      /\ pc' = [pc EXCEPT ![self] = "unlock_release"]
      /\ hold' = FALSE /\ ydlock' = ydlock
      /\ waiting_task_queue \in Seq(Workers) /\ NoRepeat(waiting_task_queue)
  BY DEF UnlockWake, Goto, MutexInv, TypeOK, BlockedIsQueued
<1>2. /\ pc' \in [Workers -> Labels]
      /\ pc'[self] = "unlock_release"
      /\ \A t \in Workers : t # self => pc'[t] = pc[t]
  BY <1>1 DEF Labels
<1>3. status[self] = "TASK_RUNNING"
  BY <1>1 DEF MutexInv, CurrentWorkerRuns
<1>4. \A t \in Workers : ~HoldsMutex(t)'
  BY <1>1, <1>2 DEF HoldsMutex, MutexInv, MutualExclusion
<1>5. \A t \in Workers : HoldsYdlock(t)' <=> HoldsYdlock(t)
  BY <1>1, <1>2 DEF HoldsYdlock
<1>6. LocksMarked' /\ MutualExclusion' /\ QueueGuarded'
  BY <1>1, <1>4, <1>5 DEF MutexInv, LocksMarked, MutualExclusion, QueueGuarded
<1>7. /\ Workers \subseteq Threads
      /\ status \in [Threads -> TaskStatus]
  BY DEF Workers, MutexInv, SchedInv, SchedTypeOK
<1>8. CASE waiting_task_queue = <<>>
  <2>1. UNCHANGED <<waiting_task_queue, crt_thread_node, status, preempt_count>>
    BY <1>8 DEF UnlockWake, schedVars
  <2>2. TypeOK'
    BY <1>1, <1>2, <2>1 DEF MutexInv, TypeOK, SchedInv
  <2>3. BlockedIsQueued' /\ BlockedInLock' /\ NobodyDies'
    BY <1>1, <1>2, <2>1
       DEF MutexInv, BlockedIsQueued, BlockedInLock, NobodyDies, InWaitQueue
  <2>4. CurrentWorkerRuns' /\ WakeupNotLost'
    BY <1>3, <1>8, <2>1 DEF CurrentWorkerRuns, WakeupNotLost, self
  <2> QED
    BY <1>6, <2>2, <2>3, <2>4 DEF MutexInv
<1>9. CASE waiting_task_queue # <<>>
  <2> DEFINE h == Head(waiting_task_queue)
  <2>1. /\ h \in Workers /\ h # self
        /\ status[h] = "TASK_WAITING"
        /\ pc[h] \in {"lock_sleep", "lock_xchg"}
    BY <1>1, <1>9, WokenIsAsleep
  <2>2. /\ waiting_task_queue' = Tail(waiting_task_queue)
        /\ status' = [status EXCEPT ![h] = "TASK_READY"]
        /\ UNCHANGED <<crt_thread_node, preempt_count>>
    <3>1. add_thread_node_to_schedule(h)
      BY <1>9 DEF UnlockWake
    <3> QED
      BY <3>1, <1>7, <1>9, <2>1 DEF UnlockWake, add_thread_node_to_schedule
  <2>3. /\ waiting_task_queue' \in Seq(Workers)
        /\ NoRepeat(waiting_task_queue')
        /\ \A t : Linked(waiting_task_queue', t)
                    <=> (Linked(waiting_task_queue, t) /\ t # h)
    BY <1>1, <1>9, <2>2, RemoveHead, Zenon
  <2> HIDE DEF h
  <2>4. /\ status'[h] = "TASK_READY"
        /\ \A t \in Threads : t # h => status'[t] = status[t]
    BY <1>7, <2>1, <2>2
  <2>5. TypeOK'
    BY <1>1, <1>2, <2>3 DEF MutexInv, TypeOK, SchedInv
  <2>6. BlockedIsQueued' /\ BlockedInLock'
    BY <1>1, <1>2, <1>7, <2>1, <2>3, <2>4
       DEF MutexInv, BlockedIsQueued, BlockedInLock, InWaitQueue
  <2>7. NobodyDies'
    BY <1>7, <2>1, <2>2, <2>4 DEF MutexInv, NobodyDies
  <2>8. CurrentWorkerRuns'
    BY <1>1, <1>3, <1>7, <2>1, <2>2, <2>4 DEF CurrentWorkerRuns, self
  <2>9. WakeupNotLost'
    BY <1>2, <2>1, <2>4 DEF WakeupNotLost
  <2> QED
    BY <1>6, <2>5, <2>6, <2>7, <2>8, <2>9 DEF MutexInv
<1> QED
  BY <1>8, <1>9

\* Nobody has called mutex_lock yet.
LEMMA MutexInitInv == Init => MutexInv
<1> SUFFICES ASSUME Init PROVE MutexInv
  OBVIOUS
<1> USE ThreadsAssumption, BoundsAssumption
<1>1. SchedInv
  BY SchedInitInv DEF Init
<1>2. Len(waiting_task_queue) = 0 /\ waiting_task_queue \in Seq(Workers)
  BY DEF Init
<1>3. \A t \in Workers : ~InWaitQueue(t)
  BY <1>2 DEF InWaitQueue, Linked
<1>4. \A t \in Workers : pc[t] = "outside"
  BY DEF Init
<1>5. \A t \in Threads : /\ status[t] \in {"TASK_READY", "TASK_NONE"}
                         /\ preempt_count[t] = 0
  BY DEF Init, SchedInit
<1>6. TypeOK
  BY <1>1, <1>2 DEF Init, SchedInv, TypeOK, Labels
<1>7. LocksMarked /\ MutualExclusion /\ QueueGuarded
  BY <1>4 DEF LocksMarked, MutualExclusion, QueueGuarded, HoldsMutex, HoldsYdlock
<1>8. BlockedIsQueued /\ BlockedInLock /\ NobodyDies
  BY <1>2, <1>3, <1>4, <1>5
     DEF BlockedIsQueued, BlockedInLock, NobodyDies, NoRepeat, Workers
<1>9. CurrentWorkerRuns /\ WakeupNotLost
  BY DEF Init, SchedInit, CurrentWorkerRuns, WakeupNotLost, self, Workers
<1> QED
  BY <1>1, <1>6, <1>7, <1>8, <1>9 DEF MutexInv

\* Every step of a worker, of the timer and of the main thread preserves the
\* invariant.
LEMMA MutexNextInv == MutexInv /\ [Next]_vars => MutexInv'
<1> SUFFICES ASSUME MutexInv, [Next]_vars PROVE MutexInv'
  OBVIOUS
<1>0. SchedInv'
  BY StepsScheduler, SchedNextInv DEF MutexInv
<1>1. ASSUME UnchangedScheduler PROVE KeepsBlocked /\ UNCHANGED <<crt_thread_node, status>>
  BY <1>1 DEF UnchangedScheduler, schedVars, KeepsBlocked
<1>2. CASE LockCalled
  BY <1>0, <1>1, <1>2, HarmlessStep
     DEF LockCalled, Harmless, UnchangedScheduler, mutexVars
<1>3. CASE UnlockCalled
  BY <1>0, <1>1, <1>3, HarmlessStep
     DEF UnlockCalled, Harmless, UnchangedScheduler, mutexVars
<1>4. CASE LockXchg
  <2>1. CASE ~ydlock
    <3>1. /\ UnchangedScheduler /\ Goto("lock_xchg", "lock_try")
          /\ ydlock' = TRUE /\ UNCHANGED <<hold, waiting_task_queue>>
      BY <1>4, <2>1 DEF LockXchg, yieldlock_lock
    <3> QED
      BY <1>0, <2>1, <3>1, TakeYdlockStep
  <2>2. CASE ydlock
    <3>1. UnchangedScheduler /\ Goto("lock_xchg", "lock_yield") /\ UNCHANGED mutexVars
      BY <1>4, <2>2 DEF LockXchg, yieldlock_lock
    <3> QED
      BY <1>0, <1>1, <3>1, HarmlessStep DEF Harmless
  <2> QED
    BY <2>1, <2>2
<1>5. CASE UnlockXchg
  <2>1. CASE ~ydlock
    <3>1. /\ UnchangedScheduler /\ Goto("unlock_xchg", "unlock_wake")
          /\ ydlock' = TRUE /\ UNCHANGED <<hold, waiting_task_queue>>
      BY <1>5, <2>1 DEF UnlockXchg, yieldlock_lock
    <3> QED
      BY <1>0, <2>1, <3>1, TakeYdlockStep
  <2>2. CASE ydlock
    <3>1. UnchangedScheduler /\ Goto("unlock_xchg", "unlock_yield") /\ UNCHANGED mutexVars
      BY <1>5, <2>2 DEF UnlockXchg, yieldlock_lock
    <3> QED
      BY <1>0, <1>1, <3>1, HarmlessStep DEF Harmless
  <2> QED
    BY <2>1, <2>2
<1>6. ASSUME NEW l, NEW m, Goto(l, m), Harmless(l, m), schedule_thread_yield,
             UNCHANGED mutexVars
      PROVE  MutexInv'
  <2>1. KeepsBlocked /\ status'[crt_thread_node'] = "TASK_RUNNING"
    BY <1>6, YieldKeepsBlocked DEF MutexInv
  <2> QED
    BY <1>0, <1>6, <2>1, HarmlessStep
<1>7. CASE LockYield \/ UnlockYield \/ LockSleep
  BY <1>6, <1>7 DEF LockYield, UnlockYield, LockSleep, Harmless
<1>8. CASE LockTry
  BY <1>0, <1>8, LockTryStep
<1>9. CASE LockMark
  BY <1>0, <1>9, LockMarkStep
<1>10. CASE LockBlockRelease \/ LockRelease \/ UnlockRelease
  BY <1>0, <1>10, DropYdlockStep
     DEF LockBlockRelease, LockRelease, UnlockRelease
<1>11. CASE UnlockWake
  BY <1>0, <1>11, UnlockWakeStep
<1>12. CASE Tick
  BY <1>0, <1>12, TickStep
<1>13. ASSUME NEW t \in Workers, StartWorker(t) PROVE MutexInv'
  BY <1>0, <1>13, StartStep
<1>14. CASE UNCHANGED vars
  <2>1. UNCHANGED <<crt_thread_node, status, preempt_count, hold, ydlock,
                    waiting_task_queue, pc>>
    BY <1>14 DEF vars, schedVars, mutexVars
  <2> QED
    BY <1>0, <2>1
       DEF MutexInv, TypeOK, SchedInv, LocksMarked, MutualExclusion, QueueGuarded,
           HoldsMutex, HoldsYdlock, BlockedIsQueued, BlockedInLock, InWaitQueue,
           CurrentWorkerRuns, NobodyDies, WakeupNotLost, self
<1> QED
  BY <1>2, <1>3, <1>4, <1>5, <1>7, <1>8, <1>9, <1>10, <1>11, <1>12, <1>13, <1>14
     DEF Next, WorkerStep

\* MutexInv holds in every reachable state.
THEOREM MutexInvariant == Spec => []MutexInv
<1> QED
  BY MutexInitInv, MutexNextInv, PTL DEF Spec

\* The mutex has one holder at a time.
THEOREM MutexExcludes == Spec => []MutualExclusion
<1>1. MutexInv => MutualExclusion
  BY DEF MutexInv
<1> QED
  BY <1>1, MutexInvariant, PTL

\* The wait queue is accessed by one thread at a time.
THEOREM WaitQueueGuarded == Spec => []QueueGuarded
<1>1. MutexInv => QueueGuarded
  BY DEF MutexInv
<1> QED
  BY <1>1, MutexInvariant, PTL

\* Blocked threads and the wait queue agree.
THEOREM WaitersAreQueued == Spec => []BlockedIsQueued
<1>1. MutexInv => BlockedIsQueued
  BY DEF MutexInv
<1> QED
  BY <1>1, MutexInvariant, PTL

\* No wakeup is lost.
THEOREM NoLostWakeup == Spec => []WakeupNotLost
<1>1. MutexInv => WakeupNotLost
  BY DEF MutexInv
<1> QED
  BY <1>1, MutexInvariant, PTL

\* The mutex calls the scheduler within its contract: its behaviours are
\* behaviours of SchedSpec, and everything proved of SchedSpec holds of them.
THEOREM MutexImplementsScheduler == Spec => SchedSpec
<1>1. Init => SchedInit
  BY DEF Init
<1>2. MutexInv /\ [Next]_vars => [SchedNext]_schedVars
  BY StepsScheduler
<1> QED
  BY <1>1, <1>2, MutexInvariant, PTL DEF Spec, SchedSpec

==============================================================================
