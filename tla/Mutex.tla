-------------------------------- MODULE Mutex --------------------------------
(***************************************************************************)
(* The blocking mutex of src/src/sync/mutex.c, with the yield lock of      *)
(* src/src/sync/yieldlock.c that protects it, run by kernel threads under  *)
(* the preemptive scheduler.                                               *)
(*                                                                         *)
(* Every worker repeats mutex_lock; critical section; mutex_unlock.  Only  *)
(* the current thread takes steps.  A step is one access to shared memory  *)
(* that another thread can interfere with; the accesses made while ydlock  *)
(* is held to what only holders of ydlock touch are grouped.               *)
(* mutex_t.thread_node is only ever written and is left out.               *)
(***************************************************************************)
EXTENDS Scheduler

Workers == Threads \ {MainThread}

VARIABLES
  hold,                \* mutex_t.hold = LOCKED_YES
  ydlock,              \* mutex_t.ydlock.hold = LOCKED_YES
  waiting_task_queue,  \* mutex_t.waiting_task_queue
  pc                   \* where each worker is

mutexVars == <<hold, ydlock, waiting_task_queue>>
vars == <<schedVars, mutexVars, pc>>

self == crt_thread_node

\* The places of a worker.  "lock_" and "unlock_" tell the two functions apart.
Labels ==
  {"outside", "lock_xchg", "lock_yield", "lock_try", "lock_mark",
   "lock_block_release", "lock_sleep", "lock_release", "critical",
   "unlock_xchg", "unlock_yield", "unlock_wake", "unlock_release"}

\* The current thread is at label l and goes to label m.
Goto(l, m) ==
  /\ self \in Workers
  /\ pc[self] = l
  /\ pc' = [pc EXCEPT ![self] = m]

-----------------------------------------------------------------------------

\* One atomic_exchange of yieldlock_lock: the lock is taken, or the thread goes
\* on to give up the processor.
yieldlock_lock(at, spin, locked) ==
  \/ /\ ~ydlock
     /\ ydlock' = TRUE
     /\ Goto(at, locked)
     /\ UNCHANGED <<hold, waiting_task_queue>>
  \/ /\ ydlock
     /\ Goto(at, spin)
     /\ UNCHANGED mutexVars

yieldlock_unlock(at, next) ==
  /\ Goto(at, next)
  /\ ydlock' = FALSE
  /\ UNCHANGED <<hold, waiting_task_queue>>

LockCalled ==
  /\ Goto("outside", "lock_xchg")
  /\ UNCHANGED <<schedVars, mutexVars>>

LockXchg ==
  /\ yieldlock_lock("lock_xchg", "lock_yield", "lock_try")
  /\ UnchangedScheduler

LockYield ==
  /\ Goto("lock_yield", "lock_xchg")
  /\ schedule_thread_yield
  /\ UNCHANGED mutexVars

\* The exchange of hold is a plain read.
LockTryTakesNothing ==
  /\ \/ /\ ~hold
        /\ Goto("lock_try", "lock_release")
        /\ UNCHANGED mutexVars
     \/ /\ hold
        /\ waiting_task_queue' = Append(waiting_task_queue, self)
        /\ Goto("lock_try", "lock_mark")
        /\ UNCHANGED <<hold, ydlock>>
  /\ UnchangedScheduler

\* The while condition of mutex_lock: the mutex is taken, or the thread enters
\* the wait queue.
LockTry ==
  /\ \/ /\ ~hold
        /\ hold' = TRUE
        /\ Goto("lock_try", "lock_release")
        /\ UNCHANGED <<ydlock, waiting_task_queue>>
     \/ /\ hold
        /\ waiting_task_queue' = Append(waiting_task_queue, self)
        /\ Goto("lock_try", "lock_mark")
        /\ UNCHANGED <<hold, ydlock>>
  /\ UnchangedScheduler

LockMark ==
  /\ Goto("lock_mark", "lock_block_release")
  /\ schedule_mark_thread_block
  /\ UNCHANGED mutexVars

LockBlockRelease ==
  /\ yieldlock_unlock("lock_block_release", "lock_sleep")
  /\ UnchangedScheduler

\* The thread returns from here only when it has been woken up, and tries again.
LockSleep ==
  /\ Goto("lock_sleep", "lock_xchg")
  /\ schedule_thread_yield
  /\ UNCHANGED mutexVars

LockRelease ==
  /\ yieldlock_unlock("lock_release", "critical")
  /\ UnchangedScheduler

UnlockCalled ==
  /\ Goto("critical", "unlock_xchg")
  /\ UNCHANGED <<schedVars, mutexVars>>

UnlockXchg ==
  /\ yieldlock_lock("unlock_xchg", "unlock_yield", "unlock_wake")
  /\ UnchangedScheduler

UnlockYield ==
  /\ Goto("unlock_yield", "unlock_xchg")
  /\ schedule_thread_yield
  /\ UNCHANGED mutexVars

\* Nobody is woken up.
UnlockWakeNobody ==
  /\ Goto("unlock_wake", "unlock_release")
  /\ hold' = FALSE
  /\ UNCHANGED <<schedVars, ydlock, waiting_task_queue>>

\* The waiter is woken up and left in the wait queue.
UnlockWakeKeeps ==
  /\ Goto("unlock_wake", "unlock_release")
  /\ hold' = FALSE
  /\ \/ waiting_task_queue = <<>> /\ UnchangedScheduler
     \/ /\ waiting_task_queue # <<>>
        /\ add_thread_node_to_schedule(Head(waiting_task_queue))
  /\ UNCHANGED <<ydlock, waiting_task_queue>>

\* mutex_unlock with ydlock held: the mutex is free, and the head of the wait
\* queue is made ready to compete for it.
UnlockWake ==
  /\ Goto("unlock_wake", "unlock_release")
  /\ hold' = FALSE
  /\ \/ /\ waiting_task_queue = <<>>
        /\ UNCHANGED <<schedVars, waiting_task_queue>>
     \/ /\ waiting_task_queue # <<>>
        /\ waiting_task_queue' = Tail(waiting_task_queue)
        /\ add_thread_node_to_schedule(Head(waiting_task_queue))
  /\ UNCHANGED ydlock

UnlockRelease ==
  /\ yieldlock_unlock("unlock_release", "outside")
  /\ UnchangedScheduler

WorkerStep ==
  \/ LockCalled \/ LockXchg \/ LockYield \/ LockTry \/ LockMark
  \/ LockBlockRelease \/ LockSleep \/ LockRelease
  \/ UnlockCalled \/ UnlockXchg \/ UnlockYield \/ UnlockWake \/ UnlockRelease

\* The main thread starts the workers before it idles.
StartWorker(t) ==
  /\ crt_thread_node = MainThread
  /\ status[t] = "TASK_NONE"
  /\ add_thread_to_schedule(t, MainProcess, FALSE)
  /\ UNCHANGED <<mutexVars, pc>>

Tick == timer_callback /\ UNCHANGED <<mutexVars, pc>>

Init ==
  /\ SchedInit
  /\ hold = FALSE
  /\ ydlock = FALSE
  /\ waiting_task_queue = <<>>
  /\ pc = [t \in Workers |-> "outside"]

Next ==
  \/ WorkerStep
  \/ Tick
  \/ \E t \in Workers : StartWorker(t)

Spec == Init /\ [][Next]_vars

(***************************************************************************)
(* A thread that gets the processor again and again executes its next      *)
(* instruction in the end (a time slice is many instructions long), and    *)
(* the timer keeps ticking.  A worker may stay outside for ever.           *)
(***************************************************************************)
FairSpec ==
  /\ Spec
  /\ WF_vars(Tick)
  /\ \A t \in Workers :
       SF_vars(crt_thread_node = t /\ pc[t] # "outside" /\ WorkerStep)

-----------------------------------------------------------------------------
InWaitQueue(t) == Linked(waiting_task_queue, t)

\* Between the exchanges that take and the store that frees the mutex.
HoldsMutex(t) ==
  pc[t] \in {"lock_release", "critical", "unlock_xchg", "unlock_yield",
             "unlock_wake"}

HoldsYdlock(t) ==
  pc[t] \in {"lock_try", "lock_mark", "lock_block_release", "lock_release",
             "unlock_wake", "unlock_release"}

TypeOK ==
  /\ SchedTypeOK
  /\ hold \in BOOLEAN
  /\ ydlock \in BOOLEAN
  /\ waiting_task_queue \in Seq(Workers)
  /\ pc \in [Workers -> Labels]

\* mutex_lock gives the mutex to one thread at a time, whatever the timer
\* interrupts and however many threads are woken up to compete for it.
MutualExclusion ==
  \A t, u \in Workers : HoldsMutex(t) /\ HoldsMutex(u) => t = u

\* The wait queue is only touched by one thread at a time, although ydlock is
\* given up around schedule_thread_yield and by a thread already blocked.
QueueGuarded ==
  \A t, u \in Workers : HoldsYdlock(t) /\ HoldsYdlock(u) => t = u

\* A blocked thread is linked in the wait queue (once), so that some
\* mutex_unlock can find it, and no runnable thread is.
BlockedIsQueued ==
  /\ NoRepeat(waiting_task_queue)
  /\ \A t \in Workers :
       /\ status[t] = "TASK_WAITING" => InWaitQueue(t)
       /\ InWaitQueue(t) => status[t] = "TASK_WAITING" \/ pc[t] = "lock_mark"

\* No wakeup is lost: while threads wait, the mutex is held or some thread that
\* is not blocked is on its way to take it and will wake them up later.
WakeupNotLost ==
  waiting_task_queue # <<>> =>
    \/ hold
    \/ \E t \in Workers :
         /\ status[t] \in {"TASK_READY", "TASK_RUNNING"}
         /\ pc[t] \in {"lock_xchg", "lock_yield", "lock_try", "lock_sleep"}

\* What the proofs need besides: the locks are marked as held while a thread is
\* between taking and releasing them,
LocksMarked ==
  \A t \in Workers : (HoldsMutex(t) => hold) /\ (HoldsYdlock(t) => ydlock)

\* a worker on the processor runs, unless it has just marked itself blocked,
CurrentWorkerRuns ==
  self \in Workers =>
    \/ status[self] = "TASK_RUNNING"
    \/ /\ status[self] = "TASK_WAITING"
       /\ pc[self] \in {"lock_block_release", "lock_sleep"}

\* a worker blocks in mutex_lock only, after it has entered the wait queue,
BlockedInLock ==
  \A t \in Workers :
    /\ status[t] = "TASK_WAITING" =>
         pc[t] \in {"lock_block_release", "lock_sleep", "lock_xchg"}
    /\ pc[t] = "lock_mark" => InWaitQueue(t)

\* and nobody dies or disables preemption.
NobodyDies ==
  \A t \in Threads : status[t] # "TASK_DEAD" /\ preempt_count[t] = 0

\* The inductive invariant.
MutexInv ==
  /\ SchedInv
  /\ TypeOK
  /\ LocksMarked
  /\ MutualExclusion
  /\ QueueGuarded
  /\ BlockedIsQueued
  /\ BlockedInLock
  /\ CurrentWorkerRuns
  /\ NobodyDies
  /\ WakeupNotLost

\* A thread was switched out after schedule_mark_thread_block and before
\* yieldlock_unlock: it is out of the ready queue and takes ydlock with it.
Stranded ==
  \E t \in Workers : /\ status[t] = "TASK_WAITING"
                      /\ t # crt_thread_node
                      /\ pc[t] = "lock_block_release"

\* Every waiter is woken up by a lock releaser, unless a timer interrupt strands
\* a thread between mutex.c:19 and mutex.c:20: there is no other way to lose it.
WaiterIsWokenUnlessStranded ==
  \A t \in Workers : InWaitQueue(t) ~> (~InWaitQueue(t) \/ Stranded)

==============================================================================
