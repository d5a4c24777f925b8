------------------------------- MODULE Reaper --------------------------------
(***************************************************************************)
(* How threads and processes die in src/src/task/scheduler.c:              *)
(* schedule_thread_exit and add_dead_task on one side, add_dead_process    *)
(* (called by a parent that has waited for its child) on another, and the  *)
(* kernel clean thread that sleeps on dead_resource_cv and destroys what   *)
(* it finds in dead_tasks and dead_processes.                              *)
(*                                                                         *)
(* The shared lists are plain linked lists: an operation on one of them    *)
(* takes several memory accesses and is modelled by a place "before" and a *)
(* place "inside" it; its effect happens when the thread leaves the        *)
(* inside.  Two threads inside operations on one list is a data race       *)
(* (Torn), and a thread node linked twice into the ready queue makes a     *)
(* cycle of it: after either, nothing can be said about the kernel and the *)
(* model only stutters.                                                    *)
(*                                                                         *)
(* linked_list_append_ele allocates its node with kmalloc, which may yield *)
(* when the heap is locked; for the lists this is the same as a timer      *)
(* interrupt at that place.                                                *)
(***************************************************************************)
EXTENDS Scheduler

CONSTANTS
  CleanThread,  \* kernel_clean_node
  WorkerProcess, \* the process of the threads that exit
  Zombies       \* processes that have exited and are not yet waited for

ASSUME ReaperAssumption ==
  /\ CleanThread \in Threads \ {MainThread}
  /\ WorkerProcess \in Processes
  /\ MainProcess \notin Zombies

Workers == Threads \ {MainThread, CleanThread}

VARIABLES
  dead_tasks,               \* threads waiting for clean
  dead_processes,           \* processes waiting for clean
  dead_resource_lock,       \* dead_resource_lock.hold = LOCKED_YES
  cv_waiting_task_queue,    \* dead_resource_cv.waiting_task_queue
  dead_tasks_receiver,      \* local of kernel_clean_thread
  dead_processes_receiver,  \* local of kernel_clean_thread
  zombies,                  \* members of Zombies nobody has reaped yet
  reaping,                  \* the process a worker hands to add_dead_process
  destroyed,                \* processes given to destroy_process
  pc

listVars == <<dead_tasks, dead_processes, cv_waiting_task_queue>>
cleanVars == <<dead_tasks_receiver, dead_processes_receiver, destroyed>>
reapVars == <<zombies, reaping>>
vars == <<schedVars, listVars, cleanVars, reapVars, dead_resource_lock, pc>>

self == crt_thread_node

\* The places inside an operation on a shared list, by list.
InTasks(t) == pc[t] \in {"dt_appending", "cl_moving_tasks"}
InProcesses(t) == pc[t] \in {"dp_appending", "cl_moving_processes"}
InCondVar(t) == pc[t] \in {"dt_notifying", "dp_notifying", "cv_appending"}

Torn ==
  \E t, u \in Workers \cup {CleanThread} :
    /\ t # u
    /\ \/ InTasks(t) /\ InTasks(u)
       \/ InProcesses(t) /\ InProcesses(u)
       \/ InCondVar(t) /\ InCondVar(u)

\* dead_resource_lock keeps the operations on the lists apart, and a notification
\* wakes up a thread that sleeps: the kernel's lists stay lists.
ListsIntact == ~Torn /\ NoThreadQueuedTwice

Goto(l, m) ==
  /\ self # MainThread
  /\ pc[self] = l
  /\ pc' = [pc EXCEPT ![self] = m]

\* A step that only moves the current thread from one place to the next.
Skip(l, m) ==
  /\ Goto(l, m)
  /\ UNCHANGED <<schedVars, listVars, cleanVars, reapVars, dead_resource_lock>>

-----------------------------------------------------------------------------
\* atomic_exchange and, when the lock was taken, schedule_thread_yield.
yieldlock_lock(at, spin, locked) ==
  \/ /\ ~dead_resource_lock
     /\ dead_resource_lock' = TRUE
     /\ Goto(at, locked)
     /\ UNCHANGED <<schedVars, listVars, cleanVars, reapVars>>
  \/ /\ dead_resource_lock
     /\ Skip(at, spin)
  \/ /\ Goto(spin, at)
     /\ schedule_thread_yield
     /\ UNCHANGED <<listVars, cleanVars, reapVars, dead_resource_lock>>

yieldlock_unlock(at, next) ==
  /\ Goto(at, next)
  /\ dead_resource_lock' = FALSE
  /\ UNCHANGED <<schedVars, listVars, cleanVars, reapVars>>

\* The waiter is woken up and left in the wait queue.
cond_var_notify_keeps(before, inside, after) ==
  \/ Skip(before, inside)
  \/ /\ Goto(inside, after)
     /\ \/ cv_waiting_task_queue = <<>> /\ UnchangedScheduler
        \/ /\ cv_waiting_task_queue # <<>>
           /\ add_thread_node_to_schedule(Head(cv_waiting_task_queue))
     /\ UNCHANGED <<listVars, cleanVars, reapVars, dead_resource_lock>>

\* cond_var_notify: the head of the wait queue, if any, is made ready.
cond_var_notify(before, inside, after) ==
  \/ Skip(before, inside)
  \/ /\ Goto(inside, after)
     /\ \/ /\ cv_waiting_task_queue = <<>>
           /\ UNCHANGED <<schedVars, cv_waiting_task_queue>>
        \/ /\ cv_waiting_task_queue # <<>>
           /\ cv_waiting_task_queue' = Tail(cv_waiting_task_queue)
           /\ add_thread_node_to_schedule(Head(cv_waiting_task_queue))
     /\ UNCHANGED <<dead_tasks, dead_processes, cleanVars, reapVars,
                    dead_resource_lock>>

\* The clean thread is not told.
add_dead_task_silent ==
  \/ yieldlock_lock("dt_xchg", "dt_yield", "dt_append")
  \/ Skip("dt_append", "dt_appending")
  \/ /\ Goto("dt_appending", "dt_release")
     /\ dead_tasks' = Append(dead_tasks, self)
     /\ UNCHANGED <<schedVars, dead_processes, cv_waiting_task_queue, cleanVars,
                    reapVars, dead_resource_lock>>
  \/ yieldlock_unlock("dt_release", "exit_switch")

add_dead_task ==
  \/ yieldlock_lock("dt_xchg", "dt_yield", "dt_append")
  \/ Skip("dt_append", "dt_appending")
  \/ /\ Goto("dt_appending", "dt_notify")
     /\ dead_tasks' = Append(dead_tasks, self)
     /\ UNCHANGED <<schedVars, dead_processes, cv_waiting_task_queue, cleanVars,
                    reapVars, dead_resource_lock>>
  \/ cond_var_notify("dt_notify", "dt_notifying", "dt_release")
  \/ yieldlock_unlock("dt_release", "exit_switch")

\* The lock is not released.
add_dead_process_keeps_lock ==
  \/ yieldlock_lock("dp_xchg", "dp_yield", "dp_append")
  \/ Skip("dp_append", "dp_appending")
  \/ /\ Goto("dp_appending", "dp_notify")
     /\ dead_processes' = Append(dead_processes, reaping[self])
     /\ UNCHANGED <<schedVars, dead_tasks, cv_waiting_task_queue, cleanVars,
                    reapVars, dead_resource_lock>>
  \/ cond_var_notify("dp_notify", "dp_notifying", "run")

add_dead_process ==
  \/ yieldlock_lock("dp_xchg", "dp_yield", "dp_append")
  \/ Skip("dp_append", "dp_appending")
  \/ /\ Goto("dp_appending", "dp_notify")
     /\ dead_processes' = Append(dead_processes, reaping[self])
     /\ UNCHANGED <<schedVars, dead_tasks, cv_waiting_task_queue, cleanVars,
                    reapVars, dead_resource_lock>>
  \/ cond_var_notify("dp_notify", "dp_notifying", "dp_release")
  \/ yieldlock_unlock("dp_release", "run")

\* process_wait has found the exited child p of this worker's process.
ReapZombie(p) ==
  /\ p \in zombies
  /\ Goto("run", "dp_xchg")
  /\ self \in Workers
  /\ zombies' = zombies \ {p}
  /\ reaping' = [reaping EXCEPT ![self] = p]
  /\ UNCHANGED <<schedVars, listVars, cleanVars, dead_resource_lock>>

\* The thread is marked dead after it has been listed for clean.
schedule_thread_exit_marks_late ==
  \/ /\ Goto("run", "dt_xchg")
     /\ self \in Workers
     /\ detach_process
     /\ UNCHANGED <<listVars, cleanVars, reapVars, dead_resource_lock>>
  \/ add_dead_task
  \/ /\ Goto("exit_switch", "gone")
     /\ do_context_switch(ready_tasks, [status EXCEPT ![self] = "TASK_DEAD"])
     /\ UNCHANGED <<listVars, cleanVars, reapVars, dead_resource_lock>>

\* schedule_thread_exit: remove_process_thread, the status, add_dead_task and
\* the last context switch.
schedule_thread_exit ==
  \/ /\ Goto("run", "mark_dead")
     /\ self \in Workers
     /\ detach_process
     /\ UNCHANGED <<listVars, cleanVars, reapVars, dead_resource_lock>>
  \/ /\ Goto("mark_dead", "dt_xchg")
     /\ mark_thread_dead
     /\ UNCHANGED <<listVars, cleanVars, reapVars, dead_resource_lock>>
  \/ add_dead_task
  \/ /\ Goto("exit_switch", "gone")
     /\ exit_context_switch
     /\ UNCHANGED <<listVars, cleanVars, reapVars, dead_resource_lock>>

-----------------------------------------------------------------------------
has_dead_resource == dead_processes # <<>> \/ dead_tasks # <<>>

\* cond_var_wait, which returns with the lock released.
cond_var_wait ==
  \/ yieldlock_lock("cv_xchg", "cv_yield", "cv_test")
  \/ /\ Skip("cv_test", IF has_dead_resource THEN "cv_release" ELSE "cv_appending")
  \/ /\ Goto("cv_appending", "cv_mark")
     /\ cv_waiting_task_queue' = Append(cv_waiting_task_queue, self)
     /\ UNCHANGED <<schedVars, dead_tasks, dead_processes, cleanVars, reapVars,
                    dead_resource_lock>>
  \/ /\ Goto("cv_mark", "cv_block_release")
     /\ schedule_mark_thread_block
     /\ UNCHANGED <<listVars, cleanVars, reapVars, dead_resource_lock>>
  \/ yieldlock_unlock("cv_block_release", "cv_sleep")
  \/ /\ Goto("cv_sleep", "cv_xchg")
     /\ schedule_thread_yield
     /\ UNCHANGED <<listVars, cleanVars, reapVars, dead_resource_lock>>
  \/ yieldlock_unlock("cv_release", "cl_move_tasks")

\* kernel_clean_thread moves the two lists to its own, and unlocks once more.
MoveDeadLists ==
  \/ Skip("cl_move_tasks", "cl_moving_tasks")
  \/ /\ Goto("cl_moving_tasks", "cl_moving_processes")
     /\ dead_tasks_receiver' = dead_tasks
     /\ dead_tasks' = <<>>
     /\ UNCHANGED <<schedVars, dead_processes, cv_waiting_task_queue,
                    dead_processes_receiver, destroyed, reapVars,
                    dead_resource_lock>>
  \/ /\ Goto("cl_moving_processes", "cl_unlock")
     /\ dead_processes_receiver' = dead_processes
     /\ dead_processes' = <<>>
     /\ UNCHANGED <<schedVars, dead_tasks, cv_waiting_task_queue,
                    dead_tasks_receiver, destroyed, reapVars, dead_resource_lock>>
  \/ yieldlock_unlock("cl_unlock", "cl_clean")

\* The two loops that destroy what has been received, tasks first.
DestroyReceived ==
  \/ /\ dead_tasks_receiver # <<>>
     /\ Goto("cl_clean", "cl_clean")
     /\ destroy_thread(Head(dead_tasks_receiver))
     /\ dead_tasks_receiver' = Tail(dead_tasks_receiver)
     /\ UNCHANGED <<listVars, dead_processes_receiver, destroyed, reapVars,
                    dead_resource_lock>>
  \/ /\ dead_tasks_receiver = <<>>
     /\ dead_processes_receiver # <<>>
     /\ Goto("cl_clean", "cl_clean")
     /\ destroyed' = destroyed \cup {Head(dead_processes_receiver)}
     /\ dead_processes_receiver' = Tail(dead_processes_receiver)
     /\ UNCHANGED <<schedVars, listVars, dead_tasks_receiver, reapVars,
                    dead_resource_lock>>
  \/ /\ dead_tasks_receiver = <<>>
     /\ dead_processes_receiver = <<>>
     /\ Goto("cl_clean", "cv_xchg")
     /\ schedule_thread_yield
     /\ UNCHANGED <<listVars, cleanVars, reapVars, dead_resource_lock>>

kernel_clean_thread == cond_var_wait \/ MoveDeadLists \/ DestroyReceived

-----------------------------------------------------------------------------
\* kernel_main_thread queues the clean thread before it starts any other thread.
StartClean ==
  /\ status[CleanThread] = "TASK_NONE"
  /\ add_thread_to_schedule(CleanThread, MainProcess, FALSE)
  /\ UNCHANGED <<listVars, cleanVars, reapVars, dead_resource_lock, pc>>

\* A worker slot is started by the main thread, or by a running worker.
StartWorker(t) ==
  /\ status[t] = "TASK_NONE"
  /\ status[CleanThread] # "TASK_NONE"
  /\ self = MainThread \/ (self \in Workers /\ pc[self] = "run")
  /\ add_thread_to_schedule(t, WorkerProcess, FALSE)
  /\ pc' = [pc EXCEPT ![t] = "run"]
  /\ UNCHANGED <<listVars, cleanVars, reapVars, dead_resource_lock>>

Tick ==
  /\ timer_callback
  /\ UNCHANGED <<listVars, cleanVars, reapVars, dead_resource_lock, pc>>

Init ==
  /\ SchedInit
  /\ dead_tasks = <<>>
  /\ dead_processes = <<>>
  /\ dead_resource_lock = FALSE
  /\ cv_waiting_task_queue = <<>>
  /\ dead_tasks_receiver = <<>>
  /\ dead_processes_receiver = <<>>
  /\ zombies = Zombies
  /\ reaping = [t \in Workers |-> MainProcess]
  /\ destroyed = {}
  /\ pc = [t \in Workers \cup {CleanThread} |->
             IF t = CleanThread THEN "cv_xchg" ELSE "run"]

Next ==
  \/ /\ ListsIntact
     /\ \/ Tick
        \/ schedule_thread_exit
        \/ add_dead_process
        \/ kernel_clean_thread
        \/ StartClean
        \/ \E p \in Zombies : ReapZombie(p)
        \/ \E t \in Workers : StartWorker(t)
  \/ ~ListsIntact /\ UNCHANGED vars

Spec == Init /\ [][Next]_vars

-----------------------------------------------------------------------------
\* Everything on the way from add_dead_task / add_dead_process to its end.
DeadTasks == dead_tasks_receiver \o dead_tasks
DeadProcesses == dead_processes_receiver \o dead_processes

\* schedule_thread_exit takes the head of the ready queue without the fallback to
\* the main thread that schedule_thread_yield has: there must be one.  It is the
\* clean thread that add_dead_task has just woken up.
ExitFindsReadyThread ==
  self # MainThread /\ pc[self] = "exit_switch" => ready_tasks # <<>>

\* No thread or process is destroyed twice, and no thread while it can still run: what
\* the clean thread receives is received once, is dead and never in the ready queue, and
\* a process has left the table of its parent and is not destroyed yet.
OnlyDeadCleaned ==
  /\ NoRepeat(DeadTasks) /\ NoRepeat(DeadProcesses)
  /\ \A t \in Threads :
       Linked(DeadTasks, t) => status[t] = "TASK_DEAD" /\ ~Queued(t)
  /\ \A p \in Zombies :
       Linked(DeadProcesses, p) => p \notin zombies \cup destroyed

\* Exiting threads and the clean thread use the scheduler within its contract:
\* they wake up only a thread that has blocked, and destroy only a dead one that
\* has left the processor.  This is so as long as nobody has called
\* add_dead_process: its caller can be preempted with dead_resource_lock held
\* and resumed after kernel_clean_thread has unlocked it once too often.
ContractUntilReap ==
  [][(\A t \in Workers : reaping[t] = MainProcess) => SchedNext]_schedVars

\* The places where dead_resource_lock has been taken and not yet released.
HoldPlaces ==
  {"dt_append", "dt_appending", "dt_notify", "dt_notifying", "dt_release",
   "dp_append", "dp_appending", "dp_notify", "dp_notifying", "dp_release",
   "cv_test", "cv_appending", "cv_mark", "cv_block_release", "cv_release"}

HoldsLock(t) == status[t] # "TASK_NONE" /\ pc[t] \in HoldPlaces

\* dead_resource_lock is never left locked behind: while it is, a thread is between
\* yieldlock_lock and yieldlock_unlock, and every thread there will run again, but for
\* the two that the kernel can lose there: the clean thread between
\* schedule_mark_thread_block and the unlock of cond_var_wait, and a thread that is
\* TASK_DEAD in add_dead_task.
LockHolderCanRun ==
  LET holders == {t \in Workers \cup {CleanThread} : HoldsLock(t)}
  IN  /\ dead_resource_lock => holders # {}
      /\ \A t \in holders :
           \/ t = self \/ Queued(t)
           \/ t = CleanThread /\ pc[t] = "cv_block_release"
           \/ status[t] = "TASK_DEAD"

==============================================================================
