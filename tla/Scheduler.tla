------------------------------ MODULE Scheduler ------------------------------
(***************************************************************************)
(* The round-robin scheduler of src/src/task/scheduler.c on its single     *)
(* processor, with the timer interrupt that drives it.                     *)
(*                                                                         *)
(* A code section that runs with interrupts disabled is one action here:   *)
(* the whole of do_context_switch with its caller, and the body of         *)
(* add_thread_node_to_schedule.  Everything else is interleaved by the     *)
(* timer.  A thread node (thread_node_t) is identified with its thread.    *)
(*                                                                         *)
(* The module has two layers.  The operators named after the C functions   *)
(* are what the kernel components (Mutex, Reaper, ...) call.               *)
(* SchedNext closes them with the most general client that respects the    *)
(* contract each function has on its caller, so that what holds of         *)
(* SchedSpec holds of every component that implements it.                  *)
(***************************************************************************)
EXTENDS Integers, Sequences

CONSTANTS
  Threads,      \* thread slots (tcb_t), the kernel main thread included
  MainThread,   \* main_thread_node: the cpu idle thread
  Processes,    \* process slots (pcb_t)
  MainProcess,  \* main_process
  NoProcess,    \* the null process pointer of a detached thread
  IrqThreads,   \* the threads that wait for the keyboard interrupt
  Priority,     \* timer ticks of a time slice (THREAD_DEFAULT_PRIORITY)
  MaxPreempt    \* bound on nested disable_preempt calls

ASSUME ThreadsAssumption ==
  /\ MainThread \in Threads
  /\ MainProcess \in Processes
  /\ NoProcess \notin Processes
  /\ IrqThreads \subseteq Threads

ASSUME BoundsAssumption ==
  /\ Priority \in Nat \ {0}
  /\ MaxPreempt \in Nat

VARIABLES
  ready_tasks,      \* the ready queue, head first
  crt_thread_node,  \* the thread on the processor
  status,           \* tcb_t.status of every thread slot
  ticks,            \* tcb_t.ticks, saturating at Priority
  need_reschedule,  \* tcb_t.need_reschedule
  preempt_count,    \* tcb_t.preempt_count
  process,          \* tcb_t.process
  page_directory    \* the process whose page directory is in CR3

schedVars == <<ready_tasks, crt_thread_node, status, ticks, need_reschedule,
               preempt_count, process, page_directory>>

\* What a step of the current thread that calls no scheduler function leaves alone.
UnchangedScheduler == UNCHANGED schedVars

\* enum task_status; a slot whose tcb_t is not allocated is TASK_NONE.
TaskStatus ==
  {"TASK_NONE", "TASK_RUNNING", "TASK_READY", "TASK_WAITING", "TASK_DEAD"}

\* A linked list is the sequence of its nodes: t is one of them, and no node is
\* linked twice.
Linked(q, t) == \E i \in 1..Len(q) : q[i] = t
NoRepeat(q) == \A i, j \in 1..Len(q) : q[i] = q[j] => i = j

Queued(t) == Linked(ready_tasks, t)

-----------------------------------------------------------------------------

\* A thread that is switched out is queued whatever its status.
requeues_blocked(st) == crt_thread_node # MainThread

\* do_context_switch queues the thread it switches out when it is still running;
\* a thread that has blocked or died is left to whoever will wake it up or
\* destroy it, and the idle thread is never queued.
requeues_old_thread(st) ==
  st[crt_thread_node] = "TASK_RUNNING" /\ crt_thread_node # MainThread

\* The page directory is reloaded when the two threads are of different
\* processes; a detached thread is given the one of the main process.
process_switch(next) ==
  page_directory' = IF process[crt_thread_node] = process[next] THEN page_directory
                    ELSE IF process[next] = NoProcess THEN MainProcess
                    ELSE process[next]

(***************************************************************************)
(* do_context_switch, called with interrupts disabled, on the ready queue  *)
(* q and the statuses st its caller has prepared.  The code dereferences   *)
(* the head of q without a test, so q must not be empty.                   *)
(***************************************************************************)
do_context_switch(q, st) ==
  LET old  == crt_thread_node
      next == Head(q)
      back == requeues_old_thread(st)
  IN  /\ q # <<>>
      /\ ready_tasks' = IF back THEN Append(Tail(q), old) ELSE Tail(q)
      /\ status' = [st EXCEPT ![old] = IF back THEN "TASK_READY" ELSE @,
                              ![next] = "TASK_RUNNING"]
      /\ ticks' = [ticks EXCEPT ![old] = 0]
      /\ need_reschedule' = [need_reschedule EXCEPT ![old] = FALSE]
      /\ crt_thread_node' = next
      /\ process_switch(next)
      /\ UNCHANGED <<preempt_count, process>>

\* schedule(), on the way out of every interrupt, with the ticks and the
\* need_reschedule flag the interrupt handler has left in the current thread.
schedule(tk, resched) ==
  LET crt == crt_thread_node
      switch == preempt_count[crt] = 0 /\ ready_tasks # <<>> /\ resched
  IN  \/ /\ switch
         /\ do_context_switch(ready_tasks, status)
      \/ /\ ~switch
         /\ ticks' = [ticks EXCEPT ![crt] = tk]
         /\ need_reschedule' = [need_reschedule EXCEPT ![crt] = resched]
         /\ UNCHANGED <<ready_tasks, crt_thread_node, status, preempt_count,
                        process, page_directory>>

\* A time slice that never expires.
timer_callback_never_expires ==
  schedule(ticks[crt_thread_node], need_reschedule[crt_thread_node])

\* The timer interrupt: timer_callback, then schedule.  ticks is compared with
\* the priority only, so it is kept saturated at Priority.
timer_callback ==
  LET crt == crt_thread_node
      tk  == IF ticks[crt] < Priority THEN ticks[crt] + 1 ELSE ticks[crt]
  IN  schedule(tk, need_reschedule[crt] \/ tk >= Priority)

\* The end of keyboard_interrupt_handler ("Activate waiting thread
\* immediately"), then schedule.
request_reschedule == schedule(ticks[crt_thread_node], TRUE)

\* add_thread_node_to_schedule: a dead thread keeps its status.
add_thread_node_to_schedule(t) ==
  /\ ready_tasks' = Append(ready_tasks, t)
  /\ status' = [status EXCEPT ![t] = IF @ # "TASK_DEAD" THEN "TASK_READY" ELSE @]
  /\ UNCHANGED <<crt_thread_node, ticks, need_reschedule, preempt_count,
                 process, page_directory>>

\* linked_list_insert_to_head passes the head as the node to insert after: the
\* new node becomes the second one, unless the list is empty.
linked_list_insert_to_head(q, t) ==
  IF q = <<>> THEN <<t>> ELSE <<Head(q), t>> \o Tail(q)

add_thread_node_to_schedule_head(t) ==
  /\ ready_tasks' = linked_list_insert_to_head(ready_tasks, t)
  /\ status' = [status EXCEPT ![t] = "TASK_READY"]
  /\ UNCHANGED <<crt_thread_node, ticks, need_reschedule, preempt_count,
                 process, page_directory>>

\* schedule_thread_yield: with no ready task the main thread is resumed.
schedule_thread_yield ==
  do_context_switch(IF ready_tasks = <<>> THEN <<MainThread>> ELSE ready_tasks,
                    status)

schedule_mark_thread_block ==
  /\ status' = [status EXCEPT ![crt_thread_node] = "TASK_WAITING"]
  /\ UNCHANGED <<ready_tasks, crt_thread_node, ticks, need_reschedule,
                 preempt_count, process, page_directory>>

\* thread->process = nullptr: the thread leaves its process but keeps running
\* on its page directory until it is switched out.
detach_process ==
  /\ process' = [process EXCEPT ![crt_thread_node] = NoProcess]
  /\ UNCHANGED <<ready_tasks, crt_thread_node, status, ticks, need_reschedule,
                 preempt_count, page_directory>>

\* thread->status = TASK_DEAD in schedule_thread_exit.
mark_thread_dead ==
  /\ status' = [status EXCEPT ![crt_thread_node] = "TASK_DEAD"]
  /\ UNCHANGED <<ready_tasks, crt_thread_node, ticks, need_reschedule,
                 preempt_count, process, page_directory>>

\* An exiting thread goes to the end of the queue like one that yields.
exit_context_switch_requeues ==
  do_context_switch(Append(ready_tasks, crt_thread_node), status)

\* The last statement of schedule_thread_exit.  There is no fallback to the
\* main thread here: the queue must not be empty.
exit_context_switch == do_context_switch(ready_tasks, status)

\* A new thread is given its fields and its process, and add_thread_to_schedule
\* queues it.  The fields are cleared by init_thread, and copied by
\* fork_crt_thread, which leaves the need_reschedule flag of its caller in them.
add_thread_to_schedule(t, p, resched) ==
  /\ ready_tasks' = Append(ready_tasks, t)
  /\ status' = [status EXCEPT ![t] = "TASK_READY"]
  /\ ticks' = [ticks EXCEPT ![t] = 0]
  /\ need_reschedule' = [need_reschedule EXCEPT ![t] = resched]
  /\ preempt_count' = [preempt_count EXCEPT ![t] = 0]
  /\ process' = [process EXCEPT ![t] = p]
  /\ UNCHANGED <<crt_thread_node, page_directory>>

\* destroy_thread: the slot can be allocated again.
destroy_thread(t) ==
  /\ status' = [status EXCEPT ![t] = "TASK_NONE"]
  /\ UNCHANGED <<ready_tasks, crt_thread_node, ticks, need_reschedule,
                 preempt_count, process, page_directory>>

disable_preempt ==
  /\ preempt_count' = [preempt_count EXCEPT ![crt_thread_node] = @ + 1]
  /\ UNCHANGED <<ready_tasks, crt_thread_node, status, ticks, need_reschedule,
                 process, page_directory>>

enable_preempt ==
  /\ preempt_count' = [preempt_count EXCEPT ![crt_thread_node] = @ - 1]
  /\ UNCHANGED <<ready_tasks, crt_thread_node, status, ticks, need_reschedule,
                 process, page_directory>>

-----------------------------------------------------------------------------
(***************************************************************************)
(* init_scheduler: the main thread is the only thread and is current, with *)
(* the status init_thread gave it.                                         *)
(***************************************************************************)
SchedInit ==
  /\ ready_tasks = <<>>
  /\ crt_thread_node = MainThread
  /\ status = [t \in Threads |-> IF t = MainThread THEN "TASK_READY"
                                                   ELSE "TASK_NONE"]
  /\ ticks = [t \in Threads |-> 0]
  /\ need_reschedule = [t \in Threads |-> FALSE]
  /\ preempt_count = [t \in Threads |-> 0]
  /\ process = [t \in Threads |-> MainProcess]
  /\ page_directory = MainProcess

(***************************************************************************)
(* The general client.  The guards are the contract of each function.      *)
(***************************************************************************)
TimerInterrupt == timer_callback

\* keyboard_interrupt_handler requests a reschedule after it has queued waiters.
RequestReschedule == request_reschedule

\* Any thread, the main thread included, may start another one.
StartThread(t, p) ==
  /\ status[t] = "TASK_NONE"
  /\ add_thread_to_schedule(t, p, FALSE)

\* process_fork is a system call of a user thread.
ForkThread(t, p) ==
  /\ status[t] = "TASK_NONE"
  /\ crt_thread_node # MainThread
  /\ status[crt_thread_node] = "TASK_RUNNING"
  /\ preempt_count[crt_thread_node] = 0
  /\ add_thread_to_schedule(t, p, need_reschedule[crt_thread_node])

\* mutex_unlock, cond_var_notify and process_exit wake up a thread that has
\* marked itself blocked; the waker is not the thread itself.
WakeThread(t) ==
  /\ status[t] = "TASK_WAITING"
  /\ t # crt_thread_node
  /\ add_thread_node_to_schedule(t)

\* The keyboard interrupt may hit a blocked thread before it has yielded, and
\* then wakes up the current thread.
WakeThreadFromInterrupt(t) ==
  /\ t \in IrqThreads
  /\ status[t] = "TASK_WAITING"
  /\ add_thread_node_to_schedule_head(t)

\* Spinlocks are released before a thread gives up the processor.
YieldThread ==
  /\ preempt_count[crt_thread_node] = 0
  /\ schedule_thread_yield

\* The main thread never blocks and never exits.
BlockThread ==
  /\ crt_thread_node # MainThread
  /\ status[crt_thread_node] = "TASK_RUNNING"
  /\ schedule_mark_thread_block

DetachThread ==
  /\ crt_thread_node # MainThread
  /\ status[crt_thread_node] = "TASK_RUNNING"
  /\ detach_process

KillThread ==
  /\ crt_thread_node # MainThread
  /\ status[crt_thread_node] = "TASK_RUNNING"
  /\ preempt_count[crt_thread_node] = 0
  /\ mark_thread_dead

ExitThread ==
  /\ status[crt_thread_node] = "TASK_DEAD"
  /\ ready_tasks # <<>>
  /\ exit_context_switch

\* The clean thread destroys a dead thread that has left the processor.
DestroyThread(t) ==
  /\ status[t] = "TASK_DEAD"
  /\ t # crt_thread_node
  /\ destroy_thread(t)

DisablePreempt ==
  /\ status[crt_thread_node] # "TASK_DEAD"
  /\ preempt_count[crt_thread_node] < MaxPreempt
  /\ disable_preempt

EnablePreempt ==
  /\ preempt_count[crt_thread_node] > 0
  /\ enable_preempt

SchedNext ==
  \/ TimerInterrupt
  \/ RequestReschedule
  \/ YieldThread
  \/ BlockThread
  \/ DetachThread
  \/ KillThread
  \/ ExitThread
  \/ DisablePreempt
  \/ EnablePreempt
  \/ \E t \in Threads :
       \/ \E p \in Processes : StartThread(t, p) \/ ForkThread(t, p)
       \/ WakeThread(t)
       \/ WakeThreadFromInterrupt(t)
       \/ DestroyThread(t)

SchedSpec == SchedInit /\ [][SchedNext]_schedVars

(***************************************************************************)
(* The timer keeps ticking, is not synchronised with the sections that     *)
(* disable preemption, and no such section lasts for ever (spinlock_lock   *)
(* is followed by spinlock_unlock).                                        *)
(***************************************************************************)
FairSchedSpec ==
  SchedSpec /\ SF_schedVars(TimerInterrupt) /\ SF_schedVars(EnablePreempt)

-----------------------------------------------------------------------------
SchedTypeOK ==
  /\ ready_tasks \in Seq(Threads)
  /\ crt_thread_node \in Threads
  /\ status \in [Threads -> TaskStatus]
  /\ ticks \in [Threads -> 0..Priority]
  /\ need_reschedule \in [Threads -> BOOLEAN]
  /\ preempt_count \in [Threads -> 0..MaxPreempt]
  /\ process \in [Threads -> Processes \cup {NoProcess}]
  /\ page_directory \in Processes

\* No thread node is linked twice into ready_tasks: linked_list_append of a
\* node that is already linked would cut the list.
NoThreadQueuedTwice == NoRepeat(ready_tasks)

\* ready_tasks holds exactly the threads that are TASK_READY: none is lost by a
\* context switch, and no blocked, dead or free thread can be resumed.  The
\* main thread is the exception: it is never queued while it is not needed.
ReadyIffQueued ==
  \A t \in Threads :
    Queued(t) <=> (t # MainThread /\ status[t] = "TASK_READY")

\* Except for the idle thread, whose status do_context_switch never takes back,
\* a TASK_RUNNING thread is the current one.
OneRunner ==
  \A t \in Threads :
    status[t] = "TASK_RUNNING" => t = crt_thread_node \/ t = MainThread

\* A thread that belongs to a process runs on the page directory of that
\* process, although do_context_switch reloads it only when the processes of
\* the two threads differ and a detached thread keeps a foreign one loaded.
LoadedDirMatches ==
  process[crt_thread_node] # NoProcess =>
    page_directory = process[crt_thread_node]

\* The idle thread can always be resumed, and the current thread exists.
IdleAndCurrentAlive ==
  /\ status[MainThread] \in {"TASK_READY", "TASK_RUNNING"}
  /\ status[crt_thread_node] # "TASK_NONE"

\* The inductive invariant: whatever the interleaving of timer, keyboard and callers,
\* ready_tasks links exactly the threads that are ready, each once, only the current
\* and the idle thread run, and CR3 has the directory of the current thread's process.
SchedInv ==
  /\ SchedTypeOK
  /\ NoThreadQueuedTwice
  /\ ReadyIffQueued
  /\ OneRunner
  /\ LoadedDirMatches
  /\ IdleAndCurrentAlive

\* A thread that has died and left the processor is never switched in again.
DeadNeverResumes ==
  [][\A t \in Threads :
       status[t] = "TASK_DEAD" /\ t # crt_thread_node => crt_thread_node' # t]_schedVars

\* Every ready thread gets the processor: round robin does not starve, as long
\* as the interrupt wakes up no more than one thread at a time again and again.
ReadyRuns ==
  \A t \in Threads : Queued(t) ~> (crt_thread_node = t)

==============================================================================
