------------------------------- MODULE Process -------------------------------
(***************************************************************************)
(* The life of user processes in src/src/task/process.c: process_fork,     *)
(* process_exec, process_wait, process_exit and the thread_exit system     *)
(* call, run by user threads under the preemptive scheduler, with the      *)
(* clean thread that destroys what they leave behind.                      *)
(*                                                                         *)
(* A pid is identified with its pcb_t: both are freed by destroy_process.  *)
(* Pid 0 belongs to the main process, so MainProcess is also the pid 0     *)
(* that process_wait takes for "any child".                                *)
(*                                                                         *)
(* pcb_t.lock is held across steps by process_wait only.  Every other      *)
(* section under it touches nothing but that pcb_t and neither blocks nor  *)
(* yields, and is one step taken when the lock is free.  The hand-over to  *)
(* the clean thread (add_dead_task, add_dead_process) is one step here,    *)
(* and the clean thread never sleeps: module Reaper looks inside.          *)
(* processes_map and threads_map are never read and are left out, and so   *)
(* is the bitmap of user stacks.                                           *)
(***************************************************************************)
EXTENDS Scheduler, FiniteSets

CONSTANTS
  CleanThread,  \* kernel_clean_node
  InitProcess,  \* process 1
  NoThread,     \* the null thread node
  MaxForks      \* bound on the calls of process_fork

ASSUME ProcessAssumption ==
  /\ CleanThread \in Threads \ {MainThread}
  /\ InitProcess \in Processes \ {MainProcess}
  /\ NoThread \notin Threads
  /\ MaxForks \in Nat

UserThreads == Threads \ {MainThread, CleanThread}
UserProcesses == Processes \ {MainProcess}

VARIABLES
  pcb,             \* the pcb_t of every user process slot
  dead_tasks,      \* threads handed to the clean thread
  dead_processes,  \* processes handed to the clean thread
  pc,              \* where each user thread is
  own,             \* the process a user thread was started in, until it dies
  arg,             \* the child being forked or reaped, or the pid waited for
  forks,           \* calls of process_fork so far
  undefined        \* freed memory, a null node or a linked node has been used

deadVars == <<dead_tasks, dead_processes>>
vars == <<schedVars, pcb, deadVars, pc, own, arg, forks, undefined>>

self == crt_thread_node
crt_process == own[self]

\* The current thread is a user thread at label l and goes to label m.
Goto(l, m) ==
  /\ self \in UserThreads
  /\ pc[self] = l
  /\ pc' = [pc EXCEPT ![self] = m]

FreePcb ==
  [status |-> "PROCESS_NONE", parent |-> NoProcess, threads |-> {},
   children_processes |-> {}, exit_children_processes |-> {},
   waiting_child_pid |-> MainProcess, waiting_thread_node |-> NoThread,
   lock |-> FALSE]

\* create_process and the parent set by its caller.
NewPcb(p) == [FreePcb EXCEPT !.status = "PROCESS_NORMAL", !.parent = p]

\* The memory behind what the thread does next is not what the code takes it for.
Undefined ==
  /\ undefined' = TRUE
  /\ UNCHANGED <<schedVars, pcb, deadVars, pc, own, arg, forks>>

-----------------------------------------------------------------------------
\* process_fork: create_process,
ForkProcess(p) ==
  /\ Goto("user", "fork_child")
  /\ forks < MaxForks
  /\ forks' = forks + 1
  /\ pcb[p].status = "PROCESS_NONE"
  /\ pcb' = [pcb EXCEPT ![p] = NewPcb(crt_process)]
  /\ arg' = [arg EXCEPT ![self] = p]
  /\ UNCHANGED <<schedVars, deadVars, own, undefined>>

\* add_child_process,
ForkAddChild ==
  /\ Goto("fork_child", "fork_thread")
  /\ ~pcb[crt_process].lock
  /\ pcb' = [pcb EXCEPT ![crt_process].children_processes = @ \cup {arg[self]}]
  /\ UNCHANGED <<schedVars, deadVars, own, arg, forks, undefined>>

\* fork_crt_thread, which copies the flags of the caller, and
\* add_thread_to_schedule; without memory for a thread fork fails and leaves the
\* new process behind.
ForkThreadOf(t) ==
  /\ pcb' = [pcb EXCEPT ![arg[self]].threads = {t}]
  /\ add_thread_to_schedule(t, arg[self], need_reschedule[self])
  /\ own' = [own EXCEPT ![t] = arg[self]]
  /\ pc' = [pc EXCEPT ![self] = "user", ![t] = "user"]
  /\ arg' = [arg EXCEPT ![self] = MainProcess]
  /\ UNCHANGED <<deadVars, forks, undefined>>

ForkCopyThread ==
  /\ self \in UserThreads
  /\ pc[self] = "fork_thread"
  /\ \/ \E t \in UserThreads : status[t] = "TASK_NONE" /\ ForkThreadOf(t)
     \/ /\ \A t \in UserThreads : status[t] # "TASK_NONE"
        /\ Goto("fork_thread", "user")
        /\ arg' = [arg EXCEPT ![self] = MainProcess]
        /\ UNCHANGED <<schedVars, pcb, deadVars, own, forks, undefined>>

process_fork ==
  \/ \E p \in UserProcesses : ForkProcess(p)
  \/ ForkAddChild
  \/ ForkCopyThread

-----------------------------------------------------------------------------
\* process_wait for pid; pid 0 stands for any child.
WaitCall(pid) ==
  /\ Goto("user", "wait_lock")
  /\ arg' = [arg EXCEPT ![self] = pid]
  /\ UNCHANGED <<schedVars, pcb, deadVars, own, forks, undefined>>

\* It fails for a pid that is not in children_processes, and else leaves the pid
\* it waits for (its own for any child) to the children.
WaitLock ==
  LET p == crt_process
      pid == arg[self]
      unknown == pid # MainProcess /\ pid \notin pcb[p].children_processes
  IN  /\ self \in UserThreads
      /\ ~pcb[p].lock
      /\ \/ /\ unknown
            /\ Goto("wait_lock", "user")
            /\ arg' = [arg EXCEPT ![self] = MainProcess]
            /\ UNCHANGED pcb
         \/ /\ ~unknown
            /\ Goto("wait_lock", "wait_find")
            /\ pcb' = [pcb EXCEPT ![p].lock = TRUE,
                         ![p].waiting_child_pid =
                            IF pid = MainProcess THEN p ELSE pid]
            /\ UNCHANGED arg
      /\ UNCHANGED <<schedVars, deadVars, own, forks, undefined>>

\* The exited children process_wait may return.
Exited(p, pid) ==
  {c \in pcb[p].exit_children_processes : pid \in {MainProcess, c}}

\* The exited child is looked up and not removed.
WaitFoundKeeps ==
  /\ Goto("wait_find", "wait_reap")
  /\ \E c \in Exited(crt_process, arg[self]) :
       /\ pcb' = [pcb EXCEPT ![crt_process].lock = FALSE]
       /\ arg' = [arg EXCEPT ![self] = c]
  /\ UNCHANGED <<schedVars, deadVars, own, forks, undefined>>

\* The lock is kept when a child is found.
WaitFoundLocked ==
  /\ Goto("wait_find", "wait_reap")
  /\ \E c \in Exited(crt_process, arg[self]) :
       /\ pcb' = [pcb EXCEPT ![crt_process].exit_children_processes = @ \ {c}]
       /\ arg' = [arg EXCEPT ![self] = c]
  /\ UNCHANGED <<schedVars, deadVars, own, forks, undefined>>

\* The loop finds an exited child and releases the lock,
WaitFound ==
  /\ Goto("wait_find", "wait_reap")
  /\ \E c \in Exited(crt_process, arg[self]) :
       /\ pcb' = [pcb EXCEPT ![crt_process].exit_children_processes = @ \ {c},
                             ![crt_process].lock = FALSE]
       /\ arg' = [arg EXCEPT ![self] = c]
  /\ UNCHANGED <<schedVars, deadVars, own, forks, undefined>>

\* or leaves its node to the children and blocks,
WaitBlock ==
  /\ Goto("wait_find", "wait_release")
  /\ Exited(crt_process, arg[self]) = {}
  /\ pcb' = [pcb EXCEPT ![crt_process].waiting_thread_node = self]
  /\ schedule_mark_thread_block
  /\ UNCHANGED <<deadVars, own, arg, forks, undefined>>

WaitRelease ==
  /\ Goto("wait_release", "wait_sleep")
  /\ pcb' = [pcb EXCEPT ![crt_process].lock = FALSE]
  /\ UNCHANGED <<schedVars, deadVars, own, arg, forks, undefined>>

WaitSleep ==
  /\ Goto("wait_sleep", "wait_relock")
  /\ schedule_thread_yield
  /\ UNCHANGED <<pcb, deadVars, own, arg, forks, undefined>>

WaitRelock ==
  /\ Goto("wait_relock", "wait_find")
  /\ ~pcb[crt_process].lock
  /\ pcb' = [pcb EXCEPT ![crt_process].lock = TRUE]
  /\ UNCHANGED <<schedVars, deadVars, own, arg, forks, undefined>>

\* add_dead_process
WaitReap ==
  /\ Goto("wait_reap", "user")
  /\ dead_processes' = dead_processes \cup {arg[self]}
  /\ arg' = [arg EXCEPT ![self] = MainProcess]
  /\ UNCHANGED <<schedVars, pcb, dead_tasks, own, forks, undefined>>

process_wait ==
  \/ \E pid \in Processes : WaitCall(pid)
  \/ WaitLock
  \/ WaitFound
  \/ WaitBlock
  \/ WaitRelease
  \/ WaitSleep
  \/ WaitRelock
  \/ WaitReap

-----------------------------------------------------------------------------
\* process_exit; the init program never calls it.
ExitCall ==
  /\ Goto("user", "exit_lock")
  /\ crt_process # InitProcess
  /\ UNCHANGED <<schedVars, pcb, deadVars, own, arg, forks, undefined>>

\* The exiting thread stays in its process.
ExitProcessStaysAttached ==
  /\ Goto("exit_lock", "exit_notify")
  /\ ~pcb[crt_process].lock
  /\ pcb' = [pcb EXCEPT ![crt_process].status = "PROCESS_EXIT",
                        ![crt_process].threads = {},
                        ![crt_process].exit_children_processes = {}]
  /\ UNCHANGED <<schedVars, deadVars, own, arg, forks, undefined>>

\* With another thread in the process process_exit returns.  Else it leaves the
\* process, marks it and releases its resources; hash_table_destroy frees the
\* exited children nobody has waited for, and with them the way to their pids.
ExitProcess ==
  LET p == crt_process
  IN  /\ self \in UserThreads
      /\ ~pcb[p].lock
      /\ \/ /\ Cardinality(pcb[p].threads) > 1
            /\ Goto("exit_lock", "user")
            /\ UNCHANGED <<schedVars, pcb>>
         \/ /\ Cardinality(pcb[p].threads) <= 1
            /\ Goto("exit_lock", "exit_notify")
            /\ pcb' = [pcb EXCEPT ![p].status = "PROCESS_EXIT",
                                  ![p].threads = {},
                                  ![p].exit_children_processes = {}]
            /\ detach_process
      /\ UNCHANGED <<deadVars, own, arg, forks, undefined>>

\* A parent that waits for any child is forgotten.
WakesNamedOnly(p) == pcb[pcb[p].parent].waiting_child_pid = p

\* The parent's waiting_child_pid tells the child p to wake it up.
Wakes(p) ==
  LET parent == pcb[p].parent
  IN  pcb[parent].waiting_child_pid \in {p, parent}

\* The tables of the parent, which may have exited or been destroyed in the
\* meantime, and the node it has left must still be there for the child.
ParentThere(p) ==
  pcb[p].parent # NoProcess /\ pcb[pcb[p].parent].status = "PROCESS_NORMAL"
NodeWaits(p) ==
  LET node == pcb[pcb[p].parent].waiting_thread_node
  IN  node # NoThread /\ status[node] = "TASK_WAITING"

\* The child joins exit_children_processes of its parent and, if told to, makes
\* the thread that has left its node there ready.
ExitNotify ==
  LET p == crt_process
      parent == pcb[p].parent
  IN  /\ Goto("exit_notify", "exit_dead")
      /\ ParentThere(p)
      /\ ~pcb[parent].lock
      /\ Wakes(p) => NodeWaits(p)
      /\ pcb' = [pcb EXCEPT ![parent].exit_children_processes = @ \cup {p}]
      /\ IF Wakes(p)
         THEN add_thread_node_to_schedule(pcb[parent].waiting_thread_node)
         ELSE UnchangedScheduler
      /\ UNCHANGED <<deadVars, own, arg, forks, undefined>>

ExitNotifyUndefined ==
  /\ self \in UserThreads
  /\ pc[self] = "exit_notify"
  /\ \/ ~ParentThere(crt_process)
     \/ /\ ParentThere(crt_process)
        /\ ~pcb[pcb[crt_process].parent].lock
        /\ Wakes(crt_process)
        /\ ~NodeWaits(crt_process)
  /\ Undefined

\* schedule_thread_exit of a thread that still has a process:
\* remove_process_thread.
ThreadExitCall ==
  /\ Goto("user", "exit_detach")
  /\ crt_process # InitProcess
  /\ UNCHANGED <<schedVars, pcb, deadVars, own, arg, forks, undefined>>

ExitDetach ==
  /\ Goto("exit_detach", "exit_dead")
  /\ ~pcb[crt_process].lock
  /\ pcb' = [pcb EXCEPT ![crt_process].threads = @ \ {self}]
  /\ detach_process
  /\ UNCHANGED <<deadVars, own, arg, forks, undefined>>

\* The thread is handed to the clean thread while it still runs.
ExitDeadUnmarked ==
  /\ Goto("exit_dead", "exit_switch")
  /\ dead_tasks' = dead_tasks \cup {self}
  /\ own' = [own EXCEPT ![self] = InitProcess]
  /\ UNCHANGED <<schedVars, pcb, dead_processes, arg, forks, undefined>>

\* The rest of schedule_thread_exit.
ExitDead ==
  /\ Goto("exit_dead", "exit_switch")
  /\ mark_thread_dead
  /\ dead_tasks' = dead_tasks \cup {self}
  /\ own' = [own EXCEPT ![self] = InitProcess]
  /\ UNCHANGED <<pcb, dead_processes, arg, forks, undefined>>

ExitSwitch ==
  /\ Goto("exit_switch", "gone")
  /\ exit_context_switch
  /\ UNCHANGED <<pcb, deadVars, own, arg, forks, undefined>>

process_exit ==
  \/ ExitCall
  \/ ExitProcess
  \/ ExitNotify
  \/ ExitNotifyUndefined

schedule_thread_exit ==
  \/ ThreadExitCall
  \/ ExitDetach
  \/ ExitDead
  \/ ExitSwitch

-----------------------------------------------------------------------------
\* process_exec frees the other threads of the process, which are still in the
\* ready queue or on the wait queues: there must be none.  What it does to the
\* table of threads under the lock leaves the one thread there.
ExecCall ==
  /\ Goto("user", "exec_start")
  /\ pcb[crt_process].threads = {self}
  /\ UNCHANGED <<schedVars, pcb, deadVars, own, arg, forks, undefined>>

ExecUndefined ==
  /\ self \in UserThreads
  /\ pc[self] = "user"
  /\ pcb[crt_process].threads # {self}
  /\ Undefined

\* load_elf fails and the process exits,
ExecLoadFails ==
  /\ Goto("exec_start", "exit_lock")
  /\ crt_process # InitProcess
  /\ UNCHANGED <<schedVars, pcb, deadVars, own, arg, forks, undefined>>

\* or the new program is started in a new thread, and this one exits.
ExecStart(t) ==
  /\ self \in UserThreads
  /\ pc[self] = "exec_start"
  /\ status[t] = "TASK_NONE"
  /\ ~pcb[crt_process].lock
  /\ pcb' = [pcb EXCEPT ![crt_process].threads = @ \cup {t}]
  /\ add_thread_to_schedule(t, crt_process, FALSE)
  /\ own' = [own EXCEPT ![t] = crt_process]
  /\ pc' = [pc EXCEPT ![self] = "exit_detach", ![t] = "user"]
  /\ UNCHANGED <<deadVars, arg, forks, undefined>>

process_exec ==
  \/ ExecCall
  \/ ExecUndefined
  \/ ExecLoadFails
  \/ \E t \in UserThreads : ExecStart(t)

-----------------------------------------------------------------------------
\* yieldlock_lock of the lock a thread needs next finds it taken.
YieldOnLock ==
  /\ self \in UserThreads
  /\ \/ /\ pc[self] \in {"fork_child", "wait_lock", "wait_relock", "exit_lock",
                         "exit_detach", "exec_start"}
        /\ pcb[crt_process].lock
     \/ /\ pc[self] = "exit_notify"
        /\ ParentThere(crt_process)
        /\ pcb[pcb[crt_process].parent].lock
  /\ schedule_thread_yield
  /\ UNCHANGED <<pcb, deadVars, pc, own, arg, forks, undefined>>

-----------------------------------------------------------------------------
\* The clean thread: destroy_thread,
CleanThreadOf(t) ==
  /\ self = CleanThread
  /\ t \in dead_tasks
  /\ destroy_thread(t)
  /\ dead_tasks' = dead_tasks \ {t}
  /\ UNCHANGED <<pcb, dead_processes, pc, own, arg, forks, undefined>>

\* destroy_process, after which the parent pointers to it dangle,
destroy_process(p) ==
  /\ self = CleanThread
  /\ p \in dead_processes
  /\ pcb' = [q \in UserProcesses |->
               IF q = p THEN FreePcb
               ELSE IF pcb[q].parent = p THEN [pcb[q] EXCEPT !.parent = NoProcess]
               ELSE pcb[q]]
  /\ dead_processes' = dead_processes \ {p}
  /\ UNCHANGED <<schedVars, dead_tasks, pc, own, arg, forks, undefined>>

\* and schedule_thread_yield.
CleanYield ==
  /\ self = CleanThread
  /\ schedule_thread_yield
  /\ UNCHANGED <<pcb, deadVars, pc, own, arg, forks, undefined>>

kernel_clean_thread ==
  \/ \E t \in UserThreads : CleanThreadOf(t)
  \/ \E p \in UserProcesses : destroy_process(p)
  \/ CleanYield

\* kernel_main_thread: the clean thread, then the init process and its thread.
StartClean ==
  /\ self = MainThread
  /\ status[CleanThread] = "TASK_NONE"
  /\ add_thread_to_schedule(CleanThread, MainProcess, FALSE)
  /\ UNCHANGED <<pcb, deadVars, pc, own, arg, forks, undefined>>

StartInit(t) ==
  /\ self = MainThread
  /\ status[CleanThread] # "TASK_NONE"
  /\ pcb[InitProcess].status = "PROCESS_NONE"
  /\ add_thread_to_schedule(t, InitProcess, FALSE)
  /\ pcb' = [pcb EXCEPT ![InitProcess] = [NewPcb(NoProcess) EXCEPT !.threads = {t}]]
  /\ own' = [own EXCEPT ![t] = InitProcess]
  /\ UNCHANGED <<deadVars, pc, arg, forks, undefined>>

Tick ==
  /\ timer_callback
  /\ UNCHANGED <<pcb, deadVars, pc, own, arg, forks, undefined>>

Init ==
  /\ SchedInit
  /\ pcb = [p \in UserProcesses |-> FreePcb]
  /\ dead_tasks = {}
  /\ dead_processes = {}
  /\ pc = [t \in UserThreads |-> "user"]
  /\ own = [t \in UserThreads |-> InitProcess]
  /\ arg = [t \in UserThreads |-> MainProcess]
  /\ forks = 0
  /\ undefined = FALSE

Next ==
  \/ /\ ~undefined
     /\ \/ process_fork
        \/ process_wait
        \/ process_exit
        \/ process_exec
        \/ schedule_thread_exit
        \/ YieldOnLock
        \/ kernel_clean_thread
        \/ StartClean
        \/ \E t \in UserThreads : StartInit(t)
        \/ Tick
  \/ undefined /\ UNCHANGED vars

Spec == Init /\ [][Next]_vars

-----------------------------------------------------------------------------
\* A parent does not sleep through the exit of the child it waits for, whether
\* the child exits before, while or after process_wait looks for it.
NoMissedExit ==
  \A t \in UserThreads :
    status[t] = "TASK_WAITING" => Exited(own[t], arg[t]) = {}

\* An exited child is reaped once: it is in the table of its own parent, or on
\* its way from process_wait to destroy_process, never both and never twice.
ReapedOnce ==
  LET reaped(c) == {t \in UserThreads : pc[t] = "wait_reap" /\ arg[t] = c}
  IN  \A c \in UserProcesses :
        LET holders == {p \in UserProcesses : c \in pcb[p].exit_children_processes}
        IN  /\ Cardinality(holders) + Cardinality(reaped(c))
                 + (IF c \in dead_processes THEN 1 ELSE 0) <= 1
            /\ holders \subseteq {pcb[c].parent}
            /\ c \in dead_processes => pcb[c].status = "PROCESS_EXIT"

\* The page directory in CR3 belongs to a process that has not been destroyed,
\* although an exiting thread keeps that of its process loaded while its parent
\* reaps the process.
LoadedDirExists ==
  page_directory # MainProcess => pcb[page_directory].status # "PROCESS_NONE"

\* pcb_t.lock is held by one thread of the process, inside process_wait, and that thread
\* goes on to release it: it runs or is queued.  The one way to lose it is a preemption
\* between schedule_mark_thread_block and yieldlock_unlock.
WaiterReleasesLock ==
  \A p \in UserProcesses :
    LET holders == {t \in UserThreads :
                      own[t] = p /\ pc[t] \in {"wait_find", "wait_release"}}
    IN  /\ Cardinality(holders) = IF pcb[p].lock THEN 1 ELSE 0
        /\ \A t \in holders : t = self \/ Queued(t) \/ pc[t] = "wait_release"

==============================================================================
