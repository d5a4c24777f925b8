--------------------------- MODULE ProcessProofs -----------------------------
(***************************************************************************)
(* Proofs about Process, for any number of threads, of processes and of    *)
(* calls of process_fork.                                                  *)
(***************************************************************************)
EXTENDS Process, SchedulerProofs, FiniteSetTheorems

-----------------------------------------------------------------------------
(* The inductive invariant.                                                *)

\* The places of a thread that has left its process, and where it is dead.
LeftPlaces == {"exit_notify", "exit_dead", "exit_switch", "gone"}
DeadPlaces == {"exit_switch", "gone"}
ForkPlaces == {"fork_child", "fork_thread"}
HoldPlaces == {"wait_find", "wait_release"}
SleepPlaces == {"wait_release", "wait_sleep", "wait_relock"}
WaitPlaces == HoldPlaces \cup SleepPlaces
Places == {"user", "wait_lock", "wait_reap", "exec_start", "exit_lock", "exit_detach"}
            \cup LeftPlaces \cup ForkPlaces \cup WaitPlaces

Pcb ==
  [status: {"PROCESS_NONE", "PROCESS_NORMAL", "PROCESS_EXIT"},
   parent: UserProcesses \cup {NoProcess},
   threads: SUBSET UserThreads,
   children_processes: SUBSET UserProcesses,
   exit_children_processes: SUBSET UserProcesses,
   waiting_child_pid: Processes,
   waiting_thread_node: UserThreads \cup {NoThread},
   lock: BOOLEAN]

ProcessTypeOK ==
  /\ pcb \in [UserProcesses -> Pcb]
  /\ \A p \in UserProcesses : IsFiniteSet(pcb[p].threads)
  /\ dead_tasks \subseteq UserThreads
  /\ dead_processes \subseteq UserProcesses
  /\ pc \in [UserThreads -> Places]
  /\ own \in [UserThreads -> UserProcesses]
  /\ arg \in [UserThreads -> Processes]

\* A thread is in its process until it leaves it, and works for it until it is
\* replaced by exec or exits.
Attached(t) == status[t] # "TASK_NONE" /\ pc[t] \notin LeftPlaces
Active(t) == Attached(t) /\ pc[t] # "exit_detach"
Forks(t, c) == pc[t] \in ForkPlaces /\ arg[t] = c
Holds(t, p) == pc[t] \in HoldPlaces /\ own[t] = p
Reaps(t, c) == pc[t] = "wait_reap" /\ arg[t] = c
Notifies(t, c) == pc[t] = "exit_notify" /\ own[t] = c

SchedulerFits ==
  /\ SchedInv
  /\ Steady
  /\ process[MainThread] = MainProcess
  /\ process[CleanThread] = MainProcess

ThreadFits(t) ==
  /\ status[t] = "TASK_NONE" => pc[t] \in {"user"} \cup DeadPlaces
  /\ status[t] = "TASK_DEAD" => pc[t] \in DeadPlaces
  /\ pc[t] \in DeadPlaces => status[t] \in {"TASK_DEAD", "TASK_NONE"}
  /\ status[t] = "TASK_WAITING" =>
       pc[t] \in SleepPlaces /\ (t = self => pc[t] # "wait_relock")
  /\ t \in dead_tasks => status[t] = "TASK_DEAD"
  /\ Attached(t) => /\ process[t] = own[t]
                    /\ t \in pcb[own[t]].threads
                    /\ pcb[own[t]].status = "PROCESS_NORMAL"
  /\ ~Attached(t) => process[t] \in {NoProcess, MainProcess}

\* The init process comes first and stays.
InitFits ==
  /\ pcb[InitProcess].status = "PROCESS_NONE" =>
       \A t \in UserThreads : status[t] = "TASK_NONE" /\ pc[t] = "user"
  /\ \A t \in UserThreads : pc[t] \in {"exit_lock", "exit_notify"} => own[t] # InitProcess
  /\ pcb[InitProcess].status # "PROCESS_EXIT"

\* exec and fork leave one thread to a process.
OneActive ==
  \A t, u \in UserThreads : Active(t) /\ Active(u) /\ own[t] = own[u] => t = u

LockFits ==
  \A p \in UserProcesses : pcb[p].lock <=> \E t \in UserThreads : Holds(t, p)

\* What a thread in process_wait has told the children of its process.
WaitFits(t) ==
  LET p == own[t]
  IN  /\ pc[t] \in WaitPlaces =>
           pcb[p].waiting_child_pid = IF arg[t] = MainProcess THEN p ELSE arg[t]
      /\ status[t] = "TASK_WAITING" =>
           pcb[p].waiting_thread_node = t /\ Exited(p, arg[t]) = {}
      /\ pc[t] = "wait_reap" => arg[t] \in UserProcesses

\* A forked process is nobody else's until its thread is there.
ForkFits(t) ==
  pc[t] \in ForkPlaces =>
    /\ arg[t] \in UserProcesses
    /\ pcb[arg[t]].status = "PROCESS_NORMAL"
    /\ pcb[arg[t]].threads = {}
    /\ \A u \in UserThreads : Forks(u, arg[t]) => u = t

\* An exited process is about to tell its parent, in its parent's table, in the hands
\* of one thread, or with the clean thread.
ListedFits(c, p) ==
  c \in pcb[p].exit_children_processes =>
    /\ pcb[c].parent = p
    /\ pcb[c].status = "PROCESS_EXIT"
    /\ c \notin dead_processes
ReapFits(t, c) ==
  Reaps(t, c) =>
    /\ pcb[c].status = "PROCESS_EXIT"
    /\ c \notin dead_processes
    /\ \A p \in UserProcesses : c \notin pcb[p].exit_children_processes
    /\ \A u \in UserThreads : Reaps(u, c) => u = t
NotifyFits(t, c) ==
  Notifies(t, c) =>
    /\ pcb[c].status = "PROCESS_EXIT"
    /\ c \notin dead_processes
    /\ \A p \in UserProcesses : c \notin pcb[p].exit_children_processes
    /\ \A u \in UserThreads : ~Reaps(u, c) /\ (Notifies(u, c) => u = t)
ChildFits(c) ==
  /\ \A p \in UserProcesses : ListedFits(c, p)
  /\ \A t \in UserThreads : ReapFits(t, c) /\ NotifyFits(t, c)
  /\ c \in dead_processes => pcb[c].status = "PROCESS_EXIT"

ProcessInv ==
  /\ ProcessTypeOK
  /\ SchedulerFits
  /\ \A t \in UserThreads : ThreadFits(t) /\ WaitFits(t) /\ ForkFits(t)
  /\ InitFits
  /\ OneActive
  /\ LockFits
  /\ \A c \in UserProcesses : ChildFits(c)
  /\ LoadedDirExists

-----------------------------------------------------------------------------
(* What every step of a user thread starts from.                           *)

LEMMA People ==
  /\ UserThreads \subseteq Threads /\ CleanThread \in Threads /\ MainThread \in Threads
  /\ CleanThread \notin UserThreads /\ MainThread \notin UserThreads
  /\ CleanThread # MainThread /\ NoThread \notin UserThreads /\ NoThread \notin Threads
  /\ \A t \in Threads : t \in UserThreads \/ t = CleanThread \/ t = MainThread
  /\ UserProcesses \subseteq Processes /\ MainProcess \in Processes
  /\ MainProcess \notin UserProcesses /\ NoProcess \notin UserProcesses
  /\ InitProcess \in UserProcesses /\ NoProcess # MainProcess
BY ProcessAssumption, ThreadsAssumption DEF UserThreads, UserProcesses

LEMMA PlacesApart ==
  /\ DeadPlaces \subseteq LeftPlaces /\ LeftPlaces \subseteq Places
  /\ ForkPlaces \subseteq Places /\ WaitPlaces \subseteq Places
  /\ HoldPlaces \subseteq WaitPlaces /\ SleepPlaces \subseteq WaitPlaces
  /\ "wait_relock" \notin HoldPlaces
  /\ \A l \in LeftPlaces :
       /\ l \notin ForkPlaces /\ l \notin WaitPlaces
       /\ l \notin {"user", "wait_lock", "wait_reap", "exec_start", "exit_lock", "exit_detach"}
  /\ \A l \in WaitPlaces :
       /\ l \notin ForkPlaces
       /\ l \notin {"user", "wait_lock", "wait_reap", "exec_start", "exit_lock", "exit_detach"}
  /\ \A l \in ForkPlaces :
       l \notin {"user", "wait_lock", "wait_reap", "exec_start", "exit_lock", "exit_detach"}
  /\ "exit_notify" \in LeftPlaces /\ "exit_notify" \notin DeadPlaces
  /\ {"user", "wait_lock", "wait_reap", "exec_start", "exit_lock", "exit_detach"} \subseteq Places
BY DEF DeadPlaces, LeftPlaces, ForkPlaces, HoldPlaces, SleepPlaces, WaitPlaces, Places

\* The types, one variable at a time.
LEMMA Types ==
  ASSUME ProcessInv
  PROVE  /\ pcb \in [UserProcesses -> Pcb]
         /\ pc \in [UserThreads -> Places]
         /\ own \in [UserThreads -> UserProcesses]
         /\ arg \in [UserThreads -> Processes]
         /\ dead_tasks \subseteq UserThreads /\ dead_processes \subseteq UserProcesses
         /\ self \in Threads /\ status \in [Threads -> TaskStatus]
         /\ process \in [Threads -> Processes \cup {NoProcess}]
         /\ page_directory \in Processes
         /\ SchedInv /\ Steady
BY DEF ProcessInv, ProcessTypeOK, SchedulerFits, SchedInv, SchedTypeOK, self

\* The current thread, when it is a user thread.
LEMMA UserRuns ==
  ASSUME ProcessInv, self \in UserThreads
  PROVE  /\ status[self] \in {"TASK_RUNNING", "TASK_WAITING", "TASK_DEAD"}
         /\ pc[self] \notin SleepPlaces /\ pc[self] \notin DeadPlaces =>
              status[self] = "TASK_RUNNING"
         /\ pc[self] \in DeadPlaces => status[self] = "TASK_DEAD"
         /\ status[self] # "TASK_NONE"
         /\ pcb[InitProcess].status = "PROCESS_NORMAL"
         /\ own[self] \in UserProcesses
         /\ pc[self] \notin LeftPlaces =>
              /\ Attached(self) /\ process[self] = own[self]
              /\ self \in pcb[own[self]].threads
              /\ pcb[own[self]].status = "PROCESS_NORMAL"
<1>1. status[self] \in {"TASK_RUNNING", "TASK_WAITING", "TASK_DEAD"}
  <2>1. status[self] \notin {"TASK_NONE", "TASK_READY"}
    BY People DEF ProcessInv, SchedulerFits, SchedInv, IdleAndCurrentAlive, Steady, self
  <2> QED
    BY <2>1, Types DEF TaskStatus
<1>2. ThreadFits(self)
  BY DEF ProcessInv
<1>3. pcb[InitProcess].status = "PROCESS_NORMAL"
  <2>1. pcb[InitProcess].status \in {"PROCESS_NONE", "PROCESS_NORMAL", "PROCESS_EXIT"}
    BY Types, People DEF Pcb
  <2> QED
    BY <1>1, <2>1 DEF ProcessInv, InitFits
<1> QED
  BY <1>1, <1>2, <1>3, Types DEF ThreadFits, Attached

LEMMA GotoMoves ==
  ASSUME ProcessInv, NEW l, NEW m, Goto(l, m)
  PROVE  /\ self \in UserThreads
         /\ pc[self] = l /\ pc'[self] = m
         /\ \A u \in UserThreads : u # self => pc'[u] = pc[u]
         /\ m \in Places => pc' \in [UserThreads -> Places]
BY Types DEF Goto

-----------------------------------------------------------------------------
(* Steps that neither change who is in a process nor what a thread is to   *)
(* the scheduler.                                                          *)

\* Nobody is born, dies, blocks, is woken up, leaves or joins a process.
Frame ==
  /\ SchedInv' /\ Steady'
  /\ \A u \in Threads : \A s \in {"TASK_NONE", "TASK_WAITING", "TASK_DEAD"} :
       status'[u] = s <=> status[u] = s
  /\ Reloads
  /\ \A u \in UserThreads : self' = u /\ status[u] = "TASK_WAITING" => self = u
  /\ own' = own /\ dead_tasks' = dead_tasks
  /\ \A q \in UserProcesses : pcb[q].status # "PROCESS_NONE" =>
       pcb'[q].status = pcb[q].status /\ pcb'[q].threads = pcb[q].threads

\* The current thread goes from l to m, within its process or after it has left it.
Turn(l, m) ==
  /\ l \in LeftPlaces <=> m \in LeftPlaces
  /\ l \in DeadPlaces <=> m \in DeadPlaces
  /\ l = "exit_detach" => m = "exit_detach"
  /\ m \in {"exit_lock", "exit_notify"} => own[self] # InitProcess
  /\ m \in Places
  /\ status[self] = "TASK_WAITING" =>
       m \in SleepPlaces /\ (m = "wait_relock" => self' # self)

\* What such a step keeps.
FrameInv ==
  /\ SchedulerFits
  /\ \A t \in UserThreads : ThreadFits(t)
  /\ InitFits
  /\ OneActive
  /\ LoadedDirExists

LEMMA FrameKeeps ==
  ASSUME ProcessInv, Frame, self \in UserThreads, NEW m, Turn(pc[self], m),
         pc'[self] = m, \A u \in UserThreads : u # self => pc'[u] = pc[u]
  PROVE  FrameInv'
<1> DEFINE l == pc[self]
<1>1. SchedulerFits'
  BY DEF Frame, Reloads, ProcessInv, SchedulerFits
<1>2. /\ \A t \in UserThreads : Attached(t)' <=> Attached(t)
      /\ \A t \in UserThreads : Active(t)' => Active(t)
  <2>1. \A t \in UserThreads : status'[t] = "TASK_NONE" <=> status[t] = "TASK_NONE"
    BY People DEF Frame
  <2>2. \A t \in UserThreads : pc'[t] \in LeftPlaces <=> pc[t] \in LeftPlaces
    BY DEF Turn
  <2>3. \A t \in UserThreads : pc[t] = "exit_detach" => pc'[t] = "exit_detach"
    BY DEF Turn
  <2> QED
    BY <2>1, <2>2, <2>3 DEF Attached, Active
<1>3. ASSUME NEW t \in UserThreads
      PROVE  ThreadFits(t)'
  <2>1. ThreadFits(t) /\ t \in Threads /\ own'[t] = own[t] /\ own[t] \in UserProcesses
    BY People, Types DEF ProcessInv, Frame
  <2>2. \A s \in {"TASK_NONE", "TASK_WAITING", "TASK_DEAD"} : status'[t] = s <=> status[t] = s
    BY <2>1 DEF Frame
  <2>3. pc'[t] \in DeadPlaces <=> pc[t] \in DeadPlaces
    BY DEF Turn
  <2>4. status'[t] = "TASK_NONE" => pc'[t] \in {"user"} \cup DeadPlaces
    <3>1. status'[t] = "TASK_NONE" => t # self
      BY <2>2, UserRuns
    <3> QED
      BY <2>1, <2>2, <3>1 DEF ThreadFits
  <2>5. status'[t] = "TASK_WAITING" =>
          pc'[t] \in SleepPlaces /\ (t = self' => pc'[t] # "wait_relock")
    <3>1. CASE t = self
      BY <2>2, <3>1 DEF Turn
    <3>2. CASE t # self
      BY <2>1, <2>2, <3>2 DEF ThreadFits, Frame
    <3> QED
      BY <3>1, <3>2
  <2>6. /\ process'[t] = process[t] /\ (t \in dead_tasks' => t \in dead_tasks)
        /\ Attached(t) => /\ t \in pcb'[own'[t]].threads
                          /\ pcb'[own'[t]].status = "PROCESS_NORMAL"
    BY <2>1 DEF Frame, Reloads, ThreadFits
  <2>7. status'[t] = "TASK_DEAD" => pc'[t] \in DeadPlaces
    BY <2>1, <2>2, <2>3 DEF ThreadFits
  <2>8. pc'[t] \in DeadPlaces => status'[t] \in {"TASK_DEAD", "TASK_NONE"}
    BY <2>1, <2>2, <2>3 DEF ThreadFits
  <2>9. t \in dead_tasks' => status'[t] = "TASK_DEAD"
    BY <2>1, <2>2, <2>6 DEF ThreadFits
  <2>10. /\ Attached(t)' => /\ process'[t] = own'[t]
                            /\ t \in pcb'[own'[t]].threads
                            /\ pcb'[own'[t]].status = "PROCESS_NORMAL"
         /\ ~Attached(t)' => process'[t] \in {NoProcess, MainProcess}
    BY <1>2, <2>1, <2>6 DEF ThreadFits
  <2> QED
    BY <2>4, <2>5, <2>7, <2>8, <2>9, <2>10 DEF ThreadFits
<1>4. InitFits'
  <2>1. pcb'[InitProcess].status = "PROCESS_NORMAL"
    BY UserRuns, People DEF Frame
  <2>2. ASSUME NEW t \in UserThreads, pc'[t] \in {"exit_lock", "exit_notify"}
        PROVE  own'[t] # InitProcess
    BY <2>2 DEF Turn, Frame, ProcessInv, InitFits
  <2> QED
    BY <2>1, <2>2 DEF InitFits
<1>5. OneActive'
  BY <1>2 DEF ProcessInv, OneActive, Frame
<1>6. LoadedDirExists'
  <2>1. self' \in Threads /\ page_directory' \in Processes /\ page_directory \in Processes
    BY Types DEF Frame, SchedInv, SchedTypeOK, self
  <2>2. ASSUME page_directory' # MainProcess
        PROVE  page_directory' \in UserProcesses /\ pcb[page_directory'].status # "PROCESS_NONE"
    <3>1. CASE page_directory' = page_directory
      BY <2>1, <2>2, <3>1 DEF ProcessInv, LoadedDirExists, UserProcesses
    <3>2. CASE page_directory' = process[crt_thread_node']
      <4>1. self' \in UserThreads
        BY <2>1, <2>2, <3>2, People DEF ProcessInv, SchedulerFits, self
      <4>2. ThreadFits(self') /\ own[self'] \in UserProcesses
        BY <4>1, Types DEF ProcessInv
      <4>3. Attached(self')
        BY <2>1, <2>2, <3>2, <4>2, ThreadsAssumption DEF ThreadFits, self
      <4> QED
        BY <3>2, <4>2, <4>3 DEF ThreadFits, self
    <3> QED
      BY <2>2, <3>1, <3>2 DEF Frame, Reloads
  <2> QED
    BY <2>2 DEF LoadedDirExists, Frame
<1> QED
  BY <1>1, <1>3, <1>4, <1>5, <1>6 DEF FrameInv

-----------------------------------------------------------------------------
(* What is left of the invariant, one part at a time.                      *)

\* A thread in process_wait works for its process, and is the only one that does.
LEMMA WaitersWork ==
  ASSUME ProcessInv, NEW t \in UserThreads
  PROVE  /\ pc[t] \in WaitPlaces \cup ForkPlaces => Active(t)
         /\ status[t] = "TASK_WAITING" => pc[t] \in WaitPlaces
         /\ pc[t] \in HoldPlaces => status[t] # "TASK_NONE"
<1>1. ThreadFits(t)
  BY DEF ProcessInv
<1> QED
  BY <1>1, PlacesApart DEF ThreadFits, Active, Attached

LEMMA WaitStays ==
  ASSUME ProcessInv, NEW t \in UserThreads, ThreadFits(t)',
         pc'[t] \in WaitPlaces =>
           /\ pc[t] \in WaitPlaces /\ own'[t] = own[t] /\ arg'[t] = arg[t]
           /\ pcb'[own[t]].waiting_child_pid = pcb[own[t]].waiting_child_pid
           /\ status'[t] = "TASK_WAITING" =>
                /\ status[t] = "TASK_WAITING"
                /\ pcb'[own[t]].waiting_thread_node = pcb[own[t]].waiting_thread_node
                /\ pcb'[own[t]].exit_children_processes
                     \subseteq pcb[own[t]].exit_children_processes,
         pc'[t] = "wait_reap" => pc[t] = "wait_reap" /\ arg'[t] = arg[t]
  PROVE  WaitFits(t)'
<1>1. status'[t] = "TASK_WAITING" => pc'[t] \in WaitPlaces
  BY PlacesApart DEF ThreadFits
<1>0. pc'[t] = "wait_reap" => arg'[t] \in UserProcesses
  BY DEF ProcessInv, WaitFits
<1>2. CASE pc'[t] \notin WaitPlaces
  BY <1>0, <1>1, <1>2 DEF WaitFits
<1>3. CASE pc'[t] \in WaitPlaces
  <2>1. WaitFits(t)
    BY DEF ProcessInv
  <2>2. pcb'[own'[t]].waiting_child_pid = IF arg'[t] = MainProcess THEN own'[t] ELSE arg'[t]
    BY <1>3, <2>1 DEF WaitFits
  <2>3. ASSUME status'[t] = "TASK_WAITING"
        PROVE  pcb'[own'[t]].waiting_thread_node = t /\ Exited(own[t], arg[t])' = {}
    BY <1>3, <2>1, <2>3 DEF WaitFits, Exited
  <2> QED
    BY <1>0, <2>2, <2>3 DEF WaitFits
<1> QED
  BY <1>2, <1>3

LEMMA ForkStays ==
  ASSUME ProcessInv,
         \A t \in UserThreads : pc'[t] \in ForkPlaces =>
           /\ pc[t] \in ForkPlaces /\ arg'[t] = arg[t]
           /\ pcb'[arg[t]].status = pcb[arg[t]].status
           /\ pcb'[arg[t]].threads = pcb[arg[t]].threads
  PROVE  \A t \in UserThreads : ForkFits(t)'
<1> SUFFICES ASSUME NEW t \in UserThreads, pc'[t] \in ForkPlaces
             PROVE  /\ arg'[t] \in UserProcesses
                    /\ pcb'[arg'[t]].status = "PROCESS_NORMAL"
                    /\ pcb'[arg'[t]].threads = {}
                    /\ \A u \in UserThreads : Forks(u, arg[t])' => u = t
  BY DEF ForkFits
<1>1. ForkFits(t)
  BY DEF ProcessInv
<1>2. \A u \in UserThreads : Forks(u, arg[t])' => Forks(u, arg[t])
  BY DEF Forks
<1> QED
  BY <1>1, <1>2 DEF ForkFits

LEMMA ChildStays ==
  ASSUME ProcessInv, NEW c \in UserProcesses,
         c \in dead_processes' => c \in dead_processes,
         pcb[c].status = "PROCESS_EXIT" =>
           pcb'[c].status = "PROCESS_EXIT" \/ c \in dead_processes \ dead_processes',
         \A p \in UserProcesses : c \in pcb'[p].exit_children_processes =>
           c \in pcb[p].exit_children_processes /\ pcb'[c].parent = pcb[c].parent,
         \A t \in UserThreads : /\ Reaps(t, c)' => Reaps(t, c)
                                /\ Notifies(t, c)' => Notifies(t, c)
  PROVE  ChildFits(c)'
<1>1. ChildFits(c)
  BY DEF ProcessInv
<1>2. ASSUME NEW p \in UserProcesses
      PROVE  ListedFits(c, p)'
  BY <1>1, <1>2 DEF ChildFits, ListedFits
<1>3. ASSUME NEW t \in UserThreads
      PROVE  ReapFits(t, c)'
  <2>1. ReapFits(t, c)
    BY <1>1 DEF ChildFits
  <2> QED
    BY <2>1 DEF ReapFits
<1>4. ASSUME NEW t \in UserThreads
      PROVE  NotifyFits(t, c)'
  <2>1. NotifyFits(t, c)
    BY <1>1 DEF ChildFits
  <2> QED
    BY <2>1 DEF NotifyFits
<1>5. c \in dead_processes' => pcb'[c].status = "PROCESS_EXIT"
  BY <1>1 DEF ChildFits
<1> QED
  BY <1>2, <1>3, <1>4, <1>5 DEF ChildFits

\* A step that leaves the scheduler alone, for the lemmas about its calls.
LEMMA StillFates ==
  ASSUME ProcessInv, UNCHANGED schedVars
  PROVE  SchedInv' /\ Steady' /\ Fates /\ Reloads /\ self' = self
<1>1. SchedInv'
  <2>1. [SchedNext]_schedVars
    OBVIOUS
  <2> QED
    BY <2>1, Types, SchedNextInv
<1>2. Steady' /\ Fates /\ Reloads /\ self' = self
  BY Types DEF schedVars, Steady, Fates, Reloads, self
<1> QED
  BY <1>1, <1>2

LEMMA FatesFrame ==
  ASSUME ProcessInv, SchedInv', Steady', Fates, Reloads,
         own' = own, dead_tasks' = dead_tasks,
         \A q \in UserProcesses : pcb[q].status # "PROCESS_NONE" =>
           pcb'[q].status = pcb[q].status /\ pcb'[q].threads = pcb[q].threads
  PROVE  Frame
<1>1. \A u \in UserThreads : self' = u /\ status[u] = "TASK_WAITING" => self = u
  BY People DEF Fates, self
<1>2. \A u \in Threads : \A s \in {"TASK_NONE", "TASK_WAITING", "TASK_DEAD"} :
        status'[u] = s <=> status[u] = s
  BY DEF Fates
<1> QED
  BY <1>1, <1>2 DEF Frame

\* The processor goes to another thread, or the timer only counts.
LEMMA IdleStep ==
  ASSUME ProcessInv, SchedInv', Steady', Fates, Reloads,
         UNCHANGED <<pcb, deadVars, pc, own, arg>>
  PROVE  ProcessInv'
<1>0. /\ pcb' = pcb /\ dead_tasks' = dead_tasks /\ dead_processes' = dead_processes
      /\ pc' = pc /\ own' = own /\ arg' = arg
  BY DEF deadVars
<1>1. Frame
  BY <1>0, FatesFrame
<1>2. \A u \in UserThreads : \A s \in {"TASK_NONE", "TASK_WAITING", "TASK_DEAD"} :
        status'[u] = s <=> status[u] = s
  BY <1>1, People DEF Frame
<1>3. ProcessTypeOK'
  BY <1>0 DEF ProcessInv, ProcessTypeOK
<1>4. SchedulerFits'
  BY DEF Reloads, ProcessInv, SchedulerFits
<1>5. \A t \in UserThreads : Attached(t)' <=> Attached(t)
  BY <1>0, <1>2 DEF Attached
<1>6. ASSUME NEW t \in UserThreads
      PROVE  ThreadFits(t)'
  <2>1. ThreadFits(t) /\ process'[t] = process[t]
    BY DEF ProcessInv, Reloads
  <2>2. status'[t] = "TASK_WAITING" =>
          pc'[t] \in SleepPlaces /\ (t = self' => pc'[t] # "wait_relock")
    BY <1>0, <1>1, <1>2, <2>1 DEF ThreadFits, Frame
  <2>3. /\ status'[t] = "TASK_NONE" => pc'[t] \in {"user"} \cup DeadPlaces
        /\ status'[t] = "TASK_DEAD" => pc'[t] \in DeadPlaces
        /\ pc'[t] \in DeadPlaces => status'[t] \in {"TASK_DEAD", "TASK_NONE"}
        /\ t \in dead_tasks' => status'[t] = "TASK_DEAD"
    BY <1>0, <1>2, <2>1 DEF ThreadFits
  <2>4. /\ Attached(t)' => /\ process'[t] = own'[t]
                           /\ t \in pcb'[own'[t]].threads
                           /\ pcb'[own'[t]].status = "PROCESS_NORMAL"
        /\ ~Attached(t)' => process'[t] \in {NoProcess, MainProcess}
    BY <1>0, <1>5, <2>1 DEF ThreadFits
  <2> QED
    BY <2>2, <2>3, <2>4 DEF ThreadFits
<1>7. \A t \in UserThreads : WaitFits(t)'
  BY <1>0, <1>2 DEF ProcessInv, WaitFits, Exited
<1>8. \A t \in UserThreads : ForkFits(t)'
  BY <1>0 DEF ProcessInv, ForkFits, Forks
<1>9. InitFits'
  BY <1>0, <1>2 DEF ProcessInv, InitFits
<1>10. OneActive'
  BY <1>0, <1>5 DEF ProcessInv, OneActive, Active
<1>11. LockFits'
  BY <1>0 DEF ProcessInv, LockFits, Holds
<1>12. \A c \in UserProcesses : ChildFits(c)'
  <2>1. \A c \in UserProcesses : \A t \in UserThreads :
          /\ Reaps(t, c)' => Reaps(t, c)
          /\ Notifies(t, c)' => Notifies(t, c)
    BY <1>0 DEF Reaps, Notifies
  <2> QED
    BY <1>0, <2>1, ChildStays
<1>13. LoadedDirExists'
  <2>1. self' \in Threads /\ page_directory' \in Processes
    BY DEF SchedInv, SchedTypeOK, self
  <2>2. CASE page_directory' \in {page_directory, MainProcess}
    BY <1>0, <2>2 DEF ProcessInv, LoadedDirExists
  <2>3. CASE page_directory' = process[crt_thread_node'] /\ page_directory' # MainProcess
    <3>1. self' \in UserThreads
      BY <2>1, <2>3, People DEF ProcessInv, SchedulerFits, self
    <3>2. ThreadFits(self')
      BY <3>1 DEF ProcessInv
    <3>3. Attached(self')
      BY <2>1, <2>3, <3>2, ThreadsAssumption DEF ThreadFits, self
    <3> QED
      BY <1>0, <2>3, <3>2, <3>3 DEF ThreadFits, self, LoadedDirExists
  <2> QED
    BY <2>2, <2>3 DEF Reloads
<1> QED
  BY <1>3, <1>4, <1>6, <1>7, <1>8, <1>9, <1>10, <1>11, <1>12, <1>13 DEF ProcessInv

LEMMA Together ==
  ASSUME ProcessTypeOK', FrameInv', LockFits',
         \A t \in UserThreads : WaitFits(t)',
         \A t \in UserThreads : ForkFits(t)',
         \A c \in UserProcesses : ChildFits(c)'
  PROVE  ProcessInv'
BY DEF ProcessInv, FrameInv

-----------------------------------------------------------------------------
(* A thread goes on and leaves the tables of processes alone.              *)

LEMMA PlainTurn ==
  ASSUME ProcessInv, NEW l, NEW m, Goto(l, m),
         SchedInv', Steady', Fates, Reloads,
         UNCHANGED <<pcb, deadVars, own>>,
         arg' \in [UserThreads -> Processes],
         \A u \in UserThreads : u # self => arg'[u] = arg[u],
         Turn(l, m),
         m \in WaitPlaces => l \in WaitPlaces /\ arg'[self] = arg[self],
         l \in HoldPlaces <=> m \in HoldPlaces,
         m \notin ForkPlaces, m # "wait_reap", m # "exit_notify"
  PROVE  ProcessInv'
<1>0. /\ pcb' = pcb /\ dead_tasks' = dead_tasks /\ dead_processes' = dead_processes
      /\ own' = own
  BY DEF deadVars
<1>1. /\ self \in UserThreads /\ pc[self] = l /\ pc'[self] = m
      /\ \A u \in UserThreads : u # self => pc'[u] = pc[u]
      /\ pc' \in [UserThreads -> Places]
  BY GotoMoves DEF Turn
<1>2. Frame
  BY <1>0, FatesFrame
<1>3. FrameInv'
  BY <1>1, <1>2, FrameKeeps
<1>4. ProcessTypeOK'
  BY <1>0, <1>1 DEF ProcessInv, ProcessTypeOK
<1>5. ASSUME NEW t \in UserThreads
      PROVE  WaitFits(t)'
  <2>1. ThreadFits(t)'
    BY <1>3 DEF FrameInv
  <2>2. status'[t] = "TASK_WAITING" => status[t] = "TASK_WAITING"
    BY <1>2, People DEF Frame
  <2>3. pc'[t] \in WaitPlaces => pc[t] \in WaitPlaces /\ arg'[t] = arg[t]
    BY <1>1
  <2>4. pc'[t] = "wait_reap" => pc[t] = "wait_reap" /\ arg'[t] = arg[t]
    BY <1>1
  <2> QED
    BY <1>0, <2>1, <2>2, <2>3, <2>4, WaitStays
<1>6. \A t \in UserThreads : ForkFits(t)'
  <2>1. \A t \in UserThreads : pc'[t] \in ForkPlaces =>
          pc[t] \in ForkPlaces /\ arg'[t] = arg[t]
    BY <1>1
  <2> QED
    BY <1>0, <2>1, ForkStays
<1>7. LockFits'
  <2>1. \A t \in UserThreads, p \in UserProcesses : Holds(t, p)' <=> Holds(t, p)
    BY <1>0, <1>1 DEF Holds
  <2> QED
    BY <1>0, <2>1 DEF ProcessInv, LockFits
<1>8. \A c \in UserProcesses : ChildFits(c)'
  <2>1. \A c \in UserProcesses : \A t \in UserThreads :
          /\ Reaps(t, c)' => Reaps(t, c)
          /\ Notifies(t, c)' => Notifies(t, c)
    BY <1>0, <1>1 DEF Reaps, Notifies
  <2> QED
    BY <1>0, <2>1, ChildStays
<1> QED
  BY <1>3, <1>4, <1>5, <1>6, <1>7, <1>8, Together

\* Steps that call nothing of the scheduler and end outside process_wait.
LEMMA CallTurn ==
  ASSUME ProcessInv, NEW l, NEW m, Goto(l, m), UNCHANGED <<schedVars, pcb, deadVars, own>>,
         arg' \in [UserThreads -> Processes],
         \A u \in UserThreads : u # self => arg'[u] = arg[u],
         l \in {"user", "wait_lock", "fork_thread", "exec_start", "exit_lock"},
         m \in {"user", "wait_lock", "exec_start", "exit_lock", "exit_detach"},
         m = "exit_lock" => own[self] # InitProcess
  PROVE  ProcessInv' /\ UNCHANGED schedVars
<1>1. SchedInv' /\ Steady' /\ Fates /\ Reloads /\ self' = self
  BY StillFates
<1>2. /\ m \notin WaitPlaces /\ m \notin HoldPlaces /\ m \notin ForkPlaces
      /\ m \notin LeftPlaces /\ m \notin DeadPlaces /\ m \in Places
      /\ m # "wait_reap" /\ m # "exit_notify"
      /\ l \notin HoldPlaces /\ l \notin LeftPlaces /\ l \notin DeadPlaces
      /\ l \notin SleepPlaces /\ l # "exit_detach"
  BY DEF WaitPlaces, HoldPlaces, SleepPlaces, ForkPlaces, LeftPlaces, DeadPlaces, Places
<1>3. self \in UserThreads /\ pc[self] = l
  BY GotoMoves
<1>4. status[self] = "TASK_RUNNING"
  BY <1>2, <1>3, UserRuns
<1>5. Turn(l, m)
  BY <1>2, <1>4 DEF Turn
<1>6. UNCHANGED <<pcb, deadVars, own>> /\ UNCHANGED schedVars
  OBVIOUS
<1> QED
  BY <1>1, <1>2, <1>5, <1>6, PlainTurn

LEMMA PlainCalls ==
  ASSUME ProcessInv,
         \/ \E pid \in Processes : WaitCall(pid)
         \/ ExitCall
         \/ ThreadExitCall
         \/ ExecCall
         \/ ExecLoadFails
  PROVE  ProcessInv' /\ UNCHANGED schedVars
<1>0. arg \in [UserThreads -> Processes]
  BY Types
<1>1. ASSUME NEW pid \in Processes, WaitCall(pid)
      PROVE  ProcessInv' /\ UNCHANGED schedVars
  <2>1. /\ Goto("user", "wait_lock") /\ UNCHANGED <<schedVars, pcb, deadVars, own>>
        /\ arg' = [arg EXCEPT ![self] = pid]
    BY <1>1 DEF WaitCall
  <2> QED
    BY <1>0, <2>1, CallTurn
<1>2. CASE ExitCall
  <2>1. /\ Goto("user", "exit_lock") /\ UNCHANGED <<schedVars, pcb, deadVars, own>>
        /\ arg' = arg /\ own[self] # InitProcess
    BY <1>2 DEF ExitCall, crt_process
  <2> QED
    BY <1>0, <2>1, CallTurn
<1>3. CASE ThreadExitCall
  <2>1. /\ Goto("user", "exit_detach") /\ UNCHANGED <<schedVars, pcb, deadVars, own>>
        /\ arg' = arg
    BY <1>3 DEF ThreadExitCall
  <2> QED
    BY <1>0, <2>1, CallTurn
<1>4. CASE ExecCall
  <2>1. /\ Goto("user", "exec_start") /\ UNCHANGED <<schedVars, pcb, deadVars, own>>
        /\ arg' = arg
    BY <1>4 DEF ExecCall
  <2> QED
    BY <1>0, <2>1, CallTurn
<1>5. CASE ExecLoadFails
  <2>1. /\ Goto("exec_start", "exit_lock") /\ UNCHANGED <<schedVars, pcb, deadVars, own>>
        /\ arg' = arg /\ own[self] # InitProcess
    BY <1>5 DEF ExecLoadFails, crt_process
  <2> QED
    BY <1>0, <2>1, CallTurn
<1> QED
  BY <1>1, <1>2, <1>3, <1>4, <1>5

\* The processor is given away: in process_wait, and for good.
LEMMA WaitSleepStep ==
  ASSUME ProcessInv, WaitSleep
  PROVE  ProcessInv' /\ SchedNext
<1>1. /\ Goto("wait_sleep", "wait_relock") /\ schedule_thread_yield
      /\ UNCHANGED <<pcb, deadVars, own>> /\ arg' = arg
  BY DEF WaitSleep
<1>2. /\ SchedInv' /\ Steady' /\ Fates /\ Reloads
      /\ crt_thread_node' # MainThread => crt_thread_node' # crt_thread_node
  BY <1>1, Types, YieldFates
<1>3. /\ "wait_relock" \in WaitPlaces /\ "wait_relock" \in SleepPlaces
      /\ "wait_relock" \in Places /\ "wait_relock" \notin HoldPlaces
      /\ "wait_relock" \notin ForkPlaces /\ "wait_relock" \notin LeftPlaces
      /\ "wait_relock" \notin DeadPlaces /\ "wait_sleep" \in WaitPlaces
      /\ "wait_sleep" \notin HoldPlaces /\ "wait_sleep" \notin LeftPlaces
      /\ "wait_sleep" \notin DeadPlaces
  BY DEF WaitPlaces, HoldPlaces, SleepPlaces, ForkPlaces, LeftPlaces, DeadPlaces, Places
<1>4. self \in UserThreads
  BY <1>1, GotoMoves
<1>5. self' # self
  BY <1>2, <1>4, People DEF self
<1>6. Turn("wait_sleep", "wait_relock")
  BY <1>3, <1>5 DEF Turn
<1>7. ProcessInv'
  BY <1>1, <1>2, <1>3, <1>6, Types, PlainTurn
<1>8. YieldThread
  BY <1>1, Types DEF YieldThread, Steady, self
<1> QED
  BY <1>7, <1>8 DEF SchedNext

LEMMA ExitSwitchStep ==
  ASSUME ProcessInv, ExitSwitch
  PROVE  ProcessInv' /\ SchedNext
<1>1. /\ Goto("exit_switch", "gone") /\ exit_context_switch
      /\ UNCHANGED <<pcb, deadVars, own>> /\ arg' = arg
  BY DEF ExitSwitch
<1>2. SchedInv' /\ Steady' /\ Fates /\ Reloads
  BY <1>1, Types, ExitFates
<1>3. /\ "gone" \notin WaitPlaces /\ "gone" \notin HoldPlaces /\ "gone" \notin ForkPlaces
      /\ "gone" \in LeftPlaces /\ "gone" \in DeadPlaces /\ "gone" \in Places
      /\ "exit_switch" \in LeftPlaces /\ "exit_switch" \in DeadPlaces
      /\ "exit_switch" \notin HoldPlaces
  BY DEF WaitPlaces, HoldPlaces, SleepPlaces, ForkPlaces, LeftPlaces, DeadPlaces, Places
<1>4. self \in UserThreads /\ pc[self] = "exit_switch"
  BY <1>1, GotoMoves
<1>5. status[self] = "TASK_DEAD"
  BY <1>3, <1>4, UserRuns
<1>6. Turn("exit_switch", "gone")
  BY <1>3, <1>5 DEF Turn
<1>7. ProcessInv'
  BY <1>1, <1>2, <1>3, <1>6, Types, PlainTurn
<1>8. ExitThread
  BY <1>1, <1>5 DEF ExitThread, exit_context_switch, do_context_switch, self
<1> QED
  BY <1>7, <1>8 DEF SchedNext

-----------------------------------------------------------------------------
(* A thread changes what its process has told the others.                  *)

LEMMA OwnTurn ==
  ASSUME ProcessInv, NEW l, NEW m, NEW p, Goto(l, m), p = own[self],
         UNCHANGED <<schedVars, deadVars, own>>, ProcessTypeOK',
         \A q \in UserProcesses : q # p => pcb'[q] = pcb[q],
         /\ pcb'[p].status = pcb[p].status /\ pcb'[p].threads = pcb[p].threads
         /\ pcb'[p].parent = pcb[p].parent
         /\ pcb'[p].exit_children_processes \subseteq pcb[p].exit_children_processes,
         \A u \in UserThreads : u # self => arg'[u] = arg[u],
         Turn(l, m), l \notin LeftPlaces, l # "exit_detach", m # "exit_notify",
         m \in HoldPlaces <=> pcb'[p].lock,
         \A t \in UserThreads : t = self => WaitFits(t)',
         m \in ForkPlaces => l \in ForkPlaces /\ arg'[self] = arg[self],
         m = "wait_reap" =>
           arg'[self] \in pcb[p].exit_children_processes \ pcb'[p].exit_children_processes
  PROVE  ProcessInv' /\ UNCHANGED schedVars
<1>0. /\ dead_tasks' = dead_tasks /\ dead_processes' = dead_processes
      /\ own' = own /\ UNCHANGED schedVars
  BY DEF deadVars
<1>1. /\ self \in UserThreads /\ pc[self] = l /\ pc'[self] = m
      /\ \A u \in UserThreads : u # self => pc'[u] = pc[u]
  BY GotoMoves
<1>2. p \in UserProcesses /\ Active(self)
  BY <1>1, UserRuns DEF Active
<1>3. Frame
  <2>1. SchedInv' /\ Steady' /\ Fates /\ Reloads
    BY <1>0, StillFates
  <2> QED
    BY <1>0, <2>1, FatesFrame
<1>4. FrameInv'
  BY <1>1, <1>3, FrameKeeps
<1>5. \A u \in UserThreads : u # self /\ pc[u] \in WaitPlaces => own[u] # p
  BY <1>1, <1>2, WaitersWork DEF ProcessInv, OneActive
<1>6. ASSUME NEW t \in UserThreads
      PROVE  WaitFits(t)'
  <2>1. CASE t = self
    BY <2>1
  <2>2. CASE t # self
    <3>1. ThreadFits(t)'
      BY <1>4 DEF FrameInv
    <3>2. status'[t] = "TASK_WAITING" => status[t] = "TASK_WAITING"
      BY <1>0 DEF schedVars
    <3>3. /\ own'[t] = own[t] /\ arg'[t] = arg[t] /\ pc'[t] = pc[t]
          /\ own[t] \in UserProcesses
      BY <1>0, <1>1, <2>2, Types
    <3>4. pc[t] \in WaitPlaces => pcb'[own[t]] = pcb[own[t]]
      BY <1>5, <2>2, <3>3
    <3> QED
      BY <3>1, <3>2, <3>3, <3>4, WaitStays
  <2> QED
    BY <2>1, <2>2
<1>7. \A t \in UserThreads : ForkFits(t)'
  <2>1. ASSUME NEW t \in UserThreads, pc'[t] \in ForkPlaces
        PROVE  /\ pc[t] \in ForkPlaces /\ arg'[t] = arg[t]
               /\ pcb'[arg[t]].status = pcb[arg[t]].status
               /\ pcb'[arg[t]].threads = pcb[arg[t]].threads
    <3>1. pc[t] \in ForkPlaces /\ arg'[t] = arg[t]
      BY <1>1, <2>1
    <3>2. arg[t] \in UserProcesses
      BY <3>1 DEF ProcessInv, ForkFits
    <3> QED
      BY <3>1, <3>2
  <2> QED
    BY <2>1, ForkStays
<1>8. LockFits'
  <2>1. ASSUME NEW q \in UserProcesses, q # p
        PROVE  pcb'[q].lock <=> \E t \in UserThreads : Holds(t, q)'
    <3>1. \A t \in UserThreads : Holds(t, q)' <=> Holds(t, q)
      BY <1>0, <1>1, <2>1 DEF Holds
    <3>2. pcb[q].lock <=> \E t \in UserThreads : Holds(t, q)
      BY DEF ProcessInv, LockFits
    <3> QED
      BY <2>1, <3>1, <3>2
  <2>2. pcb'[p].lock => \E t \in UserThreads : Holds(t, p)'
    BY <1>0, <1>1 DEF Holds
  <2>3. ASSUME NEW t \in UserThreads, Holds(t, p)'
        PROVE  pcb'[p].lock
    <3>1. pc'[t] \in HoldPlaces /\ own[t] = p
      BY <1>0, <2>3 DEF Holds
    <3>2. t = self
      BY <1>1, <1>5, <3>1, PlacesApart
    <3> QED
      BY <1>1, <3>1, <3>2
  <2> QED
    BY <2>1, <2>2, <2>3 DEF LockFits
<1>9. ASSUME NEW c \in UserProcesses
      PROVE  ChildFits(c)'
  <2>1. /\ \A t \in UserThreads : Notifies(t, c)' => Notifies(t, c)
        /\ pcb'[c].status = pcb[c].status /\ pcb'[c].parent = pcb[c].parent
        /\ \A q \in UserProcesses :
             c \in pcb'[q].exit_children_processes => c \in pcb[q].exit_children_processes
    BY <1>0, <1>1 DEF Notifies
  <2>2. CASE m = "wait_reap" /\ arg'[self] = c
    <3>1. ChildFits(c) /\ c \in pcb[p].exit_children_processes
      BY <2>2 DEF ProcessInv
    <3>2. pcb[c].parent = p /\ pcb[c].status = "PROCESS_EXIT" /\ c \notin dead_processes
      BY <1>2, <3>1 DEF ChildFits, ListedFits
    <3>3. \A q \in UserProcesses : c \notin pcb'[q].exit_children_processes
      <4>1. \A q \in UserProcesses : c \in pcb[q].exit_children_processes => q = p
        BY <3>1, <3>2 DEF ChildFits, ListedFits
      <4> QED
        BY <2>1, <2>2, <4>1
    <3>4. \A t \in UserThreads : ~Reaps(t, c) /\ ~Notifies(t, c)
      BY <1>2, <3>1 DEF ChildFits, ReapFits, NotifyFits
    <3>5. \A t \in UserThreads : Reaps(t, c)' => t = self
      BY <1>1, <3>4 DEF Reaps
    <3>6. \A t \in UserThreads : ReapFits(t, c)' /\ NotifyFits(t, c)'
      BY <1>0, <2>1, <3>2, <3>3, <3>4, <3>5 DEF ReapFits, NotifyFits
    <3> QED
      BY <1>0, <3>2, <3>3, <3>6 DEF ChildFits, ListedFits
  <2>3. CASE ~(m = "wait_reap" /\ arg'[self] = c)
    <3>1. \A t \in UserThreads : Reaps(t, c)' => Reaps(t, c)
      BY <1>1, <2>3 DEF Reaps
    <3> QED
      BY <1>0, <2>1, <3>1, ChildStays
  <2> QED
    BY <2>2, <2>3
<1> QED
  BY <1>0, <1>4, <1>6, <1>7, <1>8, <1>9, Together

\* add_child_process
LEMMA ForkAddChildStep ==
  ASSUME ProcessInv, ForkAddChild
  PROVE  ProcessInv' /\ UNCHANGED schedVars
<1> DEFINE p == own[self]
<1>1. /\ Goto("fork_child", "fork_thread") /\ ~pcb[p].lock
      /\ pcb' = [pcb EXCEPT ![p].children_processes = @ \cup {arg[self]}]
      /\ UNCHANGED <<schedVars, deadVars, own>> /\ arg' = arg
  BY DEF ForkAddChild, crt_process
<1>2. /\ {"fork_child", "fork_thread"} \subseteq ForkPlaces
      /\ {"fork_child", "fork_thread"} \subseteq Places
      /\ \A l \in {"fork_child", "fork_thread"} :
           l \notin LeftPlaces \cup DeadPlaces \cup WaitPlaces \cup HoldPlaces \cup SleepPlaces
  BY DEF ForkPlaces, LeftPlaces, DeadPlaces, WaitPlaces, HoldPlaces, SleepPlaces, Places
<1>3. self \in UserThreads /\ pc[self] = "fork_child" /\ pc'[self] = "fork_thread"
        /\ pc' \in [UserThreads -> Places]
  BY <1>1, <1>2, GotoMoves
<1>4. p \in UserProcesses /\ status[self] = "TASK_RUNNING" /\ arg[self] \in UserProcesses
  BY <1>2, <1>3, UserRuns DEF ProcessInv, ForkFits
<1> HIDE DEF p
<1>5. pcb' \in [UserProcesses -> Pcb]
  BY <1>1, <1>4, Types DEF Pcb
<1>6. /\ \A q \in UserProcesses : q # p => pcb'[q] = pcb[q]
      /\ \A q \in UserProcesses : pcb'[q].threads = pcb[q].threads
      /\ pcb'[p].status = pcb[p].status
      /\ pcb'[p].parent = pcb[p].parent /\ pcb'[p].lock = pcb[p].lock
      /\ pcb'[p].exit_children_processes = pcb[p].exit_children_processes
  BY <1>1, <1>4, Types DEF Pcb
<1>7. ProcessTypeOK'
  BY <1>1, <1>3, <1>5, <1>6 DEF ProcessInv, ProcessTypeOK, deadVars
<1>8. Turn("fork_child", "fork_thread")
  BY <1>2, <1>4 DEF Turn
<1>9. \A t \in UserThreads : t = self => WaitFits(t)'
  <2>1. status'[self] = "TASK_RUNNING"
    BY <1>1, <1>4 DEF schedVars
  <2> QED
    BY <1>2, <1>3, <2>1 DEF WaitFits
<1> QED
  BY <1>1, <1>2, <1>6, <1>7, <1>8, <1>9, OwnTurn DEF p

\* The fields of a pcb_t one at a time.
LEMMA PcbTypes ==
  ASSUME NEW r \in Pcb, NEW b \in BOOLEAN
  PROVE  /\ \A v \in Processes : [r EXCEPT !.lock = b, !.waiting_child_pid = v] \in Pcb
         /\ \A c : [r EXCEPT !.exit_children_processes = @ \ {c}, !.lock = b] \in Pcb
         /\ [r EXCEPT !.status = "PROCESS_EXIT", !.threads = {},
                      !.exit_children_processes = {}] \in Pcb
<1>1. \A v \in Processes : [r EXCEPT !.lock = b, !.waiting_child_pid = v] \in Pcb
  BY DEF Pcb
<1>2. \A c : [r EXCEPT !.exit_children_processes = @ \ {c}, !.lock = b] \in Pcb
  BY DEF Pcb
<1>3. [r EXCEPT !.status = "PROCESS_EXIT", !.threads = {},
                !.exit_children_processes = {}] \in Pcb
  BY DEF Pcb
<1> QED
  BY <1>1, <1>2, <1>3

\* process_wait takes the lock of the process and tells the children what it waits for.
LEMMA WaitLockStep ==
  ASSUME ProcessInv, WaitLock
  PROVE  ProcessInv' /\ UNCHANGED schedVars
<1> DEFINE p == own[self]
           pid == arg[self]
           unknown == pid # MainProcess /\ pid \notin pcb[p].children_processes
<1>1. CASE unknown /\ Goto("wait_lock", "user")
             /\ arg' = [arg EXCEPT ![self] = MainProcess] /\ pcb' = pcb
  <2>1. UNCHANGED <<schedVars, pcb, deadVars, own>>
    BY <1>1 DEF WaitLock
  <2>2. /\ arg' \in [UserThreads -> Processes]
        /\ \A u \in UserThreads : u # self => arg'[u] = arg[u]
    BY <1>1, Types, People
  <2> QED
    BY <1>1, <2>1, <2>2, CallTurn
<1>2. CASE /\ Goto("wait_lock", "wait_find") /\ arg' = arg
           /\ pcb' = [pcb EXCEPT ![p].lock = TRUE,
                        ![p].waiting_child_pid = IF pid = MainProcess THEN p ELSE pid]
  <2>1. UNCHANGED <<schedVars, deadVars, own>>
    BY DEF WaitLock
  <2>2. /\ "wait_find" \in HoldPlaces /\ "wait_find" \in WaitPlaces /\ "wait_find" \in Places
        /\ "wait_find" \notin LeftPlaces /\ "wait_find" \notin DeadPlaces
        /\ "wait_find" \notin ForkPlaces /\ "wait_lock" \notin LeftPlaces
        /\ "wait_lock" \notin DeadPlaces /\ "wait_lock" \notin SleepPlaces
    BY DEF ForkPlaces, LeftPlaces, DeadPlaces, WaitPlaces, HoldPlaces, SleepPlaces, Places
  <2>3. /\ self \in UserThreads /\ pc[self] = "wait_lock" /\ pc'[self] = "wait_find"
        /\ pc' \in [UserThreads -> Places]
    BY <1>2, <2>2, GotoMoves
  <2>4. p \in UserProcesses /\ status[self] = "TASK_RUNNING" /\ pid \in Processes
    BY <2>2, <2>3, UserRuns, Types
  <2> HIDE DEF p
  <2>5. pcb' \in [UserProcesses -> Pcb]
    <3>1. \A v \in Processes : [pcb[p] EXCEPT !.lock = TRUE, !.waiting_child_pid = v] \in Pcb
      BY <2>4, Types, PcbTypes
    <3>2. p \in Processes
      BY <2>4, People
    <3> QED
      BY <1>2, <2>4, <3>1, <3>2, Types
  <2>6. /\ \A q \in UserProcesses : q # p => pcb'[q] = pcb[q]
        /\ \A q \in UserProcesses : pcb'[q].threads = pcb[q].threads
        /\ pcb'[p].status = pcb[p].status
        /\ pcb'[p].parent = pcb[p].parent
        /\ pcb'[p].exit_children_processes = pcb[p].exit_children_processes
        /\ pcb'[p].waiting_child_pid = IF pid = MainProcess THEN p ELSE pid
    BY <1>2, <2>4, Types DEF Pcb
  <2>7. ProcessTypeOK'
    BY <1>2, <2>1, <2>3, <2>5, <2>6 DEF ProcessInv, ProcessTypeOK, deadVars
  <2>8. Turn("wait_lock", "wait_find")
    BY <2>2, <2>4 DEF Turn
  <2>9. \A t \in UserThreads : t = self => WaitFits(t)'
    <3>1. status'[self] = "TASK_RUNNING" /\ own' = own
      BY <2>1, <2>4 DEF schedVars
    <3> QED
      BY <1>2, <2>3, <2>6, <3>1 DEF WaitFits, p
  <2>10. "wait_find" \in HoldPlaces <=> pcb'[p].lock
    BY <1>2, <2>2, <2>4, Types DEF Pcb
  <2>11. Goto("wait_lock", "wait_find") /\ arg' = arg
    BY <1>2
  <2> QED
    BY <2>1, <2>2, <2>4, <2>6, <2>7, <2>8, <2>9, <2>10, <2>11, OwnTurn DEF p
<1> QED
  BY <1>1, <1>2 DEF WaitLock, crt_process

\* It finds an exited child: nobody else will.
LEMMA WaitFoundStep ==
  ASSUME ProcessInv, WaitFound
  PROVE  ProcessInv' /\ UNCHANGED schedVars
<1> DEFINE p == own[self]
<1>1. /\ Goto("wait_find", "wait_reap")
      /\ UNCHANGED <<schedVars, deadVars, own>>
  BY DEF WaitFound
<1>2. PICK c \in Exited(p, arg[self]) :
        /\ pcb' = [pcb EXCEPT ![p].exit_children_processes = @ \ {c}, ![p].lock = FALSE]
        /\ arg' = [arg EXCEPT ![self] = c]
  BY DEF WaitFound, crt_process
<1>3. /\ "wait_find" \notin SleepPlaces /\ "wait_reap" \in Places
      /\ "wait_find" \notin LeftPlaces /\ "wait_find" \notin DeadPlaces
      /\ "wait_reap" \notin LeftPlaces /\ "wait_reap" \notin DeadPlaces
      /\ "wait_reap" \notin WaitPlaces /\ "wait_reap" \notin HoldPlaces
      /\ "wait_reap" \notin ForkPlaces
  BY DEF ForkPlaces, LeftPlaces, DeadPlaces, WaitPlaces, HoldPlaces, SleepPlaces, Places
<1>4. /\ self \in UserThreads /\ pc[self] = "wait_find" /\ pc'[self] = "wait_reap"
      /\ pc' \in [UserThreads -> Places]
  BY <1>1, <1>3, GotoMoves
<1>5. p \in UserProcesses /\ status[self] = "TASK_RUNNING"
  BY <1>3, <1>4, UserRuns
<1>6. c \in pcb[p].exit_children_processes
  BY DEF Exited
<1> HIDE DEF p
<1>7. c \in UserProcesses
  BY <1>5, <1>6, Types DEF Pcb
<1>8. pcb' \in [UserProcesses -> Pcb]
  <2>1. [pcb[p] EXCEPT !.exit_children_processes = @ \ {c}, !.lock = FALSE] \in Pcb
    BY <1>5, Types, PcbTypes
  <2> QED
    BY <1>2, <1>5, <2>1, Types
<1>9. /\ \A q \in UserProcesses : q # p => pcb'[q] = pcb[q]
      /\ \A q \in UserProcesses : pcb'[q].threads = pcb[q].threads
      /\ pcb'[p].status = pcb[p].status
      /\ pcb'[p].parent = pcb[p].parent
      /\ pcb'[p].exit_children_processes = pcb[p].exit_children_processes \ {c}
  BY <1>2, <1>5, Types DEF Pcb
<1>10. /\ arg' \in [UserThreads -> Processes] /\ arg'[self] = c
       /\ \A u \in UserThreads : u # self => arg'[u] = arg[u]
  BY <1>2, <1>4, <1>7, Types, People
<1>11. ProcessTypeOK'
  BY <1>1, <1>4, <1>8, <1>9, <1>10 DEF ProcessInv, ProcessTypeOK, deadVars
<1>12. Turn("wait_find", "wait_reap")
  BY <1>3, <1>5 DEF Turn
<1>13. \A t \in UserThreads : t = self => WaitFits(t)'
  <2>1. status'[self] = "TASK_RUNNING"
    BY <1>1, <1>5 DEF schedVars
  <2> QED
    BY <1>3, <1>4, <1>7, <1>10, <2>1 DEF WaitFits
<1>14. "wait_reap" \in HoldPlaces <=> pcb'[p].lock
  BY <1>2, <1>3, <1>5, Types DEF Pcb
<1>15. /\ pcb'[p].exit_children_processes \subseteq pcb[p].exit_children_processes
       /\ arg'[self] \in pcb[p].exit_children_processes \ pcb'[p].exit_children_processes
  BY <1>6, <1>9, <1>10
<1> QED
  BY <1>1, <1>3, <1>5, <1>9, <1>10, <1>11, <1>12, <1>13, <1>14, <1>15, OwnTurn DEF p

\* It gives the lock back after it has blocked, and takes it again when it has been woken up.
LEMMA WaitLoopStep ==
  ASSUME ProcessInv, WaitRelease \/ WaitRelock
  PROVE  ProcessInv' /\ UNCHANGED schedVars
<1> DEFINE p == own[self]
<1>1. PICK l, m, b :
        /\ \/ l = "wait_release" /\ m = "wait_sleep" /\ b = FALSE
           \/ l = "wait_relock" /\ m = "wait_find" /\ b = TRUE
        /\ Goto(l, m)
        /\ pcb' = [pcb EXCEPT ![p].lock = b]
        /\ UNCHANGED <<schedVars, deadVars, own>> /\ arg' = arg
  BY DEF WaitRelease, WaitRelock, crt_process
<1>2. /\ l \in WaitPlaces /\ m \in WaitPlaces /\ m \in Places
      /\ l \notin LeftPlaces /\ l \notin DeadPlaces /\ l # "exit_detach"
      /\ m \notin LeftPlaces /\ m \notin DeadPlaces /\ m \notin ForkPlaces
      /\ m \in HoldPlaces <=> b
      /\ l # "wait_relock" => m \in SleepPlaces /\ m # "wait_relock"
      /\ m # "exit_notify" /\ m # "wait_reap" /\ m # "exit_lock"
  BY <1>1 DEF ForkPlaces, LeftPlaces, DeadPlaces, WaitPlaces, HoldPlaces, SleepPlaces, Places
<1>3. /\ self \in UserThreads /\ pc[self] = l /\ pc'[self] = m
      /\ pc' \in [UserThreads -> Places]
  BY <1>1, <1>2, GotoMoves
<1>4. p \in UserProcesses
  BY <1>3, UserRuns
<1>5. ThreadFits(self) /\ WaitFits(self)
  BY <1>3 DEF ProcessInv
<1>6. status[self] = "TASK_WAITING" => l # "wait_relock"
  BY <1>3, <1>5 DEF ThreadFits
<1> HIDE DEF p
<1>7. pcb' \in [UserProcesses -> Pcb]
  <2>1. b \in BOOLEAN
    BY <1>1
  <2> QED
    BY <1>1, <1>4, <2>1, Types DEF Pcb
<1>8. /\ \A q \in UserProcesses : q # p => pcb'[q] = pcb[q]
      /\ \A q \in UserProcesses : pcb'[q].threads = pcb[q].threads
      /\ pcb'[p].status = pcb[p].status
      /\ pcb'[p].parent = pcb[p].parent /\ pcb'[p].lock = b
      /\ pcb'[p].exit_children_processes = pcb[p].exit_children_processes
      /\ pcb'[p].waiting_child_pid = pcb[p].waiting_child_pid
      /\ pcb'[p].waiting_thread_node = pcb[p].waiting_thread_node
  BY <1>1, <1>4, Types DEF Pcb
<1>9. ProcessTypeOK'
  BY <1>1, <1>3, <1>7, <1>8 DEF ProcessInv, ProcessTypeOK, deadVars
<1>10. Turn(l, m)
  BY <1>2, <1>6 DEF Turn
<1>11. \A t \in UserThreads : t = self => WaitFits(t)'
  <2>1. status' = status /\ own' = own /\ arg' = arg
    BY <1>1 DEF schedVars
  <2> QED
    BY <1>2, <1>3, <1>5, <1>8, <2>1 DEF WaitFits, Exited, p
<1> QED
  BY <1>1, <1>2, <1>8, <1>9, <1>10, <1>11, OwnTurn DEF p

\* add_dead_process: the child is the clean thread's now.
LEMMA WaitReapStep ==
  ASSUME ProcessInv, WaitReap
  PROVE  ProcessInv' /\ UNCHANGED schedVars
<1> DEFINE c == arg[self]
<1>1. /\ Goto("wait_reap", "user")
      /\ dead_processes' = dead_processes \cup {c}
      /\ arg' = [arg EXCEPT ![self] = MainProcess]
      /\ UNCHANGED schedVars /\ pcb' = pcb /\ dead_tasks' = dead_tasks /\ own' = own
  BY DEF WaitReap
<1>2. /\ "user" \in Places
      /\ \A l \in {"wait_reap", "user"} :
           l \notin LeftPlaces \cup DeadPlaces \cup WaitPlaces \cup HoldPlaces
                      \cup SleepPlaces \cup ForkPlaces
  BY DEF ForkPlaces, LeftPlaces, DeadPlaces, WaitPlaces, HoldPlaces, SleepPlaces, Places
<1>3. /\ self \in UserThreads /\ pc[self] = "wait_reap" /\ pc'[self] = "user"
      /\ \A u \in UserThreads : u # self => pc'[u] = pc[u]
      /\ pc' \in [UserThreads -> Places]
  BY <1>1, <1>2, GotoMoves
<1>4. status[self] = "TASK_RUNNING" /\ c \in UserProcesses
  BY <1>2, <1>3, UserRuns DEF ProcessInv, WaitFits
<1>5. /\ arg' \in [UserThreads -> Processes]
      /\ \A u \in UserThreads : u # self => arg'[u] = arg[u]
  BY <1>1, Types, People
<1> HIDE DEF c
<1>6. ProcessTypeOK'
  BY <1>1, <1>3, <1>4, <1>5 DEF ProcessInv, ProcessTypeOK
<1>7. Frame
  <2>1. SchedInv' /\ Steady' /\ Fates /\ Reloads
    BY <1>1, StillFates
  <2> QED
    BY <1>1, <2>1, FatesFrame
<1>8. Turn("wait_reap", "user")
  BY <1>2, <1>4 DEF Turn
<1>9. FrameInv'
  BY <1>3, <1>7, <1>8, FrameKeeps
<1>10. ASSUME NEW t \in UserThreads
       PROVE  WaitFits(t)'
  <2>1. ThreadFits(t)'
    BY <1>9 DEF FrameInv
  <2>2. status'[t] = status[t] /\ own'[t] = own[t]
    BY <1>1 DEF schedVars
  <2>3. pc'[t] \in WaitPlaces \/ pc'[t] = "wait_reap" => pc'[t] = pc[t] /\ arg'[t] = arg[t]
    BY <1>2, <1>3, <1>5
  <2> QED
    BY <1>1, <2>1, <2>2, <2>3, WaitStays
<1>11. \A t \in UserThreads : ForkFits(t)'
  <2>1. \A t \in UserThreads : pc'[t] \in ForkPlaces =>
          pc[t] \in ForkPlaces /\ arg'[t] = arg[t]
    BY <1>2, <1>3, <1>5
  <2> QED
    BY <1>1, <2>1, ForkStays
<1>12. LockFits'
  <2>1. \A t \in UserThreads, p \in UserProcesses : Holds(t, p)' <=> Holds(t, p)
    BY <1>1, <1>2, <1>3 DEF Holds
  <2> QED
    BY <1>1, <2>1 DEF ProcessInv, LockFits
<1>13. ASSUME NEW d \in UserProcesses
       PROVE  ChildFits(d)'
  <2>1. \A t \in UserThreads : /\ Reaps(t, d)' => Reaps(t, d)
                               /\ Notifies(t, d)' => Notifies(t, d)
    BY <1>1, <1>3, <1>5 DEF Reaps, Notifies
  <2>2. CASE d # c
    BY <1>1, <2>1, <2>2, ChildStays
  <2>3. CASE d = c
    <3>1. ChildFits(d) /\ Reaps(self, d)
      BY <1>3, <2>3 DEF ProcessInv, Reaps, c
    <3>2. /\ pcb[d].status = "PROCESS_EXIT"
          /\ \A p \in UserProcesses : d \notin pcb[p].exit_children_processes
          /\ \A u \in UserThreads : Reaps(u, d) => u = self
          /\ \A u \in UserThreads : ~Notifies(u, d)
      BY <1>3, <3>1 DEF ChildFits, ReapFits, NotifyFits
    <3>3. \A u \in UserThreads : ~Reaps(u, d)' /\ ~Notifies(u, d)'
      BY <1>3, <2>1, <3>2 DEF Reaps
    <3> QED
      BY <1>1, <3>2, <3>3 DEF ChildFits, ListedFits, ReapFits, NotifyFits
  <2> QED
    BY <2>2, <2>3
<1> QED
  BY <1>1, <1>6, <1>9, <1>10, <1>11, <1>12, <1>13, Together

\* create_process: the slot is nobody's.
LEMMA ForkProcessStep ==
  ASSUME ProcessInv, NEW p \in UserProcesses, ForkProcess(p)
  PROVE  ProcessInv' /\ UNCHANGED schedVars
<1>1. /\ Goto("user", "fork_child")
      /\ pcb[p].status = "PROCESS_NONE"
      /\ pcb' = [pcb EXCEPT ![p] = NewPcb(own[self])]
      /\ arg' = [arg EXCEPT ![self] = p]
      /\ UNCHANGED schedVars /\ dead_processes' = dead_processes
      /\ dead_tasks' = dead_tasks /\ own' = own
  BY DEF ForkProcess, crt_process, deadVars
<1>2. /\ "fork_child" \in Places /\ "fork_child" \in ForkPlaces
      /\ \A l \in {"user", "fork_child"} :
           l \notin LeftPlaces \cup DeadPlaces \cup WaitPlaces \cup HoldPlaces \cup SleepPlaces
  BY DEF ForkPlaces, LeftPlaces, DeadPlaces, WaitPlaces, HoldPlaces, SleepPlaces, Places
<1>3. /\ self \in UserThreads /\ pc[self] = "user" /\ pc'[self] = "fork_child"
      /\ \A u \in UserThreads : u # self => pc'[u] = pc[u]
      /\ pc' \in [UserThreads -> Places]
  BY <1>1, <1>2, GotoMoves
<1>4. status[self] = "TASK_RUNNING" /\ own[self] \in UserProcesses
  BY <1>2, <1>3, UserRuns
<1>5. /\ arg' \in [UserThreads -> Processes] /\ arg'[self] = p
      /\ \A u \in UserThreads : u # self => arg'[u] = arg[u]
  BY <1>1, <1>3, Types, People
<1>6. /\ NewPcb(own[self]) \in Pcb /\ pcb'[p] = NewPcb(own[self])
      /\ pcb' \in [UserProcesses -> Pcb]
      /\ \A q \in UserProcesses : q # p => pcb'[q] = pcb[q]
  <2>1. FreePcb \in Pcb
    BY People DEF FreePcb, Pcb
  <2>2. NewPcb(own[self]) \in Pcb
    BY <1>4, <2>1 DEF NewPcb, Pcb
  <2> QED
    BY <1>1, <2>2, Types
<1>7. /\ pcb'[p].status = "PROCESS_NORMAL" /\ pcb'[p].threads = {}
      /\ pcb'[p].exit_children_processes = {} /\ ~pcb'[p].lock
  BY <1>6 DEF NewPcb, FreePcb
<1>8. ProcessTypeOK'
  <2>1. \A q \in UserProcesses : IsFiniteSet(pcb'[q].threads)
    BY <1>6, <1>7, FS_EmptySet DEF ProcessInv, ProcessTypeOK
  <2> QED
    BY <1>1, <1>3, <1>5, <1>6, <2>1 DEF ProcessInv, ProcessTypeOK
<1>9. Frame
  <2>1. SchedInv' /\ Steady' /\ Fates /\ Reloads
    BY <1>1, StillFates
  <2>2. \A q \in UserProcesses : pcb[q].status # "PROCESS_NONE" =>
          pcb'[q].status = pcb[q].status /\ pcb'[q].threads = pcb[q].threads
    BY <1>1, <1>6
  <2> QED
    BY <1>1, <2>1, <2>2, FatesFrame
<1>10. Turn("user", "fork_child")
  BY <1>2, <1>4 DEF Turn
<1>11. FrameInv'
  BY <1>3, <1>9, <1>10, FrameKeeps
<1>12. \A u \in UserThreads : Active(u) => own[u] # p
  BY <1>1 DEF ProcessInv, ThreadFits, Active
<1>13. ASSUME NEW t \in UserThreads
       PROVE  WaitFits(t)'
  <2>1. ThreadFits(t)'
    BY <1>11 DEF FrameInv
  <2>2. status'[t] = status[t] /\ own'[t] = own[t] /\ own[t] \in UserProcesses
    BY <1>1, Types DEF schedVars
  <2>3. pc'[t] \in WaitPlaces \/ pc'[t] = "wait_reap" => pc'[t] = pc[t] /\ arg'[t] = arg[t]
    BY <1>2, <1>3, <1>5
  <2>4. pc'[t] \in WaitPlaces => pcb'[own[t]] = pcb[own[t]]
    BY <1>6, <1>12, <2>2, <2>3, WaitersWork
  <2> QED
    BY <2>1, <2>2, <2>3, <2>4, WaitStays
<1>14. ASSUME NEW t \in UserThreads
       PROVE  ForkFits(t)'
  <2>1. \A u \in UserThreads : pc[u] \in ForkPlaces => arg[u] \in UserProcesses /\ arg[u] # p
    BY <1>1 DEF ProcessInv, ForkFits
  <2>2. CASE t = self
    <3>1. \A u \in UserThreads : Forks(u, p)' => u = t
      BY <1>3, <1>5, <2>1, <2>2 DEF Forks
    <3> QED
      BY <1>5, <1>7, <2>2, <3>1 DEF ForkFits, Forks
  <2>3. CASE t # self /\ pc'[t] \in ForkPlaces
    <3>1. ForkFits(t) /\ pc[t] \in ForkPlaces /\ arg'[t] = arg[t]
      BY <1>3, <1>5, <2>3 DEF ProcessInv
    <3>2. pcb'[arg[t]] = pcb[arg[t]]
      BY <1>6, <2>1, <3>1
    <3>3. \A u \in UserThreads : Forks(u, arg[t])' => u = t
      BY <1>3, <1>5, <2>1, <3>1 DEF Forks, ForkFits
    <3> QED
      BY <3>1, <3>2, <3>3 DEF ForkFits
  <2> QED
    BY <2>2, <2>3 DEF ForkFits
<1>15. LockFits'
  <2>1. \A t \in UserThreads, q \in UserProcesses : Holds(t, q)' <=> Holds(t, q)
    BY <1>1, <1>2, <1>3 DEF Holds
  <2>2. \A t \in UserThreads : ~Holds(t, p)
    BY <1>12, WaitersWork, PlacesApart DEF Holds
  <2> QED
    BY <1>6, <1>7, <2>1, <2>2 DEF ProcessInv, LockFits
<1>16. ASSUME NEW c \in UserProcesses
       PROVE  ChildFits(c)'
  <2>1. \A t \in UserThreads : /\ Reaps(t, c)' => Reaps(t, c)
                               /\ Notifies(t, c)' => Notifies(t, c)
    BY <1>1, <1>3, <1>5 DEF Reaps, Notifies
  <2>2. pcb[c].status = "PROCESS_EXIT" => pcb'[c] = pcb[c]
    BY <1>1, <1>6
  <2>3. \A q \in UserProcesses : c \in pcb'[q].exit_children_processes =>
          c \in pcb[q].exit_children_processes
    BY <1>6, <1>7
  <2>4. \A q \in UserProcesses : c \in pcb'[q].exit_children_processes =>
          pcb'[c].parent = pcb[c].parent
    BY <2>2, <2>3 DEF ProcessInv, ChildFits, ListedFits
  <2> QED
    BY <1>1, <2>1, <2>2, <2>3, <2>4, ChildStays
<1> QED
  BY <1>1, <1>8, <1>11, <1>13, <1>14, <1>15, <1>16, Together

-----------------------------------------------------------------------------
(* Threads block, are woken up, leave their process and die.               *)

\* The current thread, at a place where it is neither blocked nor dead.
LEMMA RunsOn ==
  ASSUME ProcessInv, self \in UserThreads, pc[self] \notin SleepPlaces,
         pc[self] \notin DeadPlaces
  PROVE  /\ self \in Threads /\ self # MainThread /\ self # CleanThread
         /\ status[self] = "TASK_RUNNING"
         /\ preempt_count[self] = 0
         /\ own[self] \in UserProcesses
BY UserRuns, Types, People DEF Steady

\* The parts of FrameInv for a step on the same page directory.
LEMMA StepFits ==
  ASSUME ProcessInv, SchedInv', self' = self, page_directory' = page_directory,
         \A t \in Threads : preempt_count'[t] = 0,
         self # MainThread => status'[self] # "TASK_READY",
         process'[MainThread] = MainProcess, process'[CleanThread] = MainProcess,
         \A t \in UserThreads : ThreadFits(t)',
         InitFits', OneActive',
         page_directory # MainProcess => pcb'[page_directory].status # "PROCESS_NONE"
  PROVE  FrameInv'
<1>1. Steady'
  BY DEF Steady, self
<1>2. SchedulerFits'
  BY <1>1 DEF SchedulerFits
<1>3. LoadedDirExists'
  BY DEF LoadedDirExists
<1> QED
  BY <1>2, <1>3 DEF FrameInv

LEMMA ThreadStays ==
  ASSUME ProcessInv, NEW t \in UserThreads,
         pc'[t] = pc[t], own'[t] = own[t], process'[t] = process[t], self' = self,
         status'[t] = status[t] \/ (status[t] = "TASK_WAITING" /\ status'[t] = "TASK_READY"),
         t \in dead_tasks' => t \in dead_tasks,
         Attached(t) => /\ t \in pcb'[own[t]].threads
                        /\ pcb'[own[t]].status = "PROCESS_NORMAL"
  PROVE  ThreadFits(t)' /\ (Attached(t)' <=> Attached(t)) /\ (Active(t)' <=> Active(t))
<1>1. ThreadFits(t)
  BY DEF ProcessInv
<1>2. status'[t] = "TASK_NONE" <=> status[t] = "TASK_NONE"
  OBVIOUS
<1>3. (Attached(t)' <=> Attached(t)) /\ (Active(t)' <=> Active(t))
  BY <1>2 DEF Attached, Active
<1>4. status[t] = "TASK_WAITING" => pc[t] \notin DeadPlaces
  BY <1>1, PlacesApart DEF ThreadFits
<1>5. /\ status'[t] = "TASK_NONE" => pc'[t] \in {"user"} \cup DeadPlaces
      /\ status'[t] = "TASK_DEAD" => pc'[t] \in DeadPlaces
      /\ pc'[t] \in DeadPlaces => status'[t] \in {"TASK_DEAD", "TASK_NONE"}
      /\ t \in dead_tasks' => status'[t] = "TASK_DEAD"
  BY <1>1, <1>4 DEF ThreadFits
<1>6. status'[t] = "TASK_WAITING" =>
        pc'[t] \in SleepPlaces /\ (t = self' => pc'[t] # "wait_relock")
  BY <1>1 DEF ThreadFits
<1>7. /\ Attached(t)' => /\ process'[t] = own'[t]
                         /\ t \in pcb'[own'[t]].threads
                         /\ pcb'[own'[t]].status = "PROCESS_NORMAL"
      /\ ~Attached(t)' => process'[t] \in {NoProcess, MainProcess}
  BY <1>1, <1>3 DEF ThreadFits
<1> QED
  BY <1>3, <1>5, <1>6, <1>7 DEF ThreadFits

\* Nobody joins a process.
LEMMA OneStays ==
  ASSUME ProcessInv, \A t \in UserThreads : Active(t)' => Active(t) /\ own'[t] = own[t]
  PROVE  OneActive'
BY DEF ProcessInv, OneActive

\* The init process is there.
LEMMA InitStays ==
  ASSUME ProcessInv, pcb'[InitProcess].status = "PROCESS_NORMAL",
         \A t \in UserThreads : pc'[t] \in {"exit_lock", "exit_notify"} =>
           own'[t] # InitProcess
  PROVE  InitFits'
BY DEF InitFits

\* process_wait leaves its node to the children and blocks.
LEMMA WaitBlockStep ==
  ASSUME ProcessInv, WaitBlock
  PROVE  ProcessInv' /\ SchedNext
<1> DEFINE p == own[self]
<1>1. /\ Goto("wait_find", "wait_release")
      /\ Exited(p, arg[self]) = {}
      /\ pcb' = [pcb EXCEPT ![p].waiting_thread_node = self]
      /\ schedule_mark_thread_block
      /\ dead_tasks' = dead_tasks /\ dead_processes' = dead_processes
      /\ own' = own /\ arg' = arg
  BY DEF WaitBlock, crt_process, deadVars
<1>2. /\ {"wait_find", "wait_release"} \subseteq WaitPlaces
      /\ {"wait_find", "wait_release"} \subseteq HoldPlaces
      /\ "wait_release" \in SleepPlaces /\ "wait_find" \notin SleepPlaces
      /\ "wait_release" \in Places
      /\ \A l \in {"wait_find", "wait_release"} :
           l \notin LeftPlaces /\ l \notin DeadPlaces /\ l \notin ForkPlaces
  BY DEF ForkPlaces, LeftPlaces, DeadPlaces, WaitPlaces, HoldPlaces, SleepPlaces, Places
<1>3. /\ self \in UserThreads /\ pc[self] = "wait_find" /\ pc'[self] = "wait_release"
      /\ \A u \in UserThreads : u # self => pc'[u] = pc[u]
      /\ pc' \in [UserThreads -> Places]
  BY <1>1, <1>2, GotoMoves
<1>4. /\ self \in Threads /\ self # MainThread /\ self # CleanThread
      /\ status[self] = "TASK_RUNNING" /\ p \in UserProcesses
  BY <1>2, <1>3, RunsOn
<1>5. SchedNext /\ SchedInv'
  <2>1. BlockThread
    BY <1>1, <1>4 DEF BlockThread, self
  <2>2. SchedNext
    BY <2>1 DEF SchedNext
  <2> QED
    BY <2>2, Types, SchedNextInv
<1>6. /\ self' = self /\ page_directory' = page_directory
      /\ process' = process /\ preempt_count' = preempt_count
      /\ status'[self] = "TASK_WAITING"
      /\ \A u \in Threads : u # self => status'[u] = status[u]
  BY <1>1, <1>4, Types DEF schedule_mark_thread_block, self
<1> HIDE DEF p
<1>7. /\ pcb' \in [UserProcesses -> Pcb]
      /\ \A q \in UserProcesses : q # p => pcb'[q] = pcb[q]
      /\ pcb'[p].waiting_thread_node = self
      /\ pcb'[p].waiting_child_pid = pcb[p].waiting_child_pid
      /\ \A q \in UserProcesses :
           /\ pcb'[q].status = pcb[q].status /\ pcb'[q].threads = pcb[q].threads
           /\ pcb'[q].parent = pcb[q].parent /\ pcb'[q].lock = pcb[q].lock
           /\ pcb'[q].exit_children_processes = pcb[q].exit_children_processes
  BY <1>1, <1>3, <1>4, Types DEF Pcb
<1>8. ProcessTypeOK'
  BY <1>1, <1>3, <1>7 DEF ProcessInv, ProcessTypeOK
<1>9. ThreadFits(self) /\ WaitFits(self) /\ Active(self)
  BY <1>2, <1>3, WaitersWork DEF ProcessInv
<1>10. ASSUME NEW t \in UserThreads
       PROVE  ThreadFits(t)' /\ (Active(t)' => Active(t))
  <2>1. own[t] \in UserProcesses /\ t \in Threads
    BY Types, People
  <2>2. CASE t # self
    <3>1. Attached(t) => /\ t \in pcb'[own[t]].threads
                         /\ pcb'[own[t]].status = "PROCESS_NORMAL"
      BY <1>7, <2>1 DEF ProcessInv, ThreadFits
    <3> QED
      BY <1>1, <1>3, <1>6, <2>1, <2>2, <3>1, ThreadStays
  <2>3. CASE t = self
    <3>1. /\ process[t] = own[t] /\ t \in pcb[own[t]].threads
          /\ pcb[own[t]].status = "PROCESS_NORMAL" /\ t \notin dead_tasks
      BY <1>4, <1>9, <2>3 DEF ThreadFits, Active
    <3>2. Attached(t)'
      BY <1>2, <1>3, <1>6, <2>3 DEF Attached
    <3>3. status'[t] = "TASK_WAITING" /\ pc'[t] = "wait_release" /\ process'[t] = process[t]
            /\ own'[t] = own[t] /\ pc'[t] \notin DeadPlaces /\ t \notin dead_tasks'
      BY <1>1, <1>2, <1>3, <1>6, <2>3, <3>1
    <3> QED
      BY <1>2, <1>7, <1>9, <2>1, <2>3, <3>1, <3>2, <3>3 DEF ThreadFits
  <2> QED
    BY <2>2, <2>3
<1>11. FrameInv'
  <2>1. OneActive'
    BY <1>1, <1>10, OneStays
  <2>2. InitFits'
    <3>1. pcb'[InitProcess].status = "PROCESS_NORMAL"
      BY <1>3, <1>7, UserRuns, People
    <3>2. \A t \in UserThreads : pc'[t] \in {"exit_lock", "exit_notify"} =>
            own'[t] # InitProcess
      BY <1>1, <1>3 DEF ProcessInv, InitFits
    <3> QED
      BY <3>1, <3>2, InitStays
  <2>3. page_directory # MainProcess => pcb'[page_directory].status # "PROCESS_NONE"
    BY <1>7, Types DEF ProcessInv, LoadedDirExists, UserProcesses
  <2>4. process'[MainThread] = MainProcess /\ process'[CleanThread] = MainProcess
    BY <1>6 DEF ProcessInv, SchedulerFits
  <2>5. \A t \in Threads : preempt_count'[t] = 0
    BY <1>6, Types DEF Steady
  <2> QED
    BY <1>5, <1>6, <1>10, <2>1, <2>2, <2>3, <2>4, <2>5, StepFits
<1>12. ASSUME NEW t \in UserThreads
       PROVE  WaitFits(t)'
  <2>1. CASE t = self
    <3>1. Exited(own[t], arg[t])' = {}
      BY <1>1, <1>4, <1>7, <2>1 DEF Exited, p
    <3> QED
      BY <1>1, <1>2, <1>3, <1>7, <1>9, <2>1, <3>1 DEF WaitFits, p
  <2>2. CASE t # self
    <3>1. ThreadFits(t)'
      BY <1>11 DEF FrameInv
    <3>2. /\ own'[t] = own[t] /\ arg'[t] = arg[t] /\ pc'[t] = pc[t]
          /\ own[t] \in UserProcesses /\ status'[t] = status[t]
      BY <1>1, <1>3, <1>6, <2>2, Types, People
    <3>3. pc[t] \in WaitPlaces => own[t] # p
      BY <1>3, <1>9, <2>2, WaitersWork DEF ProcessInv, OneActive, p
    <3> QED
      BY <1>7, <3>1, <3>2, <3>3, WaitStays
  <2> QED
    BY <2>1, <2>2
<1>13. \A t \in UserThreads : ForkFits(t)'
  <2>1. \A t \in UserThreads : pc'[t] \in ForkPlaces =>
          pc[t] \in ForkPlaces /\ arg'[t] = arg[t] /\ arg[t] \in UserProcesses
    BY <1>1, <1>2, <1>3 DEF ProcessInv, ForkFits
  <2> QED
    BY <1>7, <2>1, ForkStays
<1>14. LockFits'
  <2>1. \A t \in UserThreads, q \in UserProcesses : Holds(t, q)' <=> Holds(t, q)
    BY <1>1, <1>2, <1>3 DEF Holds
  <2> QED
    BY <1>7, <2>1 DEF ProcessInv, LockFits
<1>15. \A c \in UserProcesses : ChildFits(c)'
  <2>1. \A c \in UserProcesses : \A t \in UserThreads :
          /\ Reaps(t, c)' => Reaps(t, c)
          /\ Notifies(t, c)' => Notifies(t, c)
    BY <1>1, <1>3 DEF Reaps, Notifies
  <2> QED
    BY <1>1, <1>7, <2>1, ChildStays
<1> QED
  BY <1>5, <1>8, <1>11, <1>12, <1>13, <1>14, <1>15, Together

\* The thread leaves its process, and nobody else does.
LEMMA LeaveFits ==
  ASSUME ProcessInv, NEW l, NEW m, NEW p, Goto(l, m), p = own[self],
         l \in {"exit_lock", "exit_detach"}, m \in {"exit_notify", "exit_dead"},
         detach_process,
         UNCHANGED <<deadVars, own, arg>>,
         \A q \in UserProcesses : q # p => pcb'[q] = pcb[q],
         \A t \in UserThreads : t # self /\ Attached(t) /\ own[t] = p =>
           t \in pcb'[p].threads /\ pcb'[p].status = "PROCESS_NORMAL",
         pcb'[p].status # "PROCESS_NONE",
         m = "exit_notify" => own[self] # InitProcess,
         pcb'[InitProcess].status = "PROCESS_NORMAL"
  PROVE  /\ FrameInv' /\ SchedNext
         /\ status' = status /\ own' = own /\ arg' = arg
         /\ dead_tasks' = dead_tasks /\ dead_processes' = dead_processes
<1>0. /\ detach_process
      /\ dead_tasks' = dead_tasks /\ dead_processes' = dead_processes
      /\ own' = own /\ arg' = arg
  BY DEF deadVars
<1>2. /\ l \notin SleepPlaces /\ l \notin DeadPlaces /\ l \notin LeftPlaces
      /\ m \in LeftPlaces /\ m \notin DeadPlaces /\ m \in Places
      /\ m # "exit_lock"
  BY DEF LeftPlaces, DeadPlaces, SleepPlaces, Places
<1>3. /\ self \in UserThreads /\ pc[self] = l /\ pc'[self] = m
      /\ \A u \in UserThreads : u # self => pc'[u] = pc[u]
  BY GotoMoves
<1>4. /\ self \in Threads /\ self # MainThread /\ self # CleanThread
      /\ status[self] = "TASK_RUNNING" /\ p \in UserProcesses
  BY <1>2, <1>3, RunsOn
<1>5. SchedNext /\ SchedInv'
  <2>1. DetachThread
    BY <1>0, <1>4 DEF DetachThread, self
  <2>2. SchedNext
    BY <2>1 DEF SchedNext
  <2> QED
    BY <2>2, Types, SchedNextInv
<1>6. /\ self' = self /\ page_directory' = page_directory
      /\ status' = status /\ preempt_count' = preempt_count
      /\ process'[self] = NoProcess
      /\ \A u \in Threads : u # self => process'[u] = process[u]
  BY <1>0, <1>4, Types DEF detach_process, self
<1>7. ThreadFits(self)
  BY <1>3 DEF ProcessInv
<1>8. ASSUME NEW t \in UserThreads
      PROVE  ThreadFits(t)' /\ (Active(t)' => Active(t))
  <2>1. own[t] \in UserProcesses /\ t \in Threads
    BY Types, People
  <2>2. CASE t # self
    <3>1. Attached(t) => /\ t \in pcb'[own[t]].threads
                         /\ pcb'[own[t]].status = "PROCESS_NORMAL"
      BY <2>1, <2>2 DEF ProcessInv, ThreadFits
    <3> QED
      BY <1>0, <1>3, <1>6, <2>1, <2>2, <3>1, ThreadStays
  <2>3. CASE t = self
    <3>1. ~Attached(t)' /\ ~Active(t)'
      BY <1>2, <1>3, <2>3 DEF Attached, Active
    <3>2. /\ status'[t] = "TASK_RUNNING" /\ pc'[t] \notin DeadPlaces
          /\ process'[t] = NoProcess /\ t \notin dead_tasks'
      BY <1>0, <1>2, <1>3, <1>4, <1>6, <1>7, <2>3 DEF ThreadFits
    <3> QED
      BY <3>1, <3>2 DEF ThreadFits
  <2> QED
    BY <2>2, <2>3
<1>9. OneActive'
  BY <1>0, <1>8, OneStays
<1>10. InitFits'
  <2>1. \A t \in UserThreads : pc'[t] \in {"exit_lock", "exit_notify"} =>
          own'[t] # InitProcess
    BY <1>0, <1>2, <1>3 DEF ProcessInv, InitFits
  <2> QED
    BY <2>1, InitStays
<1>11. page_directory # MainProcess => pcb'[page_directory].status # "PROCESS_NONE"
  BY Types DEF ProcessInv, LoadedDirExists, UserProcesses
<1>12. process'[MainThread] = MainProcess /\ process'[CleanThread] = MainProcess
  BY <1>4, <1>6, People DEF ProcessInv, SchedulerFits
<1>13. \A t \in Threads : preempt_count'[t] = 0
  BY <1>6, Types DEF Steady
<1>14. status'[self] # "TASK_READY"
  BY <1>4, <1>6
<1>15. FrameInv'
  BY <1>5, <1>6, <1>8, <1>9, <1>10, <1>11, <1>12, <1>13, <1>14, StepFits
<1> QED
  BY <1>0, <1>5, <1>6, <1>15

\* The thread that exits is the only one in its process.
LEMMA OnlyThread ==
  ASSUME ProcessInv, NEW p \in UserProcesses, Cardinality(pcb[p].threads) <= 1,
         self \in pcb[p].threads
  PROVE  pcb[p].threads = {self}
<1> DEFINE S == pcb[p].threads
<1>1. IsFiniteSet(S) /\ self \in S
  BY DEF ProcessInv, ProcessTypeOK
<1> HIDE DEF S
<1>2. Cardinality(S) \in Nat /\ Cardinality(S) # 0
  BY <1>1, FS_CardinalityType, FS_EmptySet
<1>3. Cardinality(S) = 1
  BY <1>2 DEF S
<1>4. \E x : S = {x}
  BY <1>1, <1>3, FS_Singleton
<1> QED
  BY <1>1, <1>4 DEF S

\* process_exit leaves the process, marks it and releases what it has.
LEMMA ExitProcessStep ==
  ASSUME ProcessInv, ExitProcess
  PROVE  ProcessInv' /\ [SchedNext]_schedVars
<1> DEFINE p == own[self]
<1>1. CASE Goto("exit_lock", "user") /\ UNCHANGED <<schedVars, pcb>>
  <2>1. UNCHANGED <<schedVars, pcb, deadVars, own>> /\ arg' = arg
    BY <1>1 DEF ExitProcess
  <2> QED
    BY <1>1, <2>1, Types, CallTurn
<1>2. CASE /\ Cardinality(pcb[p].threads) <= 1
           /\ Goto("exit_lock", "exit_notify")
           /\ pcb' = [pcb EXCEPT ![p].status = "PROCESS_EXIT",
                                 ![p].threads = {},
                                 ![p].exit_children_processes = {}]
           /\ detach_process
  <2>1. /\ UNCHANGED <<deadVars, own, arg>> /\ ~pcb[p].lock
        /\ Goto("exit_lock", "exit_notify") /\ detach_process
    BY <1>2 DEF ExitProcess, crt_process
  <2>2. /\ "exit_notify" \in Places
        /\ "exit_lock" \notin LeftPlaces /\ "exit_lock" \notin SleepPlaces
        /\ "exit_lock" \notin DeadPlaces
        /\ \A l \in {"exit_lock", "exit_notify"} :
             l \notin ForkPlaces /\ l \notin WaitPlaces /\ l \notin HoldPlaces
    BY DEF ForkPlaces, LeftPlaces, DeadPlaces, WaitPlaces, HoldPlaces, SleepPlaces, Places
  <2>3. /\ self \in UserThreads /\ pc[self] = "exit_lock" /\ pc'[self] = "exit_notify"
        /\ \A u \in UserThreads : u # self => pc'[u] = pc[u]
        /\ pc' \in [UserThreads -> Places]
    BY <2>1, <2>2, GotoMoves
  <2>4. /\ p \in UserProcesses /\ p # InitProcess /\ self \in pcb[p].threads
        /\ pcb[p].status = "PROCESS_NORMAL" /\ pcb[InitProcess].status = "PROCESS_NORMAL"
    BY <2>2, <2>3, UserRuns DEF ProcessInv, InitFits
  <2>5. pcb[p].threads = {self}
    BY <1>2, <2>4, OnlyThread
  <2> HIDE DEF p
  <2>6. /\ \A q \in UserProcesses : q # p => pcb'[q] = pcb[q]
        /\ pcb'[p].status = "PROCESS_EXIT" /\ pcb'[p].threads = {}
        /\ pcb'[p].exit_children_processes = {}
        /\ pcb'[p].lock = pcb[p].lock
    BY <1>2, <2>4, Types DEF Pcb
  <2>7. pcb' \in [UserProcesses -> Pcb]
    <3>1. [pcb[p] EXCEPT !.status = "PROCESS_EXIT", !.threads = {},
                         !.exit_children_processes = {}] \in Pcb
      BY <2>4, Types, PcbTypes
    <3> QED
      BY <1>2, <2>4, <3>1, Types
  <2>8. \A t \in UserThreads : t # self /\ Attached(t) => own[t] # p
    BY <2>5 DEF ProcessInv, ThreadFits
  <2>9. /\ FrameInv' /\ SchedNext
        /\ status' = status /\ own' = own /\ arg' = arg
        /\ dead_tasks' = dead_tasks /\ dead_processes' = dead_processes
    <3>1. pcb'[InitProcess].status = "PROCESS_NORMAL"
      BY <2>4, <2>6, People
    <3> QED
      BY <2>1, <2>4, <2>6, <2>8, <3>1, LeaveFits DEF p
  <2>10. ProcessTypeOK'
    <3>1. \A q \in UserProcesses : IsFiniteSet(pcb'[q].threads)
      BY <2>6, FS_EmptySet DEF ProcessInv, ProcessTypeOK
    <3> QED
      BY <2>3, <2>7, <2>9, <3>1 DEF ProcessInv, ProcessTypeOK
  <2>11. ASSUME NEW t \in UserThreads
         PROVE  WaitFits(t)'
    <3>1. ThreadFits(t)'
      BY <2>9 DEF FrameInv
    <3>2. /\ pc'[t] \in WaitPlaces \/ pc'[t] = "wait_reap" => pc'[t] = pc[t] /\ t # self
          /\ own[t] \in UserProcesses
      BY <2>2, <2>3, Types
    <3>3. pc'[t] \in WaitPlaces => pcb'[own[t]] = pcb[own[t]]
      BY <2>6, <2>8, <3>2, WaitersWork DEF Active
    <3> QED
      BY <2>9, <3>1, <3>2, <3>3, WaitStays
  <2>12. \A t \in UserThreads : ForkFits(t)'
    <3>1. ASSUME NEW t \in UserThreads, pc'[t] \in ForkPlaces
          PROVE  pc[t] \in ForkPlaces /\ pcb'[arg[t]] = pcb[arg[t]]
      <4>1. pc[t] \in ForkPlaces
        BY <2>2, <2>3, <3>1
      <4>2. arg[t] \in UserProcesses /\ pcb[arg[t]].threads = {}
        BY <4>1 DEF ProcessInv, ForkFits
      <4> QED
        BY <2>4, <2>6, <4>1, <4>2
    <3> QED
      BY <2>9, <3>1, ForkStays
  <2>13. LockFits'
    <3>1. \A t \in UserThreads, q \in UserProcesses : Holds(t, q)' <=> Holds(t, q)
      BY <2>2, <2>3, <2>9 DEF Holds
    <3> QED
      BY <2>6, <3>1 DEF ProcessInv, LockFits
  <2>14. ASSUME NEW c \in UserProcesses
         PROVE  ChildFits(c)'
    <3>1. /\ \A t \in UserThreads : Reaps(t, c)' => Reaps(t, c)
          /\ \A q \in UserProcesses : c \in pcb'[q].exit_children_processes =>
               c \in pcb[q].exit_children_processes
      BY <2>3, <2>6, <2>9 DEF Reaps
    <3>2. CASE c # p
      <4>1. \A t \in UserThreads : Notifies(t, c)' => Notifies(t, c)
        BY <2>3, <2>9, <3>2 DEF Notifies, p
      <4> QED
        BY <2>6, <2>9, <3>1, <3>2, <4>1, ChildStays
    <3>3. CASE c = p
      <4>1. ChildFits(c)
        BY DEF ProcessInv
      <4>2. /\ c \notin dead_processes
            /\ \A q \in UserProcesses : c \notin pcb[q].exit_children_processes
            /\ \A t \in UserThreads : ~Reaps(t, c) /\ ~Notifies(t, c)
        BY <2>4, <3>3, <4>1 DEF ChildFits, ListedFits, ReapFits, NotifyFits
      <4>3. \A t \in UserThreads : ~Reaps(t, c)' /\ (Notifies(t, c)' => t = self)
        BY <2>3, <2>9, <3>1, <4>2 DEF Notifies
      <4>4. pcb'[c].status = "PROCESS_EXIT" /\ c \notin dead_processes'
        BY <2>6, <2>9, <3>3, <4>2
      <4> QED
        BY <3>1, <4>2, <4>3, <4>4 DEF ChildFits, ListedFits, ReapFits, NotifyFits
    <3> QED
      BY <3>2, <3>3
  <2> QED
    BY <2>9, <2>10, <2>11, <2>12, <2>13, <2>14, Together
<1> QED
  BY <1>1, <1>2 DEF ExitProcess, crt_process

\* remove_process_thread
LEMMA ExitDetachStep ==
  ASSUME ProcessInv, ExitDetach
  PROVE  ProcessInv' /\ SchedNext
<1> DEFINE p == own[self]
<1>1. /\ Goto("exit_detach", "exit_dead") /\ detach_process
      /\ pcb' = [pcb EXCEPT ![p].threads = @ \ {self}]
      /\ UNCHANGED <<deadVars, own, arg>>
  BY DEF ExitDetach, crt_process
<1>2. /\ "exit_dead" \in Places
      /\ "exit_detach" \notin LeftPlaces /\ "exit_detach" \notin SleepPlaces
      /\ "exit_detach" \notin DeadPlaces
      /\ \A l \in {"exit_detach", "exit_dead"} :
           l \notin ForkPlaces /\ l \notin WaitPlaces /\ l \notin HoldPlaces
  BY DEF ForkPlaces, LeftPlaces, DeadPlaces, WaitPlaces, HoldPlaces, SleepPlaces, Places
<1>3. /\ self \in UserThreads /\ pc[self] = "exit_detach" /\ pc'[self] = "exit_dead"
      /\ \A u \in UserThreads : u # self => pc'[u] = pc[u]
      /\ pc' \in [UserThreads -> Places]
  BY <1>1, <1>2, GotoMoves
<1>4. /\ p \in UserProcesses /\ self \in pcb[p].threads
      /\ pcb[p].status = "PROCESS_NORMAL" /\ pcb[InitProcess].status = "PROCESS_NORMAL"
  BY <1>2, <1>3, UserRuns
<1> HIDE DEF p
<1>5. /\ pcb' \in [UserProcesses -> Pcb]
      /\ \A q \in UserProcesses : q # p => pcb'[q] = pcb[q]
      /\ pcb'[p].threads = pcb[p].threads \ {self}
      /\ \A q \in UserProcesses :
           /\ pcb'[q].status = pcb[q].status /\ pcb'[q].parent = pcb[q].parent
           /\ pcb'[q].lock = pcb[q].lock
           /\ pcb'[q].exit_children_processes = pcb[q].exit_children_processes
           /\ pcb'[q].waiting_child_pid = pcb[q].waiting_child_pid
           /\ pcb'[q].waiting_thread_node = pcb[q].waiting_thread_node
  BY <1>1, <1>4, Types DEF Pcb
<1>6. /\ FrameInv' /\ SchedNext
      /\ status' = status /\ own' = own /\ arg' = arg
      /\ dead_tasks' = dead_tasks /\ dead_processes' = dead_processes
  <2>1. \A t \in UserThreads : t # self /\ Attached(t) /\ own[t] = p =>
          t \in pcb'[p].threads /\ pcb'[p].status = "PROCESS_NORMAL"
    BY <1>4, <1>5 DEF ProcessInv, ThreadFits
  <2>2. pcb'[p].status # "PROCESS_NONE" /\ pcb'[InitProcess].status = "PROCESS_NORMAL"
    BY <1>4, <1>5, People
  <2> QED
    BY <1>1, <1>5, <2>1, <2>2, LeaveFits DEF p
<1>7. ProcessTypeOK'
  <2>1. \A q \in UserProcesses : IsFiniteSet(pcb'[q].threads)
    <3>1. \A q \in UserProcesses : IsFiniteSet(pcb[q].threads)
      BY DEF ProcessInv, ProcessTypeOK
    <3>2. IsFiniteSet(pcb[p].threads \ {self})
      BY <1>4, <3>1, FS_RemoveElement
    <3> QED
      BY <1>5, <3>1, <3>2
  <2> QED
    BY <1>3, <1>5, <1>6, <2>1 DEF ProcessInv, ProcessTypeOK
<1>8. ASSUME NEW t \in UserThreads
      PROVE  WaitFits(t)'
  <2>1. ThreadFits(t)'
    BY <1>6 DEF FrameInv
  <2>2. /\ pc'[t] \in WaitPlaces \/ pc'[t] = "wait_reap" => pc'[t] = pc[t]
        /\ own[t] \in UserProcesses
    BY <1>2, <1>3, Types
  <2> QED
    BY <1>5, <1>6, <2>1, <2>2, WaitStays
<1>9. \A t \in UserThreads : ForkFits(t)'
  <2>1. ASSUME NEW t \in UserThreads, pc'[t] \in ForkPlaces
        PROVE  pc[t] \in ForkPlaces /\ pcb'[arg[t]] = pcb[arg[t]]
    <3>1. pc[t] \in ForkPlaces
      BY <1>2, <1>3, <2>1
    <3>2. arg[t] \in UserProcesses /\ pcb[arg[t]].threads = {}
      BY <3>1 DEF ProcessInv, ForkFits
    <3> QED
      BY <1>4, <1>5, <3>1, <3>2
  <2> QED
    BY <1>6, <2>1, ForkStays
<1>10. LockFits'
  <2>1. \A t \in UserThreads, q \in UserProcesses : Holds(t, q)' <=> Holds(t, q)
    BY <1>2, <1>3, <1>6 DEF Holds
  <2> QED
    BY <1>5, <2>1 DEF ProcessInv, LockFits
<1>11. \A c \in UserProcesses : ChildFits(c)'
  <2>1. \A c \in UserProcesses : \A t \in UserThreads :
          /\ Reaps(t, c)' => Reaps(t, c)
          /\ Notifies(t, c)' => Notifies(t, c)
    BY <1>3, <1>6 DEF Reaps, Notifies
  <2> QED
    BY <1>5, <1>6, <2>1, ChildStays
<1> QED
  BY <1>6, <1>7, <1>8, <1>9, <1>10, <1>11, Together

\* The exited process joins the table of its parent, and wakes up the thread that waits
\* for it there.
LEMMA ExitNotifyStep ==
  ASSUME ProcessInv, ExitNotify
  PROVE  ProcessInv' /\ [SchedNext]_schedVars
<1> DEFINE p == own[self]
           parent == pcb[p].parent
           node == pcb[parent].waiting_thread_node
<1>1. /\ Goto("exit_notify", "exit_dead")
      /\ parent # NoProcess /\ pcb[parent].status = "PROCESS_NORMAL"
      /\ pcb' = [pcb EXCEPT ![parent].exit_children_processes = @ \cup {p}]
      /\ dead_tasks' = dead_tasks /\ dead_processes' = dead_processes
      /\ own' = own /\ arg' = arg
  BY DEF ExitNotify, ParentThere, crt_process, deadVars
<1>2. \/ /\ pcb[parent].waiting_child_pid \in {p, parent}
         /\ node # NoThread /\ status[node] = "TASK_WAITING"
         /\ add_thread_node_to_schedule(node)
      \/ /\ pcb[parent].waiting_child_pid \notin {p, parent}
         /\ UNCHANGED schedVars
  BY DEF ExitNotify, Wakes, NodeWaits, UnchangedScheduler, crt_process
<1>3. /\ "exit_dead" \in Places
      /\ \A l \in {"exit_notify", "exit_dead"} :
           /\ l \in LeftPlaces /\ l \notin DeadPlaces /\ l \notin SleepPlaces
           /\ l \notin ForkPlaces /\ l \notin WaitPlaces /\ l \notin HoldPlaces
  BY DEF ForkPlaces, LeftPlaces, DeadPlaces, WaitPlaces, HoldPlaces, SleepPlaces, Places
<1>4. /\ self \in UserThreads /\ pc[self] = "exit_notify" /\ pc'[self] = "exit_dead"
      /\ \A u \in UserThreads : u # self => pc'[u] = pc[u]
      /\ pc' \in [UserThreads -> Places]
  BY <1>1, <1>3, GotoMoves
<1>5. /\ self \in Threads /\ self # MainThread /\ self # CleanThread
      /\ status[self] = "TASK_RUNNING" /\ p \in UserProcesses
  BY <1>3, <1>4, RunsOn
<1>6. ChildFits(p) /\ Notifies(self, p)
  BY <1>4, <1>5 DEF ProcessInv, Notifies
<1>7. /\ pcb[p].status = "PROCESS_EXIT" /\ p \notin dead_processes
      /\ \A q \in UserProcesses : p \notin pcb[q].exit_children_processes
      /\ \A u \in UserThreads : ~Reaps(u, p) /\ (Notifies(u, p) => u = self)
  BY <1>4, <1>6 DEF ChildFits, NotifyFits
<1> HIDE DEF p
<1>8. parent \in UserProcesses /\ parent # p /\ node \in UserThreads \cup {NoThread}
  BY <1>1, <1>5, <1>7, Types DEF Pcb
<1> HIDE DEF parent, node
<1>9. /\ pcb' \in [UserProcesses -> Pcb]
      /\ \A q \in UserProcesses : q # parent => pcb'[q] = pcb[q]
      /\ pcb'[parent].exit_children_processes = pcb[parent].exit_children_processes \cup {p}
      /\ \A q \in UserProcesses :
           /\ pcb'[q].status = pcb[q].status /\ pcb'[q].threads = pcb[q].threads
           /\ pcb'[q].parent = pcb[q].parent /\ pcb'[q].lock = pcb[q].lock
           /\ pcb'[q].waiting_child_pid = pcb[q].waiting_child_pid
           /\ pcb'[q].waiting_thread_node = pcb[q].waiting_thread_node
  BY <1>1, <1>5, <1>8, Types DEF Pcb
<1>10. ProcessTypeOK'
  BY <1>1, <1>4, <1>9 DEF ProcessInv, ProcessTypeOK
<1>11. /\ self' = self /\ page_directory' = page_directory
       /\ process' = process /\ preempt_count' = preempt_count
       /\ \A u \in UserThreads :
            \/ status'[u] = status[u]
            \/ status[u] = "TASK_WAITING" /\ status'[u] = "TASK_READY"
       /\ status'[self] = status[self]
       /\ pcb[parent].waiting_child_pid \in {p, parent} => status'[node] = "TASK_READY"
  <2>1. CASE /\ status[node] = "TASK_WAITING" /\ node # NoThread
             /\ add_thread_node_to_schedule(node)
    <3>1. node \in Threads /\ node # self
      BY <1>5, <1>8, <2>1, People
    <3>2. status' = [status EXCEPT ![node] = "TASK_READY"]
      BY <2>1, <3>1, Types DEF add_thread_node_to_schedule
    <3> QED
      BY <1>5, <2>1, <3>1, <3>2, Types, People DEF add_thread_node_to_schedule, self
  <2>2. CASE pcb[parent].waiting_child_pid \notin {p, parent} /\ UNCHANGED schedVars
    BY <2>2 DEF schedVars, self
  <2> QED
    BY <1>2, <2>1, <2>2
<1>12. [SchedNext]_schedVars /\ SchedInv'
  <2>1. CASE /\ status[node] = "TASK_WAITING" /\ node # NoThread
             /\ add_thread_node_to_schedule(node)
    <3>1. node \in Threads /\ node # self
      BY <1>5, <1>8, <2>1, People
    <3>2. WakeThread(node)
      BY <2>1, <3>1 DEF WakeThread, self
    <3>3. SchedNext
      BY <3>1, <3>2 DEF SchedNext
    <3> QED
      BY <3>3, Types, SchedNextInv
  <2>2. CASE UNCHANGED schedVars
    BY <2>2, Types, SchedNextInv
  <2> QED
    BY <1>2, <2>1, <2>2
<1>13. ASSUME NEW t \in UserThreads
       PROVE  ThreadFits(t)' /\ (Active(t)' => Active(t))
  <2>1. own[t] \in UserProcesses /\ t \in Threads
    BY Types, People
  <2>2. CASE t # self
    <3>1. Attached(t) => /\ t \in pcb'[own[t]].threads
                         /\ pcb'[own[t]].status = "PROCESS_NORMAL"
      BY <1>9, <2>1 DEF ProcessInv, ThreadFits
    <3> QED
      BY <1>1, <1>4, <1>11, <2>1, <2>2, <3>1, ThreadStays
  <2>3. CASE t = self
    <3>1. ThreadFits(t) /\ ~Attached(t) /\ ~Attached(t)' /\ ~Active(t)'
      BY <1>3, <1>4, <2>3 DEF ProcessInv, Attached, Active
    <3>2. /\ status'[t] = "TASK_RUNNING" /\ pc'[t] \notin DeadPlaces
          /\ process'[t] = process[t] /\ t \notin dead_tasks'
      BY <1>1, <1>3, <1>4, <1>5, <1>11, <2>3, <3>1 DEF ThreadFits
    <3> QED
      BY <3>1, <3>2 DEF ThreadFits
  <2> QED
    BY <2>2, <2>3
<1>14. FrameInv'
  <2>1. OneActive'
    BY <1>1, <1>13, OneStays
  <2>2. InitFits'
    <3>1. pcb'[InitProcess].status = "PROCESS_NORMAL"
      BY <1>4, <1>9, UserRuns, People
    <3>2. \A t \in UserThreads : pc'[t] \in {"exit_lock", "exit_notify"} =>
            own'[t] # InitProcess
      BY <1>1, <1>4 DEF ProcessInv, InitFits
    <3> QED
      BY <3>1, <3>2, InitStays
  <2>3. page_directory # MainProcess => pcb'[page_directory].status # "PROCESS_NONE"
    BY <1>9, Types DEF ProcessInv, LoadedDirExists, UserProcesses
  <2>4. process'[MainThread] = MainProcess /\ process'[CleanThread] = MainProcess
    BY <1>11 DEF ProcessInv, SchedulerFits
  <2>5. \A t \in Threads : preempt_count'[t] = 0
    BY <1>11, Types DEF Steady
  <2>6. status'[self] # "TASK_READY"
    BY <1>5, <1>11
  <2> QED
    BY <1>11, <1>12, <1>13, <2>1, <2>2, <2>3, <2>4, <2>5, <2>6, StepFits
<1>15. ASSUME NEW t \in UserThreads
       PROVE  WaitFits(t)'
  <2>1. ThreadFits(t)' /\ WaitFits(t)
    BY <1>14 DEF FrameInv, ProcessInv
  <2>2. /\ pc'[t] \in WaitPlaces \/ pc'[t] = "wait_reap" => pc'[t] = pc[t]
        /\ own[t] \in UserProcesses /\ own'[t] = own[t] /\ arg'[t] = arg[t]
        /\ status'[t] = "TASK_WAITING" => status[t] = "TASK_WAITING"
    BY <1>1, <1>3, <1>4, <1>11, Types
  <2>3. CASE own[t] # parent \/ status'[t] # "TASK_WAITING"
    BY <1>9, <2>1, <2>2, <2>3, WaitStays
  <2>4. CASE own[t] = parent /\ status'[t] = "TASK_WAITING"
    <3>1. /\ pcb[parent].waiting_thread_node = t /\ Exited(parent, arg[t]) = {}
          /\ pc[t] \in WaitPlaces
          /\ pcb[parent].waiting_child_pid = IF arg[t] = MainProcess THEN parent ELSE arg[t]
      BY <2>1, <2>2, <2>4, WaitersWork DEF WaitFits
    <3>2. pcb[parent].waiting_child_pid \notin {p, parent}
      BY <1>11, <2>4, <3>1 DEF node
    <3>3. arg[t] # MainProcess /\ arg[t] # p
      BY <3>1, <3>2
    <3>4. Exited(own[t], arg[t])' = {}
      BY <1>9, <2>2, <2>4, <3>1, <3>3 DEF Exited
    <3>5. pc[t] = "wait_reap" => arg[t] \in UserProcesses
      BY <2>1 DEF WaitFits
    <3> QED
      BY <1>8, <1>9, <2>2, <2>4, <3>1, <3>4, <3>5 DEF WaitFits
  <2> QED
    BY <2>3, <2>4
<1>16. \A t \in UserThreads : ForkFits(t)'
  <2>1. \A t \in UserThreads : pc'[t] \in ForkPlaces =>
          pc[t] \in ForkPlaces /\ arg'[t] = arg[t] /\ arg[t] \in UserProcesses
    BY <1>1, <1>3, <1>4 DEF ProcessInv, ForkFits
  <2> QED
    BY <1>9, <2>1, ForkStays
<1>17. LockFits'
  <2>1. \A t \in UserThreads, q \in UserProcesses : Holds(t, q)' <=> Holds(t, q)
    BY <1>1, <1>3, <1>4 DEF Holds
  <2> QED
    BY <1>9, <2>1 DEF ProcessInv, LockFits
<1>18. ASSUME NEW c \in UserProcesses
       PROVE  ChildFits(c)'
  <2>1. \A t \in UserThreads : /\ Reaps(t, c)' => Reaps(t, c)
                               /\ Notifies(t, c)' => Notifies(t, c) /\ t # self
    BY <1>1, <1>4 DEF Reaps, Notifies
  <2>2. CASE c # p
    <3>1. \A q \in UserProcesses : c \in pcb'[q].exit_children_processes =>
            c \in pcb[q].exit_children_processes
      BY <1>9, <2>2
    <3> QED
      BY <1>1, <1>9, <2>1, <3>1, ChildStays
  <2>3. CASE c = p
    <3>1. \A t \in UserThreads : ~Reaps(t, c)' /\ ~Notifies(t, c)'
      BY <1>7, <2>1, <2>3
    <3>2. \A q \in UserProcesses : c \in pcb'[q].exit_children_processes => q = parent
      BY <1>7, <1>9, <2>3
    <3>3. pcb'[c].status = "PROCESS_EXIT" /\ c \notin dead_processes' /\ pcb'[c].parent = parent
      BY <1>1, <1>7, <1>9, <2>3 DEF parent
    <3> QED
      BY <3>1, <3>2, <3>3 DEF ChildFits, ListedFits, ReapFits, NotifyFits
  <2> QED
    BY <2>2, <2>3
<1> QED
  BY <1>10, <1>12, <1>14, <1>15, <1>16, <1>17, <1>18, Together

\* The thread is dead and handed to the clean thread, while it still runs.
LEMMA ExitDeadStep ==
  ASSUME ProcessInv, ExitDead
  PROVE  ProcessInv' /\ SchedNext
<1>1. /\ Goto("exit_dead", "exit_switch") /\ mark_thread_dead
      /\ dead_tasks' = dead_tasks \cup {self}
      /\ own' = [own EXCEPT ![self] = InitProcess]
      /\ pcb' = pcb /\ dead_processes' = dead_processes /\ arg' = arg
  BY DEF ExitDead
<1>2. /\ "exit_switch" \in Places /\ "exit_switch" \in LeftPlaces
      /\ "exit_switch" \in DeadPlaces /\ "exit_dead" \in LeftPlaces
      /\ "exit_dead" \notin DeadPlaces /\ "exit_dead" \notin SleepPlaces
      /\ \A l \in {"exit_dead", "exit_switch"} :
           l \notin ForkPlaces /\ l \notin WaitPlaces /\ l \notin HoldPlaces
  BY DEF ForkPlaces, LeftPlaces, DeadPlaces, WaitPlaces, HoldPlaces, SleepPlaces, Places
<1>3. /\ self \in UserThreads /\ pc[self] = "exit_dead" /\ pc'[self] = "exit_switch"
      /\ \A u \in UserThreads : u # self => pc'[u] = pc[u]
      /\ pc' \in [UserThreads -> Places]
  BY <1>1, <1>2, GotoMoves
<1>4. /\ self \in Threads /\ self # MainThread /\ self # CleanThread
      /\ status[self] = "TASK_RUNNING" /\ preempt_count[self] = 0
  BY <1>2, <1>3, RunsOn
<1>5. SchedNext /\ SchedInv'
  <2>1. KillThread
    BY <1>1, <1>4 DEF KillThread, self
  <2>2. SchedNext
    BY <2>1 DEF SchedNext
  <2> QED
    BY <2>2, Types, SchedNextInv
<1>6. /\ self' = self /\ page_directory' = page_directory
      /\ process' = process /\ preempt_count' = preempt_count
      /\ status'[self] = "TASK_DEAD"
      /\ \A u \in Threads : u # self => status'[u] = status[u]
  BY <1>1, <1>4, Types DEF mark_thread_dead, self
<1>7. /\ own' \in [UserThreads -> UserProcesses]
      /\ \A u \in UserThreads : u # self => own'[u] = own[u]
  BY <1>1, Types, People
<1>8. ProcessTypeOK'
  BY <1>1, <1>3, <1>7 DEF ProcessInv, ProcessTypeOK
<1>9. ASSUME NEW t \in UserThreads
      PROVE  ThreadFits(t)' /\ (Active(t)' => Active(t) /\ own'[t] = own[t])
  <2>1. t \in Threads /\ ThreadFits(t)
    BY People DEF ProcessInv
  <2>2. CASE t # self
    <3>1. Attached(t) => /\ t \in pcb'[own[t]].threads
                         /\ pcb'[own[t]].status = "PROCESS_NORMAL"
      BY <1>1, <2>1 DEF ThreadFits
    <3> QED
      BY <1>1, <1>3, <1>6, <1>7, <2>1, <2>2, <3>1, ThreadStays
  <2>3. CASE t = self
    <3>1. ~Attached(t) /\ ~Attached(t)' /\ ~Active(t)'
      BY <1>2, <1>3, <2>3 DEF Attached, Active
    <3>2. status'[t] = "TASK_DEAD" /\ pc'[t] \in DeadPlaces /\ process'[t] = process[t]
      BY <1>2, <1>3, <1>6, <2>3
    <3> QED
      BY <2>1, <3>1, <3>2 DEF ThreadFits
  <2> QED
    BY <2>2, <2>3
<1>10. FrameInv'
  <2>1. OneActive'
    BY <1>9, OneStays
  <2>2. InitFits'
    <3>1. pcb'[InitProcess].status = "PROCESS_NORMAL"
      BY <1>1, <1>3, UserRuns
    <3>2. \A t \in UserThreads : pc'[t] \in {"exit_lock", "exit_notify"} =>
            own'[t] # InitProcess
      BY <1>3, <1>7 DEF ProcessInv, InitFits
    <3> QED
      BY <3>1, <3>2, InitStays
  <2>3. page_directory # MainProcess => pcb'[page_directory].status # "PROCESS_NONE"
    BY <1>1 DEF ProcessInv, LoadedDirExists
  <2>4. process'[MainThread] = MainProcess /\ process'[CleanThread] = MainProcess
    BY <1>6 DEF ProcessInv, SchedulerFits
  <2>5. \A t \in Threads : preempt_count'[t] = 0
    BY <1>6, Types DEF Steady
  <2> QED
    BY <1>5, <1>6, <1>9, <2>1, <2>2, <2>3, <2>4, <2>5, StepFits
<1>11. ASSUME NEW t \in UserThreads
       PROVE  WaitFits(t)'
  <2>1. ThreadFits(t)'
    BY <1>10 DEF FrameInv
  <2>2. pc'[t] \in WaitPlaces \/ pc'[t] = "wait_reap" =>
          pc'[t] = pc[t] /\ own'[t] = own[t] /\ status'[t] = status[t]
    BY <1>2, <1>3, <1>6, <1>7, People
  <2> QED
    BY <1>1, <2>1, <2>2, WaitStays
<1>12. \A t \in UserThreads : ForkFits(t)'
  <2>1. \A t \in UserThreads : pc'[t] \in ForkPlaces => pc[t] \in ForkPlaces
    BY <1>2, <1>3
  <2> QED
    BY <1>1, <2>1, ForkStays
<1>13. LockFits'
  <2>1. \A t \in UserThreads, q \in UserProcesses : Holds(t, q)' <=> Holds(t, q)
    BY <1>2, <1>3, <1>7 DEF Holds
  <2> QED
    BY <1>1, <2>1 DEF ProcessInv, LockFits
<1>14. \A c \in UserProcesses : ChildFits(c)'
  <2>1. \A c \in UserProcesses : \A t \in UserThreads :
          /\ Reaps(t, c)' => Reaps(t, c)
          /\ Notifies(t, c)' => Notifies(t, c)
    BY <1>1, <1>3, <1>7 DEF Reaps, Notifies
  <2> QED
    BY <1>1, <2>1, ChildStays
<1> QED
  BY <1>5, <1>8, <1>10, <1>11, <1>12, <1>13, <1>14, Together

-----------------------------------------------------------------------------
(* A thread t is started in process c: by fork, by exec or by the kernel.  *)

\* The process has the new thread; its other threads, if any, are on their way out.
Birth(t, c) ==
  /\ own' = [own EXCEPT ![t] = c] /\ pc'[t] = "user"
  /\ dead_tasks' = dead_tasks /\ dead_processes' = dead_processes
  /\ \A u \in UserThreads : u # t /\ u # self => pc'[u] = pc[u] /\ arg'[u] = arg[u]
  /\ \/ self \notin UserThreads
     \/ /\ pc[self] \in {"fork_thread", "exec_start"}
        /\ pc'[self] \in {"user", "exit_detach"}
  /\ \A q \in UserProcesses : q # c => pcb'[q] = pcb[q]
  /\ pcb[c].status \in {"PROCESS_NONE", "PROCESS_NORMAL"}
  /\ pcb'[c].status = "PROCESS_NORMAL" /\ t \in pcb'[c].threads
  /\ pcb[c].status = "PROCESS_NONE" \/ pcb[c].threads \subseteq pcb'[c].threads
  /\ \/ /\ pcb'[c].parent = pcb[c].parent /\ pcb'[c].lock = pcb[c].lock
        /\ pcb'[c].exit_children_processes = pcb[c].exit_children_processes
        /\ pcb'[c].waiting_child_pid = pcb[c].waiting_child_pid
        /\ pcb'[c].waiting_thread_node = pcb[c].waiting_thread_node
     \/ /\ pcb[c].status = "PROCESS_NONE"
        /\ pcb'[c].exit_children_processes = {} /\ ~pcb'[c].lock
  /\ pcb'[InitProcess].status = "PROCESS_NORMAL"
  /\ \A u \in UserThreads : u # t /\ Active(u) /\ own[u] = c =>
       u = self /\ pc'[self] = "exit_detach"
  /\ \A u \in UserThreads : u # self /\ pc[u] \in ForkPlaces => arg[u] # c

LEMMA BirthStep ==
  ASSUME ProcessInv, NEW t \in UserThreads, NEW c \in UserProcesses, NEW r,
         status[t] = "TASK_NONE", add_thread_to_schedule(t, c, r),
         SchedInv', ProcessTypeOK', Birth(t, c)
  PROVE  ProcessInv'
<1> USE DEF Birth
<1>1. /\ "user" \notin LeftPlaces /\ "user" \notin DeadPlaces
      /\ \A l \in {"user", "exit_detach"} :
           l \notin ForkPlaces /\ l \notin WaitPlaces /\ l \notin HoldPlaces
      /\ \A l \in {"user", "exit_detach", "fork_thread", "exec_start"} :
           /\ l \notin DeadPlaces /\ l \notin LeftPlaces /\ l \notin SleepPlaces
           /\ l \notin HoldPlaces
      /\ \A l \in DeadPlaces : l \notin HoldPlaces /\ l # "exit_notify" /\ l # "wait_reap"
  BY DEF ForkPlaces, LeftPlaces, DeadPlaces, WaitPlaces, HoldPlaces, SleepPlaces, Places
<1>2. /\ t \in Threads /\ t # MainThread /\ t # CleanThread
      /\ ThreadFits(t) /\ pc[t] \in {"user"} \cup DeadPlaces /\ t \notin dead_tasks
  BY People DEF ProcessInv, ThreadFits
<1>3. /\ self' = self /\ page_directory' = page_directory
      /\ status'[t] = "TASK_READY" /\ process'[t] = c /\ preempt_count'[t] = 0
      /\ \A u \in Threads : u # t =>
           /\ status'[u] = status[u] /\ process'[u] = process[u]
           /\ preempt_count'[u] = preempt_count[u]
  <2>1. /\ status \in [Threads -> TaskStatus]
        /\ process \in [Threads -> Processes \cup {NoProcess}]
        /\ preempt_count \in [Threads -> 0..MaxPreempt]
    BY DEF ProcessInv, SchedulerFits, SchedInv, SchedTypeOK
  <2> QED
    BY <1>2, <2>1 DEF add_thread_to_schedule, self
<1>4. /\ own'[t] = c
      /\ \A u \in UserThreads : u # t => own'[u] = own[u]
  BY Types
<1>5. self # t /\ self \in Threads /\ status[self] # "TASK_NONE"
  BY Types DEF SchedInv, IdleAndCurrentAlive, self
<1>6. self \in UserThreads => status[self] = "TASK_RUNNING" /\ Active(self)
  BY <1>1, UserRuns DEF Active
<1>7. \A u \in UserThreads : Attached(u) /\ u # t =>
        u \in pcb'[own[u]].threads /\ pcb'[own[u]].status = "PROCESS_NORMAL"
  <2>1. \A u \in UserThreads : Attached(u) =>
          u \in pcb[own[u]].threads /\ pcb[own[u]].status = "PROCESS_NORMAL"
    BY DEF ProcessInv, ThreadFits
  <2>2. \A u \in UserThreads : own[u] \in UserProcesses
    BY Types
  <2> QED
    BY <2>1, <2>2
<1>8. ASSUME NEW u \in UserThreads, u # t
      PROVE  ThreadFits(u)' /\ (Active(u)' => Active(u))
  <2>1. u \in Threads
    BY People
  <2>2. CASE u # self
    BY <1>3, <1>4, <1>7, <1>8, <2>1, <2>2, ThreadStays
  <2>3. CASE u = self
    <3>1. Attached(u) /\ Attached(u)' /\ ThreadFits(u) /\ Active(u)
      BY <1>1, <1>3, <1>5, <1>6, <1>8, <2>1, <2>3 DEF Active, Attached, ProcessInv
    <3>2. /\ status'[u] = "TASK_RUNNING" /\ pc'[u] \notin DeadPlaces
          /\ process'[u] = process[u] /\ own'[u] = own[u] /\ u \notin dead_tasks'
      BY <1>1, <1>3, <1>4, <1>6, <1>8, <2>1, <2>3, <3>1 DEF ThreadFits
    <3> QED
      BY <1>7, <1>8, <3>1, <3>2 DEF ThreadFits
  <2> QED
    BY <2>2, <2>3
<1>9. ThreadFits(t)'
  <2>1. Attached(t)'
    BY <1>1, <1>3 DEF Attached
  <2> QED
    BY <1>1, <1>2, <1>3, <1>4, <2>1 DEF ThreadFits
<1>10. FrameInv'
  <2>1. OneActive'
    <3>1. \A u \in UserThreads : u # t /\ Active(u)' => own'[u] # c
      BY <1>4, <1>8 DEF Active
    <3>2. ASSUME NEW u \in UserThreads, NEW v \in UserThreads, Active(u)', Active(v)',
                 own'[u] = own'[v]
          PROVE  u = v
      BY <1>4, <1>8, <3>1, <3>2 DEF ProcessInv, OneActive
    <3> QED
      BY <3>2 DEF OneActive
  <2>2. InitFits'
    <3>1. \A u \in UserThreads : pc'[u] \in {"exit_lock", "exit_notify"} =>
            own'[u] # InitProcess
      BY <1>4 DEF ProcessInv, InitFits
    <3> QED
      BY <3>1, InitStays
  <2>3. page_directory # MainProcess => pcb'[page_directory].status # "PROCESS_NONE"
    BY Types DEF ProcessInv, LoadedDirExists, UserProcesses
  <2>4. process'[MainThread] = MainProcess /\ process'[CleanThread] = MainProcess
    BY <1>2, <1>3, People DEF ProcessInv, SchedulerFits
  <2>5. \A u \in Threads : preempt_count'[u] = 0
    BY <1>3, Types DEF Steady
  <2>6. self # MainThread => status'[self] # "TASK_READY"
    BY <1>3, <1>5, Types DEF Steady, self
  <2> QED
    BY <1>3, <1>8, <1>9, <2>1, <2>2, <2>3, <2>4, <2>5, <2>6, StepFits
<1>11. ASSUME NEW u \in UserThreads
       PROVE  WaitFits(u)'
  <2>1. ThreadFits(u)'
    BY <1>10 DEF FrameInv
  <2>2. pc'[u] \in WaitPlaces \/ pc'[u] = "wait_reap" =>
          /\ pc'[u] = pc[u] /\ own'[u] = own[u] /\ arg'[u] = arg[u]
          /\ status'[u] = status[u]
    BY <1>1, <1>3, <1>4, People
  <2>3. pc[u] \in WaitPlaces =>
          /\ own[u] \in UserProcesses /\ pcb[own[u]].status = "PROCESS_NORMAL"
    BY WaitersWork, Types DEF ProcessInv, ThreadFits, Active
  <2>4. pc[u] \in WaitPlaces =>
          /\ pcb'[own[u]].waiting_child_pid = pcb[own[u]].waiting_child_pid
          /\ pcb'[own[u]].waiting_thread_node = pcb[own[u]].waiting_thread_node
          /\ pcb'[own[u]].exit_children_processes = pcb[own[u]].exit_children_processes
    BY <2>3
  <2> QED
    BY <2>1, <2>2, <2>4, WaitStays
<1>12. \A u \in UserThreads : ForkFits(u)'
  <2>1. ASSUME NEW u \in UserThreads, pc'[u] \in ForkPlaces
        PROVE  pc[u] \in ForkPlaces /\ arg'[u] = arg[u] /\ pcb'[arg[u]] = pcb[arg[u]]
    <3>1. u # t /\ u # self
      BY <1>1, <2>1
    <3>2. pc[u] \in ForkPlaces /\ arg'[u] = arg[u]
      BY <2>1, <3>1
    <3>3. arg[u] \in UserProcesses /\ arg[u] # c
      BY <3>1, <3>2 DEF ProcessInv, ForkFits
    <3> QED
      BY <3>2, <3>3
  <2> QED
    BY <2>1, ForkStays
<1>13. LockFits'
  <2>1. \A u \in UserThreads, q \in UserProcesses : Holds(u, q)' <=> Holds(u, q)
    BY <1>1, <1>2, <1>4 DEF Holds
  <2>2. pcb[c].status = "PROCESS_NONE" => \A u \in UserThreads : ~Holds(u, c)
    BY WaitersWork, PlacesApart DEF ProcessInv, ThreadFits, Active, Holds
  <2>3. \A q \in UserProcesses : q # c \/ pcb[c].status # "PROCESS_NONE" =>
          pcb'[q].lock = pcb[q].lock
    OBVIOUS
  <2>4. \A q \in UserProcesses : pcb[q].lock <=> \E u \in UserThreads : Holds(u, q)
    BY DEF ProcessInv, LockFits
  <2>5. ASSUME NEW q \in UserProcesses
        PROVE  pcb'[q].lock <=> \E u \in UserThreads : Holds(u, q)'
    BY <2>1, <2>2, <2>3, <2>4
  <2> QED
    BY <2>5 DEF LockFits
<1>14. ASSUME NEW d \in UserProcesses
       PROVE  ChildFits(d)'
  <2>1. \A u \in UserThreads : /\ Reaps(u, d)' => Reaps(u, d)
                               /\ Notifies(u, d)' => Notifies(u, d)
    BY <1>1, <1>2, <1>4 DEF Reaps, Notifies
  <2>2. pcb[d].status = "PROCESS_EXIT" => pcb'[d] = pcb[d]
    OBVIOUS
  <2>3. \A q \in UserProcesses : d \in pcb'[q].exit_children_processes =>
          d \in pcb[q].exit_children_processes
    OBVIOUS
  <2>4. \A q \in UserProcesses : d \in pcb'[q].exit_children_processes =>
          pcb'[d].parent = pcb[d].parent
    BY <2>2, <2>3 DEF ProcessInv, ChildFits, ListedFits
  <2> QED
    BY <2>1, <2>2, <2>3, <2>4, ChildStays
<1> QED
  BY <1>10, <1>11, <1>12, <1>13, <1>14, Together

\* fork_crt_thread and add_thread_to_schedule.
LEMMA ForkCopyThreadStep ==
  ASSUME ProcessInv, ForkCopyThread
  PROVE  ProcessInv' /\ [SchedNext]_schedVars
<1> DEFINE c == arg[self]
<1>1. self \in UserThreads /\ pc[self] = "fork_thread"
  BY DEF ForkCopyThread
<1>2. /\ "fork_thread" \in ForkPlaces /\ "fork_thread" \notin LeftPlaces
      /\ "fork_thread" \notin SleepPlaces /\ "fork_thread" \notin DeadPlaces
      /\ "user" \in Places
  BY DEF ForkPlaces, LeftPlaces, SleepPlaces, DeadPlaces, Places
<1>3. ASSUME NEW t \in UserThreads, status[t] = "TASK_NONE", ForkThreadOf(t)
      PROVE  ProcessInv' /\ SchedNext
  <2>1. /\ pcb' = [pcb EXCEPT ![c].threads = {t}]
        /\ add_thread_to_schedule(t, c, need_reschedule[self])
        /\ own' = [own EXCEPT ![t] = c]
        /\ pc' = [pc EXCEPT ![self] = "user", ![t] = "user"]
        /\ arg' = [arg EXCEPT ![self] = MainProcess]
        /\ dead_tasks' = dead_tasks /\ dead_processes' = dead_processes
    BY <1>3 DEF ForkThreadOf, deadVars
  <2>2. /\ self \in Threads /\ self # MainThread /\ status[self] = "TASK_RUNNING"
        /\ preempt_count[self] = 0 /\ pcb[InitProcess].status = "PROCESS_NORMAL"
    BY <1>1, <1>2, RunsOn, UserRuns
  <2>3. /\ c \in UserProcesses /\ pcb[c].status = "PROCESS_NORMAL" /\ pcb[c].threads = {}
        /\ \A u \in UserThreads : Forks(u, c) => u = self
    BY <1>1, <1>2 DEF ProcessInv, ForkFits
  <2> HIDE DEF c
  <2>4. /\ pcb' \in [UserProcesses -> Pcb]
        /\ \A q \in UserProcesses : q # c => pcb'[q] = pcb[q]
        /\ pcb'[c].threads = {t} /\ pcb'[c].status = pcb[c].status
        /\ pcb'[c].parent = pcb[c].parent /\ pcb'[c].lock = pcb[c].lock
        /\ pcb'[c].exit_children_processes = pcb[c].exit_children_processes
        /\ pcb'[c].waiting_child_pid = pcb[c].waiting_child_pid
        /\ pcb'[c].waiting_thread_node = pcb[c].waiting_thread_node
    BY <1>3, <2>1, <2>3, Types DEF Pcb
  <2>5. /\ arg' \in [UserThreads -> Processes]
        /\ \A u \in UserThreads : u # self => arg'[u] = arg[u]
    BY <2>1, Types, People
  <2>6. /\ pc' \in [UserThreads -> Places] /\ pc'[t] = "user" /\ pc'[self] = "user"
        /\ \A u \in UserThreads : u # t /\ u # self => pc'[u] = pc[u]
    BY <1>1, <1>2, <1>3, <2>1, Types
  <2>7. own' \in [UserThreads -> UserProcesses]
    BY <2>1, <2>3, Types
  <2>8. ProcessTypeOK'
    <3>1. \A q \in UserProcesses : IsFiniteSet(pcb'[q].threads)
      <4>1. IsFiniteSet({t})
        BY FS_Singleton
      <4> QED
        BY <2>4, <4>1 DEF ProcessInv, ProcessTypeOK
    <3> QED
      BY <2>1, <2>4, <2>5, <2>6, <2>7, <3>1 DEF ProcessInv, ProcessTypeOK
  <2>9. SchedNext /\ SchedInv'
    <3>1. ForkThread(t, c)
      BY <1>3, <2>1, <2>2 DEF ForkThread, self
    <3>2. SchedNext
      BY <1>3, <2>3, <3>1, People DEF SchedNext
    <3> QED
      BY <3>2, Types, SchedNextInv
  <2>10. \A u \in UserThreads : Active(u) => own[u] # c
    BY <2>3 DEF ProcessInv, ThreadFits, Active
  <2>11. \A u \in UserThreads : u # self /\ pc[u] \in ForkPlaces => arg[u] # c
    BY <2>3 DEF Forks
  <2>12. pcb'[InitProcess].status = "PROCESS_NORMAL" /\ pcb'[c].status = "PROCESS_NORMAL"
    BY <2>2, <2>3, <2>4, People
  <2>13. t \in pcb'[c].threads /\ pcb[c].threads \subseteq pcb'[c].threads
    BY <2>3, <2>4
  <2>14. ProcessInv'
    <3>1. \A u \in UserThreads : u # t /\ u # self => pc'[u] = pc[u] /\ arg'[u] = arg[u]
      BY <2>5, <2>6
    <3>2. pc[self] \in {"fork_thread", "exec_start"} /\ pc'[self] \in {"user", "exit_detach"}
      BY <1>1, <2>6
    <3>3. pcb[c].status \in {"PROCESS_NONE", "PROCESS_NORMAL"}
      BY <2>3
    <3>4. \A u \in UserThreads : u # t /\ Active(u) /\ own[u] = c =>
            u = self /\ pc'[self] = "exit_detach"
      BY <2>10
    <3>5. Birth(t, c)
      BY <2>1, <2>4, <2>6, <2>11, <2>12, <2>13, <3>1, <3>2, <3>3, <3>4 DEF Birth
    <3> QED
      BY <1>3, <2>1, <2>3, <2>8, <2>9, <3>5, BirthStep
  <2> QED
    BY <2>9, <2>14
<1>4. CASE /\ Goto("fork_thread", "user")
           /\ arg' = [arg EXCEPT ![self] = MainProcess]
           /\ UNCHANGED <<schedVars, pcb, deadVars, own, forks, undefined>>
  <2>1. /\ arg' \in [UserThreads -> Processes]
        /\ \A u \in UserThreads : u # self => arg'[u] = arg[u]
    BY <1>4, Types, People
  <2>2. UNCHANGED <<schedVars, pcb, deadVars, own>>
    BY <1>4
  <2> QED
    BY <1>4, <2>1, <2>2, CallTurn
<1> QED
  BY <1>3, <1>4 DEF ForkCopyThread

\* exec starts the new program in a new thread of the process.
LEMMA ExecStartStep ==
  ASSUME ProcessInv, NEW t \in UserThreads, ExecStart(t)
  PROVE  ProcessInv' /\ SchedNext
<1> DEFINE c == own[self]
<1>1. /\ self \in UserThreads /\ pc[self] = "exec_start" /\ status[t] = "TASK_NONE"
      /\ pcb' = [pcb EXCEPT ![c].threads = @ \cup {t}]
      /\ add_thread_to_schedule(t, c, FALSE)
      /\ own' = [own EXCEPT ![t] = c]
      /\ pc' = [pc EXCEPT ![self] = "exit_detach", ![t] = "user"]
      /\ arg' = arg
      /\ dead_tasks' = dead_tasks /\ dead_processes' = dead_processes
  BY DEF ExecStart, crt_process, deadVars
<1>2. /\ "exec_start" \notin LeftPlaces /\ "exec_start" \notin SleepPlaces
      /\ "exec_start" \notin DeadPlaces /\ "user" \in Places /\ "exit_detach" \in Places
  BY DEF ForkPlaces, LeftPlaces, SleepPlaces, DeadPlaces, Places
<1>3. /\ status[self] = "TASK_RUNNING" /\ pcb[InitProcess].status = "PROCESS_NORMAL"
      /\ c \in UserProcesses /\ pcb[c].status = "PROCESS_NORMAL"
      /\ self \in pcb[c].threads /\ Active(self)
  BY <1>1, <1>2, UserRuns DEF Active
<1>4. \A u \in UserThreads : Active(u) /\ own[u] = c => u = self
  BY <1>1, <1>3 DEF ProcessInv, OneActive
<1> HIDE DEF c
<1>5. /\ pcb' \in [UserProcesses -> Pcb]
      /\ \A q \in UserProcesses : q # c => pcb'[q] = pcb[q]
      /\ pcb'[c].threads = pcb[c].threads \cup {t} /\ pcb'[c].status = pcb[c].status
      /\ pcb'[c].parent = pcb[c].parent /\ pcb'[c].lock = pcb[c].lock
      /\ pcb'[c].exit_children_processes = pcb[c].exit_children_processes
      /\ pcb'[c].waiting_child_pid = pcb[c].waiting_child_pid
      /\ pcb'[c].waiting_thread_node = pcb[c].waiting_thread_node
  BY <1>1, <1>3, Types DEF Pcb
<1>6. /\ pc' \in [UserThreads -> Places] /\ pc'[t] = "user" /\ pc'[self] = "exit_detach"
      /\ \A u \in UserThreads : u # t /\ u # self => pc'[u] = pc[u]
  BY <1>1, <1>2, <1>3, Types
<1>7. own' \in [UserThreads -> UserProcesses]
  BY <1>1, <1>3, Types
<1>8. ProcessTypeOK'
  <2>1. \A q \in UserProcesses : IsFiniteSet(pcb'[q].threads)
    <3>1. \A q \in UserProcesses : IsFiniteSet(pcb[q].threads)
      BY DEF ProcessInv, ProcessTypeOK
    <3>2. IsFiniteSet(pcb[c].threads \cup {t})
      BY <1>3, <3>1, FS_AddElement
    <3> QED
      BY <1>5, <3>1, <3>2
  <2> QED
    BY <1>1, <1>5, <1>6, <1>7, <2>1 DEF ProcessInv, ProcessTypeOK
<1>9. SchedNext /\ SchedInv'
  <2>1. StartThread(t, c)
    BY <1>1 DEF StartThread
  <2>2. SchedNext
    BY <1>3, <2>1, People DEF SchedNext
  <2> QED
    BY <2>2, Types, SchedNextInv
<1>10. \A u \in UserThreads : pc[u] \in ForkPlaces => arg[u] # c
  BY <1>3 DEF ProcessInv, ForkFits
<1>11. pcb'[InitProcess].status = "PROCESS_NORMAL" /\ pcb'[c].status = "PROCESS_NORMAL"
  BY <1>3, <1>5, People
<1>12. t \in pcb'[c].threads /\ pcb[c].threads \subseteq pcb'[c].threads
  BY <1>5
<1>13. ProcessInv'
  <2>1. \A u \in UserThreads : u # t /\ u # self => pc'[u] = pc[u] /\ arg'[u] = arg[u]
    BY <1>1, <1>6
  <2>2. pc[self] \in {"fork_thread", "exec_start"} /\ pc'[self] \in {"user", "exit_detach"}
    BY <1>1, <1>6
  <2>3. pcb[c].status \in {"PROCESS_NONE", "PROCESS_NORMAL"}
    BY <1>3
  <2>4. \A u \in UserThreads : u # t /\ Active(u) /\ own[u] = c =>
          u = self /\ pc'[self] = "exit_detach"
    BY <1>4, <1>6
  <2>5. Birth(t, c)
    BY <1>1, <1>5, <1>6, <1>10, <1>11, <1>12, <2>1, <2>2, <2>3, <2>4 DEF Birth
  <2> QED
    BY <1>1, <1>3, <1>8, <1>9, <2>5, BirthStep
<1> QED
  BY <1>9, <1>13

\* kernel_main_thread starts the init process.
LEMMA StartInitStep ==
  ASSUME ProcessInv, NEW t \in UserThreads, StartInit(t)
  PROVE  ProcessInv' /\ SchedNext
<1> DEFINE c == InitProcess
<1>1. /\ self = MainThread /\ pcb[c].status = "PROCESS_NONE"
      /\ add_thread_to_schedule(t, c, FALSE)
      /\ pcb' = [pcb EXCEPT ![c] = [NewPcb(NoProcess) EXCEPT !.threads = {t}]]
      /\ own' = [own EXCEPT ![t] = c]
      /\ pc' = pc /\ arg' = arg
      /\ dead_tasks' = dead_tasks /\ dead_processes' = dead_processes
  BY DEF StartInit, deadVars
<1>2. c \in UserProcesses /\ self \notin UserThreads
  BY <1>1, People
<1>3. /\ \A u \in UserThreads : status[u] = "TASK_NONE" /\ pc[u] = "user"
      /\ pcb[c].threads \subseteq UserThreads
  BY <1>1, <1>2, Types DEF ProcessInv, InitFits, Pcb
<1>4. /\ pcb' \in [UserProcesses -> Pcb]
      /\ \A q \in UserProcesses : q # c => pcb'[q] = pcb[q]
      /\ pcb'[c].threads = {t} /\ pcb'[c].status = "PROCESS_NORMAL"
      /\ pcb'[c].exit_children_processes = {} /\ ~pcb'[c].lock
  <2>1. FreePcb \in Pcb
    BY People DEF FreePcb, Pcb
  <2>2. NewPcb(NoProcess) \in Pcb
    BY <2>1 DEF NewPcb, Pcb
  <2>3. [NewPcb(NoProcess) EXCEPT !.threads = {t}] \in Pcb
    BY <2>2 DEF Pcb
  <2>4. pcb'[c] = [NewPcb(NoProcess) EXCEPT !.threads = {t}]
    BY <1>1, <1>2, Types
  <2>5. pcb' \in [UserProcesses -> Pcb] /\ \A q \in UserProcesses : q # c => pcb'[q] = pcb[q]
    BY <1>1, <2>3, Types
  <2> QED
    BY <2>4, <2>5 DEF NewPcb, FreePcb
<1>5. own' \in [UserThreads -> UserProcesses]
  BY <1>1, <1>2, Types
<1>6. ProcessTypeOK'
  <2>1. \A q \in UserProcesses : IsFiniteSet(pcb'[q].threads)
    <3>1. IsFiniteSet({t})
      BY FS_Singleton
    <3> QED
      BY <1>4, <3>1 DEF ProcessInv, ProcessTypeOK
  <2> QED
    BY <1>1, <1>4, <1>5, <2>1 DEF ProcessInv, ProcessTypeOK
<1>7. SchedNext /\ SchedInv'
  <2>1. StartThread(t, c)
    BY <1>1, <1>3 DEF StartThread
  <2>2. SchedNext
    BY <1>2, <2>1, People DEF SchedNext
  <2> QED
    BY <2>2, Types, SchedNextInv
<1>8. \A u \in UserThreads : pc[u] \notin ForkPlaces /\ ~Active(u)
  BY <1>3 DEF ForkPlaces, Active, Attached
<1>9. t \in pcb'[c].threads /\ pcb'[InitProcess].status = "PROCESS_NORMAL"
  BY <1>4
<1>10. Birth(t, c)
  BY <1>1, <1>2, <1>3, <1>4, <1>8, <1>9, Types DEF Birth
<1>11. ProcessInv'
  BY <1>1, <1>2, <1>3, <1>6, <1>7, <1>10, BirthStep
<1> QED
  BY <1>7, <1>11

-----------------------------------------------------------------------------
(* The clean thread, the timer and the start.                              *)

\* destroy_thread
LEMMA CleanThreadOfStep ==
  ASSUME ProcessInv, NEW t \in UserThreads, CleanThreadOf(t)
  PROVE  ProcessInv' /\ SchedNext
<1>1. /\ self = CleanThread /\ t \in dead_tasks /\ destroy_thread(t)
      /\ dead_tasks' = dead_tasks \ {t}
      /\ pcb' = pcb /\ dead_processes' = dead_processes /\ pc' = pc /\ own' = own /\ arg' = arg
  BY DEF CleanThreadOf
<1>2. /\ t \in Threads /\ t # self /\ self \in Threads
      /\ ThreadFits(t) /\ status[t] = "TASK_DEAD" /\ pc[t] \in DeadPlaces
      /\ self # MainThread
  BY <1>1, People DEF ProcessInv, ThreadFits
<1>3. SchedNext /\ SchedInv'
  <2>1. DestroyThread(t)
    BY <1>1, <1>2 DEF DestroyThread, self
  <2>2. SchedNext
    BY <1>2, <2>1 DEF SchedNext
  <2> QED
    BY <2>2, Types, SchedNextInv
<1>4. /\ self' = self /\ page_directory' = page_directory
      /\ process' = process /\ preempt_count' = preempt_count
      /\ status'[t] = "TASK_NONE"
      /\ \A u \in Threads : u # t => status'[u] = status[u]
  BY <1>1, <1>2, Types DEF destroy_thread, self
<1>5. ProcessTypeOK'
  BY <1>1 DEF ProcessInv, ProcessTypeOK
<1>6. ASSUME NEW u \in UserThreads
      PROVE  ThreadFits(u)' /\ (Active(u)' => Active(u))
  <2>1. u \in Threads /\ ThreadFits(u)
    BY People DEF ProcessInv
  <2>2. CASE u # t
    <3>1. Attached(u) => /\ u \in pcb'[own[u]].threads
                         /\ pcb'[own[u]].status = "PROCESS_NORMAL"
      BY <1>1, <2>1 DEF ThreadFits
    <3> QED
      BY <1>1, <1>4, <2>1, <2>2, <3>1, ThreadStays
  <2>3. CASE u = t
    <3>1. ~Attached(u) /\ ~Attached(u)' /\ ~Active(u)'
      BY <1>1, <1>2, <1>4, <2>3, PlacesApart DEF Attached, Active
    <3>2. status'[u] = "TASK_NONE" /\ u \notin dead_tasks' /\ process'[u] = process[u]
      BY <1>1, <1>4, <2>3
    <3> QED
      BY <1>1, <1>2, <2>1, <2>3, <3>1, <3>2 DEF ThreadFits
  <2> QED
    BY <2>2, <2>3
<1>7. FrameInv'
  <2>1. OneActive'
    BY <1>1, <1>6, OneStays
  <2>2. InitFits'
    <3>1. pcb[InitProcess].status = "PROCESS_NORMAL"
      BY <1>2, Types, People DEF ProcessInv, InitFits, Pcb
    <3>2. \A u \in UserThreads : pc'[u] \in {"exit_lock", "exit_notify"} =>
            own'[u] # InitProcess
      BY <1>1 DEF ProcessInv, InitFits
    <3> QED
      BY <1>1, <3>1, <3>2, InitStays
  <2>3. page_directory # MainProcess => pcb'[page_directory].status # "PROCESS_NONE"
    BY <1>1 DEF ProcessInv, LoadedDirExists
  <2>4. process'[MainThread] = MainProcess /\ process'[CleanThread] = MainProcess
    BY <1>4 DEF ProcessInv, SchedulerFits
  <2>5. \A u \in Threads : preempt_count'[u] = 0
    BY <1>4, Types DEF Steady
  <2>6. status'[self] # "TASK_READY"
    BY <1>2, <1>4, Types DEF Steady, self
  <2> QED
    BY <1>3, <1>4, <1>6, <2>1, <2>2, <2>3, <2>4, <2>5, <2>6, StepFits
<1>8. ASSUME NEW u \in UserThreads
      PROVE  WaitFits(u)'
  <2>1. ThreadFits(u)' /\ (status'[u] = "TASK_WAITING" => status[u] = "TASK_WAITING")
    BY <1>4, <1>7, People DEF FrameInv
  <2> QED
    BY <1>1, <2>1, WaitStays
<1>9. \A u \in UserThreads : ForkFits(u)'
  BY <1>1, ForkStays
<1>10. LockFits'
  BY <1>1 DEF ProcessInv, LockFits, Holds
<1>11. \A c \in UserProcesses : ChildFits(c)'
  <2>1. \A c \in UserProcesses : \A u \in UserThreads :
          /\ Reaps(u, c)' => Reaps(u, c)
          /\ Notifies(u, c)' => Notifies(u, c)
    BY <1>1 DEF Reaps, Notifies
  <2> QED
    BY <1>1, <2>1, ChildStays
<1> QED
  BY <1>3, <1>5, <1>7, <1>8, <1>9, <1>10, <1>11, Together

\* destroy_process: nobody is in the process, nobody will reap it, and its page directory
\* is not loaded while the clean thread runs.
LEMMA DestroyProcessStep ==
  ASSUME ProcessInv, NEW p \in UserProcesses, destroy_process(p)
  PROVE  ProcessInv' /\ UNCHANGED schedVars
<1>1. /\ self = CleanThread /\ p \in dead_processes
      /\ pcb' = [q \in UserProcesses |->
                   IF q = p THEN FreePcb
                   ELSE IF pcb[q].parent = p THEN [pcb[q] EXCEPT !.parent = NoProcess]
                   ELSE pcb[q]]
      /\ dead_processes' = dead_processes \ {p}
      /\ UNCHANGED schedVars
      /\ dead_tasks' = dead_tasks /\ pc' = pc /\ own' = own /\ arg' = arg
  BY DEF destroy_process
<1>2. pcb[p].status = "PROCESS_EXIT"
  BY <1>1 DEF ProcessInv, ChildFits
<1>3. /\ pcb' \in [UserProcesses -> Pcb] /\ pcb'[p] = FreePcb
      /\ FreePcb.exit_children_processes = {} /\ ~FreePcb.lock /\ FreePcb.threads = {}
      /\ \A q \in UserProcesses : q # p =>
           /\ pcb'[q].status = pcb[q].status /\ pcb'[q].threads = pcb[q].threads
           /\ pcb'[q].lock = pcb[q].lock
           /\ pcb'[q].exit_children_processes = pcb[q].exit_children_processes
           /\ pcb'[q].waiting_child_pid = pcb[q].waiting_child_pid
           /\ pcb'[q].waiting_thread_node = pcb[q].waiting_thread_node
           /\ pcb[q].parent # p => pcb'[q].parent = pcb[q].parent
  <2>1. FreePcb \in Pcb
    BY People DEF FreePcb, Pcb
  <2>2. FreePcb.exit_children_processes = {} /\ ~FreePcb.lock /\ FreePcb.threads = {}
    BY DEF FreePcb
  <2>3. ASSUME NEW q \in UserProcesses, q # p
        PROVE  /\ pcb'[q] \in Pcb
               /\ pcb'[q].status = pcb[q].status /\ pcb'[q].threads = pcb[q].threads
               /\ pcb'[q].lock = pcb[q].lock
               /\ pcb'[q].exit_children_processes = pcb[q].exit_children_processes
               /\ pcb'[q].waiting_child_pid = pcb[q].waiting_child_pid
               /\ pcb'[q].waiting_thread_node = pcb[q].waiting_thread_node
               /\ pcb[q].parent # p => pcb'[q].parent = pcb[q].parent
    <3>1. pcb[q] \in Pcb
      BY Types
    <3>2. CASE pcb[q].parent = p
      <4>1. pcb'[q] = [pcb[q] EXCEPT !.parent = NoProcess]
        BY <1>1, <2>3, <3>2
      <4> QED
        BY <3>1, <3>2, <4>1 DEF Pcb
    <3>3. CASE pcb[q].parent # p
      <4>1. pcb'[q] = pcb[q]
        BY <1>1, <2>3, <3>3
      <4> QED
        BY <3>1, <4>1
    <3> QED
      BY <3>2, <3>3
  <2>4. pcb'[p] = FreePcb
    BY <1>1
  <2>5. pcb' \in [UserProcesses -> Pcb]
    BY <1>1, <2>1, <2>3, <2>4
  <2> QED
    BY <2>2, <2>3, <2>4, <2>5
<1>4. ProcessTypeOK'
  <2>1. \A q \in UserProcesses : IsFiniteSet(pcb'[q].threads)
    <3>1. \A q \in UserProcesses : IsFiniteSet(pcb[q].threads)
      BY DEF ProcessInv, ProcessTypeOK
    <3>2. IsFiniteSet({})
      BY FS_EmptySet
    <3> QED
      BY <1>3, <3>1, <3>2
  <2> QED
    BY <1>1, <1>3, <2>1 DEF ProcessInv, ProcessTypeOK
<1>5. /\ self' = self /\ page_directory' = page_directory /\ status' = status
      /\ process' = process /\ preempt_count' = preempt_count
  BY <1>1 DEF schedVars, self
<1>6. \A u \in UserThreads : Attached(u) =>
        own[u] # p /\ own[u] \in UserProcesses /\ pcb[own[u]].status = "PROCESS_NORMAL"
  BY <1>2, Types DEF ProcessInv, ThreadFits
<1>7. ASSUME NEW u \in UserThreads
      PROVE  ThreadFits(u)' /\ (Active(u)' => Active(u))
  <2>1. Attached(u) => /\ u \in pcb'[own[u]].threads
                       /\ pcb'[own[u]].status = "PROCESS_NORMAL"
    BY <1>3, <1>6 DEF ProcessInv, ThreadFits
  <2> QED
    BY <1>1, <1>5, <2>1, ThreadStays
<1>8. FrameInv'
  <2>1. OneActive'
    BY <1>1, <1>7, OneStays
  <2>2. InitFits'
    <3>1. pcb'[InitProcess].status = pcb[InitProcess].status
      BY <1>2, <1>3, People DEF ProcessInv, InitFits
    <3> QED
      BY <1>1, <1>5, <3>1 DEF ProcessInv, InitFits
  <2>3. page_directory = MainProcess
    <3>1. process[self] = MainProcess
      BY <1>1 DEF ProcessInv, SchedulerFits
    <3> QED
      BY <3>1, Types, People DEF SchedInv, LoadedDirMatches, self
  <2>4. process'[MainThread] = MainProcess /\ process'[CleanThread] = MainProcess
    BY <1>5 DEF ProcessInv, SchedulerFits
  <2>5. SchedInv' /\ Steady'
    BY <1>1, StillFates
  <2> QED
    BY <1>5, <1>7, <2>1, <2>2, <2>3, <2>4, <2>5, StepFits DEF Steady, self
<1>9. ASSUME NEW u \in UserThreads
      PROVE  WaitFits(u)'
  <2>1. ThreadFits(u)'
    BY <1>8 DEF FrameInv
  <2>2. pc[u] \in WaitPlaces => own[u] # p /\ own[u] \in UserProcesses
    BY <1>6, WaitersWork DEF Active
  <2> QED
    BY <1>1, <1>3, <1>5, <2>1, <2>2, WaitStays
<1>10. \A u \in UserThreads : ForkFits(u)'
  <2>1. \A u \in UserThreads : pc[u] \in ForkPlaces => arg[u] # p /\ arg[u] \in UserProcesses
    BY <1>2 DEF ProcessInv, ForkFits
  <2> QED
    BY <1>1, <1>3, <2>1, ForkStays
<1>11. LockFits'
  <2>1. \A u \in UserThreads, q \in UserProcesses : Holds(u, q)' <=> Holds(u, q)
    BY <1>1 DEF Holds
  <2>2. \A u \in UserThreads : ~Holds(u, p)
    BY <1>6, WaitersWork, PlacesApart DEF Active, Holds
  <2> QED
    BY <1>3, <2>1, <2>2 DEF ProcessInv, LockFits
<1>12. ASSUME NEW c \in UserProcesses
       PROVE  ChildFits(c)'
  <2>1. \A u \in UserThreads : /\ Reaps(u, c)' => Reaps(u, c)
                               /\ Notifies(u, c)' => Notifies(u, c)
    BY <1>1 DEF Reaps, Notifies
  <2>2. pcb[c].status = "PROCESS_EXIT" =>
          pcb'[c].status = "PROCESS_EXIT" \/ c \in dead_processes \ dead_processes'
    BY <1>1, <1>3
  <2>3. \A q \in UserProcesses : c \in pcb'[q].exit_children_processes =>
          q # p /\ c \in pcb[q].exit_children_processes
    BY <1>3
  <2>4. \A q \in UserProcesses : c \in pcb'[q].exit_children_processes =>
          pcb'[c].parent = pcb[c].parent
    <3>1. \A q \in UserProcesses : c \in pcb[q].exit_children_processes =>
            pcb[c].parent = q /\ c # p
      BY <1>1 DEF ProcessInv, ChildFits, ListedFits
    <3> QED
      BY <1>3, <2>3, <3>1
  <2> QED
    BY <1>1, <2>1, <2>2, <2>3, <2>4, ChildStays
<1> QED
  BY <1>1, <1>4, <1>8, <1>9, <1>10, <1>11, <1>12, Together

LEMMA StartCleanStep ==
  ASSUME ProcessInv, StartClean
  PROVE  ProcessInv' /\ SchedNext
<1>1. /\ self = MainThread /\ status[CleanThread] = "TASK_NONE"
      /\ add_thread_to_schedule(CleanThread, MainProcess, FALSE)
      /\ pcb' = pcb /\ dead_tasks' = dead_tasks /\ dead_processes' = dead_processes
      /\ pc' = pc /\ own' = own /\ arg' = arg
  BY DEF StartClean, deadVars
<1>2. SchedNext /\ SchedInv'
  <2>1. StartThread(CleanThread, MainProcess)
    BY <1>1 DEF StartThread
  <2>2. SchedNext
    BY <2>1, People DEF SchedNext
  <2> QED
    BY <2>2, Types, SchedNextInv
<1>3. /\ self' = self /\ page_directory' = page_directory
      /\ process'[CleanThread] = MainProcess /\ preempt_count'[CleanThread] = 0
      /\ \A u \in Threads : u # CleanThread =>
           /\ status'[u] = status[u] /\ process'[u] = process[u]
           /\ preempt_count'[u] = preempt_count[u]
  <2>1. /\ status \in [Threads -> TaskStatus]
        /\ process \in [Threads -> Processes \cup {NoProcess}]
        /\ preempt_count \in [Threads -> 0..MaxPreempt]
    BY DEF ProcessInv, SchedulerFits, SchedInv, SchedTypeOK
  <2> QED
    BY <1>1, <2>1, People DEF add_thread_to_schedule, self
<1>4. \A u \in UserThreads : status'[u] = status[u] /\ process'[u] = process[u]
  BY <1>3, People
<1>5. ProcessTypeOK'
  BY <1>1 DEF ProcessInv, ProcessTypeOK
<1>6. ASSUME NEW u \in UserThreads
      PROVE  ThreadFits(u)' /\ (Active(u)' => Active(u))
  <2>1. Attached(u) => /\ u \in pcb'[own[u]].threads
                       /\ pcb'[own[u]].status = "PROCESS_NORMAL"
    BY <1>1 DEF ProcessInv, ThreadFits
  <2> QED
    BY <1>1, <1>3, <1>4, <2>1, ThreadStays
<1>7. FrameInv'
  <2>1. OneActive'
    BY <1>1, <1>6, OneStays
  <2>2. InitFits'
    BY <1>1, <1>4 DEF ProcessInv, InitFits
  <2>3. page_directory # MainProcess => pcb'[page_directory].status # "PROCESS_NONE"
    BY <1>1 DEF ProcessInv, LoadedDirExists
  <2>4. process'[MainThread] = MainProcess
    BY <1>3, People DEF ProcessInv, SchedulerFits
  <2>5. \A u \in Threads : preempt_count'[u] = 0
    BY <1>3, Types DEF Steady
  <2> QED
    BY <1>1, <1>2, <1>3, <1>6, <2>1, <2>2, <2>3, <2>4, <2>5, StepFits
<1>8. \A u \in UserThreads : WaitFits(u)'
  BY <1>1, <1>4 DEF ProcessInv, WaitFits, Exited
<1>9. \A u \in UserThreads : ForkFits(u)'
  BY <1>1, ForkStays
<1>10. LockFits'
  BY <1>1 DEF ProcessInv, LockFits, Holds
<1>11. \A c \in UserProcesses : ChildFits(c)'
  <2>1. \A c \in UserProcesses : \A u \in UserThreads :
          /\ Reaps(u, c)' => Reaps(u, c)
          /\ Notifies(u, c)' => Notifies(u, c)
    BY <1>1 DEF Reaps, Notifies
  <2> QED
    BY <1>1, <2>1, ChildStays
<1> QED
  BY <1>2, <1>5, <1>7, <1>8, <1>9, <1>10, <1>11, Together

\* The processor changes hands, or a step is undefined.
LEMMA SwitchSteps ==
  ASSUME ProcessInv,
         YieldOnLock \/ CleanYield \/ Tick \/ ExitNotifyUndefined \/ ExecUndefined
  PROVE  ProcessInv' /\ [SchedNext]_schedVars
<1>1. CASE YieldOnLock \/ CleanYield
  <2>1. schedule_thread_yield /\ UNCHANGED <<pcb, deadVars, pc, own, arg>>
    BY <1>1 DEF YieldOnLock, CleanYield
  <2>2. SchedInv' /\ Steady' /\ Fates /\ Reloads
    BY <2>1, Types, YieldFates
  <2>3. ProcessInv'
    BY <2>1, <2>2, IdleStep
  <2>4. YieldThread
    BY <2>1, Types DEF YieldThread, Steady, self
  <2> QED
    BY <2>3, <2>4 DEF SchedNext
<1>2. CASE Tick
  <2>1. timer_callback /\ UNCHANGED <<pcb, deadVars, pc, own, arg>>
    BY <1>2 DEF Tick
  <2>2. SchedInv' /\ Steady' /\ Fates /\ Reloads
    BY <2>1, Types, TickFates
  <2>3. ProcessInv'
    BY <2>1, <2>2, IdleStep
  <2> QED
    BY <2>1, <2>3 DEF SchedNext, TimerInterrupt
<1>3. CASE ExitNotifyUndefined \/ ExecUndefined
  <2>1. UNCHANGED schedVars /\ UNCHANGED <<pcb, deadVars, pc, own, arg>>
    BY <1>3 DEF ExitNotifyUndefined, ExecUndefined, Undefined
  <2>2. SchedInv' /\ Steady' /\ Fates /\ Reloads
    BY <2>1, StillFates
  <2> QED
    BY <2>1, <2>2, IdleStep
<1> QED
  BY <1>1, <1>2, <1>3

-----------------------------------------------------------------------------
(* The theorems.                                                           *)

LEMMA ProcessInit == Init => ProcessInv
<1> SUFFICES ASSUME Init PROVE ProcessInv
  OBVIOUS
<1>1. /\ SchedInit /\ pcb = [p \in UserProcesses |-> FreePcb]
      /\ dead_tasks = {} /\ dead_processes = {}
      /\ pc = [t \in UserThreads |-> "user"]
      /\ own = [t \in UserThreads |-> InitProcess]
      /\ arg = [t \in UserThreads |-> MainProcess]
  BY DEF Init
<1>2. /\ FreePcb \in Pcb /\ FreePcb.threads = {} /\ FreePcb.status = "PROCESS_NONE"
      /\ FreePcb.exit_children_processes = {} /\ ~FreePcb.lock
  BY People DEF FreePcb, Pcb
<1>3. /\ "user" \in Places /\ "user" \notin LeftPlaces /\ "user" \notin DeadPlaces
      /\ "user" \notin WaitPlaces /\ "user" \notin HoldPlaces /\ "user" \notin ForkPlaces
  BY DEF ForkPlaces, LeftPlaces, DeadPlaces, WaitPlaces, HoldPlaces, SleepPlaces, Places
<1>4. \A t \in UserThreads : status[t] = "TASK_NONE" /\ process[t] = MainProcess
  BY <1>1, People DEF SchedInit
<1>5. ProcessTypeOK
  <2>1. IsFiniteSet({})
    BY FS_EmptySet
  <2> QED
    BY <1>1, <1>2, <1>3, <2>1, People DEF ProcessTypeOK
<1>6. SchedulerFits
  <2>1. SchedInv
    BY <1>1, SchedInitInv
  <2>2. Steady /\ process[MainThread] = MainProcess /\ process[CleanThread] = MainProcess
    BY <1>1, People DEF SchedInit, Steady
  <2> QED
    BY <2>1, <2>2 DEF SchedulerFits
<1>7. \A t \in UserThreads : pc[t] = "user" /\ ~Attached(t)
  BY <1>1, <1>4 DEF Attached
<1>8. \A t \in UserThreads : ThreadFits(t) /\ WaitFits(t) /\ ForkFits(t)
  BY <1>1, <1>3, <1>4, <1>7 DEF ThreadFits, WaitFits, ForkFits
<1>9. InitFits /\ OneActive
  BY <1>1, <1>2, <1>4, <1>7, People DEF InitFits, OneActive, Active
<1>10. LockFits
  BY <1>1, <1>2, <1>3, <1>7 DEF LockFits, Holds
<1>11. \A c \in UserProcesses : ChildFits(c)
  BY <1>1, <1>2, <1>7 DEF ChildFits, ListedFits, ReapFits, NotifyFits, Reaps, Notifies
<1>12. LoadedDirExists
  BY <1>1 DEF SchedInit, LoadedDirExists
<1> QED
  BY <1>5, <1>6, <1>8, <1>9, <1>10, <1>11, <1>12 DEF ProcessInv

\* Every step keeps the invariant, and respects the contract of the scheduler.
LEMMA ProcessStep == ProcessInv /\ [Next]_vars => ProcessInv' /\ [SchedNext]_schedVars
<1> SUFFICES ASSUME ProcessInv, [Next]_vars
             PROVE  ProcessInv' /\ [SchedNext]_schedVars
  OBVIOUS
<1>1. CASE UNCHANGED vars
  <2>1. UNCHANGED schedVars /\ UNCHANGED <<pcb, deadVars, pc, own, arg>>
    BY <1>1 DEF vars
  <2>2. SchedInv' /\ Steady' /\ Fates /\ Reloads
    BY <2>1, StillFates
  <2> QED
    BY <2>1, <2>2, IdleStep
<1>2. CASE process_fork
  BY <1>2, ForkProcessStep, ForkAddChildStep, ForkCopyThreadStep DEF process_fork
<1>3. CASE process_wait
  BY <1>3, PlainCalls, WaitLockStep, WaitFoundStep, WaitBlockStep, WaitLoopStep,
     WaitSleepStep, WaitReapStep DEF process_wait
<1>4. CASE process_exit
  BY <1>4, PlainCalls, ExitProcessStep, ExitNotifyStep, SwitchSteps DEF process_exit
<1>5. CASE process_exec
  BY <1>5, PlainCalls, SwitchSteps, ExecStartStep DEF process_exec
<1>6. CASE schedule_thread_exit
  BY <1>6, PlainCalls, ExitDetachStep, ExitDeadStep, ExitSwitchStep DEF schedule_thread_exit
<1>7. CASE kernel_clean_thread
  BY <1>7, CleanThreadOfStep, DestroyProcessStep, SwitchSteps DEF kernel_clean_thread
<1>8. CASE StartClean \/ (\E t \in UserThreads : StartInit(t)) \/ YieldOnLock \/ Tick
  BY <1>8, StartCleanStep, StartInitStep, SwitchSteps
<1> QED
  BY <1>1, <1>2, <1>3, <1>4, <1>5, <1>6, <1>7, <1>8 DEF Next

\* The inductive invariant: who is in a process, who holds its lock, and where an exited
\* child is, agree in every reachable state, whatever processes are forked and exit and
\* however the scheduler interleaves their threads.
THEOREM ProcessInvariant == Spec => []ProcessInv
<1>1. ProcessInv /\ [Next]_vars => ProcessInv'
  BY ProcessStep
<1> QED
  BY <1>1, ProcessInit, PTL DEF Spec

\* process_wait does not sleep through the exit of the child it waits for, for any number
\* of threads and processes: the child finds waiting_thread_node, or the parent the child.
THEOREM ExitsAreSeen == Spec => []NoMissedExit
<1>1. ProcessInv => NoMissedExit
  BY DEF ProcessInv, WaitFits, NoMissedExit
<1> QED
  BY <1>1, ProcessInvariant, PTL

\* An exited child is in exit_children_processes of its own parent, on its way from
\* process_wait to add_dead_process, or in the list of the clean thread, and only once.
THEOREM ChildrenReapedOnce == Spec => []ReapedOnce
<1>1. ASSUME ProcessInv
      PROVE  ReapedOnce
  <2> SUFFICES ASSUME NEW c \in UserProcesses
               PROVE  LET reaped == {t \in UserThreads : pc[t] = "wait_reap" /\ arg[t] = c}
                          holders == {p \in UserProcesses :
                                        c \in pcb[p].exit_children_processes}
                      IN  /\ Cardinality(holders) + Cardinality(reaped)
                               + (IF c \in dead_processes THEN 1 ELSE 0) <= 1
                          /\ holders \subseteq {pcb[c].parent}
                          /\ c \in dead_processes => pcb[c].status = "PROCESS_EXIT"
    BY DEF ReapedOnce
  <2> DEFINE reaped == {t \in UserThreads : pc[t] = "wait_reap" /\ arg[t] = c}
             holders == {p \in UserProcesses : c \in pcb[p].exit_children_processes}
  <2>1. ChildFits(c)
    BY <1>1 DEF ProcessInv
  <2>2. /\ holders \subseteq {pcb[c].parent}
        /\ c \in dead_processes => pcb[c].status = "PROCESS_EXIT"
        /\ holders # {} => c \notin dead_processes
    BY <2>1 DEF ChildFits, ListedFits
  <2>3. reaped # {} => holders = {} /\ c \notin dead_processes /\ \E t : reaped = {t}
    <3>1. ASSUME NEW t \in reaped
          PROVE  holders = {} /\ c \notin dead_processes /\ reaped = {t}
      BY <2>1 DEF ChildFits, ReapFits, Reaps
    <3> QED
      BY <3>1
  <2>4. holders = {} \/ \E p : holders = {p}
    BY <2>2
  <2> HIDE DEF reaped, holders
  <2>5. Cardinality({}) = 0 /\ \A x : Cardinality({x}) = 1
    BY FS_EmptySet, FS_Singleton
  <2>6. Cardinality(holders) + Cardinality(reaped)
          + (IF c \in dead_processes THEN 1 ELSE 0) <= 1
    <3>1. CASE reaped # {}
      <4>1. Cardinality(holders) = 0 /\ Cardinality(reaped) = 1 /\ c \notin dead_processes
        BY <2>3, <2>5, <3>1
      <4> QED
        BY <4>1
    <3>2. CASE reaped = {} /\ holders # {}
      <4>1. Cardinality(holders) = 1 /\ Cardinality(reaped) = 0 /\ c \notin dead_processes
        BY <2>2, <2>4, <2>5, <3>2
      <4> QED
        BY <4>1
    <3>3. CASE reaped = {} /\ holders = {}
      <4>1. Cardinality(holders) = 0 /\ Cardinality(reaped) = 0
        BY <2>5, <3>3
      <4> QED
        BY <4>1
    <3> QED
      BY <3>1, <3>2, <3>3
  <2> QED
    BY <2>2, <2>6 DEF reaped, holders
<1> QED
  BY <1>1, ProcessInvariant, PTL

\* destroy_process never frees the page directory that is loaded, although an exiting
\* thread stays on that of its process while the process is reaped.
THEOREM LoadedDirStays == Spec => []LoadedDirExists
<1>1. ProcessInv => LoadedDirExists
  BY DEF ProcessInv
<1> QED
  BY <1>1, ProcessInvariant, PTL

\* pcb_t.lock is taken if and only if one thread of the process is inside process_wait, and
\* that thread goes on to release it.
THEOREM LockIsReleased == Spec => []WaiterReleasesLock
<1>1. ASSUME ProcessInv
      PROVE  WaiterReleasesLock
  <2> SUFFICES ASSUME NEW p \in UserProcesses
               PROVE  LET holders == {t \in UserThreads :
                                        own[t] = p /\ pc[t] \in {"wait_find", "wait_release"}}
                      IN  /\ Cardinality(holders) = IF pcb[p].lock THEN 1 ELSE 0
                          /\ \A t \in holders : t = self \/ Queued(t) \/ pc[t] = "wait_release"
    BY DEF WaiterReleasesLock
  <2> DEFINE holders == {t \in UserThreads :
                           own[t] = p /\ pc[t] \in {"wait_find", "wait_release"}}
  <2>1. \A t \in UserThreads : t \in holders <=> Holds(t, p)
    BY DEF Holds, HoldPlaces
  <2>2. pcb[p].lock <=> holders # {}
    BY <1>1, <2>1 DEF ProcessInv, LockFits
  <2>3. ASSUME NEW t \in holders
        PROVE  holders = {t}
    <3>1. \A u \in holders : Active(u) /\ own[u] = p
      BY <1>1, WaitersWork, PlacesApart DEF HoldPlaces
    <3> QED
      BY <1>1, <3>1 DEF ProcessInv, OneActive
  <2>4. ASSUME NEW t \in holders
        PROVE  t = self \/ Queued(t) \/ pc[t] = "wait_release"
    <3>1. CASE pc[t] = "wait_find"
      <4>1. t \in Threads /\ t # MainThread /\ ThreadFits(t) /\ SchedInv
        BY <1>1, People, Types DEF ProcessInv
      <4>2. pc[t] \notin {"user"} \cup DeadPlaces /\ pc[t] \notin SleepPlaces
        BY <3>1 DEF DeadPlaces, SleepPlaces
      <4>3. status[t] \in {"TASK_READY", "TASK_RUNNING"}
        BY <1>1, <4>1, <4>2, Types DEF ThreadFits, TaskStatus
      <4> QED
        BY <4>1, <4>3 DEF SchedInv, ReadyIffQueued, OneRunner, self
    <3> QED
      BY <3>1
  <2> HIDE DEF holders
  <2>5. Cardinality(holders) = IF pcb[p].lock THEN 1 ELSE 0
    <3>1. CASE holders = {}
      BY <2>2, <3>1, FS_EmptySet
    <3>2. CASE holders # {}
      <4>1. PICK t : holders = {t}
        BY <2>3, <3>2
      <4>2. Cardinality(holders) = 1
        BY <4>1, FS_Singleton
      <4> QED
        BY <2>2, <3>2, <4>2
    <3> QED
      BY <3>1, <3>2
  <2> QED
    BY <2>4, <2>5 DEF holders
<1> QED
  BY <1>1, ProcessInvariant, PTL

\* fork, exec, wait and exit call the scheduler within its contract: Process implements
\* Scheduler, and what is proved of SchedSpec holds of it.
THEOREM ProcessKeepsContract == Spec => SchedSpec
<1>1. Init => SchedInit
  BY DEF Init
<1>2. ProcessInv /\ [Next]_vars => [SchedNext]_schedVars
  BY ProcessStep
<1> QED
  BY <1>1, <1>2, ProcessInvariant, PTL DEF Spec, SchedSpec
==============================================================================
