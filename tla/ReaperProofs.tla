-------------------------- MODULE ReaperProofs -------------------------------
(***************************************************************************)
(* Proofs about Reaper, for any number of workers and of processes to be   *)
(* reaped.                                                                 *)
(***************************************************************************)
EXTENDS Reaper, SchedulerProofs

-----------------------------------------------------------------------------
(* The inductive invariant.                                                *)

ExitPlaces ==
  {"dt_xchg", "dt_yield", "dt_append", "dt_appending", "dt_notify", "dt_notifying",
   "dt_release", "exit_switch", "gone"}
ReapPlaces ==
  {"dp_xchg", "dp_yield", "dp_append", "dp_appending", "dp_notify", "dp_notifying",
   "dp_release"}
WorkerPlaces == {"run", "mark_dead"} \cup ExitPlaces \cup ReapPlaces
ListedPlaces == {"dt_notify", "dt_notifying", "dt_release", "exit_switch", "gone"}
HandPlaces == {"dp_xchg", "dp_yield", "dp_append", "dp_appending"}
CleanPlaces ==
  {"cv_xchg", "cv_yield", "cv_test", "cv_appending", "cv_mark", "cv_block_release",
   "cv_sleep", "cv_release", "cl_move_tasks", "cl_moving_tasks", "cl_moving_processes",
   "cl_unlock", "cl_clean"}

ReaperTypeOK ==
  /\ dead_tasks \in Seq(Workers)
  /\ dead_tasks_receiver \in Seq(Workers)
  /\ dead_processes \in Seq(Zombies)
  /\ dead_processes_receiver \in Seq(Zombies)
  /\ dead_resource_lock \in BOOLEAN
  /\ zombies \subseteq Zombies
  /\ destroyed \subseteq Zombies
  /\ reaping \in [Workers -> Zombies \cup {MainProcess}]
  /\ DOMAIN pc = Workers \cup {CleanThread}
  /\ \A t \in Workers : pc[t] \in WorkerPlaces
  /\ pc[CleanThread] \in CleanPlaces

\* What the scheduler keeps even if a thread has been queued twice; nobody disables
\* preemption here, and no interrupt wakes up the current thread.
SchedFits ==
  /\ SchedTypeOK
  /\ ReadyIffQueued
  /\ OneRunner
  /\ LoadedDirMatches
  /\ IdleAndCurrentAlive
  /\ \A t \in Threads : preempt_count[t] = 0
  /\ self # MainThread => status[self] # "TASK_READY"

\* A worker is dead on its way out and only there, does not block, and is not there
\* before the clean thread is.
WorkerFits(t) ==
  /\ status[t] # "TASK_WAITING"
  /\ status[t] = "TASK_DEAD" => pc[t] \in ExitPlaces
  /\ pc[t] \in ExitPlaces => status[t] \in {"TASK_DEAD", "TASK_NONE"}
  /\ status[t] # "TASK_NONE" => status[CleanThread] # "TASK_NONE"
  /\ t = self /\ pc[t] \in {"dt_release", "exit_switch"} => ready_tasks # <<>>

\* The clean thread is in the wait queue exactly when it sleeps or is about to.
CleanFits ==
  /\ status[CleanThread] # "TASK_DEAD"
  /\ status[CleanThread] = "TASK_NONE" => pc[CleanThread] = "cv_xchg"
  /\ status[CleanThread] = "TASK_WAITING" =>
       /\ pc[CleanThread] \in {"cv_block_release", "cv_sleep", "cv_xchg"}
       /\ self = CleanThread => pc[CleanThread] # "cv_xchg"
  /\ NoThreadQueuedTwice =>
       cv_waiting_task_queue =
         IF pc[CleanThread] = "cv_mark" \/ status[CleanThread] = "TASK_WAITING"
         THEN <<CleanThread>> ELSE <<>>
  /\ pc[CleanThread] \notin {"cl_moving_processes", "cl_unlock", "cl_clean"} =>
       dead_tasks_receiver = <<>>
  /\ pc[CleanThread] \notin {"cl_unlock", "cl_clean"} =>
       dead_processes_receiver = <<>>

\* A listed thread has listed itself, once, and is dead.
TasksFit ==
  /\ NoRepeat(dead_tasks) /\ NoRepeat(dead_tasks_receiver)
  /\ \A t \in Workers :
       /\ ~(Linked(dead_tasks, t) /\ Linked(dead_tasks_receiver, t))
       /\ Linked(dead_tasks, t) \/ Linked(dead_tasks_receiver, t) =>
            /\ pc[t] \in ListedPlaces
            /\ status[t] = "TASK_DEAD"

\* A process is one of: not yet reaped, in the hands of one worker, listed, destroyed.
Handed(t, p) == pc[t] \in HandPlaces /\ reaping[t] = p
ProcessesFit ==
  /\ NoRepeat(dead_processes) /\ NoRepeat(dead_processes_receiver)
  /\ zombies \cap destroyed = {}
  /\ \A p \in Zombies :
       /\ ~(Linked(dead_processes, p) /\ Linked(dead_processes_receiver, p))
       /\ Linked(dead_processes, p) \/ Linked(dead_processes_receiver, p) =>
            p \notin zombies \cup destroyed
       /\ \A t \in Workers : Handed(t, p) =>
            /\ p \notin zombies \cup destroyed
            /\ ~Linked(dead_processes, p) /\ ~Linked(dead_processes_receiver, p)
            /\ \A u \in Workers : Handed(u, p) => u = t
  /\ \A t \in Workers : pc[t] \in ReapPlaces => reaping[t] \in Zombies

\* While dead_resource_lock is held somebody has taken it who is not going to be
\* destroyed before kernel_clean_thread has unlocked it.
LockFits ==
  dead_resource_lock =>
    \E t \in Workers \cup {CleanThread} :
      /\ HoldsLock(t)
      /\ Linked(dead_tasks_receiver, t) =>
           pc[CleanThread] \in {"cl_moving_processes", "cl_unlock"}

\* Before the first call of add_dead_process, dead_resource_lock protects the clean
\* thread: no worker is in add_dead_task while it is in cond_var_wait.
NobodyReaps == \A t \in Workers : reaping[t] = MainProcess
LockProtects ==
  NobodyReaps /\ HoldsLock(CleanThread) =>
    dead_resource_lock /\ ~(self \in Workers /\ HoldsLock(self))

ReaperInv ==
  /\ ReaperTypeOK
  /\ SchedFits
  /\ \A t \in Workers : WorkerFits(t)
  /\ CleanFits
  /\ TasksFit
  /\ ProcessesFit
  /\ LockFits
  /\ LockProtects

-----------------------------------------------------------------------------
(* Lists.                                                                  *)

\* What is linked in one list after the other.
LEMMA LinkedBoth ==
  ASSUME NEW S, NEW q \in Seq(S), NEW r \in Seq(S)
  PROVE  \A x : Linked(q \o r, x) => Linked(q, x) \/ Linked(r, x)
<1> DEFINE c == q \o r
<1>1. /\ Len(c) = Len(q) + Len(r) /\ Len(q) \in Nat /\ Len(r) \in Nat
      /\ \A i \in 1..Len(q) : c[i] = q[i]
      /\ \A i \in Len(q) + 1..Len(q) + Len(r) : c[i] = r[i - Len(q)]
  OBVIOUS
<1> HIDE DEF c
<1>2. SUFFICES ASSUME NEW x, NEW i \in 1..Len(c), c[i] = x
               PROVE  Linked(q, x) \/ Linked(r, x)
  BY DEF Linked, c
<1>3. CASE i <= Len(q)
  BY <1>1, <1>2, <1>3 DEF Linked
<1>4. CASE i > Len(q)
  <2>1. i - Len(q) \in 1..Len(r) /\ r[i - Len(q)] = x
    BY <1>1, <1>2, <1>4
  <2> QED
    BY <2>1 DEF Linked
<1> QED
  BY <1>1, <1>3, <1>4

\* Two lists without a repetition and without a common node make one without a
\* repetition.
LEMMA NoRepeatBoth ==
  ASSUME NEW S, NEW q \in Seq(S), NEW r \in Seq(S), NoRepeat(q), NoRepeat(r),
         \A x \in S : ~(Linked(q, x) /\ Linked(r, x))
  PROVE  NoRepeat(q \o r)
<1> DEFINE c == q \o r
<1>1. /\ Len(c) = Len(q) + Len(r) /\ Len(q) \in Nat /\ Len(r) \in Nat
      /\ \A i \in 1..Len(q) : c[i] = q[i] /\ q[i] \in S
      /\ \A i \in Len(q) + 1..Len(q) + Len(r) : c[i] = r[i - Len(q)]
  OBVIOUS
<1> HIDE DEF c
<1>2. SUFFICES ASSUME NEW i \in 1..Len(c), NEW j \in 1..Len(c), c[i] = c[j], i < j
               PROVE  FALSE
  <2>1. \A i, j \in 1..Len(c) : i < j => c[i] # c[j]
    BY <1>2
  <2> QED
    BY <1>1, <2>1 DEF NoRepeat, c
<1>3. CASE j <= Len(q)
  BY <1>1, <1>2, <1>3 DEF NoRepeat
<1>4. CASE i > Len(q)
  <2>1. /\ i - Len(q) \in 1..Len(r) /\ j - Len(q) \in 1..Len(r)
        /\ r[i - Len(q)] = r[j - Len(q)] /\ i - Len(q) # j - Len(q)
    BY <1>1, <1>2, <1>4
  <2> QED
    BY <2>1 DEF NoRepeat
<1>5. CASE i <= Len(q) /\ j > Len(q)
  <2>1. j - Len(q) \in 1..Len(r) /\ r[j - Len(q)] = c[i] /\ i \in 1..Len(q) /\ q[i] = c[i]
    BY <1>1, <1>2, <1>5
  <2>2. Linked(q, c[i]) /\ Linked(r, c[i]) /\ c[i] \in S
    BY <1>1, <2>1 DEF Linked
  <2> QED
    BY <2>2
<1> QED
  BY <1>1, <1>3, <1>4, <1>5

\* linked_list_append puts a node at the end, whether it is linked already or not.
LEMMA AppendLinks ==
  ASSUME NEW S, NEW q \in Seq(S), NEW x \in S
  PROVE  /\ Append(q, x) \in Seq(S)
         /\ Append(q, x) # <<>>
         /\ \A t : Linked(Append(q, x), t) <=> (Linked(q, t) \/ t = x)
<1> DEFINE r == Append(q, x)
<1>1. r \in Seq(S) /\ Len(r) = Len(q) + 1 /\ r[Len(q) + 1] = x /\ Len(q) \in Nat
  OBVIOUS
<1>2. \A i \in 1..Len(q) : r[i] = q[i]
  OBVIOUS
<1> HIDE DEF r
<1>3. ASSUME NEW t
      PROVE  Linked(r, t) <=> (Linked(q, t) \/ t = x)
  BY <1>1, <1>2 DEF Linked
<1>4. r # <<>>
  BY <1>1
<1> QED
  BY <1>1, <1>3, <1>4 DEF r

\* Nothing is linked in an empty list.
LEMMA EmptyList ==
  NoRepeat(<<>>) /\ \A t : ~Linked(<<>>, t)
BY DEF NoRepeat, Linked

-----------------------------------------------------------------------------
(* The scheduler, as the threads here see it.                              *)

\* The part of the invariant that is about the scheduler, when no thread is queued
\* twice.
LEMMA Intact ==
  /\ SchedFits /\ NoThreadQueuedTwice => SchedInv /\ Steady
  /\ SchedInv' /\ Steady' => SchedFits'
BY DEF SchedFits, SchedInv, Steady, self

-----------------------------------------------------------------------------
(* Moves from one place to the next.                                       *)

Placed == Workers \cup {CleanThread}

\* t goes from l to m, and everybody else stays where he is.
Moved(t, l, m) ==
  /\ t \in Placed /\ pc[t] = l /\ pc'[t] = m
  /\ \A u \in Placed : u # t => pc'[u] = pc[u]
  /\ DOMAIN pc' = Placed

\* The current thread is where its code is.
LEMMA GotoMoves ==
  ASSUME ReaperInv, NEW l, NEW m, Goto(l, m)
  PROVE  /\ Moved(self, l, m)
         /\ self \in Threads /\ self # MainThread
         /\ l \in WorkerPlaces => self \in Workers /\ self # CleanThread
         /\ l \in CleanPlaces => self = CleanThread /\ self \notin Workers
         /\ status[self] \notin {"TASK_NONE", "TASK_READY"}
<1>1. self \in Threads /\ self # MainThread /\ self \in Placed
  BY DEF ReaperInv, SchedFits, SchedTypeOK, Goto, self, Placed, Workers
<1>2. DOMAIN pc = Placed /\ pc[self] = l /\ pc' = [pc EXCEPT ![self] = m]
  BY DEF ReaperInv, ReaperTypeOK, Goto, Placed
<1>3. Moved(self, l, m)
  BY <1>1, <1>2 DEF Moved
<1>4. WorkerPlaces \cap CleanPlaces = {}
  BY DEF WorkerPlaces, CleanPlaces, ExitPlaces, ReapPlaces
<1>5. (\A t \in Workers : pc[t] \in WorkerPlaces) /\ pc[CleanThread] \in CleanPlaces
  BY DEF ReaperInv, ReaperTypeOK
<1>6. status[self] \notin {"TASK_NONE", "TASK_READY"}
  BY <1>1 DEF ReaperInv, SchedFits, IdleAndCurrentAlive, self
<1> QED
  BY <1>1, <1>2, <1>3, <1>4, <1>5, <1>6 DEF Placed, Workers

\* A move that changes nothing about who is dead, listed, waiting or received.
Calm(l, m) ==
  /\ \/ l \in WorkerPlaces /\ m \in WorkerPlaces
     \/ l \in CleanPlaces /\ m \in CleanPlaces
  /\ l \in ExitPlaces <=> m \in ExitPlaces
  /\ m \in ReapPlaces => l \in ReapPlaces
  /\ m \in HandPlaces => l \in HandPlaces
  /\ l \in ListedPlaces => m \in ListedPlaces
  /\ m \in {"dt_release", "exit_switch"} => l \in {"dt_release", "exit_switch"}
  /\ l # "cv_mark" /\ m # "cv_mark"
  /\ l = "cv_block_release" => m = "cv_sleep"
  /\ l = "cv_sleep" => m = "cv_xchg"

\* The places where the clean thread has received threads, and processes.
HasTasks == {"cl_moving_processes", "cl_unlock", "cl_clean"}
HasProcesses == {"cl_unlock", "cl_clean"}

\* dead_resource_lock is released, or left alone, or taken.
LockMoves(l, m) ==
  \/ ~dead_resource_lock' /\ m \notin HoldPlaces /\ (l \in HoldPlaces \/ l \in CleanPlaces)
  \/ /\ dead_resource_lock' = dead_resource_lock
     /\ l \in HoldPlaces <=> m \in HoldPlaces
     /\ l \notin {"cl_moving_processes", "cl_unlock"}
  \/ /\ ~dead_resource_lock /\ dead_resource_lock'
     /\ m \in HoldPlaces /\ l \notin HoldPlaces /\ l \notin ListedPlaces

\* A worker that holds the lock is on its way out, or reaps.
LEMMA WorkerHolds ==
  ASSUME NEW l \in WorkerPlaces, l \in HoldPlaces
  PROVE  l \in ExitPlaces \/ l \in ReapPlaces
BY DEF WorkerPlaces, HoldPlaces, ExitPlaces, ReapPlaces

LEMMA ListedExit ==
  /\ ListedPlaces \subseteq ExitPlaces
  /\ \A l \in ExitPlaces : l \notin ReapPlaces /\ l \notin HandPlaces
  /\ HandPlaces \subseteq ReapPlaces
  /\ \A l \in WorkerPlaces : l \notin CleanPlaces
BY DEF ListedPlaces, ExitPlaces, ReapPlaces, HandPlaces, WorkerPlaces, CleanPlaces

\* A calm move, with or without a switch to another thread, keeps the invariant.
LEMMA MoveKeeps ==
  ASSUME ReaperInv, NoThreadQueuedTwice, SchedFits', Fates,
         NEW l, NEW m, Goto(l, m), Calm(l, m), LockMoves(l, m),
         m \in HasTasks \/ l \notin HasTasks \/ dead_tasks_receiver = <<>>,
         m \in HasProcesses \/ l \notin HasProcesses \/ dead_processes_receiver = <<>>,
         l = "cv_sleep" => crt_thread_node' # crt_thread_node,
         dead_resource_lock' \in BOOLEAN,
         UNCHANGED <<listVars, cleanVars, reapVars>>
  PROVE  ReaperInv'
<1> USE DEF listVars, cleanVars, reapVars, self
<1>1. /\ Moved(self, l, m)
      /\ self \in Threads /\ self # MainThread
      /\ l \in WorkerPlaces => self \in Workers /\ self # CleanThread
      /\ l \in CleanPlaces => self = CleanThread /\ self \notin Workers
      /\ status[self] \notin {"TASK_NONE", "TASK_READY"}
  BY GotoMoves
<1>2. Workers \subseteq Threads /\ CleanThread \in Threads /\ CleanThread \notin Workers
        /\ MainThread \notin Workers /\ CleanThread # MainThread
  BY ReaperAssumption DEF Workers
<1>3. ReaperTypeOK'
  BY <1>1, <1>2 DEF ReaperInv, ReaperTypeOK, Moved, Placed, Calm
<1>4. ASSUME NEW t \in Workers
      PROVE  WorkerFits(t)'
  <2>1. WorkerFits(t) /\ t \in Threads
    BY <1>2 DEF ReaperInv
  <2>2. /\ status'[t] # "TASK_WAITING"
        /\ status'[t] = "TASK_DEAD" <=> status[t] = "TASK_DEAD"
        /\ status'[t] = "TASK_NONE" <=> status[t] = "TASK_NONE"
        /\ status'[CleanThread] = "TASK_NONE" <=> status[CleanThread] = "TASK_NONE"
    BY <1>2, <2>1 DEF WorkerFits, Fates
  <2>3. pc'[t] \in ExitPlaces <=> pc[t] \in ExitPlaces
    BY <1>1 DEF Moved, Calm, Placed
  <2>4. ASSUME t = self', pc'[t] \in {"dt_release", "exit_switch"}
        PROVE  ready_tasks' # <<>>
    <3>1. pc[t] \in ExitPlaces
      BY <2>3, <2>4 DEF ExitPlaces
    <3>2. status[t] # "TASK_READY" /\ t # MainThread
      BY <1>2, <2>1, <3>1 DEF WorkerFits
    <3>3. t = self /\ ready_tasks' = ready_tasks
      BY <2>4, <3>2 DEF Fates
    <3>4. pc[t] \in {"dt_release", "exit_switch"}
      BY <1>1, <2>4, <3>3 DEF Moved, Calm
    <3> QED
      BY <2>1, <3>3, <3>4 DEF WorkerFits
  <2> QED
    BY <2>1, <2>2, <2>3, <2>4 DEF WorkerFits
<1>5. CleanFits'
  <2>1. CleanFits
    BY DEF ReaperInv
  <2>2. \A s \in {"TASK_NONE", "TASK_WAITING", "TASK_DEAD"} :
          status'[CleanThread] = s <=> status[CleanThread] = s
    BY <1>2 DEF Fates
  <2>3. CASE self # CleanThread
    <3>1. pc'[CleanThread] = pc[CleanThread]
      BY <1>1, <2>3 DEF Moved, Placed
    <3>2. status[CleanThread] = "TASK_WAITING" => self' # CleanThread
      BY <1>2, <2>3 DEF Fates
    <3> QED
      BY <2>1, <2>2, <3>1, <3>2 DEF CleanFits
  <2>4. CASE self = CleanThread
    <3>1. pc[CleanThread] = l /\ pc'[CleanThread] = m
      BY <1>1, <2>4 DEF Moved
    <3>2. status[CleanThread] = "TASK_WAITING" => l \in {"cv_block_release", "cv_sleep"}
      BY <2>1, <2>4, <3>1 DEF CleanFits
    <3>3. status[CleanThread] = "TASK_WAITING" /\ crt_thread_node' = CleanThread =>
            m # "cv_xchg"
      BY <2>4, <3>2 DEF Calm
    <3>4. status[CleanThread] = "TASK_WAITING" =>
            m \in {"cv_block_release", "cv_sleep", "cv_xchg"}
      BY <3>2 DEF Calm
    <3>5. status[CleanThread] # "TASK_NONE"
      BY <1>1, <2>4
    <3>6. /\ m \notin HasTasks => dead_tasks_receiver = <<>>
          /\ m \notin HasProcesses => dead_processes_receiver = <<>>
      BY <2>1, <3>1 DEF CleanFits, HasTasks, HasProcesses
    <3>7. cv_waiting_task_queue =
            IF status[CleanThread] = "TASK_WAITING" THEN <<CleanThread>> ELSE <<>>
      BY <2>1, <3>1 DEF CleanFits, Calm
    <3> QED
      BY <2>1, <2>2, <3>1, <3>3, <3>4, <3>5, <3>6, <3>7
         DEF CleanFits, Calm, HasTasks, HasProcesses
  <2> QED
    BY <2>3, <2>4
<1>6. TasksFit'
  <2>1. \A t \in Workers : /\ status'[t] = "TASK_DEAD" <=> status[t] = "TASK_DEAD"
                           /\ pc[t] \in ListedPlaces => pc'[t] \in ListedPlaces
    BY <1>1, <1>2 DEF Fates, Moved, Calm, Placed
  <2> QED
    BY <2>1 DEF ReaperInv, TasksFit
<1>7. ProcessesFit'
  <2>1. \A t \in Workers : /\ pc'[t] \in HandPlaces => pc[t] \in HandPlaces
                           /\ pc'[t] \in ReapPlaces => pc[t] \in ReapPlaces
    BY <1>1, <1>2 DEF Moved, Calm, Placed
  <2>2. \A t \in Workers : \A p \in Zombies : Handed(t, p)' => Handed(t, p)
    BY <2>1 DEF Handed
  <2> QED
    BY <2>1, <2>2 DEF ReaperInv, ProcessesFit
<1>8. \A t \in Placed : t # self => (HoldsLock(t)' <=> HoldsLock(t))
  BY <1>1, <1>2 DEF HoldsLock, Moved, Placed, Fates
<1>9. (HoldsLock(self) <=> l \in HoldPlaces) /\ (pc'[self] = m) /\ pc[self] = l
        /\ (status'[self] # "TASK_NONE")
  BY <1>1 DEF HoldsLock, Moved, Fates
<1>10. LockFits'
  <2>1. CASE ~dead_resource_lock'
    BY <2>1 DEF LockFits
  <2>2. CASE /\ dead_resource_lock' = dead_resource_lock
             /\ l \in HoldPlaces <=> m \in HoldPlaces
             /\ l \notin {"cl_moving_processes", "cl_unlock"}
    <3>1. \A t \in Placed : HoldsLock(t) =>
            status'[t] # "TASK_NONE" /\ pc'[t] \in HoldPlaces
      BY <1>8, <1>9, <2>2 DEF HoldsLock
    <3>2. pc[CleanThread] \in {"cl_moving_processes", "cl_unlock"} =>
            pc'[CleanThread] = pc[CleanThread]
      BY <1>1, <1>9, <2>2 DEF Moved, Placed
    <3> QED
      BY <2>2, <3>1, <3>2 DEF ReaperInv, LockFits, HoldsLock, Placed
  <2>3. CASE m \in HoldPlaces /\ l \notin ListedPlaces
    <3>1. status'[self] # "TASK_NONE" /\ pc'[self] \in HoldPlaces
      BY <1>9, <2>3
    <3>2. ~Linked(dead_tasks_receiver, self)
      <4>1. CASE self \in Workers
        BY <1>9, <2>3, <4>1 DEF ReaperInv, TasksFit
      <4>2. CASE self = CleanThread
        BY <1>2, <4>2 DEF ReaperInv, ReaperTypeOK, Linked
      <4> QED
        BY <1>1, <4>1, <4>2 DEF Moved, Placed
    <3> QED
      BY <1>1, <3>1, <3>2 DEF LockFits, HoldsLock, Moved, Placed
  <2> QED
    BY <2>1, <2>2, <2>3 DEF LockMoves
<1>11. LockProtects'
  <2>1. SUFFICES ASSUME NobodyReaps, HoldsLock(CleanThread)'
                 PROVE  dead_resource_lock' /\ ~(self' \in Workers /\ HoldsLock(self)')
    BY DEF LockProtects, NobodyReaps
  <2>2. \A t \in Workers : pc[t] \notin ReapPlaces
    BY <2>1, ReaperAssumption DEF ReaperInv, ProcessesFit, NobodyReaps
  <2>3. CASE self = CleanThread
    <3>1. m \in HoldPlaces
      BY <1>9, <2>1, <2>3 DEF HoldsLock
    <3>2. dead_resource_lock'
      <4>1. CASE l \in HoldPlaces
        <5>1. dead_resource_lock
          BY <1>9, <2>1, <2>3, <4>1 DEF ReaperInv, LockProtects
        <5> QED
          BY <3>1, <4>1, <5>1 DEF LockMoves
      <4>2. CASE l \notin HoldPlaces
        BY <3>1, <4>2 DEF LockMoves
      <4> QED
        BY <4>1, <4>2
    <3>3. ASSUME self' \in Workers, HoldsLock(self)'
          PROVE  FALSE
      <4>1. status[self'] = "TASK_READY"
        BY <1>2, <2>3, <3>3 DEF Fates
      <4>2. pc[self'] \in HoldPlaces /\ pc[self'] \in WorkerPlaces
        BY <1>1, <1>2, <2>3, <3>3 DEF Moved, Placed, HoldsLock, ReaperInv, ReaperTypeOK
      <4>3. pc[self'] \in ExitPlaces
        BY <2>2, <3>3, <4>2, WorkerHolds
      <4> QED
        BY <3>3, <4>1, <4>3 DEF ReaperInv, WorkerFits
    <3> QED
      BY <3>2, <3>3
  <2>4. CASE self # CleanThread
    <3>1. HoldsLock(CleanThread)
      BY <1>8, <2>1, <2>4 DEF Placed
    <3>2. dead_resource_lock /\ l \notin HoldPlaces /\ l \notin CleanPlaces
      BY <1>1, <1>9, <2>1, <2>4, <3>1 DEF ReaperInv, LockProtects, Moved, Placed
    <3>3. dead_resource_lock' /\ m \notin HoldPlaces
      BY <3>2 DEF LockMoves
    <3>4. ASSUME self' \in Workers, HoldsLock(self)'
          PROVE  FALSE
      <4>1. self' # self
        BY <1>9, <3>3, <3>4 DEF HoldsLock
      <4>2. status[self'] = "TASK_READY"
        BY <1>2, <3>4, <4>1 DEF Fates
      <4>3. pc[self'] \in HoldPlaces /\ pc[self'] \in WorkerPlaces
        BY <1>1, <1>2, <3>4, <4>1 DEF Moved, Placed, HoldsLock, ReaperInv, ReaperTypeOK
      <4>4. pc[self'] \in ExitPlaces
        BY <2>2, <3>4, <4>3, WorkerHolds
      <4> QED
        BY <3>4, <4>2, <4>4 DEF ReaperInv, WorkerFits
    <3> QED
      BY <3>3, <3>4
  <2> QED
    BY <2>3, <2>4
<1> QED
  BY <1>3, <1>4, <1>5, <1>6, <1>7, <1>10, <1>11 DEF ReaperInv

LEMMA QuietFates ==
  ASSUME ReaperInv, UNCHANGED schedVars
  PROVE  SchedFits' /\ Fates
BY DEF ReaperInv, schedVars, SchedFits, SchedTypeOK, ReadyIffQueued, Queued, OneRunner,
       LoadedDirMatches, IdleAndCurrentAlive, Fates, self

\* A step that only goes on to the next place.
LEMMA SkipKeeps ==
  ASSUME ReaperInv, NoThreadQueuedTwice, NEW l, NEW m, Skip(l, m), Calm(l, m),
         l \in HoldPlaces <=> m \in HoldPlaces,
         l \notin HasTasks, l \notin HasProcesses, l # "cv_sleep"
  PROVE  ReaperInv'
<1>1. Goto(l, m) /\ UNCHANGED schedVars /\ UNCHANGED <<listVars, cleanVars, reapVars>>
        /\ dead_resource_lock' = dead_resource_lock
  BY DEF Skip
<1>2. SchedFits' /\ Fates
  BY <1>1, QuietFates
<1>3. LockMoves(l, m)
  BY <1>1 DEF LockMoves, HasTasks
<1>4. dead_resource_lock' \in BOOLEAN
  BY <1>1 DEF ReaperInv, ReaperTypeOK
<1> QED
  BY <1>1, <1>2, <1>3, <1>4, MoveKeeps

\* yieldlock_lock, from the places where the lock is not held and nothing has been
\* received.
LEMMA LockKeeps ==
  ASSUME ReaperInv, NoThreadQueuedTwice, NEW at, NEW spin, NEW locked,
         yieldlock_lock(at, spin, locked),
         Calm(at, spin), Calm(spin, at), Calm(at, locked),
         at \notin HoldPlaces, spin \notin HoldPlaces, locked \in HoldPlaces,
         at \notin ListedPlaces,
         at \notin HasTasks, at \notin HasProcesses, at # "cv_sleep",
         spin \notin HasTasks, spin \notin HasProcesses, spin # "cv_sleep"
  PROVE  ReaperInv'
<1>1. CASE /\ ~dead_resource_lock
           /\ dead_resource_lock' = TRUE
           /\ Goto(at, locked)
           /\ UNCHANGED <<schedVars, listVars, cleanVars, reapVars>>
  <2>1. SchedFits' /\ Fates
    BY <1>1, QuietFates
  <2>2. LockMoves(at, locked) /\ dead_resource_lock' \in BOOLEAN
    BY <1>1 DEF LockMoves
  <2> QED
    BY <1>1, <2>1, <2>2, MoveKeeps
<1>2. CASE Skip(at, spin)
  BY <1>2, SkipKeeps
<1>3. CASE /\ Goto(spin, at)
           /\ schedule_thread_yield
           /\ UNCHANGED <<listVars, cleanVars, reapVars, dead_resource_lock>>
  <2>1. SchedFits' /\ Fates
    BY <1>3, Intact, YieldFates DEF ReaperInv
  <2>2. LockMoves(spin, at)
    BY <1>3 DEF LockMoves, HasTasks
  <2>3. dead_resource_lock' \in BOOLEAN
    BY <1>3 DEF ReaperInv, ReaperTypeOK
  <2> QED
    BY <1>3, <2>1, <2>2, <2>3, MoveKeeps
<1> QED
  BY <1>1, <1>2, <1>3 DEF yieldlock_lock

\* yieldlock_unlock, by the holder or once more by kernel_clean_thread.
LEMMA UnlockKeeps ==
  ASSUME ReaperInv, NoThreadQueuedTwice, NEW at, NEW next,
         yieldlock_unlock(at, next), Calm(at, next),
         next \notin HoldPlaces, at \in HoldPlaces \/ at \in CleanPlaces,
         at \in HasTasks => next \in HasTasks,
         at \in HasProcesses => next \in HasProcesses,
         at # "cv_sleep"
  PROVE  ReaperInv'
<1>1. /\ Goto(at, next) /\ dead_resource_lock' = FALSE /\ UNCHANGED schedVars
      /\ UNCHANGED <<listVars, cleanVars, reapVars>>
  BY DEF yieldlock_unlock
<1>2. SchedFits' /\ Fates
  BY <1>1, QuietFates
<1>3. LockMoves(at, next) /\ dead_resource_lock' \in BOOLEAN
  BY <1>1 DEF LockMoves
<1> QED
  BY <1>1, <1>2, <1>3, MoveKeeps

\* A switch to another thread on the way from one place to the next.
LEMMA SwitchKeeps ==
  ASSUME ReaperInv, NoThreadQueuedTwice, NEW l, NEW m, Goto(l, m), Calm(l, m),
         SchedFits', Fates,
         l = "cv_sleep" => crt_thread_node' # crt_thread_node,
         l \in HoldPlaces <=> m \in HoldPlaces,
         l \in HasTasks => dead_tasks_receiver = <<>>,
         l \in HasProcesses => dead_processes_receiver = <<>>,
         l \notin {"cl_moving_processes", "cl_unlock"},
         UNCHANGED <<listVars, cleanVars, reapVars, dead_resource_lock>>
  PROVE  ReaperInv'
<1>1. LockMoves(l, m)
  BY DEF LockMoves
<1>2. dead_resource_lock' \in BOOLEAN
  BY DEF ReaperInv, ReaperTypeOK
<1> QED
  BY <1>1, <1>2, MoveKeeps

\* The timer interrupt leaves everybody where he is.
LEMMA TickKeeps ==
  ASSUME ReaperInv, NoThreadQueuedTwice, Tick
  PROVE  ReaperInv'
<1> USE DEF listVars, cleanVars, reapVars, self
<1>1. SchedFits' /\ Fates /\ UNCHANGED <<listVars, cleanVars, reapVars, dead_resource_lock, pc>>
  BY Intact, TickFates DEF Tick, ReaperInv
<1>2. Workers \subseteq Threads /\ CleanThread \in Threads /\ CleanThread \notin Workers
        /\ MainThread \notin Workers /\ CleanThread # MainThread
  BY ReaperAssumption DEF Workers
<1>3. \A t \in Threads : \A s \in {"TASK_NONE", "TASK_WAITING", "TASK_DEAD"} :
        status'[t] = s <=> status[t] = s
  BY <1>1 DEF Fates
<1>4. ReaperTypeOK'
  BY <1>1 DEF ReaperInv, ReaperTypeOK
<1>5. ASSUME NEW t \in Workers
      PROVE  WorkerFits(t)'
  <2>1. WorkerFits(t) /\ t \in Threads
    BY <1>2 DEF ReaperInv
  <2>2. ASSUME t = self', pc[t] \in {"dt_release", "exit_switch"}
        PROVE  ready_tasks' # <<>>
    <3>1. status[t] # "TASK_READY" /\ t # MainThread
      BY <1>2, <2>1, <2>2 DEF WorkerFits, ExitPlaces
    <3>2. t = self /\ ready_tasks' = ready_tasks
      BY <1>1, <2>2, <3>1 DEF Fates
    <3> QED
      BY <2>1, <2>2, <3>2 DEF WorkerFits
  <2>3. /\ status'[t] # "TASK_WAITING"
        /\ status'[t] = "TASK_DEAD" <=> status[t] = "TASK_DEAD"
        /\ status'[t] = "TASK_NONE" <=> status[t] = "TASK_NONE"
        /\ status'[CleanThread] = "TASK_NONE" <=> status[CleanThread] = "TASK_NONE"
    BY <1>2, <1>3, <2>1 DEF WorkerFits
  <2> QED
    BY <1>1, <2>1, <2>2, <2>3 DEF WorkerFits
<1>6. CleanFits'
  <2>1. status[CleanThread] = "TASK_WAITING" /\ crt_thread_node' = CleanThread =>
          crt_thread_node = CleanThread
    BY <1>1, <1>2 DEF Fates
  <2> QED
    BY <1>1, <1>2, <1>3, <2>1 DEF ReaperInv, CleanFits
<1>7. TasksFit'
  BY <1>1, <1>2, <1>3 DEF ReaperInv, TasksFit
<1>8. ProcessesFit'
  BY <1>1 DEF ReaperInv, ProcessesFit, Handed
<1>9. \A t \in Placed : HoldsLock(t)' <=> HoldsLock(t)
  BY <1>1, <1>2, <1>3 DEF HoldsLock, Placed
<1>10. LockFits'
  BY <1>1, <1>9 DEF ReaperInv, LockFits, Placed
<1>11. LockProtects'
  <2>1. SUFFICES ASSUME NobodyReaps, HoldsLock(CleanThread)
                 PROVE  dead_resource_lock' /\ ~(self' \in Workers /\ HoldsLock(self)')
    BY <1>1, <1>9 DEF LockProtects, NobodyReaps, Placed
  <2>2. \A t \in Workers : pc[t] \notin ReapPlaces
    BY <2>1, ReaperAssumption DEF ReaperInv, ProcessesFit, NobodyReaps
  <2>3. dead_resource_lock /\ ~(self \in Workers /\ HoldsLock(self))
    BY <2>1 DEF ReaperInv, LockProtects
  <2>4. ASSUME self' \in Workers, HoldsLock(self)'
        PROVE  FALSE
    <3>1. HoldsLock(self') /\ self' # self
      BY <1>9, <2>3, <2>4 DEF Placed, HoldsLock
    <3>2. status[self'] = "TASK_READY"
      BY <1>1, <1>2, <2>4, <3>1 DEF Fates
    <3>3. pc[self'] \in HoldPlaces /\ pc[self'] \in WorkerPlaces
      BY <2>4, <3>1 DEF HoldsLock, ReaperInv, ReaperTypeOK
    <3>4. pc[self'] \in ExitPlaces
      BY <2>2, <2>4, <3>3, WorkerHolds
    <3> QED
      BY <2>4, <3>2, <3>4 DEF ReaperInv, WorkerFits
  <2> QED
    BY <1>1, <2>3, <2>4
<1> QED
  BY <1>1, <1>4, <1>5, <1>6, <1>7, <1>8, <1>10, <1>11 DEF ReaperInv

-----------------------------------------------------------------------------
(* The steps on the lists.                                                 *)

LEMMA People ==
  /\ Workers \subseteq Threads /\ CleanThread \in Threads /\ CleanThread \notin Workers
  /\ MainThread \notin Workers /\ CleanThread # MainThread /\ MainThread \in Threads
BY ReaperAssumption, ThreadsAssumption DEF Workers

LEMMA WorkerMoves ==
  ASSUME ReaperInv, NEW l \in WorkerPlaces, NEW m, Goto(l, m)
  PROVE  /\ self \in Workers /\ self \in Threads
         /\ pc[self] = l /\ pc'[self] = m
         /\ \A u \in Workers : u # self => pc'[u] = pc[u]
         /\ pc'[CleanThread] = pc[CleanThread]
         /\ DOMAIN pc' = Placed
         /\ status[self] \notin {"TASK_NONE", "TASK_READY", "TASK_WAITING"}
<1>1. Moved(self, l, m) /\ self \in Workers /\ self # CleanThread
        /\ status[self] \notin {"TASK_NONE", "TASK_READY"}
  BY GotoMoves
<1> QED
  BY <1>1, People DEF Moved, Placed, ReaperInv, WorkerFits

LEMMA CleanMoves ==
  ASSUME ReaperInv, NEW l \in CleanPlaces, NEW m, Goto(l, m)
  PROVE  /\ self = CleanThread
         /\ pc[CleanThread] = l /\ pc'[CleanThread] = m
         /\ \A u \in Workers : pc'[u] = pc[u]
         /\ DOMAIN pc' = Placed
         /\ status[CleanThread] \notin {"TASK_NONE", "TASK_READY", "TASK_DEAD"}
<1>1. Moved(self, l, m) /\ self = CleanThread
        /\ status[self] \notin {"TASK_NONE", "TASK_READY"}
  BY GotoMoves
<1> QED
  BY <1>1, People DEF Moved, Placed, ReaperInv, CleanFits

\* A step of a worker that calls nothing of the scheduler.
LEMMA QuietWorker ==
  ASSUME ReaperInv, NEW l \in WorkerPlaces, NEW m \in WorkerPlaces,
         Goto(l, m), l \in HoldPlaces <=> m \in HoldPlaces,
         l \in ExitPlaces <=> m \in ExitPlaces,
         m \in {"dt_release", "exit_switch"} => ready_tasks # <<>>,
         UNCHANGED <<schedVars, cv_waiting_task_queue, cleanVars, dead_resource_lock>>
  PROVE  /\ SchedFits' /\ (\A t \in Workers : WorkerFits(t)') /\ CleanFits' /\ LockFits'
         /\ (NobodyReaps' => NobodyReaps) => LockProtects'
<1> USE DEF cleanVars, schedVars, self
<1>1. /\ self \in Workers /\ self \in Threads
      /\ pc[self] = l /\ pc'[self] = m
      /\ \A u \in Workers : u # self => pc'[u] = pc[u]
      /\ pc'[CleanThread] = pc[CleanThread]
      /\ status[self] \notin {"TASK_NONE", "TASK_READY", "TASK_WAITING"}
  BY WorkerMoves
<1>2. SchedFits'
  BY QuietFates
<1>3. ASSUME NEW t \in Workers
      PROVE  WorkerFits(t)'
  BY <1>1, <1>3 DEF ReaperInv, WorkerFits
<1>4. CleanFits'
  <2>1. NoThreadQueuedTwice' => NoThreadQueuedTwice
    BY DEF NoThreadQueuedTwice
  <2> QED
    BY <1>1, <2>1 DEF ReaperInv, CleanFits
<1>5. \A t \in Placed : HoldsLock(t)' <=> HoldsLock(t)
  BY <1>1 DEF HoldsLock, Placed
<1>6. LockFits'
  BY <1>1, <1>5 DEF ReaperInv, LockFits, Placed
<1>7. (NobodyReaps' => NobodyReaps) => LockProtects'
  BY <1>1, <1>5 DEF ReaperInv, LockProtects, Placed
<1> QED
  BY <1>2, <1>3, <1>4, <1>6, <1>7

\* A step of the clean thread that calls nothing of the scheduler.
LEMMA QuietClean ==
  ASSUME ReaperInv, NEW l \in CleanPlaces, NEW m \in CleanPlaces, Goto(l, m),
         l \in HoldPlaces <=> m \in HoldPlaces,
         UNCHANGED <<schedVars, reapVars, dead_resource_lock>>
  PROVE  /\ SchedFits' /\ (\A t \in Workers : WorkerFits(t)') /\ LockProtects'
         /\ \A t \in Placed : HoldsLock(t)' <=> HoldsLock(t)
<1> USE DEF reapVars, schedVars, self
<1>1. /\ self = CleanThread
      /\ pc[CleanThread] = l /\ pc'[CleanThread] = m
      /\ \A u \in Workers : pc'[u] = pc[u]
  BY CleanMoves
<1>2. SchedFits'
  BY QuietFates
<1>3. ASSUME NEW t \in Workers
      PROVE  WorkerFits(t)'
  BY <1>1, <1>3 DEF ReaperInv, WorkerFits
<1>4. \A t \in Placed : HoldsLock(t)' <=> HoldsLock(t)
  BY <1>1 DEF HoldsLock, Placed
<1>5. LockProtects'
  BY <1>1, <1>4 DEF ReaperInv, LockProtects, NobodyReaps, Placed
<1> QED
  BY <1>2, <1>3, <1>4, <1>5

LEMMA TasksStay ==
  ASSUME TasksFit, UNCHANGED <<dead_tasks, dead_tasks_receiver>>,
         \A t \in Workers : /\ pc[t] \in ListedPlaces => pc'[t] \in ListedPlaces
                            /\ status[t] = "TASK_DEAD" => status'[t] = "TASK_DEAD"
  PROVE  TasksFit'
BY DEF TasksFit

LEMMA ProcessesStay ==
  ASSUME ProcessesFit, UNCHANGED <<dead_processes, dead_processes_receiver, destroyed>>,
         UNCHANGED reapVars,
         \A t \in Workers : /\ pc'[t] \in HandPlaces => pc[t] \in HandPlaces
                            /\ pc'[t] \in ReapPlaces => pc[t] \in ReapPlaces
  PROVE  ProcessesFit'
<1> USE DEF reapVars
<1>1. \A t \in Workers : \A p \in Zombies : Handed(t, p)' => Handed(t, p)
  BY DEF Handed
<1> QED
  BY <1>1 DEF ProcessesFit

\* add_dead_task lists the current thread, which is not listed yet.
LEMMA ListTask ==
  ASSUME ReaperInv, Goto("dt_appending", "dt_notify"),
         dead_tasks' = Append(dead_tasks, self),
         UNCHANGED <<schedVars, dead_processes, cv_waiting_task_queue, cleanVars,
                     reapVars, dead_resource_lock>>
  PROVE  ReaperInv'
<1> DEFINE l == "dt_appending"
           m == "dt_notify"
<1>1. /\ l \in WorkerPlaces /\ m \in WorkerPlaces
      /\ l \in HoldPlaces /\ m \in HoldPlaces /\ l \in ExitPlaces /\ m \in ExitPlaces
      /\ m \notin {"dt_release", "exit_switch"}
      /\ l \notin ListedPlaces /\ m \in ListedPlaces
      /\ m \notin HandPlaces /\ m \notin ReapPlaces
  BY DEF WorkerPlaces, HoldPlaces, ExitPlaces, ListedPlaces, HandPlaces, ReapPlaces
<1> HIDE DEF l, m
<1>2. Goto(l, m)
  BY DEF l, m
<1>3. /\ SchedFits' /\ (\A t \in Workers : WorkerFits(t)') /\ CleanFits' /\ LockFits'
      /\ LockProtects'
  BY <1>1, <1>2, QuietWorker DEF NobodyReaps, reapVars
<1>4. /\ self \in Workers
      /\ pc[self] = l /\ pc'[self] = m
      /\ \A u \in Workers : u # self => pc'[u] = pc[u]
      /\ pc'[CleanThread] = pc[CleanThread]
      /\ DOMAIN pc' = Placed
      /\ status' = status
      /\ status[self] \in {"TASK_DEAD"}
  BY <1>1, <1>2, WorkerMoves DEF ReaperInv, WorkerFits, schedVars
<1>5. TasksFit /\ dead_tasks \in Seq(Workers) /\ dead_tasks_receiver' = dead_tasks_receiver
  BY DEF ReaperInv, ReaperTypeOK, cleanVars
<1>6. ~Linked(dead_tasks, self) /\ ~Linked(dead_tasks_receiver, self)
  BY <1>1, <1>4, <1>5 DEF TasksFit
<1>7. /\ dead_tasks' \in Seq(Workers) /\ NoRepeat(dead_tasks')
      /\ \A t : Linked(dead_tasks', t) <=> (Linked(dead_tasks, t) \/ t = self)
  BY <1>4, <1>5, <1>6, AppendNode DEF TasksFit
<1>8. TasksFit'
  BY <1>1, <1>4, <1>5, <1>6, <1>7 DEF TasksFit
<1>9. ProcessesFit'
  BY <1>1, <1>4, ProcessesStay DEF ReaperInv, cleanVars
<1>10. ReaperTypeOK'
  BY <1>1, <1>4, <1>7 DEF ReaperInv, ReaperTypeOK, cleanVars, reapVars, Placed
<1> QED
  BY <1>3, <1>8, <1>9, <1>10 DEF ReaperInv

\* add_dead_process lists the process that the current thread has in its hands.
LEMMA ListProcess ==
  ASSUME ReaperInv, Goto("dp_appending", "dp_notify"),
         dead_processes' = Append(dead_processes, reaping[self]),
         UNCHANGED <<schedVars, dead_tasks, cv_waiting_task_queue, cleanVars,
                     reapVars, dead_resource_lock>>
  PROVE  ReaperInv'
<1> DEFINE l == "dp_appending"
           m == "dp_notify"
           p == reaping[self]
<1>1. /\ l \in WorkerPlaces /\ m \in WorkerPlaces
      /\ l \in HoldPlaces /\ m \in HoldPlaces /\ l \notin ExitPlaces /\ m \notin ExitPlaces
      /\ m \notin {"dt_release", "exit_switch"}
      /\ l \notin ListedPlaces
      /\ l \in HandPlaces /\ l \in ReapPlaces /\ m \notin HandPlaces /\ m \in ReapPlaces
  BY DEF WorkerPlaces, HoldPlaces, ExitPlaces, ListedPlaces, HandPlaces, ReapPlaces
<1> HIDE DEF l, m
<1>2. Goto(l, m)
  BY DEF l, m
<1>3. /\ SchedFits' /\ (\A t \in Workers : WorkerFits(t)') /\ CleanFits' /\ LockFits'
      /\ LockProtects'
  BY <1>1, <1>2, QuietWorker DEF NobodyReaps, reapVars
<1>4. /\ self \in Workers
      /\ pc[self] = l /\ pc'[self] = m
      /\ \A u \in Workers : u # self => pc'[u] = pc[u]
      /\ pc'[CleanThread] = pc[CleanThread]
      /\ DOMAIN pc' = Placed
      /\ status' = status
  BY <1>1, <1>2, WorkerMoves DEF schedVars
<1>5. /\ ProcessesFit /\ dead_processes \in Seq(Zombies)
      /\ UNCHANGED <<dead_processes_receiver, zombies, destroyed, reaping>>
  BY DEF ReaperInv, ReaperTypeOK, cleanVars, reapVars
<1>6. p \in Zombies /\ Handed(self, p)
  BY <1>1, <1>4, <1>5 DEF ProcessesFit, Handed
<1>7. /\ p \notin zombies \cup destroyed
      /\ ~Linked(dead_processes, p) /\ ~Linked(dead_processes_receiver, p)
      /\ \A u \in Workers : Handed(u, p) => u = self
  BY <1>4, <1>5, <1>6 DEF ProcessesFit
<1>8. /\ dead_processes' \in Seq(Zombies) /\ NoRepeat(dead_processes')
      /\ \A t : Linked(dead_processes', t) <=> (Linked(dead_processes, t) \/ t = p)
  BY <1>5, <1>6, <1>7, AppendNode DEF ProcessesFit
<1>9. \A t \in Workers : \A r \in Zombies : Handed(t, r)' => Handed(t, r) /\ r # p
  BY <1>1, <1>4, <1>5, <1>7 DEF Handed
<1>10. \A t \in Workers : pc'[t] \in ReapPlaces => reaping'[t] \in Zombies
  BY <1>1, <1>4, <1>5, <1>6 DEF ProcessesFit
<1>11. ProcessesFit'
  <2> HIDE DEF p
  <2>1. ASSUME NEW r \in Zombies
        PROVE  /\ ~(Linked(dead_processes', r) /\ Linked(dead_processes_receiver', r))
               /\ Linked(dead_processes', r) \/ Linked(dead_processes_receiver', r) =>
                    r \notin zombies' \cup destroyed'
    BY <1>5, <1>7, <1>8 DEF ProcessesFit
  <2>2. ASSUME NEW r \in Zombies, NEW t \in Workers, Handed(t, r)'
        PROVE  /\ r \notin zombies' \cup destroyed'
               /\ ~Linked(dead_processes', r) /\ ~Linked(dead_processes_receiver', r)
               /\ \A u \in Workers : Handed(u, r)' => u = t
    BY <1>5, <1>8, <1>9, <2>2 DEF ProcessesFit
  <2> QED
    BY <1>5, <1>8, <1>10, <2>1, <2>2 DEF ProcessesFit
<1>12. TasksFit'
  BY <1>1, <1>4, TasksStay DEF ReaperInv, cleanVars
<1>13. ReaperTypeOK'
  BY <1>1, <1>4, <1>8 DEF ReaperInv, ReaperTypeOK, cleanVars, reapVars, Placed
<1> QED
  BY <1>3, <1>11, <1>12, <1>13 DEF ReaperInv

\* process_wait takes the child out of its table: nobody else has it.
LEMMA ReapKeeps ==
  ASSUME ReaperInv, NEW p \in Zombies, ReapZombie(p)
  PROVE  ReaperInv'
<1> DEFINE l == "run"
           m == "dp_xchg"
<1>1. /\ l \in WorkerPlaces /\ m \in WorkerPlaces
      /\ l \notin HoldPlaces /\ m \notin HoldPlaces /\ l \notin ExitPlaces /\ m \notin ExitPlaces
      /\ m \notin {"dt_release", "exit_switch"}
      /\ l \notin ListedPlaces /\ l \notin HandPlaces
      /\ m \in HandPlaces /\ m \in ReapPlaces
  BY DEF WorkerPlaces, HoldPlaces, ExitPlaces, ListedPlaces, HandPlaces, ReapPlaces
<1> HIDE DEF l, m
<1>2. Goto(l, m)
  BY DEF l, m, ReapZombie
<1>3. UNCHANGED <<schedVars, listVars, cleanVars, dead_resource_lock>>
  BY DEF ReapZombie
<1>4. /\ p \in zombies /\ zombies' = zombies \ {p}
      /\ reaping \in [Workers -> Zombies \cup {MainProcess}]
      /\ reaping' = [reaping EXCEPT ![self] = p]
  BY DEF ReapZombie, ReaperInv, ReaperTypeOK
<1>5. /\ self \in Workers
      /\ pc[self] = l /\ pc'[self] = m
      /\ \A u \in Workers : u # self => pc'[u] = pc[u]
      /\ pc'[CleanThread] = pc[CleanThread]
      /\ DOMAIN pc' = Placed
      /\ status' = status
  BY <1>1, <1>2, <1>3, WorkerMoves DEF schedVars
<1>6. /\ reaping'[self] = p
      /\ \A u \in Workers : u # self => reaping'[u] = reaping[u]
      /\ reaping' \in [Workers -> Zombies \cup {MainProcess}]
  BY <1>4, <1>5
<1>7. ~NobodyReaps'
  BY <1>5, <1>6, ReaperAssumption DEF NobodyReaps
<1>8. /\ SchedFits' /\ (\A t \in Workers : WorkerFits(t)') /\ CleanFits' /\ LockFits'
      /\ LockProtects'
  BY <1>1, <1>2, <1>3, <1>7, QuietWorker DEF listVars
<1>9. ProcessesFit /\ UNCHANGED <<dead_processes, dead_processes_receiver, destroyed>>
  BY <1>3 DEF ReaperInv, listVars, cleanVars
<1>10. p \notin destroyed /\ ~Linked(dead_processes, p) /\ ~Linked(dead_processes_receiver, p)
  BY <1>4, <1>9 DEF ProcessesFit
<1>11. \A t \in Workers : ~Handed(t, p)
  BY <1>4, <1>9 DEF ProcessesFit
<1>12. \A t \in Workers : \A r \in Zombies :
         Handed(t, r)' => \/ t = self /\ r = p
                          \/ t # self /\ r # p /\ Handed(t, r)
  BY <1>1, <1>5, <1>6, <1>11 DEF Handed
<1>13. \A t \in Workers : pc'[t] \in ReapPlaces => reaping'[t] \in Zombies
  BY <1>5, <1>6, <1>9 DEF ProcessesFit
<1>14. ProcessesFit'
  <2>1. ASSUME NEW r \in Zombies, NEW t \in Workers, Handed(t, r)'
        PROVE  /\ r \notin zombies' \cup destroyed'
               /\ ~Linked(dead_processes', r) /\ ~Linked(dead_processes_receiver', r)
               /\ \A u \in Workers : Handed(u, r)' => u = t
    <3>1. CASE t = self /\ r = p
      BY <1>4, <1>9, <1>10, <1>12, <3>1
    <3>2. CASE t # self /\ r # p /\ Handed(t, r)
      BY <1>4, <1>9, <1>12, <3>2 DEF ProcessesFit
    <3> QED
      BY <1>12, <2>1, <3>1, <3>2
  <2>2. ASSUME NEW r \in Zombies
        PROVE  /\ ~(Linked(dead_processes', r) /\ Linked(dead_processes_receiver', r))
               /\ Linked(dead_processes', r) \/ Linked(dead_processes_receiver', r) =>
                    r \notin zombies' \cup destroyed'
    BY <1>4, <1>9 DEF ProcessesFit
  <2>3. zombies' \cap destroyed' = {} /\ NoRepeat(dead_processes')
          /\ NoRepeat(dead_processes_receiver')
    BY <1>4, <1>9 DEF ProcessesFit
  <2> QED
    BY <1>13, <2>1, <2>2, <2>3 DEF ProcessesFit
<1>15. TasksFit'
  BY <1>1, <1>3, <1>5, TasksStay DEF ReaperInv, cleanVars, listVars
<1>16. ReaperTypeOK'
  BY <1>1, <1>3, <1>4, <1>5, <1>6 DEF ReaperInv, ReaperTypeOK, cleanVars, listVars, Placed
<1> QED
  BY <1>8, <1>14, <1>15, <1>16 DEF ReaperInv

\* cond_var_wait puts the clean thread into the wait queue, which is empty.
LEMMA WaitKeeps ==
  ASSUME ReaperInv, NoThreadQueuedTwice, Goto("cv_appending", "cv_mark"),
         cv_waiting_task_queue' = Append(cv_waiting_task_queue, self),
         UNCHANGED <<schedVars, dead_tasks, dead_processes, cleanVars, reapVars,
                     dead_resource_lock>>
  PROVE  ReaperInv'
<1> DEFINE l == "cv_appending"
           m == "cv_mark"
<1>1. /\ l \in CleanPlaces /\ m \in CleanPlaces /\ l \in HoldPlaces /\ m \in HoldPlaces
  BY DEF CleanPlaces, HoldPlaces
<1>2. /\ SchedFits' /\ (\A t \in Workers : WorkerFits(t)') /\ LockProtects'
      /\ \A t \in Placed : HoldsLock(t)' <=> HoldsLock(t)
  BY <1>1, QuietClean
<1>3. /\ self = CleanThread
      /\ pc[CleanThread] = l /\ pc'[CleanThread] = m
      /\ \A u \in Workers : pc'[u] = pc[u]
      /\ DOMAIN pc' = Placed
      /\ status' = status /\ crt_thread_node' = crt_thread_node
      /\ status[CleanThread] \notin {"TASK_NONE", "TASK_READY", "TASK_DEAD"}
  BY <1>1, CleanMoves DEF schedVars
<1>4. CleanFits /\ UNCHANGED <<dead_tasks_receiver, dead_processes_receiver>>
  BY DEF ReaperInv, cleanVars
<1>5. status[CleanThread] # "TASK_WAITING" /\ cv_waiting_task_queue = <<>>
  BY <1>3, <1>4 DEF CleanFits
<1>6. cv_waiting_task_queue' = <<CleanThread>>
  BY <1>3, <1>5
<1>7. CleanFits'
  BY <1>3, <1>4, <1>5, <1>6 DEF CleanFits
<1>8. TasksFit' /\ ProcessesFit'
  BY <1>3, TasksStay, ProcessesStay DEF ReaperInv, cleanVars
<1>9. LockFits'
  BY <1>2, <1>3 DEF ReaperInv, LockFits, cleanVars, Placed
<1>10. ReaperTypeOK'
  BY <1>1, <1>3 DEF ReaperInv, ReaperTypeOK, cleanVars, reapVars, Placed
<1> QED
  BY <1>2, <1>7, <1>8, <1>9, <1>10 DEF ReaperInv

\* kernel_clean_thread takes all the dead threads.
LEMMA MoveTasksKeeps ==
  ASSUME ReaperInv, NoThreadQueuedTwice, Goto("cl_moving_tasks", "cl_moving_processes"),
         dead_tasks_receiver' = dead_tasks, dead_tasks' = <<>>,
         UNCHANGED <<schedVars, dead_processes, cv_waiting_task_queue,
                     dead_processes_receiver, destroyed, reapVars, dead_resource_lock>>
  PROVE  ReaperInv'
<1> DEFINE l == "cl_moving_tasks"
           m == "cl_moving_processes"
<1>1. /\ l \in CleanPlaces /\ m \in CleanPlaces
      /\ l \notin HoldPlaces /\ m \notin HoldPlaces
  BY DEF CleanPlaces, HoldPlaces
<1>2. /\ SchedFits' /\ (\A t \in Workers : WorkerFits(t)') /\ LockProtects'
      /\ \A t \in Placed : HoldsLock(t)' <=> HoldsLock(t)
  BY <1>1, QuietClean
<1>3. /\ self = CleanThread
      /\ pc[CleanThread] = l /\ pc'[CleanThread] = m
      /\ \A u \in Workers : pc'[u] = pc[u]
      /\ DOMAIN pc' = Placed
      /\ status' = status /\ crt_thread_node' = crt_thread_node
      /\ status[CleanThread] \notin {"TASK_NONE", "TASK_READY", "TASK_DEAD"}
  BY <1>1, CleanMoves DEF schedVars
<1>4. CleanFits /\ status[CleanThread] # "TASK_WAITING" /\ dead_tasks_receiver = <<>>
  BY <1>3 DEF ReaperInv, CleanFits
<1>5. CleanFits'
  BY <1>3, <1>4 DEF CleanFits
<1>6. TasksFit'
  BY <1>3, EmptyList DEF ReaperInv, TasksFit
<1>7. ProcessesFit'
  BY <1>3, ProcessesStay DEF ReaperInv
<1>8. LockFits'
  BY <1>2, <1>3 DEF ReaperInv, LockFits, Placed
<1>9. ReaperTypeOK'
  BY <1>1, <1>3 DEF ReaperInv, ReaperTypeOK, reapVars, Placed
<1> QED
  BY <1>2, <1>5, <1>6, <1>7, <1>8, <1>9 DEF ReaperInv

\* kernel_clean_thread takes all the dead processes.
LEMMA MoveProcessesKeeps ==
  ASSUME ReaperInv, NoThreadQueuedTwice, Goto("cl_moving_processes", "cl_unlock"),
         dead_processes_receiver' = dead_processes, dead_processes' = <<>>,
         UNCHANGED <<schedVars, dead_tasks, cv_waiting_task_queue,
                     dead_tasks_receiver, destroyed, reapVars, dead_resource_lock>>
  PROVE  ReaperInv'
<1> DEFINE l == "cl_moving_processes"
           m == "cl_unlock"
<1>1. /\ l \in CleanPlaces /\ m \in CleanPlaces
      /\ l \notin HoldPlaces /\ m \notin HoldPlaces
  BY DEF CleanPlaces, HoldPlaces
<1>2. /\ SchedFits' /\ (\A t \in Workers : WorkerFits(t)') /\ LockProtects'
      /\ \A t \in Placed : HoldsLock(t)' <=> HoldsLock(t)
  BY <1>1, QuietClean
<1>3. /\ self = CleanThread
      /\ pc[CleanThread] = l /\ pc'[CleanThread] = m
      /\ \A u \in Workers : pc'[u] = pc[u]
      /\ DOMAIN pc' = Placed
      /\ status' = status /\ crt_thread_node' = crt_thread_node
      /\ status[CleanThread] \notin {"TASK_NONE", "TASK_READY", "TASK_DEAD"}
  BY <1>1, CleanMoves DEF schedVars
<1>4. CleanFits /\ status[CleanThread] # "TASK_WAITING" /\ dead_processes_receiver = <<>>
  BY <1>3 DEF ReaperInv, CleanFits
<1>5. CleanFits'
  BY <1>3, <1>4 DEF CleanFits
<1>6. TasksFit'
  BY <1>3, TasksStay DEF ReaperInv
<1>7. ProcessesFit'
  <2>1. ProcessesFit /\ UNCHANGED <<zombies, destroyed, reaping>>
    BY DEF ReaperInv, reapVars
  <2>2. \A t \in Workers : \A p \in Zombies : Handed(t, p)' <=> Handed(t, p)
    BY <1>3, <2>1 DEF Handed
  <2>3. ASSUME NEW r \in Zombies, NEW t \in Workers, Handed(t, r)'
        PROVE  /\ r \notin zombies' \cup destroyed'
               /\ ~Linked(dead_processes', r) /\ ~Linked(dead_processes_receiver', r)
               /\ \A u \in Workers : Handed(u, r)' => u = t
    BY <2>1, <2>2, <2>3, EmptyList DEF ProcessesFit
  <2>4. ASSUME NEW r \in Zombies
        PROVE  /\ ~(Linked(dead_processes', r) /\ Linked(dead_processes_receiver', r))
               /\ Linked(dead_processes', r) \/ Linked(dead_processes_receiver', r) =>
                    r \notin zombies' \cup destroyed'
    BY <2>1, EmptyList DEF ProcessesFit
  <2>5. \A t \in Workers : pc'[t] \in ReapPlaces => reaping'[t] \in Zombies
    BY <1>3, <2>1 DEF ProcessesFit
  <2> QED
    BY <2>1, <2>3, <2>4, <2>5, EmptyList DEF ProcessesFit
<1>8. LockFits'
  BY <1>2, <1>3 DEF ReaperInv, LockFits, Placed
<1>9. ReaperTypeOK'
  BY <1>1, <1>3 DEF ReaperInv, ReaperTypeOK, reapVars, Placed
<1> QED
  BY <1>2, <1>5, <1>6, <1>7, <1>8, <1>9 DEF ReaperInv

\* The second loop destroys one process.
LEMMA DestroyProcessKeeps ==
  ASSUME ReaperInv, NoThreadQueuedTwice, Goto("cl_clean", "cl_clean"),
         dead_tasks_receiver = <<>>, dead_processes_receiver # <<>>,
         destroyed' = destroyed \cup {Head(dead_processes_receiver)},
         dead_processes_receiver' = Tail(dead_processes_receiver),
         UNCHANGED <<schedVars, listVars, dead_tasks_receiver, reapVars,
                     dead_resource_lock>>
  PROVE  ReaperInv'
<1> USE DEF listVars
<1> DEFINE l == "cl_clean"
           p == Head(dead_processes_receiver)
<1>1. l \in CleanPlaces /\ l \notin HoldPlaces
  BY DEF CleanPlaces, HoldPlaces
<1>2. /\ SchedFits' /\ (\A t \in Workers : WorkerFits(t)') /\ LockProtects'
      /\ \A t \in Placed : HoldsLock(t)' <=> HoldsLock(t)
  BY <1>1, QuietClean
<1>3. /\ self = CleanThread
      /\ pc[CleanThread] = l /\ pc'[CleanThread] = l
      /\ \A u \in Workers : pc'[u] = pc[u]
      /\ DOMAIN pc' = Placed
      /\ status' = status /\ crt_thread_node' = crt_thread_node
      /\ status[CleanThread] \notin {"TASK_NONE", "TASK_READY", "TASK_DEAD"}
  BY <1>1, CleanMoves DEF schedVars
<1>4. CleanFits /\ status[CleanThread] # "TASK_WAITING"
  BY <1>3 DEF ReaperInv, CleanFits
<1>5. CleanFits'
  BY <1>3, <1>4 DEF CleanFits
<1>6. TasksFit'
  BY <1>3, TasksStay DEF ReaperInv
<1>7. ProcessesFit /\ UNCHANGED <<zombies, reaping, dead_processes>>
  BY DEF ReaperInv, reapVars
<1>8. /\ p \in Zombies /\ Linked(dead_processes_receiver, p)
      /\ dead_processes_receiver' \in Seq(Zombies) /\ NoRepeat(dead_processes_receiver')
      /\ \A t : Linked(dead_processes_receiver', t)
                  <=> (Linked(dead_processes_receiver, t) /\ t # p)
  BY <1>7, RemoveHead DEF ReaperInv, ReaperTypeOK, ProcessesFit
<1>9. ProcessesFit'
  <2> HIDE DEF p
  <2>1. destroyed' = destroyed \cup {p}
    BY DEF p
  <2>2. \A t \in Workers : \A r \in Zombies : Handed(t, r)' <=> Handed(t, r)
    BY <1>3, <1>7 DEF Handed
  <2>3. ASSUME NEW r \in Zombies, NEW t \in Workers, Handed(t, r)'
        PROVE  /\ r \notin zombies' \cup destroyed'
               /\ ~Linked(dead_processes', r) /\ ~Linked(dead_processes_receiver', r)
               /\ \A u \in Workers : Handed(u, r)' => u = t
    BY <1>7, <1>8, <2>1, <2>2, <2>3 DEF ProcessesFit
  <2>4. ASSUME NEW r \in Zombies
        PROVE  /\ ~(Linked(dead_processes', r) /\ Linked(dead_processes_receiver', r))
               /\ Linked(dead_processes', r) \/ Linked(dead_processes_receiver', r) =>
                    r \notin zombies' \cup destroyed'
    BY <1>7, <1>8, <2>1 DEF ProcessesFit
  <2>5. \A t \in Workers : pc'[t] \in ReapPlaces => reaping'[t] \in Zombies
    BY <1>3, <1>7 DEF ProcessesFit
  <2>6. zombies' \cap destroyed' = {}
    BY <1>7, <1>8, <2>1 DEF ProcessesFit
  <2> QED
    BY <1>7, <1>8, <2>3, <2>4, <2>5, <2>6 DEF ProcessesFit
<1>10. LockFits'
  BY <1>2, <1>3 DEF ReaperInv, LockFits, Placed
<1>11. ReaperTypeOK'
  BY <1>1, <1>3, <1>8 DEF ReaperInv, ReaperTypeOK, reapVars, Placed
<1> QED
  BY <1>2, <1>5, <1>6, <1>9, <1>10, <1>11 DEF ReaperInv

-----------------------------------------------------------------------------
(* The steps that change what a thread is to the scheduler.                *)

\* While a worker runs, the clean thread is ready, sleeps, or is in the middle of
\* cond_var_wait; so nobody waits on dead_resource_cv only when it is ready.
LEMMA CleanWhileWorker ==
  ASSUME ReaperInv, NoThreadQueuedTwice, self \in Workers
  PROVE  /\ status[CleanThread] \in {"TASK_READY", "TASK_WAITING"}
         /\ cv_waiting_task_queue = <<>> =>
              status[CleanThread] = "TASK_READY" /\ ready_tasks # <<>>
         /\ cv_waiting_task_queue # <<>> =>
              /\ cv_waiting_task_queue = <<CleanThread>>
              /\ pc[CleanThread] = "cv_mark" \/ status[CleanThread] = "TASK_WAITING"
<1>1. /\ status \in [Threads -> TaskStatus] /\ self \in Threads /\ self # CleanThread
      /\ status[self] # "TASK_NONE"
  BY People DEF ReaperInv, SchedFits, SchedTypeOK, IdleAndCurrentAlive, self
<1>2. status[CleanThread] \notin {"TASK_NONE", "TASK_DEAD"}
  BY <1>1 DEF ReaperInv, WorkerFits, CleanFits
<1>3. status[CleanThread] # "TASK_RUNNING"
  BY <1>1, People DEF ReaperInv, SchedFits, OneRunner, self
<1>4. status[CleanThread] \in {"TASK_READY", "TASK_WAITING"}
  BY <1>1, <1>2, <1>3, People DEF TaskStatus
<1>5. cv_waiting_task_queue =
        IF pc[CleanThread] = "cv_mark" \/ status[CleanThread] = "TASK_WAITING"
        THEN <<CleanThread>> ELSE <<>>
  BY DEF ReaperInv, CleanFits
<1>6. status[CleanThread] = "TASK_READY" => ready_tasks # <<>>
  <2>1. status[CleanThread] = "TASK_READY" => Linked(ready_tasks, CleanThread)
    BY People DEF ReaperInv, SchedFits, ReadyIffQueued, Queued
  <2> QED
    BY <2>1, EmptyList
<1> QED
  BY <1>4, <1>5, <1>6

\* Queueing the clean thread: if it is ready already, it is now linked twice.
LEMMA WakeFits ==
  ASSUME ReaperInv, NoThreadQueuedTwice, self \in Workers,
         status[CleanThread] \in {"TASK_READY", "TASK_WAITING"},
         add_thread_node_to_schedule(CleanThread)
  PROVE  /\ SchedFits' /\ ready_tasks' # <<>>
         /\ crt_thread_node' = crt_thread_node
         /\ status'[CleanThread] = "TASK_READY"
         /\ \A t \in Threads : t # CleanThread => status'[t] = status[t]
         /\ status[CleanThread] = "TASK_READY" => ~NoThreadQueuedTwice'
         /\ status[CleanThread] = "TASK_WAITING" => NoThreadQueuedTwice'
<1>1. /\ SchedTypeOK /\ ReadyIffQueued /\ OneRunner /\ LoadedDirMatches
      /\ IdleAndCurrentAlive /\ (\A t \in Threads : preempt_count[t] = 0)
      /\ status[self] # "TASK_READY"
  BY People DEF ReaperInv, SchedFits
<1>2. /\ ready_tasks' = Append(ready_tasks, CleanThread)
      /\ status' = [status EXCEPT ![CleanThread] = "TASK_READY"]
      /\ UNCHANGED <<crt_thread_node, ticks, need_reschedule, preempt_count,
                     process, page_directory>>
  BY DEF add_thread_node_to_schedule
<1>3. /\ ready_tasks \in Seq(Threads) /\ status \in [Threads -> TaskStatus]
  BY <1>1 DEF SchedTypeOK
<1>4. /\ status'[CleanThread] = "TASK_READY"
      /\ \A t \in Threads : t # CleanThread => status'[t] = status[t]
      /\ status' \in [Threads -> TaskStatus]
  BY <1>2, <1>3, People DEF TaskStatus
<1>5. /\ ready_tasks' \in Seq(Threads) /\ ready_tasks' # <<>>
      /\ \A t : Linked(ready_tasks', t) <=> (Linked(ready_tasks, t) \/ t = CleanThread)
  BY <1>2, <1>3, People, AppendLinks
<1>6. SchedTypeOK'
  BY <1>1, <1>2, <1>4, <1>5 DEF SchedTypeOK
<1>7. ReadyIffQueued'
  BY <1>1, <1>4, <1>5, People DEF ReadyIffQueued, Queued
<1>8. OneRunner'
  BY <1>1, <1>2, <1>4 DEF OneRunner
<1>9. LoadedDirMatches' /\ (\A t \in Threads : preempt_count'[t] = 0)
  BY <1>1, <1>2 DEF LoadedDirMatches
<1>10. self' = self /\ self # CleanThread /\ self \in Threads /\ self # MainThread
  BY <1>2, People DEF self
<1>11. IdleAndCurrentAlive' /\ status'[self'] # "TASK_READY"
  BY <1>1, <1>4, <1>10, People DEF IdleAndCurrentAlive, self
<1>12. status[CleanThread] = "TASK_READY" => ~NoThreadQueuedTwice'
  <2>1. ASSUME status[CleanThread] = "TASK_READY"
        PROVE  ~NoThreadQueuedTwice'
    <3>1. PICK i \in 1..Len(ready_tasks) : ready_tasks[i] = CleanThread
      BY <1>1, <2>1, People DEF ReadyIffQueued, Queued, Linked
    <3>2. /\ Len(ready_tasks') = Len(ready_tasks) + 1 /\ Len(ready_tasks) \in Nat
          /\ ready_tasks'[Len(ready_tasks) + 1] = CleanThread
          /\ ready_tasks'[i] = CleanThread
      BY <1>2, <1>3, <3>1, People
    <3>3. /\ i \in 1..Len(ready_tasks') /\ Len(ready_tasks) + 1 \in 1..Len(ready_tasks')
          /\ i # Len(ready_tasks) + 1
      BY <3>1, <3>2
    <3> QED
      BY <3>2, <3>3 DEF NoThreadQueuedTwice, NoRepeat
  <2> QED
    BY <2>1
<1>13. status[CleanThread] = "TASK_WAITING" => NoThreadQueuedTwice'
  <2>1. ASSUME status[CleanThread] = "TASK_WAITING"
        PROVE  ~Linked(ready_tasks, CleanThread)
    BY <1>1, <2>1, People DEF ReadyIffQueued, Queued
  <2> QED
    BY <1>2, <1>3, <2>1, People, AppendNode DEF NoThreadQueuedTwice
<1> QED
  BY <1>2, <1>4, <1>5, <1>6, <1>7, <1>8, <1>9, <1>10, <1>11, <1>12, <1>13 DEF SchedFits

\* cond_var_notify, called by add_dead_task and add_dead_process.
LEMMA NotifyKeeps ==
  ASSUME ReaperInv, NoThreadQueuedTwice, NEW l \in WorkerPlaces, NEW m \in WorkerPlaces,
         l \in HoldPlaces, m \in HoldPlaces,
         l \in ExitPlaces <=> m \in ExitPlaces,
         l \in ListedPlaces => m \in ListedPlaces,
         m \in ReapPlaces => l \in ReapPlaces,
         m \notin HandPlaces,
         Goto(l, m),
         \/ /\ cv_waiting_task_queue = <<>>
            /\ UNCHANGED <<schedVars, cv_waiting_task_queue>>
         \/ /\ cv_waiting_task_queue # <<>>
            /\ cv_waiting_task_queue' = Tail(cv_waiting_task_queue)
            /\ add_thread_node_to_schedule(Head(cv_waiting_task_queue)),
         UNCHANGED <<dead_tasks, dead_processes, cleanVars, reapVars, dead_resource_lock>>
  PROVE  ReaperInv'
<1>1. /\ self \in Workers /\ self \in Threads
      /\ pc[self] = l /\ pc'[self] = m
      /\ \A u \in Workers : u # self => pc'[u] = pc[u]
      /\ pc'[CleanThread] = pc[CleanThread]
      /\ DOMAIN pc' = Placed
      /\ status[self] \notin {"TASK_NONE", "TASK_READY", "TASK_WAITING"}
  BY WorkerMoves
<1>2. ReaperTypeOK'
  BY <1>1 DEF ReaperInv, ReaperTypeOK, cleanVars, reapVars, Placed
<1>3. ProcessesFit'
  BY <1>1, ProcessesStay DEF ReaperInv, cleanVars
<1>4. CASE cv_waiting_task_queue = <<>> /\ UNCHANGED <<schedVars, cv_waiting_task_queue>>
  <2>1. ready_tasks # <<>>
    BY <1>1, <1>4, CleanWhileWorker
  <2>2. NobodyReaps' => NobodyReaps
    BY DEF NobodyReaps, reapVars
  <2>3. /\ SchedFits' /\ (\A t \in Workers : WorkerFits(t)') /\ CleanFits' /\ LockFits'
        /\ LockProtects'
    BY <1>4, <2>1, <2>2, QuietWorker
  <2>4. TasksFit'
    BY <1>1, <1>4, TasksStay DEF ReaperInv, cleanVars, schedVars
  <2> QED
    BY <1>2, <1>3, <2>3, <2>4 DEF ReaperInv
<1>5. CASE /\ cv_waiting_task_queue # <<>>
           /\ cv_waiting_task_queue' = Tail(cv_waiting_task_queue)
           /\ add_thread_node_to_schedule(Head(cv_waiting_task_queue))
  <2>1. /\ cv_waiting_task_queue = <<CleanThread>>
        /\ pc[CleanThread] = "cv_mark" \/ status[CleanThread] = "TASK_WAITING"
        /\ status[CleanThread] \in {"TASK_READY", "TASK_WAITING"}
    BY <1>1, <1>5, CleanWhileWorker
  <2>2. cv_waiting_task_queue' = <<>> /\ add_thread_node_to_schedule(CleanThread)
    BY <1>5, <2>1
  <2>3. /\ SchedFits' /\ ready_tasks' # <<>>
        /\ crt_thread_node' = crt_thread_node
        /\ status'[CleanThread] = "TASK_READY"
        /\ \A t \in Threads : t # CleanThread => status'[t] = status[t]
        /\ status[CleanThread] = "TASK_READY" => ~NoThreadQueuedTwice'
    BY <1>1, <2>1, <2>2, WakeFits
  <2>4. \A t \in Workers : status'[t] = status[t]
    BY <2>3, People
  <2>5. ASSUME NEW t \in Workers
        PROVE  WorkerFits(t)'
    BY <1>1, <2>3, <2>4 DEF ReaperInv, WorkerFits
  <2>6. NoThreadQueuedTwice' => pc[CleanThread] # "cv_mark"
    BY <2>1, <2>3 DEF ReaperInv, CleanFits
  <2>7. CleanFits'
    <3>1. CleanFits /\ UNCHANGED <<dead_tasks_receiver, dead_processes_receiver>>
      BY DEF ReaperInv, cleanVars
    <3> QED
      BY <1>1, <2>2, <2>3, <2>6, <3>1 DEF CleanFits
  <2>8. TasksFit'
    BY <1>1, <2>4, TasksStay DEF ReaperInv, cleanVars
  <2>9. \A t \in Placed : HoldsLock(t)' <=> HoldsLock(t)
    BY <1>1, <2>1, <2>3, <2>4 DEF HoldsLock, Placed
  <2>10. LockFits'
    BY <1>1, <2>9 DEF ReaperInv, LockFits, Placed, cleanVars
  <2>11. LockProtects'
    BY <1>1, <2>3, <2>9 DEF ReaperInv, LockProtects, Placed, NobodyReaps, reapVars, self
  <2> QED
    BY <1>2, <1>3, <2>3, <2>5, <2>7, <2>8, <2>10, <2>11 DEF ReaperInv
<1> QED
  BY <1>4, <1>5

\* A change of one status that is not about the ready queue.
LEMMA StatusChange ==
  ASSUME ReaperInv, NoThreadQueuedTwice, NEW t \in Threads,
         NEW s \in {"TASK_NONE", "TASK_WAITING", "TASK_DEAD"},
         t # MainThread, status[t] # "TASK_READY",
         s = "TASK_NONE" => t # crt_thread_node,
         status' = [status EXCEPT ![t] = s],
         UNCHANGED <<ready_tasks, crt_thread_node, ticks, need_reschedule,
                     preempt_count, process, page_directory>>
  PROVE  /\ SchedFits'
         /\ status'[t] = s
         /\ \A u \in Threads : u # t => status'[u] = status[u]
<1>1. SchedInv' /\ (\A u \in Threads : preempt_count[u] = 0)
  BY Intact, RestTo DEF ReaperInv, SchedFits
<1>2. /\ status'[t] = s
      /\ \A u \in Threads : u # t => status'[u] = status[u]
  BY DEF ReaperInv, SchedFits, SchedTypeOK
<1>3. self' # MainThread => status'[self'] # "TASK_READY"
  BY <1>2 DEF ReaperInv, SchedFits, SchedTypeOK, self
<1> QED
  BY <1>1, <1>2, <1>3 DEF SchedFits, SchedInv

\* schedule_thread_exit marks the thread, which is not listed yet.
LEMMA MarkDeadKeeps ==
  ASSUME ReaperInv, NoThreadQueuedTwice, Goto("mark_dead", "dt_xchg"), mark_thread_dead,
         UNCHANGED <<listVars, cleanVars, reapVars, dead_resource_lock>>
  PROVE  ReaperInv'
<1> USE DEF self, listVars, cleanVars
<1> DEFINE l == "mark_dead"
           m == "dt_xchg"
<1>1. /\ l \in WorkerPlaces /\ m \in WorkerPlaces
      /\ l \notin HoldPlaces /\ m \notin HoldPlaces /\ m \in ExitPlaces
      /\ m \notin {"dt_release", "exit_switch"}
      /\ l \notin ListedPlaces /\ m \notin HandPlaces /\ m \notin ReapPlaces
  BY DEF WorkerPlaces, HoldPlaces, ExitPlaces, ListedPlaces, HandPlaces, ReapPlaces
<1>2. /\ self \in Workers /\ self \in Threads
      /\ pc[self] = l /\ pc'[self] = m
      /\ \A u \in Workers : u # self => pc'[u] = pc[u]
      /\ pc'[CleanThread] = pc[CleanThread]
      /\ DOMAIN pc' = Placed
      /\ status[self] \notin {"TASK_NONE", "TASK_READY", "TASK_WAITING"}
  BY <1>1, WorkerMoves
<1> HIDE DEF l, m
<1>3. UNCHANGED <<ready_tasks, crt_thread_node>>
  BY DEF mark_thread_dead
<1>4. /\ SchedFits'
      /\ status'[self] = "TASK_DEAD"
      /\ \A u \in Threads : u # self => status'[u] = status[u]
  BY <1>2, People, StatusChange DEF mark_thread_dead
<1>5. ASSUME NEW t \in Workers
      PROVE  WorkerFits(t)'
  <2>1. WorkerFits(t) /\ status'[CleanThread] = status[CleanThread] /\ t \in Threads
    BY <1>2, <1>4, People DEF ReaperInv
  <2>2. CASE t = self
    BY <1>1, <1>2, <1>4, <2>1, <2>2 DEF WorkerFits
  <2>3. CASE t # self
    BY <1>2, <1>3, <1>4, <2>1, <2>3 DEF WorkerFits
  <2> QED
    BY <2>2, <2>3
<1>6. CleanFits'
  <2>1. status'[CleanThread] = status[CleanThread] /\ (NoThreadQueuedTwice' => NoThreadQueuedTwice)
    BY <1>2, <1>3, <1>4, People DEF NoThreadQueuedTwice
  <2> QED
    BY <1>2, <1>3, <2>1 DEF ReaperInv, CleanFits
<1>7. TasksFit'
  BY <1>1, <1>2, <1>4, People, TasksStay DEF ReaperInv
<1>8. ProcessesFit'
  BY <1>1, <1>2, ProcessesStay DEF ReaperInv
<1>9. \A t \in Placed : HoldsLock(t)' <=> HoldsLock(t)
  BY <1>1, <1>2, <1>4, People DEF HoldsLock, Placed
<1>10. LockFits'
  BY <1>2, <1>9 DEF ReaperInv, LockFits, Placed
<1>11. LockProtects'
  BY <1>2, <1>3, <1>9 DEF ReaperInv, LockProtects, Placed, NobodyReaps, reapVars
<1>12. ReaperTypeOK'
  BY <1>1, <1>2 DEF ReaperInv, ReaperTypeOK, reapVars, Placed
<1> QED
  BY <1>4, <1>5, <1>6, <1>7, <1>8, <1>10, <1>11, <1>12 DEF ReaperInv

\* cond_var_wait blocks the clean thread, which is in the wait queue.
LEMMA BlockKeeps ==
  ASSUME ReaperInv, NoThreadQueuedTwice, Goto("cv_mark", "cv_block_release"),
         schedule_mark_thread_block,
         UNCHANGED <<listVars, cleanVars, reapVars, dead_resource_lock>>
  PROVE  ReaperInv'
<1> USE DEF self, listVars, cleanVars
<1> DEFINE l == "cv_mark"
           m == "cv_block_release"
<1>1. l \in CleanPlaces /\ m \in CleanPlaces /\ l \in HoldPlaces /\ m \in HoldPlaces
  BY DEF CleanPlaces, HoldPlaces
<1>2. /\ self = CleanThread
      /\ pc[CleanThread] = l /\ pc'[CleanThread] = m
      /\ \A u \in Workers : pc'[u] = pc[u]
      /\ DOMAIN pc' = Placed
      /\ status[CleanThread] \notin {"TASK_NONE", "TASK_READY", "TASK_DEAD"}
  BY <1>1, CleanMoves
<1>3. UNCHANGED <<ready_tasks, crt_thread_node>>
  BY DEF schedule_mark_thread_block
<1>4. /\ SchedFits'
      /\ status'[CleanThread] = "TASK_WAITING"
      /\ \A u \in Threads : u # CleanThread => status'[u] = status[u]
  BY <1>2, People, StatusChange DEF schedule_mark_thread_block
<1>5. ASSUME NEW t \in Workers
      PROVE  WorkerFits(t)'
  BY <1>2, <1>3, <1>4, People DEF ReaperInv, WorkerFits
<1>6. CleanFits'
  <2>1. NoThreadQueuedTwice' => NoThreadQueuedTwice
    BY <1>3 DEF NoThreadQueuedTwice
  <2> QED
    BY <1>2, <1>3, <1>4, <2>1 DEF ReaperInv, CleanFits
<1>7. TasksFit'
  BY <1>2, <1>4, People, TasksStay DEF ReaperInv
<1>8. ProcessesFit'
  BY <1>2, ProcessesStay DEF ReaperInv
<1>9. \A t \in Placed : HoldsLock(t)' <=> HoldsLock(t)
  BY <1>1, <1>2, <1>4, People DEF HoldsLock, Placed
<1>10. LockFits'
  BY <1>2, <1>9 DEF ReaperInv, LockFits, Placed
<1>11. LockProtects'
  BY <1>2, <1>3, <1>9 DEF ReaperInv, LockProtects, Placed, NobodyReaps, reapVars
<1>12. ReaperTypeOK'
  BY <1>1, <1>2 DEF ReaperInv, ReaperTypeOK, reapVars, Placed
<1> QED
  BY <1>4, <1>5, <1>6, <1>7, <1>8, <1>10, <1>11, <1>12 DEF ReaperInv

\* The first loop destroys one thread.
LEMMA DestroyThreadKeeps ==
  ASSUME ReaperInv, NoThreadQueuedTwice, dead_tasks_receiver # <<>>,
         Goto("cl_clean", "cl_clean"),
         destroy_thread(Head(dead_tasks_receiver)),
         dead_tasks_receiver' = Tail(dead_tasks_receiver),
         UNCHANGED <<listVars, dead_processes_receiver, destroyed, reapVars,
                     dead_resource_lock>>
  PROVE  /\ ReaperInv'
         /\ Head(dead_tasks_receiver) \in Threads
         /\ status[Head(dead_tasks_receiver)] = "TASK_DEAD"
         /\ Head(dead_tasks_receiver) # crt_thread_node
<1> USE DEF self, listVars
<1> DEFINE l == "cl_clean"
           h == Head(dead_tasks_receiver)
<1>1. l \in CleanPlaces /\ l \notin HoldPlaces
  BY DEF CleanPlaces, HoldPlaces
<1>2. /\ self = CleanThread
      /\ pc[CleanThread] = l /\ pc'[CleanThread] = l
      /\ \A u \in Workers : pc'[u] = pc[u]
      /\ DOMAIN pc' = Placed
      /\ status[CleanThread] \notin {"TASK_NONE", "TASK_READY", "TASK_DEAD"}
  BY <1>1, CleanMoves
<1>3. /\ h \in Workers /\ Linked(dead_tasks_receiver, h)
      /\ dead_tasks_receiver' \in Seq(Workers) /\ NoRepeat(dead_tasks_receiver')
      /\ \A t : Linked(dead_tasks_receiver', t) <=> (Linked(dead_tasks_receiver, t) /\ t # h)
  BY RemoveHead DEF ReaperInv, ReaperTypeOK, TasksFit
<1>4. /\ status' = [status EXCEPT ![h] = "TASK_NONE"]
      /\ UNCHANGED <<ready_tasks, crt_thread_node, ticks, need_reschedule,
                     preempt_count, process, page_directory>>
  BY DEF destroy_thread
<1> HIDE DEF h
<1>5. status[h] = "TASK_DEAD" /\ h # CleanThread /\ h \in Threads /\ h # MainThread
        /\ pc[h] \in ListedPlaces
  BY <1>3, People DEF ReaperInv, TasksFit
<1>6. /\ SchedFits'
      /\ status'[h] = "TASK_NONE"
      /\ \A u \in Threads : u # h => status'[u] = status[u]
  BY <1>2, <1>4, <1>5, StatusChange
<1>7. ASSUME NEW t \in Workers
      PROVE  WorkerFits(t)'
  <2>1. WorkerFits(t) /\ status'[CleanThread] = status[CleanThread] /\ t \in Threads
    BY <1>5, <1>6, People DEF ReaperInv
  <2>2. t # self
    BY <1>2, People
  <2>3. CASE t = h
    BY <1>2, <1>4, <1>6, <2>1, <2>2, <2>3 DEF WorkerFits
  <2>4. CASE t # h
    BY <1>2, <1>4, <1>6, <2>1, <2>2, <2>4 DEF WorkerFits
  <2> QED
    BY <2>3, <2>4
<1>8. CleanFits'
  <2>1. status'[CleanThread] = status[CleanThread] /\ (NoThreadQueuedTwice' => NoThreadQueuedTwice)
    BY <1>4, <1>5, <1>6, People DEF NoThreadQueuedTwice
  <2> QED
    BY <1>2, <1>4, <2>1 DEF ReaperInv, CleanFits
<1>9. TasksFit'
  <2>1. TasksFit /\ UNCHANGED dead_tasks
    BY DEF ReaperInv
  <2>2. ASSUME NEW t \in Workers
        PROVE  /\ ~(Linked(dead_tasks', t) /\ Linked(dead_tasks_receiver', t))
               /\ Linked(dead_tasks', t) \/ Linked(dead_tasks_receiver', t) =>
                    pc'[t] \in ListedPlaces /\ status'[t] = "TASK_DEAD"
    <3>1. t \in Threads /\ pc'[t] = pc[t]
      BY <1>2, People
    <3>2. CASE t = h
      BY <1>3, <2>1, <3>2 DEF TasksFit
    <3>3. CASE t # h
      BY <1>3, <1>6, <2>1, <3>1, <3>3 DEF TasksFit
    <3> QED
      BY <3>2, <3>3
  <2> QED
    BY <1>3, <2>1, <2>2 DEF TasksFit
<1>10. ProcessesFit'
  BY <1>2, ProcessesStay DEF ReaperInv
<1>11. \A t \in Placed : t # h => (HoldsLock(t)' <=> HoldsLock(t))
  BY <1>2, <1>6, People DEF HoldsLock, Placed
<1>12. LockFits'
  <2>1. SUFFICES ASSUME dead_resource_lock
                 PROVE  \E t \in Placed : HoldsLock(t)' /\ ~Linked(dead_tasks_receiver', t)
    BY DEF LockFits, Placed
  <2>2. PICK t \in Placed : HoldsLock(t) /\ ~Linked(dead_tasks_receiver, t)
    BY <1>2, <2>1 DEF ReaperInv, LockFits, Placed
  <2> QED
    BY <1>3, <1>11, <2>2
<1>13. LockProtects'
  <2>1. ~HoldsLock(CleanThread)'
    BY <1>1, <1>2 DEF HoldsLock
  <2> QED
    BY <2>1 DEF LockProtects
<1>14. ReaperTypeOK'
  BY <1>1, <1>2, <1>3 DEF ReaperInv, ReaperTypeOK, reapVars, Placed
<1>15. ReaperInv'
  BY <1>6, <1>7, <1>8, <1>9, <1>10, <1>12, <1>13, <1>14 DEF ReaperInv
<1> QED
  BY <1>2, <1>5, <1>15 DEF h

\* A thread that does not exist is queued for the first time.
LEMMA NewThread ==
  ASSUME ReaperInv, NoThreadQueuedTwice, NEW t \in Threads, NEW p \in Processes,
         status[t] = "TASK_NONE", add_thread_to_schedule(t, p, FALSE)
  PROVE  /\ SchedFits' /\ NoThreadQueuedTwice' /\ ready_tasks' # <<>>
         /\ t # self /\ crt_thread_node' = crt_thread_node
         /\ status'[t] = "TASK_READY"
         /\ \A u \in Threads : u # t => status'[u] = status[u]
<1>1. StartThread(t, p)
  BY DEF StartThread
<1>2. SchedInv'
  <2>1. [SchedNext]_schedVars
    BY <1>1 DEF SchedNext
  <2> QED
    BY <2>1, Intact, SchedNextInv DEF ReaperInv
<1>3. /\ status \in [Threads -> TaskStatus] /\ preempt_count \in [Threads -> 0..MaxPreempt]
      /\ (\A u \in Threads : preempt_count[u] = 0) /\ ready_tasks \in Seq(Threads)
      /\ self \in Threads /\ status[self] # "TASK_NONE"
      /\ self # MainThread => status[self] # "TASK_READY"
  BY DEF ReaperInv, SchedFits, SchedTypeOK, IdleAndCurrentAlive, self
<1>4. /\ ready_tasks' = Append(ready_tasks, t) /\ crt_thread_node' = crt_thread_node
      /\ status' = [status EXCEPT ![t] = "TASK_READY"]
      /\ preempt_count' = [preempt_count EXCEPT ![t] = 0]
  BY DEF add_thread_to_schedule
<1>5. /\ status'[t] = "TASK_READY" /\ t # self
      /\ \A u \in Threads : u # t => status'[u] = status[u]
      /\ \A u \in Threads : preempt_count'[u] = 0
  BY <1>3, <1>4
<1>6. self' # MainThread => status'[self'] # "TASK_READY"
  BY <1>3, <1>4, <1>5 DEF self
<1>7. ready_tasks' # <<>>
  BY <1>3, <1>4, AppendLinks
<1> QED
  BY <1>2, <1>4, <1>5, <1>6, <1>7 DEF SchedFits, SchedInv

\* kernel_main_thread starts the clean thread.
LEMMA StartCleanKeeps ==
  ASSUME ReaperInv, NoThreadQueuedTwice, StartClean
  PROVE  ReaperInv'
<1> USE DEF self, listVars, cleanVars, reapVars
<1>1. /\ status[CleanThread] = "TASK_NONE"
      /\ add_thread_to_schedule(CleanThread, MainProcess, FALSE)
      /\ UNCHANGED <<listVars, cleanVars, reapVars, dead_resource_lock, pc>>
  BY DEF StartClean
<1>2. /\ SchedFits' /\ ready_tasks' # <<>>
      /\ CleanThread # self /\ crt_thread_node' = crt_thread_node
      /\ status'[CleanThread] = "TASK_READY"
      /\ \A u \in Threads : u # CleanThread => status'[u] = status[u]
  BY <1>1, People, ThreadsAssumption, NewThread
<1>3. ASSUME NEW t \in Workers
      PROVE  WorkerFits(t)'
  BY <1>1, <1>2, People DEF ReaperInv, WorkerFits
<1>4. CleanFits'
  BY <1>1, <1>2 DEF ReaperInv, CleanFits
<1>5. TasksFit'
  BY <1>1, <1>2, People, TasksStay DEF ReaperInv
<1>6. ProcessesFit'
  BY <1>1, ProcessesStay DEF ReaperInv
<1>7. pc[CleanThread] = "cv_xchg"
  BY <1>1 DEF ReaperInv, CleanFits
<1>8. \A t \in Placed : HoldsLock(t)' <=> HoldsLock(t)
  BY <1>1, <1>2, <1>7, People DEF HoldsLock, Placed, HoldPlaces
<1>9. LockFits'
  BY <1>1, <1>8 DEF ReaperInv, LockFits, Placed
<1>10. LockProtects'
  BY <1>1, <1>2, <1>8 DEF ReaperInv, LockProtects, Placed, NobodyReaps
<1>11. ReaperTypeOK'
  BY <1>1 DEF ReaperInv, ReaperTypeOK
<1> QED
  BY <1>2, <1>3, <1>4, <1>5, <1>6, <1>9, <1>10, <1>11 DEF ReaperInv

\* A worker is started, in a slot that may have been used before.
LEMMA StartWorkerKeeps ==
  ASSUME ReaperInv, NoThreadQueuedTwice, NEW w \in Workers, StartWorker(w)
  PROVE  ReaperInv'
<1> USE DEF self, listVars, cleanVars, reapVars
<1>1. /\ status[w] = "TASK_NONE"
      /\ status[CleanThread] # "TASK_NONE"
      /\ add_thread_to_schedule(w, WorkerProcess, FALSE)
      /\ pc' = [pc EXCEPT ![w] = "run"]
      /\ UNCHANGED <<listVars, cleanVars, reapVars, dead_resource_lock>>
  BY DEF StartWorker
<1>2. /\ SchedFits' /\ NoThreadQueuedTwice' /\ ready_tasks' # <<>>
      /\ w # self /\ crt_thread_node' = crt_thread_node
      /\ status'[w] = "TASK_READY"
      /\ \A u \in Threads : u # w => status'[u] = status[u]
  BY <1>1, People, ReaperAssumption, NewThread
<1>3. /\ pc'[w] = "run" /\ w # CleanThread
      /\ \A u \in Placed : u # w => pc'[u] = pc[u]
      /\ DOMAIN pc' = Placed /\ pc'[CleanThread] = pc[CleanThread]
  BY <1>1, People DEF ReaperInv, ReaperTypeOK, Placed
<1>4. status'[CleanThread] = status[CleanThread]
  BY <1>2, <1>3, People
<1>5. /\ "run" \in WorkerPlaces /\ "run" \notin ExitPlaces /\ "run" \notin HoldPlaces
      /\ "run" \notin HandPlaces /\ "run" \notin ReapPlaces
  BY DEF WorkerPlaces, ExitPlaces, HoldPlaces, HandPlaces, ReapPlaces
<1>6. ASSUME NEW t \in Workers
      PROVE  WorkerFits(t)'
  <2>1. CASE t = w
    BY <1>1, <1>2, <1>3, <1>4, <1>5, <2>1 DEF WorkerFits
  <2>2. CASE t # w
    <3>1. WorkerFits(t) /\ pc'[t] = pc[t] /\ status'[t] = status[t]
      BY <1>2, <1>3, <2>2, People DEF ReaperInv, Placed
    <3> QED
      BY <1>1, <1>2, <1>4, <3>1 DEF WorkerFits
  <2> QED
    BY <2>1, <2>2
<1>7. CleanFits'
  BY <1>1, <1>2, <1>3, <1>4 DEF ReaperInv, CleanFits
<1>8. TasksFit'
  <2>1. ASSUME NEW t \in Workers
        PROVE  /\ ~(Linked(dead_tasks, t) /\ Linked(dead_tasks_receiver, t))
               /\ Linked(dead_tasks, t) \/ Linked(dead_tasks_receiver, t) =>
                    pc'[t] \in ListedPlaces /\ status'[t] = "TASK_DEAD"
    <3>1. TasksFit
      BY DEF ReaperInv
    <3>2. CASE t = w
      BY <1>1, <3>1, <3>2 DEF TasksFit
    <3>3. CASE t # w
      BY <1>2, <1>3, <3>1, <3>3, People DEF TasksFit, Placed
    <3> QED
      BY <3>2, <3>3
  <2> QED
    BY <1>1, <2>1 DEF ReaperInv, TasksFit
<1>9. ProcessesFit'
  BY <1>1, <1>3, <1>5, ProcessesStay DEF ReaperInv, Placed
<1>10. \A t \in Placed : HoldsLock(t)' <=> HoldsLock(t)
  BY <1>1, <1>2, <1>3, <1>5, People DEF HoldsLock, Placed
<1>11. LockFits'
  BY <1>1, <1>3, <1>10 DEF ReaperInv, LockFits, Placed
<1>12. LockProtects'
  BY <1>1, <1>2, <1>10 DEF ReaperInv, LockProtects, Placed, NobodyReaps
<1>13. ReaperTypeOK'
  BY <1>1, <1>3, <1>5 DEF ReaperInv, ReaperTypeOK, Placed
<1> QED
  BY <1>2, <1>6, <1>7, <1>8, <1>9, <1>11, <1>12, <1>13 DEF ReaperInv

-----------------------------------------------------------------------------
(* Every step.                                                             *)

\* The ways through the code on which nobody is listed, blocks or dies.
LEMMA ExitIsCalm ==
  /\ Calm("dt_xchg", "dt_yield") /\ Calm("dt_yield", "dt_xchg")
  /\ Calm("dt_xchg", "dt_append") /\ Calm("dt_append", "dt_appending")
  /\ Calm("dt_notify", "dt_notifying") /\ Calm("dt_release", "exit_switch")
  /\ Calm("run", "mark_dead") /\ Calm("exit_switch", "gone")
BY DEF Calm, WorkerPlaces, CleanPlaces, ExitPlaces, ReapPlaces, HandPlaces, ListedPlaces

LEMMA ReapIsCalm ==
  /\ Calm("dp_xchg", "dp_yield") /\ Calm("dp_yield", "dp_xchg")
  /\ Calm("dp_xchg", "dp_append") /\ Calm("dp_append", "dp_appending")
  /\ Calm("dp_notify", "dp_notifying") /\ Calm("dp_release", "run")
BY DEF Calm, WorkerPlaces, CleanPlaces, ExitPlaces, ReapPlaces, HandPlaces, ListedPlaces

LEMMA CleanIsCalm ==
  /\ Calm("cv_xchg", "cv_yield") /\ Calm("cv_yield", "cv_xchg")
  /\ Calm("cv_xchg", "cv_test") /\ Calm("cv_test", "cv_release")
  /\ Calm("cv_test", "cv_appending") /\ Calm("cv_block_release", "cv_sleep")
  /\ Calm("cv_sleep", "cv_xchg") /\ Calm("cv_release", "cl_move_tasks")
  /\ Calm("cl_move_tasks", "cl_moving_tasks") /\ Calm("cl_unlock", "cl_clean")
  /\ Calm("cl_clean", "cv_xchg")
BY DEF Calm, WorkerPlaces, CleanPlaces, ExitPlaces, ReapPlaces, HandPlaces, ListedPlaces

\* Who runs outside of add_dead_task is TASK_RUNNING.
LEMMA RunsWhenCurrent ==
  ASSUME ReaperInv, NEW l, NEW m, Goto(l, m),
         (l \in WorkerPlaces /\ l \notin ExitPlaces) \/ l = "cv_mark"
  PROVE  status[self] = "TASK_RUNNING" /\ self \in Threads /\ self # MainThread
           /\ preempt_count[self] = 0
<1>1. self \in Threads /\ self # MainThread /\ status \in [Threads -> TaskStatus]
        /\ preempt_count[self] = 0
  BY GotoMoves DEF ReaperInv, SchedFits, SchedTypeOK
<1>2. CASE l \in WorkerPlaces /\ l \notin ExitPlaces
  <2>1. /\ self \in Workers /\ pc[self] = l
        /\ status[self] \notin {"TASK_NONE", "TASK_READY", "TASK_WAITING"}
    BY <1>2, WorkerMoves
  <2>2. status[self] # "TASK_DEAD"
    BY <1>2, <2>1 DEF ReaperInv, WorkerFits
  <2> QED
    BY <1>1, <2>1, <2>2 DEF TaskStatus
<1>3. CASE l = "cv_mark"
  <2>1. l \in CleanPlaces
    BY <1>3 DEF CleanPlaces
  <2>2. /\ self = CleanThread /\ pc[CleanThread] = l
        /\ status[CleanThread] \notin {"TASK_NONE", "TASK_READY", "TASK_DEAD"}
    BY <2>1, CleanMoves
  <2>3. status[CleanThread] # "TASK_WAITING"
    BY <1>3, <2>2 DEF ReaperInv, CleanFits
  <2> QED
    BY <1>1, <2>2, <2>3 DEF TaskStatus
<1> QED
  BY <1>2, <1>3

\* A client of the scheduler that calls nothing of it, or calls it in its contract.
Contract == SchedNext \/ UNCHANGED schedVars

LEMMA DetachKeeps ==
  ASSUME ReaperInv, NoThreadQueuedTwice, Goto("run", "mark_dead"), detach_process,
         UNCHANGED <<listVars, cleanVars, reapVars, dead_resource_lock>>
  PROVE  ReaperInv' /\ Contract
<1>1. "run" \in WorkerPlaces /\ "run" \notin ExitPlaces
        /\ "run" \notin HoldPlaces /\ "mark_dead" \notin HoldPlaces
        /\ "run" \notin HasTasks /\ "run" \notin HasProcesses
  BY DEF WorkerPlaces, ExitPlaces, HoldPlaces, HasTasks, HasProcesses
<1>2. status[self] = "TASK_RUNNING" /\ self \in Threads /\ self # MainThread
  BY <1>1, RunsWhenCurrent
<1>3. DetachThread
  BY <1>2 DEF DetachThread, self
<1>4. SchedInv'
  <2>1. [SchedNext]_schedVars
    BY <1>3 DEF SchedNext
  <2> QED
    BY <2>1, Intact, SchedNextInv DEF ReaperInv
<1>5. UNCHANGED <<ready_tasks, crt_thread_node, status, preempt_count>>
  BY DEF detach_process
<1>6. SchedFits'
  BY <1>4, <1>5 DEF ReaperInv, SchedFits, SchedInv, self
<1>7. Fates
  BY <1>2, <1>5 DEF Fates, self
<1>8. ReaperInv'
  BY <1>1, <1>6, <1>7, ExitIsCalm, SwitchKeeps
<1> QED
  BY <1>3, <1>8 DEF SchedNext, Contract

LEMMA YieldsInContract ==
  ASSUME ReaperInv, schedule_thread_yield
  PROVE  Contract
<1>1. preempt_count[crt_thread_node] = 0
  BY DEF ReaperInv, SchedFits, SchedTypeOK
<1> QED
  BY <1>1 DEF YieldThread, SchedNext, Contract

\* schedule_thread_yield on the way from one place to the next.
LEMMA YieldKeeps ==
  ASSUME ReaperInv, NoThreadQueuedTwice, NEW l, NEW m, Goto(l, m), Calm(l, m),
         schedule_thread_yield,
         l \notin HoldPlaces, m \notin HoldPlaces,
         l \in HasTasks => dead_tasks_receiver = <<>>,
         l \in HasProcesses => dead_processes_receiver = <<>>,
         l \notin {"cl_moving_processes", "cl_unlock"},
         l \in CleanPlaces,
         UNCHANGED <<listVars, cleanVars, reapVars, dead_resource_lock>>
  PROVE  ReaperInv' /\ Contract
<1>1. SchedFits' /\ Fates
        /\ (crt_thread_node' # MainThread => crt_thread_node' # crt_thread_node)
  BY Intact, YieldFates DEF ReaperInv
<1>2. crt_thread_node' # crt_thread_node
  BY <1>1, CleanMoves, People DEF self
<1>3. ReaperInv'
  BY <1>1, <1>2, SwitchKeeps
<1> QED
  BY <1>3, YieldsInContract

LEMMA ExitKeeps ==
  ASSUME ReaperInv, NoThreadQueuedTwice, Goto("exit_switch", "gone"), exit_context_switch,
         UNCHANGED <<listVars, cleanVars, reapVars, dead_resource_lock>>
  PROVE  ReaperInv' /\ Contract
<1>1. SchedFits' /\ Fates
  BY Intact, ExitFates DEF ReaperInv
<1>2. "exit_switch" \notin HoldPlaces /\ "gone" \notin HoldPlaces
        /\ "exit_switch" \notin HasTasks /\ "exit_switch" \notin HasProcesses
        /\ "exit_switch" \in WorkerPlaces /\ "exit_switch" \in ExitPlaces
  BY DEF HoldPlaces, HasTasks, HasProcesses, WorkerPlaces, ExitPlaces
<1>3. ReaperInv'
  BY <1>1, <1>2, ExitIsCalm, SwitchKeeps
<1>4. status[self] = "TASK_DEAD"
  BY <1>2, WorkerMoves DEF ReaperInv, WorkerFits
<1>5. ExitThread
  BY <1>4 DEF ExitThread, exit_context_switch, do_context_switch, self
<1> QED
  BY <1>3, <1>5 DEF SchedNext, Contract

\* yieldlock_lock, yieldlock_unlock and Skip stay within the contract.
LEMMA LockInContract ==
  ASSUME ReaperInv, NEW at, NEW spin, NEW locked, yieldlock_lock(at, spin, locked)
  PROVE  Contract
<1>1. CASE schedule_thread_yield
  BY <1>1, YieldsInContract
<1>2. CASE UNCHANGED schedVars
  BY <1>2 DEF Contract
<1> QED
  BY <1>1, <1>2 DEF yieldlock_lock, Skip

\* The notification of a worker reaches a clean thread that has blocked, as long as
\* dead_resource_lock keeps the two apart.
LEMMA NotifyInContract ==
  ASSUME ReaperInv, NoThreadQueuedTwice, NobodyReaps,
         NEW l \in WorkerPlaces, NEW m, l \in HoldPlaces, Goto(l, m),
         \/ /\ cv_waiting_task_queue = <<>>
            /\ UNCHANGED <<schedVars, cv_waiting_task_queue>>
         \/ /\ cv_waiting_task_queue # <<>>
            /\ cv_waiting_task_queue' = Tail(cv_waiting_task_queue)
            /\ add_thread_node_to_schedule(Head(cv_waiting_task_queue))
  PROVE  Contract
<1>1. /\ self \in Workers /\ pc[self] = l /\ status[self] # "TASK_NONE"
  BY WorkerMoves
<1>2. HoldsLock(self)
  BY <1>1 DEF HoldsLock
<1>3. ~HoldsLock(CleanThread)
  BY <1>1, <1>2 DEF ReaperInv, LockProtects
<1>4. CASE UNCHANGED schedVars
  BY <1>4 DEF Contract
<1>5. CASE /\ cv_waiting_task_queue # <<>>
           /\ add_thread_node_to_schedule(Head(cv_waiting_task_queue))
  <2>1. /\ cv_waiting_task_queue = <<CleanThread>>
        /\ pc[CleanThread] = "cv_mark" \/ status[CleanThread] = "TASK_WAITING"
        /\ status[CleanThread] \in {"TASK_READY", "TASK_WAITING"}
    BY <1>1, <1>5, CleanWhileWorker
  <2>2. status[CleanThread] = "TASK_WAITING"
    BY <1>3, <2>1 DEF HoldsLock, HoldPlaces
  <2>3. WakeThread(CleanThread)
    BY <1>1, <1>5, <2>1, <2>2, People DEF WakeThread, self
  <2> QED
    BY <2>3, People DEF SchedNext, Contract
<1> QED
  BY <1>4, <1>5

LEMMA AddDeadTaskKeeps ==
  ASSUME ReaperInv, NoThreadQueuedTwice, add_dead_task
  PROVE  ReaperInv' /\ (NobodyReaps => Contract)
<1>1. CASE yieldlock_lock("dt_xchg", "dt_yield", "dt_append")
  <2>1. /\ "dt_xchg" \notin HoldPlaces /\ "dt_yield" \notin HoldPlaces
        /\ "dt_append" \in HoldPlaces /\ "dt_xchg" \notin ListedPlaces
        /\ "dt_xchg" \notin HasTasks /\ "dt_xchg" \notin HasProcesses
        /\ "dt_yield" \notin HasTasks /\ "dt_yield" \notin HasProcesses
    BY DEF HoldPlaces, ListedPlaces, HasTasks, HasProcesses
  <2> QED
    BY <1>1, <2>1, ExitIsCalm, LockKeeps, LockInContract
<1>2. CASE Skip("dt_append", "dt_appending") \/ Skip("dt_notify", "dt_notifying")
  <2>1. /\ "dt_append" \in HoldPlaces /\ "dt_appending" \in HoldPlaces
        /\ "dt_notify" \in HoldPlaces /\ "dt_notifying" \in HoldPlaces
        /\ "dt_append" \notin HasTasks /\ "dt_append" \notin HasProcesses
        /\ "dt_notify" \notin HasTasks /\ "dt_notify" \notin HasProcesses
    BY DEF HoldPlaces, HasTasks, HasProcesses
  <2>2. ReaperInv'
    BY <1>2, <2>1, ExitIsCalm, SkipKeeps
  <2> QED
    BY <1>2, <2>2 DEF Skip, Contract
<1>3. CASE /\ Goto("dt_appending", "dt_notify")
           /\ dead_tasks' = Append(dead_tasks, self)
           /\ UNCHANGED <<schedVars, dead_processes, cv_waiting_task_queue, cleanVars,
                          reapVars, dead_resource_lock>>
  BY <1>3, ListTask DEF Contract
<1>4. CASE /\ Goto("dt_notifying", "dt_release")
           /\ \/ /\ cv_waiting_task_queue = <<>>
                 /\ UNCHANGED <<schedVars, cv_waiting_task_queue>>
              \/ /\ cv_waiting_task_queue # <<>>
                 /\ cv_waiting_task_queue' = Tail(cv_waiting_task_queue)
                 /\ add_thread_node_to_schedule(Head(cv_waiting_task_queue))
           /\ UNCHANGED <<dead_tasks, dead_processes, cleanVars, reapVars,
                          dead_resource_lock>>
  <2>1. /\ "dt_notifying" \in WorkerPlaces /\ "dt_release" \in WorkerPlaces
        /\ "dt_notifying" \in HoldPlaces /\ "dt_release" \in HoldPlaces
        /\ "dt_notifying" \in ExitPlaces /\ "dt_release" \in ExitPlaces
        /\ "dt_release" \in ListedPlaces
        /\ "dt_release" \notin ReapPlaces /\ "dt_release" \notin HandPlaces
    BY DEF WorkerPlaces, HoldPlaces, ExitPlaces, ListedPlaces, ReapPlaces, HandPlaces
  <2>2. ReaperInv'
    BY <1>4, <2>1, NotifyKeeps
  <2>3. NobodyReaps => Contract
    BY <1>4, <2>1, NotifyInContract
  <2> QED
    BY <2>2, <2>3
<1>5. CASE yieldlock_unlock("dt_release", "exit_switch")
  <2>1. /\ "dt_release" \in HoldPlaces /\ "exit_switch" \notin HoldPlaces
        /\ "dt_release" \notin HasTasks /\ "dt_release" \notin HasProcesses
    BY DEF HoldPlaces, HasTasks, HasProcesses
  <2>2. ReaperInv'
    BY <1>5, <2>1, ExitIsCalm, UnlockKeeps
  <2> QED
    BY <1>5, <2>2 DEF yieldlock_unlock, Contract
<1> QED
  BY <1>1, <1>2, <1>3, <1>4, <1>5 DEF add_dead_task, cond_var_notify

LEMMA AddDeadProcessKeeps ==
  ASSUME ReaperInv, NoThreadQueuedTwice, add_dead_process
  PROVE  ReaperInv' /\ (NobodyReaps => Contract)
<1>1. CASE yieldlock_lock("dp_xchg", "dp_yield", "dp_append")
  <2>1. /\ "dp_xchg" \notin HoldPlaces /\ "dp_yield" \notin HoldPlaces
        /\ "dp_append" \in HoldPlaces /\ "dp_xchg" \notin ListedPlaces
        /\ "dp_xchg" \notin HasTasks /\ "dp_xchg" \notin HasProcesses
        /\ "dp_yield" \notin HasTasks /\ "dp_yield" \notin HasProcesses
    BY DEF HoldPlaces, ListedPlaces, HasTasks, HasProcesses
  <2> QED
    BY <1>1, <2>1, ReapIsCalm, LockKeeps, LockInContract
<1>2. CASE Skip("dp_append", "dp_appending") \/ Skip("dp_notify", "dp_notifying")
  <2>1. /\ "dp_append" \in HoldPlaces /\ "dp_appending" \in HoldPlaces
        /\ "dp_notify" \in HoldPlaces /\ "dp_notifying" \in HoldPlaces
        /\ "dp_append" \notin HasTasks /\ "dp_append" \notin HasProcesses
        /\ "dp_notify" \notin HasTasks /\ "dp_notify" \notin HasProcesses
    BY DEF HoldPlaces, HasTasks, HasProcesses
  <2>2. ReaperInv'
    BY <1>2, <2>1, ReapIsCalm, SkipKeeps
  <2> QED
    BY <1>2, <2>2 DEF Skip, Contract
<1>3. CASE /\ Goto("dp_appending", "dp_notify")
           /\ dead_processes' = Append(dead_processes, reaping[self])
           /\ UNCHANGED <<schedVars, dead_tasks, cv_waiting_task_queue, cleanVars,
                          reapVars, dead_resource_lock>>
  BY <1>3, ListProcess DEF Contract
<1>4. CASE /\ Goto("dp_notifying", "dp_release")
           /\ \/ /\ cv_waiting_task_queue = <<>>
                 /\ UNCHANGED <<schedVars, cv_waiting_task_queue>>
              \/ /\ cv_waiting_task_queue # <<>>
                 /\ cv_waiting_task_queue' = Tail(cv_waiting_task_queue)
                 /\ add_thread_node_to_schedule(Head(cv_waiting_task_queue))
           /\ UNCHANGED <<dead_tasks, dead_processes, cleanVars, reapVars,
                          dead_resource_lock>>
  <2>1. /\ "dp_notifying" \in WorkerPlaces /\ "dp_release" \in WorkerPlaces
        /\ "dp_notifying" \in HoldPlaces /\ "dp_release" \in HoldPlaces
        /\ "dp_notifying" \notin ExitPlaces /\ "dp_release" \notin ExitPlaces
        /\ "dp_notifying" \notin ListedPlaces
        /\ "dp_notifying" \in ReapPlaces /\ "dp_release" \notin HandPlaces
    BY DEF WorkerPlaces, HoldPlaces, ExitPlaces, ListedPlaces, ReapPlaces, HandPlaces
  <2>2. ReaperInv'
    BY <1>4, <2>1, NotifyKeeps
  <2>3. NobodyReaps => Contract
    BY <1>4, <2>1, NotifyInContract
  <2> QED
    BY <2>2, <2>3
<1>5. CASE yieldlock_unlock("dp_release", "run")
  <2>1. /\ "dp_release" \in HoldPlaces /\ "run" \notin HoldPlaces
        /\ "dp_release" \notin HasTasks /\ "dp_release" \notin HasProcesses
    BY DEF HoldPlaces, HasTasks, HasProcesses
  <2>2. ReaperInv'
    BY <1>5, <2>1, ReapIsCalm, UnlockKeeps
  <2> QED
    BY <1>5, <2>2 DEF yieldlock_unlock, Contract
<1> QED
  BY <1>1, <1>2, <1>3, <1>4, <1>5 DEF add_dead_process, cond_var_notify

LEMMA ThreadExitKeeps ==
  ASSUME ReaperInv, NoThreadQueuedTwice, schedule_thread_exit
  PROVE  ReaperInv' /\ (NobodyReaps => Contract)
<1>1. CASE /\ Goto("run", "mark_dead")
           /\ detach_process
           /\ UNCHANGED <<listVars, cleanVars, reapVars, dead_resource_lock>>
  BY <1>1, DetachKeeps
<1>2. CASE /\ Goto("mark_dead", "dt_xchg")
           /\ mark_thread_dead
           /\ UNCHANGED <<listVars, cleanVars, reapVars, dead_resource_lock>>
  <2>1. ReaperInv'
    BY <1>2, MarkDeadKeeps
  <2>2. "mark_dead" \in WorkerPlaces /\ "mark_dead" \notin ExitPlaces
    BY DEF WorkerPlaces, ExitPlaces
  <2>3. KillThread
    BY <1>2, <2>2, RunsWhenCurrent DEF KillThread, self
  <2> QED
    BY <2>1, <2>3 DEF SchedNext, Contract
<1>3. CASE add_dead_task
  BY <1>3, AddDeadTaskKeeps
<1>4. CASE /\ Goto("exit_switch", "gone")
           /\ exit_context_switch
           /\ UNCHANGED <<listVars, cleanVars, reapVars, dead_resource_lock>>
  BY <1>4, ExitKeeps
<1> QED
  BY <1>1, <1>2, <1>3, <1>4 DEF schedule_thread_exit

LEMMA CondVarWaitKeeps ==
  ASSUME ReaperInv, NoThreadQueuedTwice, cond_var_wait
  PROVE  ReaperInv' /\ Contract
<1>1. CASE yieldlock_lock("cv_xchg", "cv_yield", "cv_test")
  <2>1. /\ "cv_xchg" \notin HoldPlaces /\ "cv_yield" \notin HoldPlaces
        /\ "cv_test" \in HoldPlaces /\ "cv_xchg" \notin ListedPlaces
        /\ "cv_xchg" \notin HasTasks /\ "cv_xchg" \notin HasProcesses
        /\ "cv_yield" \notin HasTasks /\ "cv_yield" \notin HasProcesses
    BY DEF HoldPlaces, ListedPlaces, HasTasks, HasProcesses
  <2> QED
    BY <1>1, <2>1, CleanIsCalm, LockKeeps, LockInContract
<1>2. CASE Skip("cv_test", "cv_release") \/ Skip("cv_test", "cv_appending")
  <2>1. /\ "cv_test" \in HoldPlaces /\ "cv_release" \in HoldPlaces
        /\ "cv_appending" \in HoldPlaces
        /\ "cv_test" \notin HasTasks /\ "cv_test" \notin HasProcesses
    BY DEF HoldPlaces, HasTasks, HasProcesses
  <2>2. ReaperInv'
    BY <1>2, <2>1, CleanIsCalm, SkipKeeps
  <2> QED
    BY <1>2, <2>2 DEF Skip, Contract
<1>3. CASE /\ Goto("cv_appending", "cv_mark")
           /\ cv_waiting_task_queue' = Append(cv_waiting_task_queue, self)
           /\ UNCHANGED <<schedVars, dead_tasks, dead_processes, cleanVars, reapVars,
                          dead_resource_lock>>
  BY <1>3, WaitKeeps DEF Contract
<1>4. CASE /\ Goto("cv_mark", "cv_block_release")
           /\ schedule_mark_thread_block
           /\ UNCHANGED <<listVars, cleanVars, reapVars, dead_resource_lock>>
  <2>1. ReaperInv'
    BY <1>4, BlockKeeps
  <2>2. BlockThread
    BY <1>4, RunsWhenCurrent DEF BlockThread, self
  <2> QED
    BY <2>1, <2>2 DEF SchedNext, Contract
<1>5. CASE yieldlock_unlock("cv_block_release", "cv_sleep")
             \/ yieldlock_unlock("cv_release", "cl_move_tasks")
  <2>1. /\ "cv_block_release" \in HoldPlaces /\ "cv_sleep" \notin HoldPlaces
        /\ "cv_release" \in HoldPlaces /\ "cl_move_tasks" \notin HoldPlaces
        /\ "cv_block_release" \notin HasTasks /\ "cv_block_release" \notin HasProcesses
        /\ "cv_release" \notin HasTasks /\ "cv_release" \notin HasProcesses
    BY DEF HoldPlaces, HasTasks, HasProcesses
  <2>2. ReaperInv'
    BY <1>5, <2>1, CleanIsCalm, UnlockKeeps
  <2> QED
    BY <1>5, <2>2 DEF yieldlock_unlock, Contract
<1>6. CASE /\ Goto("cv_sleep", "cv_xchg")
           /\ schedule_thread_yield
           /\ UNCHANGED <<listVars, cleanVars, reapVars, dead_resource_lock>>
  <2>1. /\ "cv_sleep" \notin HoldPlaces /\ "cv_xchg" \notin HoldPlaces
        /\ "cv_sleep" \notin HasTasks /\ "cv_sleep" \notin HasProcesses
        /\ "cv_sleep" \in CleanPlaces
    BY DEF HoldPlaces, HasTasks, HasProcesses, CleanPlaces
  <2> QED
    BY <1>6, <2>1, CleanIsCalm, YieldKeeps
<1> QED
  BY <1>1, <1>2, <1>3, <1>4, <1>5, <1>6 DEF cond_var_wait

LEMMA CleanThreadKeeps ==
  ASSUME ReaperInv, NoThreadQueuedTwice, kernel_clean_thread
  PROVE  ReaperInv' /\ Contract
<1>1. CASE cond_var_wait
  BY <1>1, CondVarWaitKeeps
<1>2. CASE MoveDeadLists
  <2>1. CASE Skip("cl_move_tasks", "cl_moving_tasks")
    <3>1. /\ "cl_move_tasks" \notin HoldPlaces /\ "cl_moving_tasks" \notin HoldPlaces
          /\ "cl_move_tasks" \notin HasTasks /\ "cl_move_tasks" \notin HasProcesses
      BY DEF HoldPlaces, HasTasks, HasProcesses
    <3>2. ReaperInv'
      BY <2>1, <3>1, CleanIsCalm, SkipKeeps
    <3> QED
      BY <2>1, <3>2 DEF Skip, Contract
  <2>2. CASE /\ Goto("cl_moving_tasks", "cl_moving_processes")
             /\ dead_tasks_receiver' = dead_tasks
             /\ dead_tasks' = <<>>
             /\ UNCHANGED <<schedVars, dead_processes, cv_waiting_task_queue,
                            dead_processes_receiver, destroyed, reapVars,
                            dead_resource_lock>>
    BY <2>2, MoveTasksKeeps DEF Contract
  <2>3. CASE /\ Goto("cl_moving_processes", "cl_unlock")
             /\ dead_processes_receiver' = dead_processes
             /\ dead_processes' = <<>>
             /\ UNCHANGED <<schedVars, dead_tasks, cv_waiting_task_queue,
                            dead_tasks_receiver, destroyed, reapVars, dead_resource_lock>>
    BY <2>3, MoveProcessesKeeps DEF Contract
  <2>4. CASE yieldlock_unlock("cl_unlock", "cl_clean")
    <3>1. /\ "cl_unlock" \in CleanPlaces /\ "cl_clean" \notin HoldPlaces
          /\ "cl_clean" \in HasTasks /\ "cl_clean" \in HasProcesses
      BY DEF CleanPlaces, HoldPlaces, HasTasks, HasProcesses
    <3>2. ReaperInv'
      BY <2>4, <3>1, CleanIsCalm, UnlockKeeps
    <3> QED
      BY <2>4, <3>2 DEF yieldlock_unlock, Contract
  <2> QED
    BY <1>2, <2>1, <2>2, <2>3, <2>4 DEF MoveDeadLists
<1>3. CASE DestroyReceived
  <2>1. CASE /\ dead_tasks_receiver # <<>>
             /\ Goto("cl_clean", "cl_clean")
             /\ destroy_thread(Head(dead_tasks_receiver))
             /\ dead_tasks_receiver' = Tail(dead_tasks_receiver)
             /\ UNCHANGED <<listVars, dead_processes_receiver, destroyed, reapVars,
                            dead_resource_lock>>
    <3> DEFINE h == Head(dead_tasks_receiver)
    <3>1. ReaperInv' /\ h \in Threads /\ status[h] = "TASK_DEAD" /\ h # crt_thread_node
      BY <2>1, DestroyThreadKeeps
    <3>2. DestroyThread(h)
      BY <2>1, <3>1 DEF DestroyThread
    <3> HIDE DEF h
    <3> QED
      BY <3>1, <3>2 DEF SchedNext, Contract
  <2>2. CASE /\ dead_tasks_receiver = <<>>
             /\ dead_processes_receiver # <<>>
             /\ Goto("cl_clean", "cl_clean")
             /\ destroyed' = destroyed \cup {Head(dead_processes_receiver)}
             /\ dead_processes_receiver' = Tail(dead_processes_receiver)
             /\ UNCHANGED <<schedVars, listVars, dead_tasks_receiver, reapVars,
                            dead_resource_lock>>
    BY <2>2, DestroyProcessKeeps DEF Contract
  <2>3. CASE /\ dead_tasks_receiver = <<>>
             /\ dead_processes_receiver = <<>>
             /\ Goto("cl_clean", "cv_xchg")
             /\ schedule_thread_yield
             /\ UNCHANGED <<listVars, cleanVars, reapVars, dead_resource_lock>>
    <3>1. "cl_clean" \notin HoldPlaces /\ "cv_xchg" \notin HoldPlaces
            /\ "cl_clean" \in CleanPlaces
      BY DEF HoldPlaces, CleanPlaces
    <3> QED
      BY <2>3, <3>1, CleanIsCalm, YieldKeeps
  <2> QED
    BY <1>3, <2>1, <2>2, <2>3 DEF DestroyReceived
<1> QED
  BY <1>1, <1>2, <1>3 DEF kernel_clean_thread

LEMMA ReaperInit == Init => ReaperInv
<1> SUFFICES ASSUME Init PROVE ReaperInv
  OBVIOUS
<1> USE DEF Init
<1>1. SchedInv
  BY SchedInitInv
<1>2. SchedFits
  BY <1>1 DEF SchedFits, SchedInv, SchedInit, self
<1>3. /\ \A t \in Workers : status[t] = "TASK_NONE" /\ pc[t] = "run"
      /\ status[CleanThread] = "TASK_NONE" /\ pc[CleanThread] = "cv_xchg"
      /\ self = MainThread
  BY People DEF SchedInit, self
<1>4. ReaperTypeOK
  <2>1. DOMAIN pc = Workers \cup {CleanThread}
    OBVIOUS
  <2>2. reaping \in [Workers -> Zombies \cup {MainProcess}]
    OBVIOUS
  <2>3. "run" \in WorkerPlaces /\ "cv_xchg" \in CleanPlaces
    BY DEF WorkerPlaces, CleanPlaces
  <2>4. /\ dead_tasks \in Seq(Workers) /\ dead_tasks_receiver \in Seq(Workers)
        /\ dead_processes \in Seq(Zombies) /\ dead_processes_receiver \in Seq(Zombies)
    OBVIOUS
  <2> QED
    BY <1>3, <2>1, <2>2, <2>3, <2>4 DEF ReaperTypeOK
<1>5. \A t \in Workers : WorkerFits(t)
  BY <1>3, People DEF WorkerFits, ExitPlaces
<1>6. CleanFits
  BY <1>3 DEF CleanFits
<1>7. TasksFit
  BY EmptyList DEF TasksFit
<1>8. ProcessesFit
  BY <1>3, EmptyList DEF ProcessesFit, Handed, HandPlaces, ReapPlaces
<1>9. LockFits /\ LockProtects
  BY <1>3 DEF LockFits, LockProtects, HoldsLock
<1> QED
  BY <1>2, <1>4, <1>5, <1>6, <1>7, <1>8, <1>9 DEF ReaperInv

LEMMA ReaperNext ==
  ASSUME ReaperInv, [Next]_vars
  PROVE  ReaperInv' /\ (NobodyReaps => Contract)
<1>1. CASE UNCHANGED vars
  <2>1. UNCHANGED schedVars
          /\ UNCHANGED <<dead_tasks, dead_processes, cv_waiting_task_queue,
                         dead_tasks_receiver, dead_processes_receiver, destroyed,
                         zombies, reaping, dead_resource_lock, pc>>
    BY <1>1 DEF vars, listVars, cleanVars, reapVars
  <2>2. SchedFits'
    BY <2>1, QuietFates
  <2>3. /\ ReaperTypeOK' /\ (\A t \in Workers : WorkerFits(t)') /\ CleanFits'
        /\ LockFits' /\ LockProtects'
    BY <2>1 DEF ReaperInv, ReaperTypeOK, WorkerFits, CleanFits, LockFits, LockProtects,
                HoldsLock, NobodyReaps, NoThreadQueuedTwice, self, schedVars
  <2>4. TasksFit' /\ ProcessesFit'
    BY <2>1 DEF ReaperInv, TasksFit, ProcessesFit, Handed, schedVars
  <2> QED
    BY <2>1, <2>2, <2>3, <2>4 DEF ReaperInv, Contract
<1>2. CASE ListsIntact /\ Next
  <2>0. NoThreadQueuedTwice
    BY <1>2 DEF ListsIntact
  <2>1. CASE Tick
    BY <2>0, <2>1, TickKeeps DEF Tick, TimerInterrupt, SchedNext, Contract
  <2>2. CASE schedule_thread_exit
    BY <2>0, <2>2, ThreadExitKeeps
  <2>3. CASE add_dead_process
    BY <2>0, <2>3, AddDeadProcessKeeps
  <2>4. CASE kernel_clean_thread
    BY <2>0, <2>4, CleanThreadKeeps
  <2>5. CASE StartClean
    <3>1. StartThread(CleanThread, MainProcess)
      BY <2>5 DEF StartClean, StartThread
    <3>2. ReaperInv'
      BY <2>0, <2>5, StartCleanKeeps
    <3> QED
      BY <3>1, <3>2, People, ThreadsAssumption DEF SchedNext, Contract
  <2>6. CASE \E p \in Zombies : ReapZombie(p)
    BY <2>6, ReapKeeps DEF ReapZombie, Contract
  <2>7. CASE \E t \in Workers : StartWorker(t)
    <3>1. PICK t \in Workers : StartWorker(t)
      BY <2>7
    <3>2. StartThread(t, WorkerProcess)
      BY <3>1 DEF StartWorker, StartThread
    <3>3. ReaperInv'
      BY <2>0, <3>1, StartWorkerKeeps
    <3> QED
      BY <3>2, <3>3, People, ReaperAssumption DEF SchedNext, Contract
  <2> QED
    BY <1>2, <2>1, <2>2, <2>3, <2>4, <2>5, <2>6, <2>7 DEF Next
<1> QED
  BY <1>1, <1>2 DEF Next

-----------------------------------------------------------------------------
(* The theorems.                                                           *)

\* Who is dead, listed, received or in the hands of a parent, and where the clean
\* thread is, always fit together, also when reaping has broken dead_resource_lock.
THEOREM ReaperInvariant == Spec => []ReaperInv
<1>1. Init => ReaperInv
  BY ReaperInit
<1>2. ReaperInv /\ [Next]_vars => ReaperInv'
  BY ReaperNext
<1> QED
  BY <1>1, <1>2, PTL DEF Spec

\* schedule_thread_exit takes the head of the ready queue without a test: there is
\* one, since add_dead_task has woken up the clean thread or found it ready.
THEOREM ExitFindsThread == Spec => []ExitFindsReadyThread
<1>1. ReaperInv => ExitFindsReadyThread
  <2> SUFFICES ASSUME ReaperInv, self # MainThread, pc[self] = "exit_switch"
               PROVE  ready_tasks # <<>>
    BY DEF ExitFindsReadyThread
  <2>1. self \in Placed
    BY DEF ReaperInv, SchedFits, SchedTypeOK, self, Placed, Workers
  <2>2. self \in Workers
    BY <2>1 DEF ReaperInv, ReaperTypeOK, CleanPlaces, Placed
  <2> QED
    BY <2>2 DEF ReaperInv, WorkerFits
<1> QED
  BY <1>1, ReaperInvariant, PTL

\* The clean thread destroys every dead thread and process once, no thread that can
\* still run, and no process that its parent still has in its table.
THEOREM CleanOnlyTheDead == Spec => []OnlyDeadCleaned
<1>1. ReaperInv => OnlyDeadCleaned
  <2> SUFFICES ASSUME ReaperInv PROVE OnlyDeadCleaned
    OBVIOUS
  <2>1. /\ dead_tasks \in Seq(Workers) /\ dead_tasks_receiver \in Seq(Workers)
        /\ dead_processes \in Seq(Zombies) /\ dead_processes_receiver \in Seq(Zombies)
        /\ TasksFit /\ ProcessesFit
    BY DEF ReaperInv, ReaperTypeOK
  <2>2. NoRepeat(DeadTasks)
    BY <2>1, NoRepeatBoth DEF TasksFit, DeadTasks
  <2>3. NoRepeat(DeadProcesses)
    BY <2>1, NoRepeatBoth DEF ProcessesFit, DeadProcesses
  <2>4. ASSUME NEW t \in Threads, Linked(DeadTasks, t)
        PROVE  status[t] = "TASK_DEAD" /\ ~Queued(t)
    <3>1. Linked(dead_tasks, t) \/ Linked(dead_tasks_receiver, t)
      BY <2>1, <2>4, LinkedBoth DEF DeadTasks
    <3>2. t \in Workers
      BY <2>1, <3>1 DEF Linked
    <3>3. status[t] = "TASK_DEAD"
      BY <2>1, <3>1, <3>2 DEF TasksFit
    <3> QED
      BY <3>3 DEF ReaperInv, SchedFits, ReadyIffQueued
  <2>5. ASSUME NEW p \in Zombies, Linked(DeadProcesses, p)
        PROVE  p \notin zombies \cup destroyed
    <3>1. Linked(dead_processes, p) \/ Linked(dead_processes_receiver, p)
      BY <2>1, <2>5, LinkedBoth DEF DeadProcesses
    <3> QED
      BY <2>1, <3>1 DEF ProcessesFit
  <2> QED
    BY <2>2, <2>3, <2>4, <2>5 DEF OnlyDeadCleaned
<1> QED
  BY <1>1, ReaperInvariant, PTL

\* dead_resource_lock is never left locked behind, and who holds it runs again, but
\* for the two that can be lost while they do.
THEOREM HoldersRunAgain == Spec => []LockHolderCanRun
<1>1. ReaperInv => LockHolderCanRun
  <2> SUFFICES ASSUME ReaperInv PROVE LockHolderCanRun
    OBVIOUS
  <2>1. dead_resource_lock => \E t \in Placed : HoldsLock(t)
    BY DEF ReaperInv, LockFits, Placed
  <2>2. ASSUME NEW t \in Placed, HoldsLock(t)
        PROVE  \/ t = self \/ Queued(t)
               \/ t = CleanThread /\ pc[t] = "cv_block_release"
               \/ status[t] = "TASK_DEAD"
    <3>1. t \in Threads /\ t # MainThread /\ status[t] \in TaskStatus
      BY <2>2, People DEF Placed, ReaperInv, SchedFits, SchedTypeOK
    <3>2. CASE status[t] = "TASK_WAITING"
      <4>1. t = CleanThread
        BY <2>2, <3>2 DEF Placed, ReaperInv, WorkerFits
      <4>2. pc[t] \in {"cv_block_release", "cv_sleep", "cv_xchg"}
        BY <3>2, <4>1 DEF ReaperInv, CleanFits
      <4> QED
        BY <2>2, <4>1, <4>2 DEF HoldsLock, HoldPlaces
    <3>3. CASE status[t] = "TASK_READY"
      BY <3>1, <3>3 DEF ReaperInv, SchedFits, ReadyIffQueued
    <3>4. CASE status[t] = "TASK_RUNNING"
      BY <3>1, <3>4 DEF ReaperInv, SchedFits, OneRunner, self
    <3> QED
      BY <2>2, <3>1, <3>2, <3>3, <3>4 DEF TaskStatus, HoldsLock
  <2> QED
    BY <2>1, <2>2 DEF LockHolderCanRun, Placed
<1> QED
  BY <1>1, ReaperInvariant, PTL

\* Until somebody calls add_dead_process, exiting threads and the clean thread use the
\* scheduler within its contract: nobody who has not blocked is woken up.
THEOREM ReaperKeepsContract == Spec => ContractUntilReap
<1>1. ReaperInv /\ [Next]_vars =>
        [(\A t \in Workers : reaping[t] = MainProcess) => SchedNext]_schedVars
  BY ReaperNext DEF NobodyReaps, Contract
<1> QED
  BY <1>1, ReaperInvariant, PTL DEF Spec, ContractUntilReap

=============================================================================
