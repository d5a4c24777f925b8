--------------------------- MODULE SchedulerProofs ---------------------------
(***************************************************************************)
(* Proofs about Scheduler, for any number of threads and processes.        *)
(***************************************************************************)
EXTENDS Scheduler, TLAPS

-----------------------------------------------------------------------------
(***************************************************************************)
(* What the three list operations do to the nodes of a list.               *)
(***************************************************************************)

\* linked_list_append of a node that is not linked yet.
LEMMA AppendNode ==
  ASSUME NEW S, NEW q \in Seq(S), NEW x \in S, NoRepeat(q), ~Linked(q, x)
  PROVE  /\ Append(q, x) \in Seq(S)
         /\ NoRepeat(Append(q, x))
         /\ \A t : Linked(Append(q, x), t) <=> (Linked(q, t) \/ t = x)
<1> DEFINE r == Append(q, x)
<1>1. r \in Seq(S) /\ Len(r) = Len(q) + 1 /\ r[Len(q) + 1] = x
  OBVIOUS
<1>2. \A i \in 1..Len(q) : r[i] = q[i]
  OBVIOUS
<1>3. Len(q) \in Nat
  OBVIOUS
<1>4. NoRepeat(r)
  BY <1>1, <1>2, <1>3 DEF NoRepeat, Linked
<1>5. ASSUME NEW t PROVE Linked(r, t) <=> (Linked(q, t) \/ t = x)
  BY <1>1, <1>2, <1>3 DEF Linked
<1> QED
  BY <1>1, <1>4, <1>5

\* linked_list_remove of the head.
LEMMA RemoveHead ==
  ASSUME NEW S, NEW q \in Seq(S), q # <<>>, NoRepeat(q)
  PROVE  /\ Tail(q) \in Seq(S)
         /\ Head(q) \in S
         /\ Linked(q, Head(q))
         /\ NoRepeat(Tail(q))
         /\ \A t : Linked(Tail(q), t) <=> (Linked(q, t) /\ t # Head(q))
<1> DEFINE r == Tail(q)
<1>1. r \in Seq(S) /\ Len(r) = Len(q) - 1 /\ Head(q) = q[1] /\ Head(q) \in S
  OBVIOUS
<1>2. Len(q) \in Nat /\ Len(q) > 0
  OBVIOUS
<1>3. \A i \in 1..Len(r) : r[i] = q[i + 1]
  OBVIOUS
<1>4. NoRepeat(r)
  BY <1>1, <1>2, <1>3 DEF NoRepeat
<1>5. Linked(q, Head(q))
  BY <1>1, <1>2 DEF Linked
<1>6. ASSUME NEW t PROVE Linked(r, t) <=> (Linked(q, t) /\ t # Head(q))
  <2>1. ASSUME Linked(r, t) PROVE Linked(q, t) /\ t # Head(q)
    <3>1. PICK i \in 1..Len(r) : r[i] = t
      BY <2>1 DEF Linked
    <3>2. i + 1 \in 1..Len(q) /\ q[i + 1] = t /\ i + 1 # 1
      BY <3>1, <1>1, <1>2, <1>3
    <3> QED
      BY <3>2, <1>1, <1>2 DEF Linked, NoRepeat
  <2>2. ASSUME Linked(q, t), t # Head(q) PROVE Linked(r, t)
    <3>1. PICK i \in 1..Len(q) : q[i] = t
      BY <2>2 DEF Linked
    <3>2. i - 1 \in 1..Len(r) /\ r[i - 1] = t
      BY <3>1, <2>2, <1>1, <1>2, <1>3
    <3> QED
      BY <3>2 DEF Linked
  <2> QED
    BY <2>1, <2>2
<1> QED
  BY <1>1, <1>4, <1>5, <1>6

\* linked_list_insert_to_head of a node that is not linked yet: wherever it is
\* put, it is one node more.
LEMMA InsertNode ==
  ASSUME NEW S, NEW q \in Seq(S), NEW x \in S, NoRepeat(q), ~Linked(q, x)
  PROVE  /\ linked_list_insert_to_head(q, x) \in Seq(S)
         /\ NoRepeat(linked_list_insert_to_head(q, x))
         /\ \A t : Linked(linked_list_insert_to_head(q, x), t)
                     <=> (Linked(q, t) \/ t = x)
<1> DEFINE r == linked_list_insert_to_head(q, x)
<1>1. CASE q = <<>>
  <2>1. r = <<x>> /\ Len(r) = 1 /\ r[1] = x /\ r \in Seq(S)
    BY <1>1 DEF linked_list_insert_to_head
  <2>2. Len(q) = 0
    BY <1>1
  <2> QED
    BY <2>1, <2>2 DEF NoRepeat, Linked
<1>2. CASE q # <<>>
  <2>1. r = <<Head(q), x>> \o Tail(q)
    BY <1>2 DEF linked_list_insert_to_head
  <2>2. Len(q) \in Nat /\ Len(q) > 0 /\ Head(q) = q[1] /\ Head(q) \in S
    BY <1>2
  <2>3. Tail(q) \in Seq(S) /\ Len(Tail(q)) = Len(q) - 1
    BY <1>2
  <2>4. \A i \in 1..Len(Tail(q)) : Tail(q)[i] = q[i + 1]
    BY <1>2
  <2>5. <<Head(q), x>> \in Seq(S) /\ Len(<<Head(q), x>>) = 2
    BY <2>2
  <2>6. r \in Seq(S) /\ Len(r) = Len(q) + 1
    BY <2>1, <2>2, <2>3, <2>5
  <2>7. r[1] = q[1] /\ r[2] = x
    BY <2>1, <2>2, <2>3, <2>5
  <2>8. \A i \in 3..Len(r) : r[i] = q[i - 1]
    <3> SUFFICES ASSUME NEW i \in 3..Len(r) PROVE r[i] = q[i - 1]
      OBVIOUS
    <3>1. r[i] = Tail(q)[i - 2]
      BY <2>1, <2>2, <2>3, <2>5, <2>6
    <3>2. i - 2 \in 1..Len(Tail(q))
      BY <2>2, <2>3, <2>6
    <3> QED
      BY <3>1, <3>2, <2>4
  <2>9. NoRepeat(r)
    <3> SUFFICES ASSUME NEW i \in 1..Len(r), NEW j \in 1..Len(r), r[i] = r[j]
                 PROVE  i = j
      BY DEF NoRepeat
    <3> DEFINE Old(k) == IF k = 1 THEN 1 ELSE k - 1
    <3>1. \A k \in 1..Len(r) : k # 2 => Old(k) \in 1..Len(q) /\ r[k] = q[Old(k)]
      BY <2>2, <2>6, <2>7, <2>8
    <3>2. \A k \in 1..Len(r) : k # 2 => r[k] # x
      BY <3>1 DEF Linked
    <3>3. CASE i = 2 \/ j = 2
      BY <3>3, <3>2, <2>7
    <3>4. CASE i # 2 /\ j # 2
      <4>1. Old(i) = Old(j)
        BY <3>4, <3>1 DEF NoRepeat
      <4> QED
        BY <4>1, <3>4, <2>6
    <3> QED
      BY <3>3, <3>4
  <2>10. ASSUME NEW t PROVE Linked(r, t) <=> (Linked(q, t) \/ t = x)
    <3>1. ASSUME Linked(r, t) PROVE Linked(q, t) \/ t = x
      <4>1. PICK i \in 1..Len(r) : r[i] = t
        BY <3>1 DEF Linked
      <4>2. CASE i = 1
        BY <4>1, <4>2, <2>2, <2>7 DEF Linked
      <4>3. CASE i = 2
        BY <4>1, <4>3, <2>7
      <4>4. CASE i \in 3..Len(r)
        <5>1. i - 1 \in 1..Len(q) /\ q[i - 1] = t
          BY <4>1, <4>4, <2>2, <2>6, <2>8
        <5> QED
          BY <5>1 DEF Linked
      <4> QED
        BY <4>2, <4>3, <4>4, <2>6, <2>2
    <3>2. ASSUME Linked(q, t) PROVE Linked(r, t)
      <4>1. PICK i \in 1..Len(q) : q[i] = t
        BY <3>2 DEF Linked
      <4>2. CASE i = 1
        <5>1. 1 \in 1..Len(r) /\ r[1] = t
          BY <4>1, <4>2, <2>2, <2>6, <2>7
        <5> QED
          BY <5>1 DEF Linked
      <4>3. CASE i # 1
        <5>1. i + 1 \in 3..Len(r) /\ i + 1 \in 1..Len(r) /\ (i + 1) - 1 = i
          BY <4>1, <4>3, <2>2, <2>6
        <5>2. r[i + 1] = t
          BY <5>1, <4>1, <2>8
        <5> QED
          BY <5>1, <5>2 DEF Linked
      <4> QED
        BY <4>2, <4>3
    <3>3. Linked(r, x)
      <4>1. 2 \in 1..Len(r)
        BY <2>2, <2>6
      <4> QED
        BY <4>1, <2>7 DEF Linked
    <3> QED
      BY <3>1, <3>2, <3>3
  <2> QED
    BY <2>6, <2>9, <2>10
<1> QED
  BY <1>1, <1>2

-----------------------------------------------------------------------------
(***************************************************************************)
(* The context switch preserves the invariant and resumes no dead thread.  *)
(***************************************************************************)

\* What do_context_switch does, with the queue its caller has prepared.
LEMMA ContextSwitch ==
  ASSUME SchedInv,
         NEW q,
         q # <<>>,
         q = ready_tasks \/ (ready_tasks = <<>> /\ q = <<MainThread>>),
         do_context_switch(q, status)
  PROVE  /\ SchedInv'
         /\ \A t \in Threads :
              status[t] = "TASK_DEAD" /\ t # crt_thread_node =>
                crt_thread_node' # t
<1> DEFINE old == crt_thread_node
           next == Head(q)
           r == Tail(q)
           back == requeues_old_thread(status)
<1> USE ThreadsAssumption
<1>1. q \in Seq(Threads) /\ NoRepeat(q)
  <2>1. CASE q = ready_tasks
    BY <2>1 DEF SchedInv, SchedTypeOK, NoThreadQueuedTwice
  <2>2. CASE q = <<MainThread>>
    <3>1. Len(q) = 1 /\ q \in Seq(Threads)
      BY <2>2
    <3> QED
      BY <3>1 DEF NoRepeat
  <2> QED
    BY <2>1, <2>2
<1>2. /\ r \in Seq(Threads) /\ next \in Threads /\ NoRepeat(r)
      /\ Linked(q, next)
      /\ \A t : Linked(r, t) <=> (Linked(q, t) /\ t # next)
  BY <1>1, RemoveHead, Zenon
<1>3. \A t : Linked(q, t) => Queued(t) \/ t = MainThread
  BY DEF Queued, Linked
<1>4. \A t \in Threads : Linked(r, t) <=> (Queued(t) /\ t # next)
  <2>1. CASE q = ready_tasks
    BY <2>1, <1>2 DEF Queued
  <2>2. CASE ready_tasks = <<>> /\ q = <<MainThread>>
    BY <2>2, <1>2 DEF Queued, Linked
  <2> QED
    BY <2>1, <2>2
<1>5. back => status[old] = "TASK_RUNNING" /\ old # MainThread /\ ~Queued(old)
  BY DEF SchedInv, SchedTypeOK, ReadyIffQueued, requeues_old_thread
<1>6. old \in Threads /\ status \in [Threads -> TaskStatus]
  BY DEF SchedInv, SchedTypeOK
<1>7. /\ ready_tasks' \in Seq(Threads)
      /\ NoRepeat(ready_tasks')
      /\ \A t \in Threads : Linked(ready_tasks', t)
           <=> ((Queued(t) /\ t # next) \/ (back /\ t = old))
  <2>1. CASE back
    <3>1. ready_tasks' = Append(r, old)
      BY <2>1 DEF do_context_switch
    <3>2. ~Linked(r, old)
      BY <1>4, <1>5, <1>6, <2>1
    <3> QED
      BY <3>1, <3>2, <1>2, <1>4, <1>6, <2>1, AppendNode, Zenon
  <2>2. CASE ~back
    <3>1. ready_tasks' = r
      BY <2>2 DEF do_context_switch
    <3> QED
      BY <3>1, <1>2, <1>4, <2>2
  <2> QED
    BY <2>1, <2>2
<1>8. status' = [status EXCEPT ![old] = IF back THEN "TASK_READY" ELSE @,
                               ![next] = "TASK_RUNNING"]
  BY DEF do_context_switch
<1>9. /\ status' \in [Threads -> TaskStatus]
      /\ status'[next] = "TASK_RUNNING"
      /\ \A t \in Threads : t # next /\ t # old => status'[t] = status[t]
      /\ old # next /\ back => status'[old] = "TASK_READY"
      /\ old # next /\ ~back => status'[old] = status[old]
  BY <1>2, <1>6, <1>8 DEF TaskStatus
<1>10. crt_thread_node' = next
  BY DEF do_context_switch
<1>11. status[next] = "TASK_READY" \/ next = MainThread
  BY <1>2, <1>3 DEF SchedInv, ReadyIffQueued
<1>12. SchedTypeOK'
  <2>1. /\ ticks' \in [Threads -> 0..Priority]
        /\ need_reschedule' \in [Threads -> BOOLEAN]
        /\ preempt_count' \in [Threads -> 0..MaxPreempt]
        /\ process' \in [Threads -> Processes \cup {NoProcess}]
    BY BoundsAssumption DEF SchedInv, SchedTypeOK, do_context_switch
  <2>2. page_directory' \in Processes
    BY <1>2, <1>6 DEF SchedInv, SchedTypeOK, do_context_switch, process_switch
  <2> QED
    BY <2>1, <2>2, <1>2, <1>7, <1>9, <1>10 DEF SchedTypeOK
<1>13. ReadyIffQueued'
  <2> SUFFICES ASSUME NEW t \in Threads
               PROVE  Linked(ready_tasks', t)
                        <=> (t # MainThread /\ status'[t] = "TASK_READY")
    BY DEF ReadyIffQueued, Queued
  <2>1. Queued(t) <=> (t # MainThread /\ status[t] = "TASK_READY")
    BY DEF SchedInv, ReadyIffQueued
  <2>2. CASE t = next
    BY <2>2, <1>5, <1>7, <1>9, <1>11, <2>1
  <2>3. CASE t # next /\ t = old
    <3>1. CASE back
      BY <2>3, <3>1, <1>5, <1>7, <1>9
    <3>2. CASE ~back
      BY <2>3, <3>2, <1>7, <1>9, <2>1
    <3> QED
      BY <3>1, <3>2
  <2>4. CASE t # next /\ t # old
    BY <2>4, <1>7, <1>9, <2>1
  <2> QED
    BY <2>2, <2>3, <2>4
<1>14. OneRunner'
  BY <1>6, <1>9, <1>10, <1>2
     DEF SchedInv, OneRunner, requeues_old_thread
<1>15. LoadedDirMatches'
  <2>1. process' = process
    BY DEF do_context_switch
  <2>2. process_switch(next)
    BY DEF do_context_switch
  <2> QED
    BY <2>1, <2>2, <1>10 DEF SchedInv, LoadedDirMatches, process_switch
<1>16. IdleAndCurrentAlive'
  BY <1>2, <1>5, <1>6, <1>9, <1>10 DEF SchedInv, IdleAndCurrentAlive
<1>17. NoThreadQueuedTwice'
  BY <1>7 DEF NoThreadQueuedTwice
<1>18. \A t \in Threads :
         status[t] = "TASK_DEAD" /\ t # crt_thread_node => crt_thread_node' # t
  BY <1>10, <1>11 DEF SchedInv, IdleAndCurrentAlive
<1> QED
  BY <1>12, <1>13, <1>14, <1>15, <1>16, <1>17, <1>18 DEF SchedInv

-----------------------------------------------------------------------------
(***************************************************************************)
(* The other operations of the scheduler.                                  *)
(***************************************************************************)

\* A thread that is not in the ready queue, not current and not the idle thread
\* is made ready at its end.
LEMMA QueueThread ==
  ASSUME SchedInv,
         NEW t \in Threads,
         status[t] \in {"TASK_NONE", "TASK_WAITING"},
         ready_tasks' = Append(ready_tasks, t)
           \/ ready_tasks' = linked_list_insert_to_head(ready_tasks, t),
         status' = [status EXCEPT ![t] = "TASK_READY"],
         crt_thread_node' = crt_thread_node
  PROVE  /\ ready_tasks' \in Seq(Threads)
         /\ status' \in [Threads -> TaskStatus]
         /\ NoThreadQueuedTwice'
         /\ ReadyIffQueued'
         /\ OneRunner'
         /\ IdleAndCurrentAlive'
<1> USE ThreadsAssumption
<1>1. /\ ready_tasks \in Seq(Threads) /\ NoRepeat(ready_tasks)
      /\ status \in [Threads -> TaskStatus] /\ crt_thread_node \in Threads
  BY DEF SchedInv, SchedTypeOK, NoThreadQueuedTwice
<1>2. ~Linked(ready_tasks, t) /\ t # MainThread
  BY DEF SchedInv, ReadyIffQueued, IdleAndCurrentAlive, Queued
<1>3. /\ ready_tasks' \in Seq(Threads)
      /\ NoRepeat(ready_tasks')
      /\ \A u : Linked(ready_tasks', u) <=> (Linked(ready_tasks, u) \/ u = t)
  <2>1. CASE ready_tasks' = Append(ready_tasks, t)
    BY <2>1, <1>1, <1>2, AppendNode, Zenon
  <2>2. CASE ready_tasks' = linked_list_insert_to_head(ready_tasks, t)
    BY <2>2, <1>1, <1>2, InsertNode, Zenon
  <2> QED
    BY <2>1, <2>2
<1>4. /\ status' \in [Threads -> TaskStatus]
      /\ status'[t] = "TASK_READY"
      /\ \A u \in Threads : u # t => status'[u] = status[u]
  BY <1>1 DEF TaskStatus
<1>5. ReadyIffQueued'
  BY <1>2, <1>3, <1>4 DEF SchedInv, ReadyIffQueued, Queued
<1>6. OneRunner'
  BY <1>4 DEF SchedInv, OneRunner
<1>7. IdleAndCurrentAlive'
  BY <1>1, <1>2, <1>4 DEF SchedInv, IdleAndCurrentAlive
<1> QED
  BY <1>3, <1>4, <1>5, <1>6, <1>7 DEF NoThreadQueuedTwice

\* A thread that is not in the ready queue gets a status that does not put it
\* there: the current thread blocks or dies, or a dead one is destroyed.
LEMMA RestTo ==
  ASSUME SchedInv,
         NEW t \in Threads,
         NEW s \in {"TASK_NONE", "TASK_WAITING", "TASK_DEAD"},
         t # MainThread,
         status[t] # "TASK_READY",
         s = "TASK_NONE" => t # crt_thread_node,
         status' = [status EXCEPT ![t] = s],
         UNCHANGED <<ready_tasks, crt_thread_node, ticks, need_reschedule,
                     preempt_count, process, page_directory>>
  PROVE  SchedInv'
<1> USE ThreadsAssumption
<1>1. status \in [Threads -> TaskStatus] /\ crt_thread_node \in Threads
  BY DEF SchedInv, SchedTypeOK
<1>2. /\ status' \in [Threads -> TaskStatus]
      /\ status'[t] = s
      /\ \A u \in Threads : u # t => status'[u] = status[u]
  BY <1>1 DEF TaskStatus
<1>3. SchedTypeOK'
  BY <1>2 DEF SchedInv, SchedTypeOK
<1>4. ReadyIffQueued'
  BY <1>2 DEF SchedInv, ReadyIffQueued, Queued
<1>5. OneRunner' /\ LoadedDirMatches' /\ IdleAndCurrentAlive'
  BY <1>1, <1>2
     DEF SchedInv, OneRunner, LoadedDirMatches, IdleAndCurrentAlive
<1> QED
  BY <1>3, <1>4, <1>5 DEF SchedInv, NoThreadQueuedTwice

\* schedule(): the current thread is switched out, or keeps the ticks and the
\* flag that the interrupt has left.
LEMMA ScheduleStep ==
  ASSUME SchedInv,
         NEW tk \in 0..Priority,
         NEW resched \in BOOLEAN,
         schedule(tk, resched)
  PROVE  SchedInv'
<1>1. CASE do_context_switch(ready_tasks, status)
  <2>1. ready_tasks # <<>>
    BY <1>1 DEF do_context_switch
  <2> QED
    BY <1>1, <2>1, ContextSwitch
<1>2. CASE /\ ticks' = [ticks EXCEPT ![crt_thread_node] = tk]
           /\ need_reschedule' = [need_reschedule EXCEPT ![crt_thread_node] = resched]
           /\ UNCHANGED <<ready_tasks, crt_thread_node, status, preempt_count,
                          process, page_directory>>
  <2>1. SchedTypeOK'
    BY <1>2 DEF SchedInv, SchedTypeOK
  <2> QED
    BY <2>1, <1>2
       DEF SchedInv, NoThreadQueuedTwice, ReadyIffQueued, Queued, OneRunner,
           LoadedDirMatches, IdleAndCurrentAlive
<1> QED
  BY <1>1, <1>2 DEF schedule

\* A step that leaves every queue and status alone.
LEMMA QuietStep ==
  ASSUME SchedInv,
         UNCHANGED <<ready_tasks, crt_thread_node, status, page_directory>>,
         SchedTypeOK',
         LoadedDirMatches'
  PROVE  SchedInv'
  BY DEF SchedInv, NoThreadQueuedTwice, ReadyIffQueued, Queued, OneRunner,
         IdleAndCurrentAlive

-----------------------------------------------------------------------------
(***************************************************************************)
(* What a change of the current thread means to those who wait.            *)
(***************************************************************************)

\* Blocked threads stay blocked and the others do not block; the thread that gets
\* the processor runs.
KeepsBlocked ==
  /\ \A t \in Threads :
       /\ status'[t] = "TASK_WAITING" <=> status[t] = "TASK_WAITING"
       /\ status[t] \in {"TASK_READY", "TASK_RUNNING"} =>
            status'[t] \in {"TASK_READY", "TASK_RUNNING"}
       /\ status'[t] = "TASK_DEAD" => status[t] = "TASK_DEAD"
  /\ preempt_count' = preempt_count

\* do_context_switch takes a ready thread, or the idle one.
LEMMA SwitchKeepsBlocked ==
  ASSUME SchedInv,
         NEW q,
         q # <<>>,
         q = ready_tasks \/ (ready_tasks = <<>> /\ q = <<MainThread>>),
         do_context_switch(q, status)
  PROVE  /\ KeepsBlocked
         /\ crt_thread_node' \in Threads
         /\ status'[crt_thread_node'] = "TASK_RUNNING"
         /\ crt_thread_node' # MainThread => status[crt_thread_node'] = "TASK_READY"
<1> DEFINE next == Head(q)
<1> USE ThreadsAssumption
<1>1. next \in Threads /\ (status[next] = "TASK_READY" \/ next = MainThread)
  <2>1. CASE q = ready_tasks
    <3>1. next \in Threads /\ Linked(ready_tasks, next)
      BY <2>1, RemoveHead, Zenon DEF SchedInv, SchedTypeOK, NoThreadQueuedTwice
    <3> QED
      BY <3>1 DEF SchedInv, ReadyIffQueued, Queued
  <2>2. CASE q = <<MainThread>>
    BY <2>2
  <2> QED
    BY <2>1, <2>2
<1>2. status[MainThread] \in {"TASK_READY", "TASK_RUNNING"}
  BY DEF SchedInv, IdleAndCurrentAlive
<1>3. status \in [Threads -> TaskStatus] /\ crt_thread_node \in Threads
  BY DEF SchedInv, SchedTypeOK
<1>4. /\ crt_thread_node' = next
      /\ preempt_count' = preempt_count
      /\ status' = [status EXCEPT
                      ![crt_thread_node] =
                        IF requeues_old_thread(status) THEN "TASK_READY" ELSE @,
                      ![next] = "TASK_RUNNING"]
  BY DEF do_context_switch
<1>5. /\ status'[next] = "TASK_RUNNING"
      /\ \A t \in Threads : t # next =>
           \/ status'[t] = status[t]
           \/ status[t] = "TASK_RUNNING" /\ status'[t] = "TASK_READY"
  BY <1>1, <1>3, <1>4 DEF requeues_old_thread
<1> QED
  BY <1>1, <1>2, <1>4, <1>5 DEF KeepsBlocked

\* schedule_thread_yield always switches.
LEMMA YieldKeepsBlocked ==
  ASSUME SchedInv, schedule_thread_yield
  PROVE  /\ KeepsBlocked
         /\ crt_thread_node' \in Threads
         /\ status'[crt_thread_node'] = "TASK_RUNNING"
         /\ crt_thread_node' # MainThread => status[crt_thread_node'] = "TASK_READY"
<1> DEFINE q == IF ready_tasks = <<>> THEN <<MainThread>> ELSE ready_tasks
<1>1. /\ q # <<>>
      /\ q = ready_tasks \/ (ready_tasks = <<>> /\ q = <<MainThread>>)
  OBVIOUS
<1>2. do_context_switch(q, status)
  BY DEF schedule_thread_yield
<1> HIDE DEF q
<1> QED
  BY <1>1, <1>2, SwitchKeepsBlocked

\* The end of an interrupt switches, or changes no status.
LEMMA ScheduleKeepsBlocked ==
  ASSUME SchedInv, NEW tk, NEW resched, schedule(tk, resched)
  PROVE  /\ KeepsBlocked
         /\ \/ crt_thread_node' = crt_thread_node /\ status' = status
            \/ status'[crt_thread_node'] = "TASK_RUNNING"
<1>1. CASE do_context_switch(ready_tasks, status)
  <2>1. ready_tasks # <<>>
    BY <1>1 DEF do_context_switch
  <2> QED
    BY <2>1, <1>1, SwitchKeepsBlocked
<1>2. CASE UNCHANGED <<crt_thread_node, status, preempt_count>>
  BY <1>2 DEF KeepsBlocked
<1> QED
  BY <1>1, <1>2 DEF schedule

-----------------------------------------------------------------------------
(***************************************************************************)
(* The invariant.                                                          *)
(***************************************************************************)

\* The state in which init_scheduler jumps into the main thread.
LEMMA SchedInitInv == SchedInit => SchedInv
<1> SUFFICES ASSUME SchedInit PROVE SchedInv
  OBVIOUS
<1> USE ThreadsAssumption, BoundsAssumption
<1>1. Len(ready_tasks) = 0 /\ ready_tasks \in Seq(Threads)
  BY DEF SchedInit
<1>2. SchedTypeOK
  BY <1>1 DEF SchedInit, SchedTypeOK, TaskStatus
<1>3. NoThreadQueuedTwice
  BY <1>1 DEF NoThreadQueuedTwice, NoRepeat
<1>4. ReadyIffQueued
  <2>1. \A t \in Threads : ~Queued(t)
    BY <1>1 DEF Queued, Linked
  <2>2. \A t \in Threads : t # MainThread => status[t] # "TASK_READY"
    BY DEF SchedInit
  <2> QED
    BY <2>1, <2>2 DEF ReadyIffQueued
<1>5. OneRunner /\ LoadedDirMatches /\ IdleAndCurrentAlive
  BY DEF SchedInit, OneRunner, LoadedDirMatches, IdleAndCurrentAlive
<1> QED
  BY <1>2, <1>3, <1>4, <1>5 DEF SchedInv

\* Every operation of the scheduler preserves the invariant.
LEMMA SchedNextInv == SchedInv /\ [SchedNext]_schedVars => SchedInv'
<1> SUFFICES ASSUME SchedInv, [SchedNext]_schedVars PROVE SchedInv'
  OBVIOUS
<1> USE ThreadsAssumption, BoundsAssumption
<1>0. SchedTypeOK
  BY DEF SchedInv
<1>1. CASE TimerInterrupt
  <2> DEFINE crt == crt_thread_node
             tk == IF ticks[crt] < Priority THEN ticks[crt] + 1 ELSE ticks[crt]
             resched == need_reschedule[crt] \/ tk >= Priority
  <2>1. tk \in 0..Priority /\ resched \in BOOLEAN
    BY <1>0 DEF SchedTypeOK
  <2>2. schedule(tk, resched)
    BY <1>1 DEF TimerInterrupt, timer_callback
  <2> HIDE DEF tk, resched
  <2> QED
    BY <2>1, <2>2, ScheduleStep
<1>2. CASE RequestReschedule
  <2>1. ticks[crt_thread_node] \in 0..Priority
    BY <1>0 DEF SchedTypeOK
  <2> QED
    BY <2>1, <1>2, ScheduleStep DEF RequestReschedule, request_reschedule
<1>3. CASE YieldThread
  <2> DEFINE q == IF ready_tasks = <<>> THEN <<MainThread>> ELSE ready_tasks
  <2>1. /\ q # <<>>
        /\ q = ready_tasks \/ (ready_tasks = <<>> /\ q = <<MainThread>>)
    OBVIOUS
  <2>2. do_context_switch(q, status)
    BY <1>3 DEF YieldThread, schedule_thread_yield
  <2> HIDE DEF q
  <2> QED
    BY <2>1, <2>2, ContextSwitch
<1>4. CASE BlockThread
  BY <1>0, <1>4, RestTo
     DEF BlockThread, schedule_mark_thread_block, SchedTypeOK
<1>5. CASE DetachThread
  <2>1. SchedTypeOK' /\ process'[crt_thread_node'] = NoProcess
    BY <1>0, <1>5 DEF DetachThread, detach_process, SchedTypeOK
  <2> QED
    BY <2>1, <1>5, QuietStep DEF DetachThread, detach_process, LoadedDirMatches
<1>6. CASE KillThread
  BY <1>0, <1>6, RestTo DEF KillThread, mark_thread_dead, SchedTypeOK
<1>7. CASE ExitThread
  <2>1. ready_tasks # <<>> /\ do_context_switch(ready_tasks, status)
    BY <1>7 DEF ExitThread, exit_context_switch
  <2> QED
    BY <2>1, ContextSwitch
<1>8. CASE DisablePreempt
  <2>1. SchedTypeOK'
    BY <1>0, <1>8 DEF DisablePreempt, disable_preempt, SchedTypeOK
  <2> QED
    BY <2>1, <1>8, QuietStep
       DEF DisablePreempt, disable_preempt, SchedInv, LoadedDirMatches
<1>9. CASE EnablePreempt
  <2>1. SchedTypeOK'
    BY <1>0, <1>9 DEF EnablePreempt, enable_preempt, SchedTypeOK
  <2> QED
    BY <2>1, <1>9, QuietStep
       DEF EnablePreempt, enable_preempt, SchedInv, LoadedDirMatches
<1>10. ASSUME NEW t \in Threads, NEW p \in Processes, NEW resched \in BOOLEAN,
              status[t] = "TASK_NONE", add_thread_to_schedule(t, p, resched)
       PROVE  SchedInv'
  <2>1. /\ ready_tasks' = Append(ready_tasks, t)
        /\ status' = [status EXCEPT ![t] = "TASK_READY"]
        /\ crt_thread_node' = crt_thread_node
    BY <1>10 DEF add_thread_to_schedule
  <2>2. /\ ready_tasks' \in Seq(Threads)
        /\ status' \in [Threads -> TaskStatus]
        /\ NoThreadQueuedTwice' /\ ReadyIffQueued' /\ OneRunner'
        /\ IdleAndCurrentAlive'
    BY <2>1, <1>10, QueueThread
  <2>3. SchedTypeOK'
    BY <2>2, <1>0, <1>10 DEF add_thread_to_schedule, SchedTypeOK
  <2>4. t # crt_thread_node
    BY <1>10 DEF SchedInv, IdleAndCurrentAlive
  <2>5. LoadedDirMatches'
    BY <2>4, <1>0, <1>10
       DEF add_thread_to_schedule, SchedInv, SchedTypeOK, LoadedDirMatches
  <2> QED
    BY <2>2, <2>3, <2>5 DEF SchedInv
<1>11. ASSUME NEW t \in Threads, NEW p \in Processes, StartThread(t, p) PROVE SchedInv'
  BY <1>10, <1>11 DEF StartThread
<1>12. ASSUME NEW t \in Threads, NEW p \in Processes, ForkThread(t, p) PROVE SchedInv'
  <2>1. need_reschedule[crt_thread_node] \in BOOLEAN
    BY <1>0 DEF SchedTypeOK
  <2> QED
    BY <2>1, <1>10, <1>12 DEF ForkThread
<1>13. ASSUME NEW t \in Threads, WakeThread(t) \/ WakeThreadFromInterrupt(t)
       PROVE  SchedInv'
  <2>1. /\ status[t] = "TASK_WAITING"
        /\ \/ ready_tasks' = Append(ready_tasks, t)
           \/ ready_tasks' = linked_list_insert_to_head(ready_tasks, t)
        /\ status' = [status EXCEPT ![t] = "TASK_READY"]
        /\ UNCHANGED <<crt_thread_node, ticks, need_reschedule, preempt_count,
                       process, page_directory>>
    <3>1. CASE WakeThread(t)
      BY <3>1, <1>0
         DEF WakeThread, add_thread_node_to_schedule, SchedTypeOK
    <3>2. CASE WakeThreadFromInterrupt(t)
      BY <3>2 DEF WakeThreadFromInterrupt, add_thread_node_to_schedule_head
    <3> QED
      BY <3>1, <3>2, <1>13
  <2>2. /\ ready_tasks' \in Seq(Threads)
        /\ status' \in [Threads -> TaskStatus]
        /\ NoThreadQueuedTwice' /\ ReadyIffQueued' /\ OneRunner'
        /\ IdleAndCurrentAlive'
    BY <2>1, <1>13, QueueThread
  <2>3. SchedTypeOK' /\ LoadedDirMatches'
    BY <2>1, <2>2, <1>0 DEF SchedInv, SchedTypeOK, LoadedDirMatches
  <2> QED
    BY <2>2, <2>3 DEF SchedInv
<1>14. ASSUME NEW t \in Threads, DestroyThread(t) PROVE SchedInv'
  <2>1. t # MainThread
    BY <1>14 DEF DestroyThread, SchedInv, IdleAndCurrentAlive
  <2> QED
    BY <2>1, <1>14, RestTo DEF DestroyThread, destroy_thread
<1>15. CASE UNCHANGED schedVars
  BY <1>15, QuietStep
     DEF schedVars, SchedInv, SchedTypeOK, LoadedDirMatches
<1> QED
  BY <1>1, <1>2, <1>3, <1>4, <1>5, <1>6, <1>7, <1>8, <1>9, <1>11, <1>12, <1>13,
     <1>14, <1>15 DEF SchedNext

-----------------------------------------------------------------------------
(***************************************************************************)
(* The same for components where nobody disables preemption and no         *)
(* interrupt wakes up the current thread.                                  *)
(***************************************************************************)

Steady ==
  /\ \A t \in Threads : preempt_count[t] = 0
  /\ crt_thread_node # MainThread => status[crt_thread_node] # "TASK_READY"

\* The current thread may change; nobody is born, dies, blocks or is woken up by that.
Fates ==
  /\ crt_thread_node' \in Threads
  /\ \A t \in Threads : \A s \in {"TASK_NONE", "TASK_WAITING", "TASK_DEAD"} :
       status'[t] = s <=> status[t] = s
  /\ \/ crt_thread_node' = crt_thread_node /\ status' = status /\ ready_tasks' = ready_tasks
     \/ /\ status'[crt_thread_node'] = "TASK_RUNNING"
        /\ crt_thread_node' = MainThread
             \/ (crt_thread_node' # crt_thread_node /\ status[crt_thread_node'] = "TASK_READY")

\* The directory that is loaded is the old one, or that of the thread that runs now.
Reloads ==
  /\ process' = process
  /\ page_directory' \in {page_directory, MainProcess, process[crt_thread_node']}

\* do_context_switch does not destroy or create threads either.
LEMMA SwitchFates ==
  ASSUME SchedInv, Steady,
         NEW q, q # <<>>,
         q = ready_tasks \/ (ready_tasks = <<>> /\ q = <<MainThread>>),
         do_context_switch(q, status)
  PROVE  /\ SchedInv' /\ Steady' /\ Fates /\ Reloads
         /\ crt_thread_node' # MainThread => crt_thread_node' # crt_thread_node
<1> DEFINE next == Head(q)
<1> USE ThreadsAssumption
<1>1. SchedInv'
  BY ContextSwitch
<1>2. KeepsBlocked /\ status'[crt_thread_node'] = "TASK_RUNNING"
        /\ (crt_thread_node' # MainThread => status[crt_thread_node'] = "TASK_READY")
  BY SwitchKeepsBlocked
<1>3. /\ status \in [Threads -> TaskStatus] /\ crt_thread_node \in Threads
      /\ status' \in [Threads -> TaskStatus] /\ crt_thread_node' \in Threads
  BY <1>1 DEF SchedInv, SchedTypeOK
<1>4. /\ crt_thread_node' = next
      /\ status' = [status EXCEPT
                      ![crt_thread_node] =
                        IF requeues_old_thread(status) THEN "TASK_READY" ELSE @,
                      ![next] = "TASK_RUNNING"]
  BY DEF do_context_switch
<1>5. status[MainThread] \in {"TASK_READY", "TASK_RUNNING"}
  BY DEF SchedInv, IdleAndCurrentAlive
<1>6. \A t \in Threads : \A s \in {"TASK_NONE", "TASK_WAITING", "TASK_DEAD"} :
        status'[t] = s <=> status[t] = s
  BY <1>2, <1>3, <1>4, <1>5 DEF requeues_old_thread
<1>7. crt_thread_node' # MainThread => crt_thread_node' # crt_thread_node
  BY <1>2 DEF Steady
<1>8. Steady'
  BY <1>2 DEF KeepsBlocked, Steady
<1>9. Reloads
  BY DEF do_context_switch, process_switch, Reloads
<1>10. Fates
  BY <1>2, <1>3, <1>6, <1>7 DEF Fates
<1> QED
  BY <1>1, <1>7, <1>8, <1>9, <1>10

LEMMA YieldFates ==
  ASSUME SchedInv, Steady, schedule_thread_yield
  PROVE  /\ SchedInv' /\ Steady' /\ Fates /\ Reloads
         /\ crt_thread_node' # MainThread => crt_thread_node' # crt_thread_node
<1> DEFINE q == IF ready_tasks = <<>> THEN <<MainThread>> ELSE ready_tasks
<1>1. /\ q # <<>>
      /\ q = ready_tasks \/ (ready_tasks = <<>> /\ q = <<MainThread>>)
  OBVIOUS
<1>2. do_context_switch(q, status)
  BY DEF schedule_thread_yield
<1> HIDE DEF q
<1> QED
  BY <1>1, <1>2, SwitchFates

LEMMA ExitFates ==
  ASSUME SchedInv, Steady, exit_context_switch
  PROVE  SchedInv' /\ Steady' /\ Fates /\ Reloads
<1>1. ready_tasks # <<>> /\ do_context_switch(ready_tasks, status)
  BY DEF exit_context_switch, do_context_switch
<1> QED
  BY <1>1, SwitchFates

LEMMA TickFates ==
  ASSUME SchedInv, Steady, timer_callback
  PROVE  SchedInv' /\ Steady' /\ Fates /\ Reloads
<1> DEFINE crt == crt_thread_node
           tk == IF ticks[crt] < Priority THEN ticks[crt] + 1 ELSE ticks[crt]
           resched == need_reschedule[crt] \/ tk >= Priority
<1>1. schedule(tk, resched)
  BY DEF timer_callback
<1>2. CASE do_context_switch(ready_tasks, status)
  <2>1. ready_tasks # <<>>
    BY <1>2 DEF do_context_switch
  <2> QED
    BY <1>2, <2>1, SwitchFates
<1>3. CASE UNCHANGED <<ready_tasks, crt_thread_node, status, preempt_count, process,
                       page_directory>>
  <2>1. SchedInv'
    <3>1. [SchedNext]_schedVars
      BY DEF SchedNext, TimerInterrupt
    <3> QED
      BY <3>1, SchedNextInv
  <2>2. Fates
    BY <1>3 DEF Fates, SchedInv, SchedTypeOK
  <2>3. Reloads /\ Steady'
    BY <1>3 DEF Reloads, Steady
  <2> QED
    BY <2>1, <2>2, <2>3
<1> QED
  BY <1>1, <1>2, <1>3 DEF schedule

-----------------------------------------------------------------------------
(***************************************************************************)
(* The theorems.                                                           *)
(***************************************************************************)

\* SchedInv holds in every reachable state, whatever the number of threads and
\* processes and in whatever order the timer and the kernel's components call
\* the scheduler.
THEOREM SchedInvariant == SchedSpec => []SchedInv
<1>1. SchedInit => SchedInv
  BY SchedInitInv
<1>2. SchedInv /\ [SchedNext]_schedVars => SchedInv'
  BY SchedNextInv
<1> QED
  BY <1>1, <1>2, PTL DEF SchedSpec

\* The fields of the scheduler keep their types; in particular preempt_count is
\* never negative and the loaded page directory is always one of a process.
THEOREM SchedTypeCorrect == SchedSpec => []SchedTypeOK
<1>1. SchedInv => SchedTypeOK
  BY DEF SchedInv
<1> QED
  BY <1>1, SchedInvariant, PTL

\* do_context_switch and the wakeups neither lose nor duplicate a thread node.
THEOREM NodesLinkedOnce == SchedSpec => []NoThreadQueuedTwice
<1>1. SchedInv => NoThreadQueuedTwice
  BY DEF SchedInv
<1> QED
  BY <1>1, SchedInvariant, PTL

\* The ready queue is exactly the set of ready threads.
THEOREM ReadyQueueExact == SchedSpec => []ReadyIffQueued
<1>1. SchedInv => ReadyIffQueued
  BY DEF SchedInv
<1> QED
  BY <1>1, SchedInvariant, PTL

\* Only the current thread and the idle thread are marked as running.
THEOREM OnlyCurrentRuns == SchedSpec => []OneRunner
<1>1. SchedInv => OneRunner
  BY DEF SchedInv
<1> QED
  BY <1>1, SchedInvariant, PTL

\* A thread runs on the page directory of its own process.
THEOREM RightAddressSpace == SchedSpec => []LoadedDirMatches
<1>1. SchedInv => LoadedDirMatches
  BY DEF SchedInv
<1> QED
  BY <1>1, SchedInvariant, PTL

\* A step switches to another thread only through do_context_switch, which takes
\* a ready thread or the idle thread: a dead thread is not resumed.
LEMMA NoDeadResumed ==
  SchedInv /\ [SchedNext]_schedVars =>
    \A t \in Threads :
      status[t] = "TASK_DEAD" /\ t # crt_thread_node => crt_thread_node' # t
<1> SUFFICES ASSUME SchedInv, [SchedNext]_schedVars,
                    NEW t \in Threads,
                    status[t] = "TASK_DEAD", t # crt_thread_node,
                    crt_thread_node' # crt_thread_node
             PROVE  crt_thread_node' # t
  OBVIOUS
<1>1. do_context_switch(ready_tasks, status) \/ schedule_thread_yield
  BY DEF SchedNext, schedVars, TimerInterrupt, timer_callback, schedule,
         RequestReschedule, request_reschedule, StartThread, ForkThread,
         add_thread_to_schedule, WakeThread, add_thread_node_to_schedule,
         WakeThreadFromInterrupt, add_thread_node_to_schedule_head, YieldThread,
         BlockThread, schedule_mark_thread_block, DetachThread, detach_process,
         KillThread, mark_thread_dead, ExitThread, exit_context_switch,
         DestroyThread, destroy_thread, DisablePreempt, disable_preempt,
         EnablePreempt, enable_preempt
<1>2. CASE do_context_switch(ready_tasks, status)
  <2>1. ready_tasks # <<>>
    BY <1>2 DEF do_context_switch
  <2> QED
    BY <2>1, <1>2, ContextSwitch
<1>3. CASE schedule_thread_yield
  <2> DEFINE q == IF ready_tasks = <<>> THEN <<MainThread>> ELSE ready_tasks
  <2>1. /\ q # <<>>
        /\ q = ready_tasks \/ (ready_tasks = <<>> /\ q = <<MainThread>>)
    OBVIOUS
  <2>2. do_context_switch(q, status)
    BY <1>3 DEF schedule_thread_yield
  <2> HIDE DEF q
  <2> QED
    BY <2>1, <2>2, ContextSwitch
<1> QED
  BY <1>1, <1>2, <1>3

\* A dead thread that has left the processor never gets it back, so its kernel
\* stack may be freed.
THEOREM DeadStayOff == SchedSpec => DeadNeverResumes
<1>1. SchedInv /\ [SchedNext]_schedVars =>
        [\A t \in Threads : status[t] = "TASK_DEAD" /\ t # crt_thread_node =>
                              crt_thread_node' # t]_schedVars
  BY NoDeadResumed
<1> QED
  BY <1>1, SchedInvariant, PTL DEF SchedSpec, DeadNeverResumes

==============================================================================
