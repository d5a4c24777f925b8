------------------------------ MODULE Keyboard -------------------------------
(***************************************************************************)
(* The keyboard driver of src/src/driver/keyboard.c: the buffer of         *)
(* scancodes, the threads that wait for a character in read_keyboard_char  *)
(* and the interrupt handler that wakes them up.                           *)
(*                                                                         *)
(* keyboard_lock is taken with spinlock_lock_irqsave by the readers: with  *)
(* one processor the sections under it cannot be interrupted and are one   *)
(* step each.  The handler starts with interrupts disabled, but            *)
(* add_thread_node_to_schedule_head enables them again: from the first     *)
(* waiter on, the handler can be interrupted and its thread switched out.  *)
(* What is left to do is then on the kernel stack of that thread (frames). *)
(*                                                                         *)
(* A scancode is "char" when process_scancode makes a pressed key with     *)
(* data of it, and "quiet" otherwise.                                      *)
(***************************************************************************)
EXTENDS Scheduler

CONSTANTS
  KEYBOARD_BUF_SIZE,  \* capacity of the buffer
  MaxNest             \* bound on handlers interrupted on one kernel stack

ASSUME KeyboardAssumption ==
  /\ KEYBOARD_BUF_SIZE \in Nat \ {0}
  /\ MaxNest \in Nat \ {0}

Readers == Threads \ {MainThread}

ASSUME ReadersAssumption == Readers \subseteq IrqThreads

Scancodes == {"char", "quiet"}

VARIABLES
  queue,          \* the buffered scancodes, oldest first
  waiting_tasks,  \* readers waiting for the next interrupt
  frames,         \* the waiters still to be woken up by each of the handlers that
                  \* were interrupted on the stack of a thread, newest first
  pc              \* where each reader is

keyboardVars == <<queue, waiting_tasks>>
vars == <<schedVars, keyboardVars, frames, pc>>

self == crt_thread_node

\* A step of the reader's own code, not of a handler that interrupted it.
Goto(l, m) ==
  /\ self \in Readers
  /\ frames[self] = <<>>
  /\ pc[self] = l
  /\ pc' = [pc EXCEPT ![self] = m]

-----------------------------------------------------------------------------
\* A scancode that finds the buffer full is dropped.
enqueue(code) ==
  queue' = IF Len(queue) = KEYBOARD_BUF_SIZE THEN queue ELSE Append(queue, code)

Chars == {i \in 1..Len(queue) : queue[i] = "char"}

\* Where read_keyboard_char_impl stops: behind the first character.
FirstChar == CHOOSE i \in Chars : \A j \in Chars : i <= j

\* The buffer is left as it is when it holds no character.
read_keyboard_char_impl_keeps ==
  IF Chars = {} THEN queue ELSE SubSeq(queue, FirstChar + 1, Len(queue))

\* What read_keyboard_char_impl leaves in the buffer.
read_keyboard_char_impl ==
  IF Chars = {} THEN <<>> ELSE SubSeq(queue, FirstChar + 1, Len(queue))

\* read_keyboard_char under keyboard_lock finds a character,
ReadChar(l) ==
  /\ Chars # {}
  /\ Goto(l, "user")
  /\ queue' = read_keyboard_char_impl
  /\ UNCHANGED <<schedVars, waiting_tasks, frames>>

\* (a reader that forgets to mark itself blocked)
ReadBlocksUnmarked(l) ==
  /\ Chars = {}
  /\ Goto(l, "sleep")
  /\ queue' = read_keyboard_char_impl
  /\ waiting_tasks' = Append(waiting_tasks, self)
  /\ UNCHANGED <<schedVars, frames>>

\* or drains the buffer, joins waiting_tasks and marks itself blocked,
ReadBlocks(l) ==
  /\ Chars = {}
  /\ Goto(l, "sleep")
  /\ queue' = read_keyboard_char_impl
  /\ waiting_tasks' = Append(waiting_tasks, self)
  /\ schedule_mark_thread_block
  /\ UNCHANGED frames

\* gives up the processor, and tries again.
ReadSleeps ==
  /\ Goto("sleep", "retry")
  /\ schedule_thread_yield
  /\ UNCHANGED <<keyboardVars, frames>>

read_keyboard_char ==
  \/ \E l \in {"user", "retry"} : ReadChar(l) \/ ReadBlocks(l)
  \/ ReadSleeps

-----------------------------------------------------------------------------
Push(todo) == frames' = [frames EXCEPT ![self] = <<todo>> \o @]

\* Only the first waiter is taken.
WakeFirstDropsRest ==
  /\ waiting_tasks # <<>>
  /\ add_thread_node_to_schedule_head(Head(waiting_tasks))
  /\ waiting_tasks' = <<>>
  /\ Push(<<>>)

\* The handler takes all the waiters and wakes up the first one, with interrupts
\* disabled.
WakeFirst ==
  /\ waiting_tasks # <<>>
  /\ add_thread_node_to_schedule_head(Head(waiting_tasks))
  /\ waiting_tasks' = <<>>
  /\ Push(Tail(waiting_tasks))

\* keyboard_interrupt_handler up to the first place where it can be interrupted.
\* With no waiter that is its end, where it requests a reschedule.
keyboard_interrupt_handler(code) ==
  /\ Len(frames[self]) < MaxNest
  /\ enqueue(code)
  /\ \/ WakeFirst
     \/ /\ waiting_tasks = <<>>
        /\ request_reschedule
        /\ UNCHANGED <<waiting_tasks, frames>>
  /\ UNCHANGED pc

\* (a handler that takes the other waiters and wakes up none of them)
HandlerForgets ==
  /\ frames[self] # <<>>
  /\ Head(frames[self]) # <<>>
  /\ frames' = [frames EXCEPT ![self] = <<Tail(Head(@))>> \o Tail(@)]
  /\ UNCHANGED <<schedVars, keyboardVars, pc>>

\* The rest of the handler: the loop over the other waiters,
HandlerWakes ==
  /\ frames[self] # <<>>
  /\ LET todo == Head(frames[self])
     IN  /\ todo # <<>>
         /\ add_thread_node_to_schedule_head(Head(todo))
         /\ frames' = [frames EXCEPT ![self] = <<Tail(todo)>> \o Tail(@)]
  /\ UNCHANGED <<keyboardVars, pc>>

\* and its end.
HandlerEnds ==
  /\ frames[self] # <<>>
  /\ Head(frames[self]) = <<>>
  /\ frames' = [frames EXCEPT ![self] = Tail(@)]
  /\ request_reschedule
  /\ UNCHANGED <<keyboardVars, pc>>

Tick ==
  /\ timer_callback
  /\ UNCHANGED <<keyboardVars, frames, pc>>

StartReader(t) ==
  /\ self = MainThread
  /\ frames[self] = <<>>
  /\ status[t] = "TASK_NONE"
  /\ add_thread_to_schedule(t, MainProcess, FALSE)
  /\ UNCHANGED <<keyboardVars, frames, pc>>

\* init_keyboard
Init ==
  /\ SchedInit
  /\ queue = <<>>
  /\ waiting_tasks = <<>>
  /\ frames = [t \in Threads |-> <<>>]
  /\ pc = [t \in Readers |-> "user"]

Next ==
  \/ read_keyboard_char
  \/ \E code \in Scancodes : keyboard_interrupt_handler(code)
  \/ HandlerWakes
  \/ HandlerEnds
  \/ Tick
  \/ \E t \in Readers : StartReader(t)

Spec == Init /\ [][Next]_vars

(***************************************************************************)
(* The timer keeps ticking, and a handler that gets the processor again    *)
(* and again takes its next step in the end: keys are pressed so slowly    *)
(* that the handlers nested in it do not follow each other for ever.       *)
(***************************************************************************)
FairSpec ==
  /\ Spec
  /\ WF_vars(Tick)
  /\ \A t \in Threads, depth \in 1..MaxNest :
       SF_vars(/\ crt_thread_node = t
               /\ Len(frames[t]) = depth
               /\ HandlerWakes \/ HandlerEnds)

-----------------------------------------------------------------------------
\* The readers a handler interrupted on the stack of t has still to wake up.
Todo(t) == {r \in Readers : \E i \in 1..Len(frames[t]) : Linked(frames[t][i], r)}

\* No reader waits while there is something to read: waiting_tasks is emptied by
\* the interrupt that fills the buffer, and joined only when it has been drained.
NoWaiterWithInput == waiting_tasks # <<>> => queue = <<>>

\* A blocked reader is in one place where an interrupt can find it, waiting_tasks
\* or the list of one handler, and only blocked readers are there.
BlockedReaderFound ==
  /\ NoRepeat(waiting_tasks)
  /\ \A r \in Readers :
       LET places == {t \in Threads : r \in Todo(t)}
       IN  /\ status[r] = "TASK_WAITING" <=>
                Linked(waiting_tasks, r) \/ places # {}
           /\ Linked(waiting_tasks, r) => places = {}
           /\ \A t, u \in places : t = u

\* What the proofs need besides: the buffer holds no more than its capacity and the lists
\* are lists of readers,
KeyboardTypeOK ==
  /\ queue \in Seq(Scancodes) /\ Len(queue) <= KEYBOARD_BUF_SIZE
  /\ waiting_tasks \in Seq(Readers)
  /\ frames \in [Threads -> Seq(Seq(Readers))]
  /\ pc \in [Readers -> {"user", "sleep", "retry"}]

\* those of the handlers share no reader and repeat none,
HeldOnce ==
  \A t, u \in Threads : \A i \in 1..Len(frames[t]), j \in 1..Len(frames[u]) :
    /\ NoRepeat(frames[t][i])
    /\ \A r \in Readers :
         Linked(frames[t][i], r) /\ Linked(frames[u][j], r) => t = u /\ i = j

\* a reader on the processor runs, unless it has marked itself blocked,
CurrentReaderRuns ==
  self \in Readers => status[self] = "TASK_RUNNING" \/ pc[self] = "sleep"

\* and nobody disables preemption.
AlwaysPreemptible == \A t \in Threads : preempt_count[t] = 0

\* The inductive invariant.
KeyboardInv ==
  /\ SchedInv
  /\ KeyboardTypeOK
  /\ NoWaiterWithInput
  /\ HeldOnce
  /\ BlockedReaderFound
  /\ CurrentReaderRuns
  /\ AlwaysPreemptible

\* A handler sits on the stack of a thread that has been switched out and is not
\* in the ready queue: a blocked reader, or the idle thread.
HandlerSuspended(t) == t # crt_thread_node /\ ~Queued(t) /\ frames[t] # <<>>

\* Every waiter the handler has taken is woken up, unless the timer switches out
\* the handler's thread while it is blocked itself, or idle.
TakenIsWokenUnlessSuspended ==
  \A r \in Readers :
    (\E t \in Threads : r \in Todo(t)) ~>
      (status[r] # "TASK_WAITING" \/ \E t \in Threads : HandlerSuspended(t))

==============================================================================
