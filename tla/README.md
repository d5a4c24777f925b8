# LuckOS in TLA+

LuckOS is a small 32-bit x86 kernel for one processor: a preemptive round-robin
scheduler, processes with fork/exec/wait/exit, a few locks, paging with
copy-on-write, a kernel heap, a keyboard driver and a read-only file system, with
a shell and some user programs. This directory models the part of it whose
correctness depends on *when* things happen, checks it with TLC on small
instances, and proves the scheduler, the locks, the processes, the keyboard driver,
the id pool, copy-on-write and the kernel heap for every instance with TLAPS. Paths in this file
are relative to the repository.

## 1. The system

| Component (source) | State | Operations | What makes it correct |
|---|---|---|---|
| scheduler (`src/task/scheduler.c`, `schedule.S`, `interrupt/timer.c`, `interrupt/idt.S`) | `ready_tasks`, `crt_thread_node`, the `status`, `ticks`, `need_reschedule`, `preempt_count`, `process` of every `tcb_t`, CR3 | timer tick, `schedule`, yield, block, wake, exit, enable/disable preemption | the ready queue is exactly the ready threads, nobody is resumed after death, a thread runs on its own page directory, nobody starves |
| thread control blocks (`src/task/thread.c`) | the `tcb_t`, its two stacks, its id | create, create user thread, fork, destroy | a tcb is freed once, when nobody can run on it |
| mutex, yield lock (`src/sync/mutex.c`, `yieldlock.c`) | `hold`, `ydlock`, wait queue | lock, unlock | mutual exclusion, no lost wakeup, waiters are woken up |
| condition variable, clean thread (`src/sync/cond_var.c`, `scheduler.c`) | `dead_tasks`, `dead_processes`, `dead_resource_lock`, wait queue | wait, notify, thread exit, clean loop | the dead are destroyed, once, and only the dead |
| processes (`src/task/process.c`) | the `pcb_t`: status, parent, threads, children, exited children, who waits for whom | fork, exec, wait, exit, destroy | an exit is neither missed nor reported twice; no pcb or page directory is used after it is freed |
| keyboard driver (`src/driver/keyboard.c`) | ring buffer, `waiting_tasks`, the local list of each running handler | blocking read, interrupt handler | nobody waits while there is input; waiters taken by a handler are woken up |
| spin lock (`src/sync/spinlock.c`) | `preempt_count`, interrupt flag | lock, unlock, irqsave variants | sections are not preempted |
| id pool, bitmap (`src/utils/id_pool.c`, `bitmap.c`) | words of bits, size | allocate, free, expand | an id has one owner |
| paging (`src/mem/paging.c`) | frames, page directories, counts of copy-on-write sharers | map, fault, clone, release | a frame is written by one owner, freed once, and freed in the end |
| kernel heap, ordered array (`src/mem/kheap.c`, `src/utils/ordered_array.c`) | blocks with headers and footers, holes sorted by size | alloc, free, expand, contract | blocks tile the heap, no two holes touch, the array holds exactly the holes |
| hash table, linked list (`src/utils/`) | buckets; nodes | put, get, remove, expand, iterate; append, insert, remove, move, concatenate | a map; a sequence |
| file system, disk (`src/fs/`, `src/driver/hard_disk.c`) | none | read, stat, list | offsets and lengths stay in the file |
| monitor (`src/monitor/monitor.c`) | cursor, screen | write, scroll, move the cursor | the cursor stays on the screen |
| keyboard translation (`src/driver/keyhelp.c`) | modifiers, locks, place in sequences of several scancodes | scancode to character | what is typed is read, and lost scancodes do no lasting harm |
| shell (`user/src/shell.c`) | the line, its cursor | insert, erase, move, enter | the screen shows the line, programs get its words |
| system calls, interrupt dispatch, segments, ELF loader, boot, library, other user programs | tables written once, or none | | |

How they interact. Every thread runs on one processor and can be interrupted
between any two instructions unless it has disabled interrupts (the body of
`do_context_switch`, of the `add_thread_node_to_schedule` functions, of the
irqsave spin locks). The interrupt stub acknowledges the interrupt before it
calls the handler, and some handlers enable interrupts again on the way, so
handlers nest. On the way out of every interrupt `schedule()` may switch to
another thread. All locks are built on this: a yield lock spins by yielding, a
mutex and a condition variable mark their caller `TASK_WAITING`, release the
inner lock and yield. `process_wait`/`process_exit` do the same by hand. Dying
threads and reaped processes are handed to the clean thread through two lists.

What is hard here, and listed as hazards in `PROJECT.json`: a timer interrupt
between "mark blocked" and "release the lock"; between "mark dead" and "hand over";
in the middle of the keyboard handler; a child that exits before, during and
after its parent's wait; stale `waiting_child_pid`; two threads in one process
during exec; a parent that exits first; page directories that outlive their
process in CR3; the unprotected hand-over lists; sharers of a frame that fault, fork
and exit at the same time; ids allocated and freed without the lock; lists relinked
while they are walked; key sequences that arrive in pieces, or with a piece missing;
cursor arithmetic over wraps and scrolling.

## 2. The modules

```
Scheduler  <--- Mutex      <--- MCMutex      (MutexProofs)
           <--- Reaper     <--- MCReaper     (ReaperProofs)
           <--- Process    <--- MCProcess    (ProcessProofs)
           <--- Keyboard   <--- MCKeyboard   (KeyboardProofs)
           <--- MCScheduler                  (SchedulerProofs)

Allocator  ...  KHeap      <--- MCKHeap      (KHeap implements Allocator; KHeapProofs)

CowPaging  <--- MCCowPaging                  (CowPagingProofs)

IdPool     <--- MCIdPool                     (IdPoolProofs)

LinkedList <--- HashTable <--- MCHashTable   (HashTable implements Map)

Keyhelp    <--- KeyInput  <--- MCKeyInput

Monitor    <--- Shell     <--- MCShell
```

**Scheduler** has two layers. The operators with the names of the C functions
(`do_context_switch`, `schedule`, `schedule_thread_yield`,
`add_thread_node_to_schedule`, ...) say what each function does to the scheduler's
variables; the other modules build their actions from them. `SchedNext` closes
them with the *most general client*: any thread may do anything the callers in
the kernel may do, and the guards of its actions (`WakeThread`, `YieldThread`,
`DestroyThread`, ...) are the contract of each function. `SchedSpec` is thus the
abstract specification of "uses the scheduler correctly". The other components
are checked (or proved) to implement it, with the scheduler's own variables as
the refinement mapping, and then inherit every theorem about it.

An interrupt-disabled section is one action. `linked_list_insert_to_head` is
modelled as it is written: it inserts *after* the head. `schedule_thread_exit`
has no fallback to the idle thread, as in the code. `main_thread_in_ready_queue`
is only written in the code and is left out; so are the saved registers and the TSS.

**Mutex** runs `mutex_lock; critical section; mutex_unlock` in any number of
threads. A step is one access to shared memory that others can interfere with.
The accesses under `ydlock` to what only its holders touch are grouped.
`mutex_t.thread_node` is written and never read, and left out.

**Reaper** opens the hand-over to the clean thread. An operation on one of the
shared lists has a "before" and an "inside"; two threads inside the same list is
a data race (`Torn`). `cond_var_wait` returns with the lock released, so the
clean thread moves the lists unprotected and then unlocks a lock somebody else
may hold: the race is reachable. Whatever a torn list would do is undefined, so
the model stops there, and its properties say what holds up to that point.

**Process** models the `pcb_t` and the five system calls of user threads, who
call them in any order. A pid is identified with its pcb slot, since both are
freed together; slots are reused. Sections under `pcb_t.lock` that touch only
that pcb are one step, taken when the lock is free; a thread that finds it taken
yields (`YieldOnLock`). `process_wait` holds the lock across steps, as in the
code. The hand-over to the clean thread is one step (Reaper looks inside).
When the code would use freed memory, a null node, or link a linked node, the
model sets `undefined` and stops. The exec of the ELF image can fail or succeed.
`processes_map` and `threads_map` are never read and are left out, like the
bitmap of user stacks.

**Keyboard** models the ring buffer, `read_keyboard_char` and
`keyboard_interrupt_handler`. A scancode is a model of "translates to a
character" or "does not". Handlers run on the stack of the thread they interrupt:
`frames[t]` is the stack of local waiter lists of the handlers on thread `t`.

**KHeap** models the heap in its memory: headers and footers at addresses, the
walk from a footer to its header, the index ordered by sizes read through its
entries. `kheap_lock` is held for the whole of a call, so calls do not interleave;
each turn of the recursion of `alloc` is a step. A failed assertion is a panic,
and the kernel stops. What an older block has left inside a newer one is treated
as data. **Allocator** is the abstract specification: requests, and answers that
overlap no live block. `live`, the callers' view, is the variable the two share.
The index is large enough in the run; `ordered_array_insert` drops a hole without
notice when it is full, and with a small index `IndexIsHoles` and `BlocksTileHeap`
do not hold; the proofs say from which size of the heap on that can happen.
`kheap_contract` is never called.

**CowPaging** models the user memory: the bitmap of frames, a page directory, a
page table and one user page for each process, the counts of copy-on-write
sharers, and the page at `COPIED_PAGE_VADDR`, which all processes share because
they share the kernel's page tables. Page faults and system calls run with
interrupts enabled, so a process can be switched out anywhere in them: the steps
of different processes interleave freely, and the module needs no scheduler. A
step touches the shared state once (the count, the bitmap, the window, a frame), but for
`release_page`: its count, its frame and its entry are one step, which differs from three
only where nobody else knows the frame.
`page_dir_lock` belongs to one process, whose only thread can meet it taken just in
a fault inside a fault; that thread then waits for itself (`nested_fault`).
`CR0.WP` is never set, so stores of the kernel ignore the read-only mark
(`KernelStore`). `destroy_process` gives `release_phy_frame` an address where a frame
number is expected, and the model does the same (`Address`): the bit cleared is not one of
the frames, the directory of the destroyed process stays allocated, and the memory behind
the bitmap in which a bit is cleared is not modelled. After exec or exit the last sharer frees the frame. When no frame
is left the kernel panics and stops. The places at which `clone_crt_page_dir`
maps the tables it edits, and the pages of the kernel heap, are left out.

**IdPool** models the pool of thread and process ids down to the load and the store
of a word of the bitmap. The lock covers the search and the first attempt of an
allocation; the attempt after an expansion (`id_pool.c:34`) and every
`id_pool_free_id` run without it. Only the clean thread frees ids. A store that
overwrites what another thread has loaded, or an expansion under a store, is
recorded in `raced` with what the threads were doing, and the model stops;
`id_pool.h:9` calls the pool thread-safe, and it is up to that point. `expand` has no
return statement for its success, so what its caller sees is a value the build
chooses (`expand_returns`, the same in all calls). An exhausted pool returns -1,
which is true, and no id; the model stops there too.

**LinkedList** has the pointer operations the hash table uses, **HashTable** the table:
lookup, put, remove, clear, destroy and the iterator, one step per node of a loop.
A node and the key-value record it points to are one record; its callers hold a lock
of their own, so one call runs at a time. **Map** is the abstract specification, a
function from keys to values that answers requests. The refinement mapping reads the
map off the nodes; put takes effect when the node is linked and before the
expansion, clear and destroy when they start. `hash_table_destroy` also frees the
values, which this module does not own; `hash_table_print` is left out.

**Keyhelp** is the translation of scancodes: both tables, the modifiers and locks, and
the sequences of print screen, pause and the extended keys. A character is the level
(plain, shift, control) and the key it comes from; the numbers behind them are left
out. **KeyInput** puts a keyboard in front of it (make, break and repeat codes of
scancode set 1, external) and the driver's buffer in between. `expected` is what the
user has typed and not read yet; when a scancode is lost it is given up, and
`trusted` collects the modifiers pressed since, with everything in step. The pause key
is the one whose character is never read (`Dropped`): its sequence ends with a scancode that
looks like a break code (`keyhelp.c:629`), and `keyboard.c:56` drops what is not a make
event, although `keyhelp.c:18` and `keyhelp.h:127` mean it to be one. `CharsAsTyped` is about
the other keys, and that pause disturbs none of them. Caps lock is switched by every repetition of its key;
no comment says otherwise, and the reference follows it. Print screen is not combined with
shift and control, nor pause with control, which make the keyboard send other sequences.

**Monitor** is the text screen as a record, with the operators of `monitor.c`; **Shell**
is the line editor on it. `printf` of the line treats it as a format: "%" and the
character behind it are not shown, and a "%" at the end takes the terminator with it
(`monitor.c:249` tests the wrong character), so that the rest of an older line is
printed. That is modelled (`Formatted`), and `ScreenShowsLine` is about lines without
"%". Conversion letters behind "%" are left out, as their arguments are whatever is on
the stack. The program run by a line prints any character or control character before
it exits; its process is the business of Process. The shell tests no lengths. A
character behind the last place of `cmd_buffer` (`shell.c:149`, 512 bytes) and an argument
behind the last place of `args` (`shell.c:61`, 32 entries) are stored outside the arrays:
`mode` becomes "undefined" and the model stops. A line of blanks has no token, and
`exec` is called with the uninitialised `program` (`shell.c:85`): any name of `Leftovers`.
Enter in the middle of a line that
wraps goes on at the next screen line, over the rest; the code does not say otherwise.

The hardware (timer, keyboard controller, `atomic_exchange`) appears only as the
occurrence of interrupts, the scancodes of KeyInput and atomic steps.

## 3. The runs

| Run | Checks | Distinct states |
|---|---|---|
| `scheduler` | `SchedInv` (the queue is exactly the ready threads, one runner, the right page directory), `DeadNeverResumes` and `ReadyRuns` (every ready thread gets the processor) under its general client | 173,410 |
| `mutex` | `MutualExclusion`, `WakeupNotLost`, that it implements `SchedSpec`, and `WaiterIsWokenUnlessStranded` | 11,552 |
| `reaper` | `ExitFindsReadyThread`, `OnlyDeadCleaned`, `LockHolderCanRun`, `ContractUntilReap` | 122,158 |
| `process` | `NoMissedExit`, `ReapedOnce`, `LoadedDirExists`, `WaiterReleasesLock`, implements `SchedSpec` | 1,462,514 (with symmetry) |
| `keyboard` | `NoWaiterWithInput`, `BlockedReaderFound`, implements `SchedSpec`, `TakenIsWokenUnlessSuspended` | 10,018 |
| `kheap` | `BlocksTileHeap`, `IndexIsHoles`, `FindsSmallestHole`, `HolesMerged`, implements `Allocator` | 275,620 |
| `cow` | `CountIsOtherSharers`, `WriterIsAlone`, `FramesAccounted`, `OthersCannotWrite` | 1,687,885 (with symmetry) |
| `idpool` | `IdPoolInv` (`IdsUnique`, `MarkedIffInUse` and the types), `RaceNeedsUnlocked`, `LockComesFree` | 182,064 |
| `hash_table` | `ListsIntact`, implements `Map` (`ImplementsMap`), `CallReturns` | 616,878 |
| `key_input` | `CharsAsTyped`, `ModifiersHeal` | 5,146,974 |
| `shell` | `ScreenShowsLine`, `ProgramGetsWords`, and that the cursor stays on the screen and in the line (`ShellTypeOK`) | 1,038,997 |

One more run is expected to end in a counterexample. It states what a comment of the
source says, and TLC shows a behaviour of the code that contradicts it (`findings` in
`PROJECT.json` quotes the comment): in `cow_shared` a write fault gives up its share of
the frame at `paging.c:224`, and another process can write to the frame or free it
before it is copied. Two other comments that the code contradicts, on the release of page
directories and on the pause key, need no interleaving to be seen; the properties that
touch them (`FramesAccounted`, `CharsAsTyped`) name them as their exceptions, and the
hazards in `PROJECT.json` quote them.

What the passing runs say about the places where the code can go wrong:

* A thread preempted between `schedule_mark_thread_block` and the release of the inner
  lock (`mutex.c:19`, `cond_var.c:16`, `process.c:260`) is gone with the lock.
  `WaiterIsWokenUnlessStranded`, `LockHolderCanRun` and `WaiterReleasesLock` show that
  this is the only way to lose a waiter or the lock, apart from the next one.
* A thread preempted after `scheduler.c:333` is dead and not yet in `dead_tasks`, and may
  hold `dead_resource_lock`; `LockHolderCanRun` has this as its other exception.
* `waiting_child_pid` is never reset, and a later child may queue a thread that is not
  waiting (`process.c:323`): Process stops there (`ExitNotifyUndefined`), and
  `NoMissedExit` shows that the stale value never hides an exit.
* `exit` returns without effect in a program whose exec'ing thread has not left the
  process yet (place `exit_lock` of Process).
* Waiters in the local list of a keyboard handler whose thread is switched out while
  blocked or idle are not woken up: `TakenIsWokenUnlessSuspended` shows that this is
  the only way.
* `RaceNeedsUnlocked`: a race for ids takes an `id_pool_free_id` or an attempt after an
  expansion, never two first attempts. `LockComesFree`: the pool's lock is lost only
  where `expand` has no return value.
* `destroy_process` means to release the page directory (`process.c:340`) and loses it
  (`process.c:345`). `FramesAccounted`: no frame is in use twice, and the page directories
  of destroyed processes, all of them, are the only frames that are lost.
* `ProgramGetsWords` holds for lines that have a word and at most as many arguments as
  `args` has entries; nothing in the shell keeps a user from typing others.
* After an overflow of the keyboard buffer characters may be wrong, but
  `ModifiersHeal`: a modifier that is stuck is right again once its key is
  pressed while the translation is in no sequence.

Deadlock is checked in every run but those of `KHeap` and `CowPaging`, where a panic
stops the kernel (and in the latter all processes may have exited), `IdPool`, which
stops at a race or an exhausted pool, and `Shell`, which exits or writes outside its
arrays. No other behaviour
stops, because the timer keeps ticking (the stop at undefined behaviour in Reaper and
Process is a stuttering disjunct of `Next`, so TLC does not report it).

Bounds, and why they suffice.

* *Threads*: the idle thread and three others (clean thread and two users in
  `scheduler`; two workers, the clean thread and the idle thread in `reaper`;
  three workers in `mutex`; two readers in `keyboard`): enough for a holder, a
  waiter and one that overtakes, and for a ready queue of three.
  `process` has the clean thread and three user threads.
* *Processes*: in `process`, init and two slots with `MaxForks` = 2. That gives
  siblings, a grandchild, an orphan, and a slot (hence a pid) that is reused.
* *Time slice*: `Priority` = 1 or 2 ticks. The code's constant only makes slices
  longer, and the model lets the timer tick between any two steps.
* *Nesting*: `MaxNest` = 3 handlers on a stack, so that one more nests than there are
  readers to be taken, `MaxPreempt` = 1 in `scheduler`;
  0 elsewhere, where no modelled code calls `disable_preempt`.
* *Buffer*: `KEYBOARD_BUF_SIZE` = 2, so that full, empty and in between occur.
* *Heap*: pages of 8 units, headers of 2 and footers of 1, two pages that can grow
  to four, requests of 1 and of 6 units, aligned or not. Remainders around the
  size of a header and a footer, aligned blocks with a hole in front, merging on
  both sides, growth of the last hole and behind a used block, and exhaustion all occur.
* *Memory*: three processes, so that a frame has three sharers, two of which copy it
  at once; eight frames, one less than the three can use together, so that
  exhaustion occurs too; two values for a page; `MaxExecs` = 1 call of exec. `PAGE_SIZE`
  and `KernelFrames` (767, the frames below those for processes) are the code's.
* *Ids*: words of two bits, a pool of one word that grows twice to three. Two
  allocators meet in one word, on the same bit and across an expansion, and all six
  ids can be in use.
* *Table*: two buckets at first and keys 0, 1, 4, 8: three of them collide before and
  two after the expansions, the fourth key brings the second expansion (8 buckets),
  and tables are emptied from any of the sizes.
* *Keys*: one key of each kind (letter, digit with and without a control level,
  modifiers on the left and with an extended code, a lock, an arrow, print screen,
  pause), two held at a time, a buffer of two and two lost scancodes: any part of
  any sequence can be lost, also of two sequences.
* *Screen*: two columns and four lines, `TabSize` 2, a `cmd_buffer` of six, so that
  every line wraps, some scroll and a sixth character overflows it; room for one argument
  (`ArgsSize`), so that a line of three words has one too many; tokens cut at two; two lines
  in a row, one character of output in between, and at most two characters in a line with
  "%" (`MaxFormatted`). As in the code (512 bytes, 24 lines of 80) what fits into the buffer
  is shorter than the screen without its last line: a longer line would scroll its own
  beginning away.
* *Symmetry*: in `process` over the user threads and over the forked process
  slots, in `cow` over the
  processes to be forked, which no definition tells apart. The
  properties of these runs are invariants, step properties and a step-wise refinement.

Fairness. `TimerInterrupt`/`Tick`: the programmable timer does not stop, and
no code keeps interrupts disabled for ever. `EnablePreempt` (scheduler): a
section that disables preemption ends, as `spinlock_unlock` follows every
`spinlock_lock`; strong, since the thread may be interrupted in between. In Mutex
and Keyboard, strong fairness for the next step of a thread (or handler) that
has the processor again and again: a time slice is far longer than one
instruction, so a thread that is scheduled for ever also executes, and keys are
not pressed so fast that nested handlers follow each other for ever. In IdPool, weak
fairness for the next step of a thread inside the pool, and in HashTable for that of the
call in progress: a ready thread gets the processor again. Otherwise it is not
assumed that an individual thread is ever scheduled (in the modules with a scheduler): that is what `ReadyRuns` shows.
`ReadyRuns` is checked with one thread that the keyboard can wake up. With two,
the insertion behind the head of the queue allows them to overtake a third
for ever if the keyboard interrupts at every slice.

## 4. The proofs

`SchedulerProofs` proves, for any threads, processes, priority and nesting bound
(`ThreadsAssumption`, `BoundsAssumption`: the main thread and main process exist,
the null process is not one, the priority is positive):

* `SchedInvariant`: `SchedSpec => []SchedInv`, and from it `SchedTypeCorrect`,
  `NodesLinkedOnce`, `ReadyQueueExact`, `OnlyCurrentRuns`, `RightAddressSpace`;
* `DeadStayOff`: the action property `DeadNeverResumes`.

`SchedInv` is the conjunction of the checked invariants with
`IdleAndCurrentAlive`. None of the parts is inductive alone: that a node is not
linked twice needs that a thread being queued is not `TASK_READY`, which needs
`ReadyIffQueued`, which needs `OneRunner` for the thread switched out and the
status of the idle thread for the fallback of yield. Three lemmas about lists
(`AppendNode`, `RemoveHead`, `InsertNode`) say what the queue operations do to
membership and repetition. `ContextSwitch` and `QueueThread` prove the two kinds
of step once; each action of `SchedNext` is then a short case.

`MutexProofs` proves for any number of threads:

* `MutexInvariant`: `Spec => []MutexInv`, and from it `MutexExcludes`,
  `WaitQueueGuarded`, `WaitersAreQueued`, `NoLostWakeup`;
* `MutexImplementsScheduler`: `Spec => SchedSpec`, so all of the above holds for
  the scheduler under the mutex.

`MutexInv` contains `SchedInv`, and adds what the code's locks encode: they are
marked while a thread is between taking and releasing them (`LocksMarked`), the
thread on the processor runs unless it has just blocked (`CurrentWorkerRuns`), and
threads block at three places only (`BlockedInLock`). The last two are what
shows that the thread `mutex_unlock` wakes up is really asleep
(`WokenIsAsleep`), which is the contract of `add_thread_node_to_schedule`.

`KeyboardProofs` proves for any readers, buffer size and nesting of handlers
(`KeyboardAssumption`; `ReadersAssumption`: the readers are threads the keyboard wakes up):

* `KeyboardInvariant`: `Spec => []KeyboardInv`, and from it `InputReachesWaiters`
  (`NoWaiterWithInput`) and `WaitersAreFound` (`BlockedReaderFound`);
* `KeyboardImplementsScheduler`: `Spec => SchedSpec`.

`KeyboardInv` has to speak of the lists on all the stacks: that no two of the nested
handlers hold the same reader (`HeldOnce`) is what makes a wakeup find its reader asleep,
and this in turn needs that a reader on the processor runs unless it has just marked
itself blocked (`CurrentReaderRuns`), since a handler may wake up the thread it has
interrupted.

`ReaperProofs` proves for any number of exiting threads and processes to be reaped
(`ReaperAssumption`: the clean thread is one of the threads, and the main process is never
reaped):

* `ReaperInvariant`: `Spec => []ReaperInv`, and from it `ExitFindsThread`
  (`ExitFindsReadyThread`), `CleanOnlyTheDead` (`OnlyDeadCleaned`) and `HoldersRunAgain`
  (`LockHolderCanRun`);
* `ReaperKeepsContract`: the step property `ContractUntilReap`.

The clean thread can be queued twice once `dead_resource_lock` has been unlocked by
somebody who does not hold it, so `ReaperInv` cannot contain `SchedInv`. It contains the
parts of it that survive (`SchedFits`), and ties the condition variable's queue to the
clean thread only as long as no node is linked twice. Because the lock does not protect
what it should, `OnlyDeadCleaned` rests on the places of the threads instead: a thread
lists itself once and is dead by then (`TasksFit`), and a process is unreaped, in one
worker's hands, listed or destroyed (`ProcessesFit`). `LockProtects` says what the lock is
still good for before the first `add_dead_process`.

`ProcessProofs` proves for any threads, processes and number of forks
(`ProcessAssumption`):

* `ProcessInvariant`: `Spec => []ProcessInv`, and from it `ExitsAreSeen`
  (`NoMissedExit`), `ChildrenReapedOnce` (`ReapedOnce`), `LoadedDirStays`
  (`LoadedDirExists`) and `LockIsReleased` (`WaiterReleasesLock`);
* `ProcessKeepsContract`: `Spec => SchedSpec`.

`ProcessInv` says for each thread whether it is still in its process (`ThreadFits`), what
it has announced before it sleeps (`WaitFits`) and that a half-forked process is its own
(`ForkFits`); that one thread of a process is active after exec and fork (`OneActive`);
who holds the lock (`LockFits`); and where an exited child is (`ChildFits`). `NoMissedExit`
alone is not inductive: a second thread in the process could overwrite
`waiting_child_pid` of the first, so it needs `OneActive` and `LockFits`. `LoadedDirExists`
needs that `destroy_process` runs in the clean thread, on the directory of the main process
(`SchedulerFits`), although the exited thread may stay on that of its process until then,
and that a thread switched in is detached or in a process that is not reaped
(`ThreadFits`). The steps that only switch threads, and those
that change nothing but one thread's place, are proved once (`FrameKeeps`, `PlainTurn`,
`CallTurn`, `OwnTurn`); one lemma for each action says what that action disturbs.

Reaper and Process know what a context switch does to each thread from `SwitchFates`,
`YieldFates`, `ExitFates` and `TickFates` of SchedulerProofs: who changes its status, and to
what. Mutex, Keyboard and Process implement `SchedSpec`, and so inherit
`NoThreadQueuedTwice`, `RightAddressSpace`, `DeadStayOff` and the rest.

`CowPagingProofs` proves for any finite set of processes, any number of frames and of calls
of exec (`CowAssumption`; `AddressAssumption`: the address of a frame is larger than any
frame number, as 3 MB are below the first one):

* `CowInvariant`: `Spec => []CowInv`, and from it `CountsAreRight`
  (`CountIsOtherSharers`), `WritersAreAlone` (`WriterIsAlone`) and `OnlyDirectoriesLost`
  (`FramesAccounted`: what is lost are the directories of destroyed processes, all of them
  and nothing else);
* `PagesArePrivate`: the step property `OthersCannotWrite`.

The count of a frame is about a set of processes whose members come and go in several
steps: `Mapped` gives each process the frame it is counted for, and the lemmas on counts
and frames are about functions like it, apart from the rest of the state. `EntriesFit`,
`ForksFit` and `CopiesFit` say how far each fault, fork and copy is. `FramesExact` states
the accounting by membership, which a step can be shown to keep; only at the end is it
turned into the equality of cardinalities of `FramesAccounted`. `OthersCannotWrite` uses
the invariant twice: a writer is alone, and the target of a copy or a cleared frame is
nobody's page.

`IdPoolProofs` proves for any allocators, word size, initial and maximal size
(`IdPoolAssumption`: the sizes are multiples of the word, as in every call of
`id_pool_init`):

* `PoolInvariant`: `PoolInductive` and `RaceNeedsUnlocked` are invariant, and from it
  `PoolIsExact` (`IdPoolInv`) and `RacesAreUnlocked` (`RaceNeedsUnlocked`).

`PoolInductive` adds to `IdPoolInv` what the lock covers (`LockCovers`), that loops and
loaded ids stay in the array (`IdsInPool`), and that until a race nothing a thread has
loaded or copied is stale (`NothingStale`, `FreedIsUnused`).

`KHeapProofs` proves for any page size, sizes of headers and footers, heap, limit, index and
requests (`KHeapAssumption`: the heap starts at a page and has whole pages, is within its
limit and larger than a header and a footer; requests are not empty):

* `HeapInvariant`: `Spec => []HeapInv`, and from it `HolesStayMerged` (`HolesMerged`);
* `HeapIsAllocator`: `Spec => AllocatorSpec`, the refinement of Allocator;
* `BlocksAlwaysTileHeap`, `IndexIsAlwaysHoles` and `AlwaysFindsSmallestHole`:
  `BlocksTileHeap`, `IndexIsHoles` and `FindsSmallestHole` as long as the index has room
  (`HasRoom`: one entry is still free);
* `IndexHasRoom`: it has room while the heap is at most
  `HoleDistance * (KHEAP_INDEX_NUM - 1)` bytes long (`HeapIsSmall`), and
  `SoundWhileSmall`: in every state in which it is, the three hold without a hypothesis on
  the index, since the heap only grows (`HeapOnlyGrows`) and was that small before.

The hypothesis on the index is the code's own: an insertion into a full array is dropped
(`ordered_array.c:19`), the next merge with the dropped hole fails an assertion, and TLC
shows it with a small index. `IndexHasRoom` says when it cannot happen. Two neighbouring
holes have a caller's block between them, so two holes begin at least `HoleDistance` =
2 * (`BLOCK_META_SIZE` + 1) bytes apart. With the constants of `kheap.h` (headers and footers
of 17 bytes together, 0x20000 entries) that is 4.7 MB; the heap begins with 2.6 MB and may
grow beyond, up to 524 MB: `SoundWhileSmall` says nothing of what happens from there on. The
heap of the run is always that small.
`HeapInvariant`, `HolesStayMerged` and `HeapIsAllocator` need no such hypothesis: a dropped
hole is lost, but never handed out, overlapped or corrupted.

`HeapInv` says that the blocks tile the heap (`Tiled`), that the index lists holes, each
once and by size (`Listed`), that no two holes touch, and that the callers hold the other
blocks, with the sizes they asked for (`LiveFits`). `BlocksTileHeap` is not inductive: it
does not say that every footer belongs to a block, and `LeftHole` follows whatever footer
it finds in front of a block. No walk is needed: tiling is stated by neighbours, every
block ending where another begins and no two overlapping. In the middle of a call
the blocks do not tile, so `Tiled` has a gap, a range of addresses whose headers and
footers do not count. `OpenGap` turns a row of blocks into a gap, `FillGap` writes a block at
the left end of a gap, `CloseGap` ends with an empty one. A free opens the block with its
free neighbours and fills it once; an allocation fills the hole up to three times (the hole
in front, the block, the remainder); growth opens the end of the heap. `RemoveListed` and
`InsertListed` do the same for the array: removing and inserting keep the order, although a
header is rewritten in between. `FewHoles` counts the entries of the index by the
distances of the holes.

`CowInv`, `ReaperInv`, `ProcessInv` and `HeapInv` are defined in the proof modules, where alone they
are used; `SchedInv`, `MutexInv`, `KeyboardInv` and `PoolInductive` are in the models.

Only model-checked:

* all liveness (`ReadyRuns`, `WaiterIsWokenUnlessStranded`, `TakenIsWokenUnlessSuspended`,
  `LockComesFree`, `CallReturns`), which rests on fairness and `ENABLED`;
* HashTable and its refinement of Map: its properties are about walks from node to node,
  and need induction over data, which is out of the prover's reach;
* KeyInput and Shell: what they compute is given by recursive definitions over scancodes,
  characters and screen cells.

## 5. The plan

Done: Scheduler, Mutex, Reaper, Process, Keyboard, KHeap with Allocator, CowPaging,
IdPool, LinkedList and HashTable with Map, Keyhelp and KeyInput, Monitor and Shell; the
proofs of Scheduler, Mutex, Keyboard, Reaper, Process, CowPaging, IdPool and KHeap.

Next, in this order:

1. HashTable without walks: chains stated by neighbours, as in `HeapInv`, from which
   `ListsIntact` might be proved; the refinement of Map reads the nodes in order and stays
   with TLC.
2. Liveness of the clean thread and of `process_wait`.
3. File and sector offsets of the file system.

Not modelled: boot code, segment tables, port I/O, register passing of
system calls, the ELF copy loop, the printing of numbers, the host-side disk image
writer. They run once or sequentially, or are hardware access without state that
a property could tell apart.
