------------------------------- MODULE IdPool --------------------------------
(***************************************************************************)
(* The pool of thread and process ids: src/src/utils/id_pool.c and the     *)
(* bitmap under it, src/src/utils/bitmap.c.  Allocators are the threads    *)
(* that create threads and processes; the only thread that gives ids back  *)
(* is the clean thread (destroy_thread, destroy_process).                  *)
(*                                                                         *)
(* The threads can be preempted anywhere.  A bit is set or cleared by      *)
(* loading its word and storing it back, in two steps.  The lock covers    *)
(* the search and the first attempt of an allocation only: the attempt     *)
(* after an expansion and every id_pool_free_id run without it.  A step    *)
(* that overwrites what another thread is about to rely on is recorded in  *)
(* raced, and so is an allocation that reports success without an id in    *)
(* exhausted: what the callers do then is undefined, and the model stops.  *)
(***************************************************************************)
EXTENDS Integers, FiniteSets

CONSTANTS
  Allocators,    \* threads that allocate ids
  CleanThread,   \* the thread that frees them
  NoThread,      \* nobody holds the lock
  WordBits,      \* bits of a word of the bitmap, 32 in the code
  InitSize,      \* size given to id_pool_init, and expand_size
  MaxSize        \* max_size

ASSUME IdPoolAssumption ==
  /\ CleanThread \notin Allocators
  /\ NoThread \notin Allocators \cup {CleanThread}
  /\ WordBits \in Nat \ {0}
  /\ InitSize \in Nat \ {0} /\ InitSize % WordBits = 0
  /\ MaxSize \in Nat /\ MaxSize >= InitSize /\ MaxSize % WordBits = 0

Threads == Allocators \cup {CleanThread}
Ids == 0..(MaxSize - 1)
Offsets == 0..(WordBits - 1)

VARIABLES
  size,            \* ids the pool has now
  array,           \* the words of the bitmap, as sets of offsets
  lock,            \* holder of the yield lock
  expand_returns,  \* what expand leaves in the return register on success
  pc,              \* where each thread is in the pool's code
  idx,             \* the word an allocator looks at next
  id,              \* the id a thread allocates or frees
  ele,             \* the word a thread has loaded to change a bit of it
  retry,           \* allocators in the attempt after an expansion
  copy,            \* the words bitmap_expand has copied
  live,            \* how many threads or processes carry each id
  raced,           \* what the threads of the first data race were doing
  exhausted        \* an allocation has reported success without an id

poolVars == <<size, array, lock, copy>>
threadVars == <<idx, id, ele, retry>>
vars == <<poolVars, threadVars, expand_returns, pc, live, raced, exhausted>>

INDEX_FROM_BIT(b) == b \div WordBits
OFFSET_FROM_BIT(b) == b % WordBits
Marked(b) == OFFSET_FROM_BIT(b) \in array[INDEX_FROM_BIT(b)]

Goto(t, l, m) == pc[t] = l /\ pc' = [pc EXCEPT ![t] = m]

\* The threads that lose something when t stores the word of its id: one that has
\* loaded the word, one that copies the array, or one that found the same bit free.
Clobbered(t) ==
  {u \in Threads \ {t} :
     \/ pc[u] = "store" /\ INDEX_FROM_BIT(id[u]) = INDEX_FROM_BIT(id[t])
     \/ pc[u] = "switch"
     \/ pc[u] = "load" /\ {t, u} \subseteq Allocators /\ id[u] = id[t]}

\* Is t in id_pool_free_id, in the locked or in the unlocked attempt to allocate?
Role(t) == IF t = CleanThread THEN "free" ELSE IF retry[t] THEN "retry" ELSE "first"

RaceWith(t, others) ==
  raced' = IF others = {} THEN {} ELSE {Role(u) : u \in others \cup {t}}

\* The call of t is over: its local variables are gone.
Return(t) ==
  /\ id' = [id EXCEPT ![t] = 0]
  /\ ele' = [ele EXCEPT ![t] = {}]
  /\ IF t \in Allocators
     THEN /\ idx' = [idx EXCEPT ![t] = 0]
          /\ retry' = [retry EXCEPT ![t] = FALSE]
     ELSE UNCHANGED <<idx, retry>>

-----------------------------------------------------------------------------
\* (locks that exclude nobody, and that are never released)
yieldlock_lock_always(t) == lock' = t
yieldlock_unlock_never == UNCHANGED lock

yieldlock_lock(t) == lock = NoThread /\ lock' = t
yieldlock_unlock == lock' = NoThread

\* id_pool_allocate_id takes the lock
id_pool_allocate_id(t) ==
  /\ Goto(t, "idle", "find")
  /\ yieldlock_lock(t)
  /\ UNCHANGED <<size, array, copy, threadVars, expand_returns, live, raced, exhausted>>

\* and bitmap_find_first_free looks at one word after the other.
FullWord(t) ==
  /\ idx[t] < size \div WordBits
  /\ array[idx[t]] = Offsets
  /\ Goto(t, "find", "find")
  /\ idx' = [idx EXCEPT ![t] = @ + 1]
  /\ UNCHANGED <<poolVars, id, ele, retry, expand_returns, live, raced, exhausted>>

FirstFree(word) == CHOOSE j \in Offsets \ word : \A k \in Offsets \ word : j <= k

FindsFree(t) ==
  /\ idx[t] < size \div WordBits
  /\ array[idx[t]] # Offsets
  /\ Goto(t, "find", "load")
  /\ id' = [id EXCEPT ![t] = idx[t] * WordBits + FirstFree(array[idx[t]])]
  /\ UNCHANGED <<poolVars, idx, ele, retry, expand_returns, live, raced, exhausted>>

\* The load of bitmap_set_bit and of bitmap_clear_bit.
LoadWord(t) ==
  /\ Goto(t, "load", "store")
  /\ ele' = [ele EXCEPT ![t] = array[INDEX_FROM_BIT(id[t])]]
  /\ UNCHANGED <<poolVars, idx, id, retry, expand_returns, live, raced, exhausted>>

\* The store of bitmap_set_bit.  Without the lock that is the end of the call, and the
\* caller has its id; with it the lock comes first.
bitmap_set_bit(t) ==
  /\ t \in Allocators
  /\ Goto(t, "store", IF retry[t] THEN "idle" ELSE "unlock")
  /\ array' = [array EXCEPT ![INDEX_FROM_BIT(id[t])] = ele[t] \cup {OFFSET_FROM_BIT(id[t])}]
  /\ IF retry[t]
     THEN live' = [live EXCEPT ![id[t]] = @ + 1] /\ Return(t)
     ELSE UNCHANGED <<live, threadVars>>
  /\ RaceWith(t, Clobbered(t))
  /\ UNCHANGED <<size, lock, copy, expand_returns, exhausted>>

ReturnsId(t) ==
  /\ Goto(t, "unlock", "idle")
  /\ yieldlock_unlock
  /\ live' = [live EXCEPT ![id[t]] = @ + 1]
  /\ Return(t)
  /\ UNCHANGED <<size, array, copy, expand_returns, raced, exhausted>>

-----------------------------------------------------------------------------
\* The search has failed: the attempt after an expansion returns false,
RetryFails(t) ==
  /\ retry[t]
  /\ idx[t] = size \div WordBits
  /\ Goto(t, "find", "idle")
  /\ Return(t)
  /\ UNCHANGED <<poolVars, expand_returns, live, raced, exhausted>>

\* a pool of max_size returns -1, which is true, and no id,
Exhausted(t) ==
  /\ ~retry[t]
  /\ idx[t] = size \div WordBits
  /\ size = MaxSize
  /\ Goto(t, "find", "idle")
  /\ yieldlock_unlock
  /\ exhausted' = TRUE
  /\ Return(t)
  /\ UNCHANGED <<size, array, copy, expand_returns, live, raced>>

\* and a smaller one is expanded: bitmap_expand copies the words
ExpandCopies(t) ==
  /\ ~retry[t]
  /\ idx[t] = size \div WordBits
  /\ size # MaxSize
  /\ Goto(t, "find", "switch")
  /\ copy' = array
  /\ UNCHANGED <<size, array, lock, threadVars, expand_returns, live, raced, exhausted>>

new_size == IF size + InitSize < MaxSize THEN size + InitSize ELSE MaxSize

\* (an expansion that forgets what is allocated)
expanded_array_cleared == [w \in 0..(new_size \div WordBits - 1) |-> {}]

expanded_array ==
  [w \in 0..(new_size \div WordBits - 1) |-> IF w \in DOMAIN copy THEN copy[w] ELSE {}]

\* and makes the copy the array.  expand has no return statement for this case: its
\* caller goes on, or returns false with the lock held.  (One step stands for the kfree of
\* the old array and the four stores behind it; an unlocked attempt that reads the freed
\* array between them is not told from one that reads it before.)
ExpandSwitches(t) ==
  /\ Goto(t, "switch", IF expand_returns THEN "expanded" ELSE "idle")
  /\ size' = new_size
  /\ array' = expanded_array
  /\ copy' = <<>>
  /\ RaceWith(t, {u \in Threads : pc[u] = "store"})
  /\ IF expand_returns THEN UNCHANGED threadVars ELSE Return(t)
  /\ UNCHANGED <<lock, expand_returns, live, exhausted>>

\* The lock is released before the second attempt.
RetryUnlocked(t) ==
  /\ Goto(t, "expanded", "find")
  /\ yieldlock_unlock
  /\ idx' = [idx EXCEPT ![t] = 0]
  /\ retry' = [retry EXCEPT ![t] = TRUE]
  /\ UNCHANGED <<size, array, copy, id, ele, expand_returns, live, raced, exhausted>>

-----------------------------------------------------------------------------
\* id_pool_free_id, called by destroy_thread or destroy_process for an id in use.
id_pool_free_id(b) ==
  /\ live[b] > 0
  /\ Goto(CleanThread, "idle", "load")
  /\ live' = [live EXCEPT ![b] = @ - 1]
  /\ id' = [id EXCEPT ![CleanThread] = b]
  /\ UNCHANGED <<poolVars, idx, ele, retry, expand_returns, raced, exhausted>>

Cleared(word, b) == word \ {OFFSET_FROM_BIT(b)}

\* The store of bitmap_clear_bit.
bitmap_clear_bit ==
  /\ Goto(CleanThread, "store", "idle")
  /\ array' = [array EXCEPT ![INDEX_FROM_BIT(id[CleanThread])] =
                 Cleared(ele[CleanThread], id[CleanThread])]
  /\ RaceWith(CleanThread, Clobbered(CleanThread))
  /\ Return(CleanThread)
  /\ UNCHANGED <<size, lock, copy, expand_returns, live, exhausted>>

-----------------------------------------------------------------------------
\* id_pool_init
Init ==
  /\ size = InitSize
  /\ array = [w \in 0..(InitSize \div WordBits - 1) |-> {}]
  /\ lock = NoThread
  /\ expand_returns \in BOOLEAN
  /\ pc = [t \in Threads |-> "idle"]
  /\ idx = [t \in Allocators |-> 0]
  /\ id = [t \in Threads |-> 0]
  /\ ele = [t \in Threads |-> {}]
  /\ retry = [t \in Allocators |-> FALSE]
  /\ copy = <<>>
  /\ live = [b \in Ids |-> 0]
  /\ raced = {}
  /\ exhausted = FALSE

AllocateStep(t) ==
  \/ FullWord(t) \/ FindsFree(t) \/ LoadWord(t) \/ bitmap_set_bit(t) \/ ReturnsId(t)
  \/ RetryFails(t) \/ Exhausted(t)
  \/ ExpandCopies(t) \/ ExpandSwitches(t) \/ RetryUnlocked(t)

FreeStep == LoadWord(CleanThread) \/ bitmap_clear_bit

Defined == raced = {} /\ ~exhausted

Next ==
  /\ Defined
  /\ \/ \E t \in Allocators : id_pool_allocate_id(t) \/ AllocateStep(t)
     \/ \E b \in Ids : id_pool_free_id(b)
     \/ FreeStep

Spec == Init /\ [][Next]_vars

\* A thread in the middle of a call runs again: every ready thread gets the processor.
FairSpec ==
  /\ Spec
  /\ \A t \in Allocators : WF_vars(Defined /\ AllocateStep(t))
  /\ WF_vars(Defined /\ FreeStep)

-----------------------------------------------------------------------------
\* The state has its types; the pool never grows past max_size.
IdPoolTypeOK ==
  /\ size \in InitSize..MaxSize
  /\ array \in [0..(size \div WordBits - 1) -> SUBSET Offsets]
  /\ lock \in Allocators \cup {NoThread}
  /\ expand_returns \in BOOLEAN
  /\ pc \in [Threads -> {"idle", "find", "load", "store", "unlock", "switch", "expanded"}]
  /\ idx \in [Allocators -> 0..(MaxSize \div WordBits)]
  /\ id \in [Threads -> Ids]
  /\ ele \in [Threads -> SUBSET Offsets]
  /\ retry \in [Allocators -> BOOLEAN]
  /\ live \in [Ids -> Nat]
  /\ raced \subseteq {"free", "first", "retry"}
  /\ exhausted \in BOOLEAN

\* Until a race, no two threads or processes carry the same id, and no id in use is
\* about to be handed out again (id_pool_allocate_id).
IdsUnique ==
  raced = {} =>
    \A b \in Ids :
      /\ live[b] <= 1
      /\ live[b] = 1 =>
           ~\E t \in Allocators : id[t] = b /\ pc[t] \in {"load", "store", "unlock"}

\* Until a race, the bitmap is the set of ids in use, those just allocated and those on
\* their way back: expansion loses none and none leaks.
MarkedIffInUse ==
  raced = {} =>
    \A b \in 0..(size - 1) :
      Marked(b) <=>
        \/ live[b] = 1
        \/ \E t \in Allocators : id[t] = b /\ pc[t] = "unlock"
        \/ id[CleanThread] = b /\ pc[CleanThread] \in {"load", "store"}

\* What id_pool_allocate_id and id_pool_free_id keep until a race, whatever the
\* interleaving: the pool fits its array, ids are unique and the bitmap is exact.
IdPoolInv == IdPoolTypeOK /\ IdsUnique /\ MarkedIffInUse

\* What the proofs need besides: outside the attempt after an expansion, an allocation
\* under way has the lock, and only the first attempt releases it or expands the pool,
LockCovers ==
  /\ pc[CleanThread] \in {"idle", "load", "store"}
  /\ \A t \in Allocators :
       /\ pc[t] # "idle" /\ ~retry[t] => lock = t
       /\ pc[t] \notin {"find", "load", "store"} => ~retry[t]

\* a thread that is about to change a bit has an id of the pool, and a loop over the
\* words stays in the array,
IdsInPool ==
  /\ size % WordBits = 0
  /\ \A t \in Threads : pc[t] \in {"load", "store", "unlock"} => id[t] < size
  /\ \A t \in Allocators : idx[t] <= size \div WordBits
  /\ \A b \in Ids : live[b] > 0 => b < size

\* until a race, what has been loaded or copied is still what the array has, the bit of
\* an id that is being allocated is still clear,
NothingStale ==
  raced = {} =>
    \A t \in Threads :
      /\ pc[t] = "store" => ele[t] = array[INDEX_FROM_BIT(id[t])]
      /\ pc[t] = "switch" => copy = array
      /\ t \in Allocators /\ pc[t] \in {"load", "store"} => ~Marked(id[t])

\* and an id on its way back is nobody's any more.
FreedIsUnused ==
  raced = {} /\ pc[CleanThread] \in {"load", "store"} =>
    /\ live[id[CleanThread]] = 0
    /\ ~\E t \in Allocators : id[t] = id[CleanThread] /\ pc[t] = "unlock"

\* The inductive invariant.
PoolInductive ==
  IdPoolInv /\ LockCovers /\ IdsInPool /\ NothingStale /\ FreedIsUnused

\* Two allocations never race while both are at their first attempt: a race needs the
\* unlocked id_pool_free_id or the unlocked attempt after an expansion.
RaceNeedsUnlocked ==
  raced # {"first"}

\* expand has returned "false" after it expanded, and its caller has left with the lock.
Abandoned(t) == lock = t /\ pc[t] = "idle" /\ ~expand_returns

\* The lock is given back, unless it is abandoned.
LockComesFree ==
  \A t \in Allocators : lock = t ~> (lock # t \/ Abandoned(t) \/ ~Defined)

==============================================================================
