---------------------------- MODULE IdPoolProofs -----------------------------
(***************************************************************************)
(* Proofs about IdPool, for any number of allocators, any word size and    *)
(* any sizes of the pool.                                                  *)
(***************************************************************************)
EXTENDS IdPool, WellFoundedInduction, TLAPS

-----------------------------------------------------------------------------
(***************************************************************************)
(* Ids and bits: the arithmetic of INDEX_FROM_BIT and OFFSET_FROM_BIT.     *)
(***************************************************************************)

\* Division by the bits of a word.
LEMMA Division ==
  ASSUME NEW a \in Nat, NEW n \in Nat \ {0}
  PROVE  /\ a \div n \in Nat
         /\ a % n \in 0..(n - 1)
         /\ a = n * (a \div n) + (a % n)
  OBVIOUS

\* Sizes that are whole words.
LEMMA WholeWords ==
  ASSUME NEW n \in Nat \ {0}, NEW a \in Nat, NEW c \in Nat, a % n = 0, c % n = 0
  PROVE  /\ (a + c) % n = 0
         /\ a <= c => a \div n <= c \div n
<1>1. a = n * (a \div n) /\ a \div n \in Nat
  BY Division
<1>2. c = n * (c \div n) /\ c \div n \in Nat
  BY Division
<1>3. ASSUME NEW k \in Nat, NEW m \in Nat
      PROVE  (n * k + n * m) % n = 0
  OBVIOUS
<1>4. ASSUME NEW k \in Nat, NEW m \in Nat, n * k <= n * m
      PROVE  k <= m
  BY <1>4
<1> QED
  BY <1>1, <1>2, <1>3, <1>4

\* An id has one bit of its own, in a word of the array when it is an id of the pool.
LEMMA BitOfId ==
  /\ \A b \in Ids : OFFSET_FROM_BIT(b) \in Offsets
  /\ \A b, c \in Ids :
       INDEX_FROM_BIT(b) = INDEX_FROM_BIT(c) /\ OFFSET_FROM_BIT(b) = OFFSET_FROM_BIT(c)
         => b = c
  /\ \A b \in Ids, n \in Nat :
       n % WordBits = 0 =>
         (b < n <=> INDEX_FROM_BIT(b) \in 0..(n \div WordBits - 1))
<1> USE IdPoolAssumption DEF INDEX_FROM_BIT, OFFSET_FROM_BIT, Ids, Offsets
<1>1. \A b \in Ids : b \in Nat
  OBVIOUS
<1>2. ASSUME NEW b \in Ids, NEW n \in Nat, n % WordBits = 0
      PROVE  b < n <=> b \div WordBits < n \div WordBits
  BY <1>1, <1>2
<1>3. ASSUME NEW b \in Ids, NEW c \in Ids,
             b \div WordBits = c \div WordBits, b % WordBits = c % WordBits
      PROVE  b = c
  <2>1. b = WordBits * (b \div WordBits) + (b % WordBits)
    BY <1>1, Division
  <2>2. c = WordBits * (c \div WordBits) + (c % WordBits)
    BY <1>1, Division
  <2> QED
    BY <1>3, <2>1, <2>2, Zenon
<1>4. \A b \in Ids : b % WordBits \in 0..(WordBits - 1) /\ b \div WordBits \in Nat
  BY <1>1, Division
<1>5. ASSUME NEW b \in Ids, NEW n \in Nat, n % WordBits = 0
      PROVE  b < n <=> b \div WordBits \in 0..(n \div WordBits - 1)
  <2>1. n \div WordBits \in Nat
    BY Division
  <2> QED
    BY <1>2, <1>4, <1>5, <2>1
<1> QED
  BY <1>3, <1>4, <1>5

\* A set of natural numbers that is not empty has a least element.
LEMMA LeastNatural ==
  ASSUME NEW S \in SUBSET Nat, S # {}
  PROVE  \E m \in S : \A k \in S : m <= k
<1>1. PICK R : IsWellFoundedOn(R, Nat) /\ \A k, m \in Nat : k < m => <<k, m>> \in R
  <2>1. \A k, m \in Nat : k < m => <<k, m>> \in OpToRel(<, Nat)
    BY DEF OpToRel
  <2> QED
    BY <2>1, NatLessThanWellFounded, Zenon
<1>2. S \subseteq Nat
  OBVIOUS
<1>3. PICK m \in S : \A k \in S : ~ (<<k, m>> \in R)
  <2>1. IsWellFoundedOn(R, Nat)
    BY <1>1
  <2> QED
    BY <2>1, <1>2, WFMin
<1>4. \A k \in S : ~(k < m)
  BY <1>1, <1>2, <1>3, Zenon
<1>5. \A k \in S : m <= k
  BY <1>2, <1>4
<1> QED
  BY <1>5

\* A word that is not full has a first free bit, and the id made of it is that bit.
LEMMA FreeBit ==
  ASSUME NEW n \in 0..MaxSize, n % WordBits = 0,
         NEW w \in 0..(n \div WordBits - 1),
         NEW word \in SUBSET Offsets, word # Offsets
  PROVE  LET b == w * WordBits + FirstFree(word)
         IN  /\ b \in Ids /\ b < n
             /\ INDEX_FROM_BIT(b) = w
             /\ OFFSET_FROM_BIT(b) \notin word
<1> USE IdPoolAssumption
<1> DEFINE j == FirstFree(word)
<1>1. j \in Offsets /\ j \notin word
  <2>1. PICK x \in Offsets : x \notin word
    BY Zenon
  <2>2. Offsets \ word \in SUBSET Nat /\ Offsets \ word # {}
    BY <2>1 DEF Offsets
  <2>3. \E m \in Offsets \ word : \A k \in Offsets \ word : m <= k
    BY <2>2, LeastNatural
  <2> QED
    BY <2>3, Zenon DEF FirstFree
<1> HIDE DEF j
<1>2. w \in Nat /\ j \in 0..(WordBits - 1) /\ n \in Nat
  BY <1>1, Division DEF Offsets
<1>3. (w * WordBits + j) \div WordBits = w /\ (w * WordBits + j) % WordBits = j
  BY <1>2
<1>4. w * WordBits + j \in Nat /\ w * WordBits + j < n
  <2>1. n = WordBits * (n \div WordBits)
    BY <1>2, Division
  <2>2. w + 1 <= n \div WordBits /\ n \div WordBits \in Nat
    BY <1>2, Division
  <2> QED
    BY <2>1, <2>2, <1>2
<1>5. w * WordBits + j \in Ids
  BY <1>4, <1>2 DEF Ids
<1> QED
  BY <1>1, <1>3, <1>4, <1>5 DEF INDEX_FROM_BIT, OFFSET_FROM_BIT, j


-----------------------------------------------------------------------------
(***************************************************************************)
(* What the steps have in common.                                          *)
(***************************************************************************)

\* The arithmetic behind the types: an id of the pool has its word in the array.
PoolArithmetic ==
  /\ size \in Nat /\ MaxSize \in Nat /\ 0 \in Ids
  /\ size \div WordBits \in Nat /\ MaxSize \div WordBits \in Nat
  /\ size \div WordBits <= MaxSize \div WordBits
  /\ \A b \in Ids : b \in Nat
  /\ \A b \in Ids : b < size =>
       /\ INDEX_FROM_BIT(b) \in 0..(size \div WordBits - 1)
       /\ array[INDEX_FROM_BIT(b)] \in SUBSET Offsets

\* They follow from the types.
LEMMA PoolFacts ==
  ASSUME IdPoolTypeOK, IdsInPool
  PROVE  PoolArithmetic
<1> USE IdPoolAssumption
<1>1. size \in Nat /\ size <= MaxSize /\ size % WordBits = 0
  BY DEF IdPoolTypeOK, IdsInPool
<1>2. size \div WordBits \in Nat /\ MaxSize \div WordBits \in Nat
  BY <1>1, Division
<1>3. size \div WordBits <= MaxSize \div WordBits
  BY <1>1, <1>2
<1>4. 0 \in Ids /\ \A b \in Ids : b \in Nat
  BY DEF Ids
<1>5. \A b \in Ids : b < size => INDEX_FROM_BIT(b) \in 0..(size \div WordBits - 1)
  BY <1>1, BitOfId
<1> QED
  BY <1>1, <1>2, <1>3, <1>4, <1>5 DEF IdPoolTypeOK, PoolArithmetic

\* The store of a word changes the marks of the ids in that word only.
LEMMA StoreWord ==
  ASSUME IdPoolTypeOK, IdsInPool,
         NEW i \in Ids, i < size,
         NEW word \in SUBSET Offsets,
         array' = [array EXCEPT ![INDEX_FROM_BIT(i)] = word]
  PROVE  /\ array' \in [0..(size \div WordBits - 1) -> SUBSET Offsets]
         /\ array'[INDEX_FROM_BIT(i)] = word
         /\ \A b \in Ids : b < size /\ INDEX_FROM_BIT(b) # INDEX_FROM_BIT(i) =>
              array'[INDEX_FROM_BIT(b)] = array[INDEX_FROM_BIT(b)]
<1>1. INDEX_FROM_BIT(i) \in 0..(size \div WordBits - 1)
  BY PoolFacts DEF PoolArithmetic
<1>2. \A b \in Ids : b < size => INDEX_FROM_BIT(b) \in 0..(size \div WordBits - 1)
  BY PoolFacts DEF PoolArithmetic
<1> QED
  BY <1>1, <1>2 DEF IdPoolTypeOK

\* The end of a call leaves the local variables of the other threads alone.
LEMMA ReturnResets ==
  ASSUME IdPoolTypeOK, IdsInPool, NEW t \in Threads, Return(t)
  PROVE  /\ id' \in [Threads -> Ids] /\ ele' \in [Threads -> SUBSET Offsets]
         /\ idx' \in [Allocators -> 0..(MaxSize \div WordBits)]
         /\ retry' \in [Allocators -> BOOLEAN]
         /\ \A u \in Allocators : idx'[u] <= size \div WordBits
         /\ \A u \in Threads : u # t => id'[u] = id[u] /\ ele'[u] = ele[u]
         /\ \A u \in Allocators : u # t => retry'[u] = retry[u]
         /\ t \in Allocators => ~retry'[t]
<1> USE DEF Return, IdPoolTypeOK
<1>1. /\ 0 \in Ids /\ 0 \in 0..(MaxSize \div WordBits)
      /\ 0 <= size \div WordBits /\ {} \in SUBSET Offsets
  BY PoolFacts DEF PoolArithmetic
<1>2. id' \in [Threads -> Ids] /\ ele' \in [Threads -> SUBSET Offsets]
  BY <1>1
<1>3. idx' \in [Allocators -> 0..(MaxSize \div WordBits)] /\ retry' \in [Allocators -> BOOLEAN]
  BY <1>1
<1>4. \A u \in Allocators : idx'[u] <= size \div WordBits
  BY <1>1 DEF IdsInPool
<1>5. /\ \A u \in Threads : u # t => id'[u] = id[u] /\ ele'[u] = ele[u]
      /\ \A u \in Allocators : u # t => retry'[u] = retry[u]
      /\ t \in Allocators => ~retry'[t]
  OBVIOUS
<1> QED
  BY <1>2, <1>3, <1>4, <1>5

\* A race is recorded as soon as there is somebody who loses something.
LEMMA RaceRecorded ==
  ASSUME NEW t \in Threads, NEW others \in SUBSET Threads, RaceWith(t, others)
  PROVE  /\ raced' \subseteq {"free", "first", "retry"}
         /\ raced' = {} => others = {}
         /\ raced' = {"first"} =>
              Role(t) = "first" /\ \E u \in others : Role(u) = "first"
<1>1. \A u : Role(u) \in {"free", "first", "retry"}
  BY DEF Role
<1>2. CASE others = {}
  BY <1>2 DEF RaceWith
<1>3. CASE others # {}
  <2>1. raced' = {Role(u) : u \in others \cup {t}}
    BY <1>3 DEF RaceWith
  <2>2. Role(t) \in raced' /\ \A u \in others : Role(u) \in raced'
    BY <2>1
  <2> QED
    BY <1>1, <1>3, <2>1, <2>2
<1> QED
  BY <1>2, <1>3

-----------------------------------------------------------------------------
(***************************************************************************)
(* Every step preserves the invariant.                                     *)
(***************************************************************************)

\* The lock is taken by an allocator that is outside the pool.
LEMMA AllocateTakesLock ==
  ASSUME PoolInductive, raced = {}, NEW t \in Allocators, id_pool_allocate_id(t)
  PROVE  PoolInductive'
<1> USE IdPoolAssumption
    DEF PoolInductive, IdPoolInv, Threads, Goto, poolVars, threadVars,
        id_pool_allocate_id, yieldlock_lock
<1>0. PoolArithmetic
  BY PoolFacts
<1> USE <1>0 DEF PoolArithmetic
<1>1. IdPoolTypeOK'
  BY DEF IdPoolTypeOK, LockCovers
<1>2. IdsUnique'
  BY DEF IdPoolTypeOK, IdsUnique
<1>3. MarkedIffInUse'
  BY DEF IdPoolTypeOK, MarkedIffInUse, LockCovers, Marked
<1>4. LockCovers'
  BY DEF IdPoolTypeOK, LockCovers
<1>5. IdsInPool'
  BY DEF IdPoolTypeOK, IdsInPool
<1>6. NothingStale'
  BY DEF IdPoolTypeOK, NothingStale, LockCovers, Marked
<1>7. FreedIsUnused'
  BY DEF IdPoolTypeOK, FreedIsUnused, LockCovers
<1> QED
  BY <1>1, <1>2, <1>3, <1>4, <1>5, <1>6, <1>7

\* The search goes on to the next word.
LEMMA FullWordStep ==
  ASSUME PoolInductive, raced = {}, NEW t \in Allocators, FullWord(t)
  PROVE  PoolInductive'
<1> USE IdPoolAssumption
    DEF PoolInductive, IdPoolInv, Threads, Goto, poolVars, threadVars,
        FullWord
<1>0. PoolArithmetic
  BY PoolFacts
<1> USE <1>0 DEF PoolArithmetic
<1>1. IdPoolTypeOK'
  BY SMTT(40) DEF IdPoolTypeOK, LockCovers
<1>2. IdsUnique'
  BY DEF IdPoolTypeOK, IdsUnique
<1>3. MarkedIffInUse'
  BY DEF IdPoolTypeOK, MarkedIffInUse, LockCovers, Marked
<1>4. LockCovers'
  BY DEF IdPoolTypeOK, LockCovers
<1>5. IdsInPool'
  BY SMTT(40) DEF IdPoolTypeOK, IdsInPool
<1>6. NothingStale'
  BY DEF IdPoolTypeOK, NothingStale, LockCovers, Marked
<1>7. FreedIsUnused'
  BY DEF IdPoolTypeOK, FreedIsUnused, LockCovers
<1> QED
  BY <1>1, <1>2, <1>3, <1>4, <1>5, <1>6, <1>7

\* The search ends at a bit that is clear.
LEMMA FindsFreeStep ==
  ASSUME PoolInductive, raced = {}, NEW t \in Allocators, FindsFree(t)
  PROVE  PoolInductive'
<1> USE IdPoolAssumption
    DEF PoolInductive, IdPoolInv, Threads, Goto, poolVars, threadVars,
        FindsFree
<1>0. PoolArithmetic
  BY PoolFacts
<1> USE <1>0 DEF PoolArithmetic
<1> DEFINE b == idx[t] * WordBits + FirstFree(array[idx[t]])
<1>a. /\ b \in Ids /\ b < size
      /\ INDEX_FROM_BIT(b) = idx[t] /\ OFFSET_FROM_BIT(b) \notin array[idx[t]]
  <2>1. /\ size \in 0..MaxSize /\ size % WordBits = 0
        /\ idx[t] \in 0..(size \div WordBits - 1)
        /\ array[idx[t]] \in SUBSET Offsets
    BY DEF IdPoolTypeOK, IdsInPool
  <2> QED
    BY <2>1, FreeBit
<1>b. ~Marked(b)
  BY <1>a DEF Marked
<1>c. id' = [id EXCEPT ![t] = b]
  OBVIOUS
<1> HIDE DEF b
<1>1. IdPoolTypeOK'
  BY <1>a, <1>c, SMTT(40) DEF IdPoolTypeOK, LockCovers
<1>2. IdsUnique'
  <2>1. live[b] # 1
    BY <1>a, <1>b DEF MarkedIffInUse, IdPoolTypeOK, Ids
  <2> QED
    BY <2>1, <1>c DEF IdPoolTypeOK, IdsUnique
<1>3. MarkedIffInUse'
  BY <1>c DEF IdPoolTypeOK, MarkedIffInUse, LockCovers, Marked
<1>4. LockCovers'
  BY DEF IdPoolTypeOK, LockCovers
<1>5. IdsInPool'
  BY <1>a, <1>c DEF IdPoolTypeOK, IdsInPool
<1>6. NothingStale'
  BY <1>b, <1>c DEF IdPoolTypeOK, NothingStale, LockCovers, Marked
<1>7. FreedIsUnused'
  BY <1>c DEF IdPoolTypeOK, FreedIsUnused, LockCovers
<1> QED
  BY <1>1, <1>2, <1>3, <1>4, <1>5, <1>6, <1>7

\* The load of a word takes it as it is.
LEMMA LoadWordStep ==
  ASSUME PoolInductive, raced = {}, NEW t \in Threads, LoadWord(t)
  PROVE  PoolInductive'
<1> USE IdPoolAssumption
    DEF PoolInductive, IdPoolInv, Threads, Goto, poolVars, threadVars,
        LoadWord
<1>0. PoolArithmetic
  BY PoolFacts
<1> USE <1>0 DEF PoolArithmetic
<1>1. IdPoolTypeOK'
  <2>1. id[t] \in Ids /\ id[t] < size
    BY DEF IdPoolTypeOK, IdsInPool
  <2>2. array[INDEX_FROM_BIT(id[t])] \in SUBSET Offsets
    BY <2>1
  <2> QED
    BY <2>2 DEF IdPoolTypeOK, LockCovers
<1>2. IdsUnique'
  BY DEF IdPoolTypeOK, IdsUnique
<1>3. MarkedIffInUse'
  BY DEF IdPoolTypeOK, MarkedIffInUse, LockCovers, Marked
<1>4. LockCovers'
  BY DEF IdPoolTypeOK, LockCovers
<1>5. IdsInPool'
  BY DEF IdPoolTypeOK, IdsInPool
<1>6. NothingStale'
  BY DEF IdPoolTypeOK, NothingStale, LockCovers, Marked
<1>7. FreedIsUnused'
  BY DEF IdPoolTypeOK, FreedIsUnused, LockCovers
<1> QED
  BY <1>1, <1>2, <1>3, <1>4, <1>5, <1>6, <1>7

\* An allocation marks its id, and ends there without the lock.
LEMMA SetBitStep ==
  ASSUME PoolInductive, raced = {}, NEW t \in Allocators, bitmap_set_bit(t)
  PROVE  PoolInductive'
<1> USE IdPoolAssumption
    DEF PoolInductive, IdPoolInv, Threads, Goto, poolVars, threadVars,
        bitmap_set_bit
<1>0. PoolArithmetic
  BY PoolFacts
<1> DEFINE w == INDEX_FROM_BIT(id[t])
<1>a. id[t] \in Ids /\ id[t] < size /\ id[t] \in 0..(size - 1)
  <2>1. id[t] \in Ids /\ id[t] < size
    BY DEF IdPoolTypeOK, IdsInPool
  <2> QED
    BY <2>1, <1>0 DEF PoolArithmetic
<1>b. array' = [array EXCEPT ![w] = array[w] \cup {OFFSET_FROM_BIT(id[t])}]
  BY DEF NothingStale
<1>c. /\ array' \in [0..(size \div WordBits - 1) -> SUBSET Offsets]
      /\ array'[w] = array[w] \cup {OFFSET_FROM_BIT(id[t])}
      /\ \A b \in Ids : b < size /\ INDEX_FROM_BIT(b) # w =>
           array'[INDEX_FROM_BIT(b)] = array[INDEX_FROM_BIT(b)]
  <2>1. array[w] \cup {OFFSET_FROM_BIT(id[t])} \in SUBSET Offsets
    BY <1>0, <1>a, BitOfId DEF PoolArithmetic
  <2> QED
    BY <1>a, <1>b, <2>1, StoreWord
<1>d. \A b \in Ids : b < size => (Marked(b)' <=> Marked(b) \/ b = id[t])
  BY <1>a, <1>c, BitOfId DEF Marked
<1>e. ~Marked(id[t]) /\ live[id[t]] = 0
  <2>1. ~Marked(id[t])
    BY DEF NothingStale
  <2> QED
    BY <2>1, <1>a DEF MarkedIffInUse, IdsUnique, IdPoolTypeOK
<1>f. /\ raced' \subseteq {"free", "first", "retry"}
      /\ raced' = {} => Clobbered(t) = {}
  BY RaceRecorded DEF Clobbered
<1>g. ASSUME raced' = {}, NEW u \in Threads, u # t
      PROVE  /\ pc[u] = "store" => INDEX_FROM_BIT(id[u]) # w
             /\ pc[u] # "switch"
             /\ pc[u] \in {"load", "store"} /\ u \in Allocators => id[u] # id[t]
  BY <1>f, <1>g DEF Clobbered
<1>h. /\ id' \in [Threads -> Ids] /\ ele' \in [Threads -> SUBSET Offsets]
      /\ idx' \in [Allocators -> 0..(MaxSize \div WordBits)]
      /\ retry' \in [Allocators -> BOOLEAN]
      /\ \A u \in Allocators : idx'[u] <= size \div WordBits
      /\ \A u \in Threads : u # t => id'[u] = id[u] /\ ele'[u] = ele[u]
      /\ \A u \in Allocators : u # t => retry'[u] = retry[u]
      /\ ~retry'[t]
      /\ retry[t] => pc'[t] = "idle"
      /\ ~retry[t] => pc'[t] = "unlock" /\ id'[t] = id[t]
      /\ \A u \in Threads : u # t => pc'[u] = pc[u]
  <2>1. /\ retry[t] => pc'[t] = "idle"
        /\ ~retry[t] => pc'[t] = "unlock"
        /\ \A u \in Threads : u # t => pc'[u] = pc[u]
    BY DEF IdPoolTypeOK
  <2>2. CASE retry[t]
    BY <2>1, <2>2, ReturnResets
  <2>3. CASE ~retry[t]
    BY <2>1, <2>3 DEF IdPoolTypeOK, IdsInPool
  <2> QED
    BY <2>2, <2>3
<1>i. /\ live' \in [Ids -> Nat]
      /\ \A b \in Ids : b # id[t] => live'[b] = live[b]
      /\ retry[t] => live'[id[t]] = 1
      /\ ~retry[t] => live'[id[t]] = 0
  <2>1. live \in [Ids -> Nat]
    BY DEF IdPoolTypeOK
  <2>2. CASE retry[t]
    BY <2>1, <2>2, <1>a, <1>e
  <2>3. CASE ~retry[t]
    BY <2>1, <2>3, <1>a, <1>e
  <2> QED
    BY <2>2, <2>3
<1> HIDE DEF w
<1>1. IdPoolTypeOK'
  BY <1>c, <1>f, <1>h, <1>i DEF IdPoolTypeOK
<1>2. IdsUnique'
  <2> SUFFICES ASSUME raced' = {}, NEW b \in Ids
               PROVE  /\ live'[b] <= 1
                      /\ live'[b] = 1 =>
                           ~\E u \in Allocators :
                              id'[u] = b /\ pc'[u] \in {"load", "store", "unlock"}
    BY DEF IdsUnique
  <2>1. CASE b # id[t]
    BY <2>1, <1>h, <1>i DEF IdsUnique
  <2>2. CASE b = id[t]
    <3>1. \A u \in Allocators : pc[u] = "unlock" => id[u] # id[t]
      BY <1>a, <1>e DEF MarkedIffInUse
    <3>2. \A u \in Allocators : u # t /\ pc[u] \in {"load", "store"} => id[u] # id[t]
      BY <1>g
    <3> QED
      BY <2>2, <3>1, <3>2, <1>h, <1>i
  <2> QED
    BY <2>1, <2>2
<1>3. MarkedIffInUse'
  <2> SUFFICES ASSUME raced' = {}, NEW b \in 0..(size - 1)
               PROVE  Marked(b)' <=>
                        \/ live'[b] = 1
                        \/ \E u \in Allocators : id'[u] = b /\ pc'[u] = "unlock"
                        \/ id'[CleanThread] = b /\ pc'[CleanThread] \in {"load", "store"}
    BY DEF MarkedIffInUse
  <2>1. b \in Ids /\ b < size
    BY <1>0 DEF PoolArithmetic, IdPoolTypeOK, Ids
  <2>2. CASE b = id[t]
    BY <2>1, <2>2, <1>d, <1>h, <1>i
  <2>3. CASE b # id[t]
    <3>1. Marked(b)' <=> Marked(b)
      BY <2>1, <2>3, <1>d
    <3> QED
      BY <2>1, <2>3, <3>1, <1>h, <1>i DEF MarkedIffInUse
  <2> QED
    BY <2>2, <2>3
<1>4. LockCovers'
  BY <1>h DEF LockCovers
<1>5. IdsInPool'
  BY <1>a, <1>h, <1>i DEF IdsInPool
<1>6. NothingStale'
  <2> SUFFICES ASSUME raced' = {}, NEW u \in Threads
               PROVE  /\ pc'[u] = "store" => ele'[u] = array'[INDEX_FROM_BIT(id[u])']
                      /\ pc'[u] = "switch" => copy' = array'
                      /\ u \in Allocators /\ pc'[u] \in {"load", "store"} =>
                           ~Marked(id[u])'
    BY DEF NothingStale
  <2>1. u = t => pc'[u] \notin {"store", "switch", "load"}
    BY <1>h
  <2>2. id[u] \in Ids /\ (pc[u] \in {"load", "store"} => id[u] < size)
    BY DEF IdPoolTypeOK, IdsInPool
  <2>3. u # t /\ pc[u] = "store" => ele[u] = array'[INDEX_FROM_BIT(id[u])]
    BY <2>2, <1>c, <1>g DEF NothingStale
  <2>4. ASSUME u # t, u \in Allocators, pc[u] \in {"load", "store"}, NEW b, b = id[u]
        PROVE  ~Marked(b)'
    <3>1. b \in Ids /\ b < size /\ b # id[t] /\ ~Marked(b)
      BY <2>2, <2>4, <1>g DEF NothingStale
    <3> QED
      BY <3>1, <1>d
  <2>5. u # t => id'[u] = id[u] /\ ele'[u] = ele[u] /\ pc'[u] = pc[u] /\ pc[u] # "switch"
    BY <1>g, <1>h
  <2> QED
    BY <2>1, <2>3, <2>4, <2>5 DEF Marked, INDEX_FROM_BIT
<1>7. FreedIsUnused'
  <2> SUFFICES ASSUME raced' = {}, pc[CleanThread] \in {"load", "store"}
               PROVE  /\ live'[id[CleanThread]] = 0
                      /\ ~\E u \in Allocators :
                            id'[u] = id[CleanThread] /\ pc'[u] = "unlock"
    BY <1>h DEF FreedIsUnused
  <2>1. id[CleanThread] # id[t]
    BY <1>a, <1>e DEF MarkedIffInUse
  <2> QED
    BY <2>1, <1>h, <1>i DEF FreedIsUnused, IdPoolTypeOK
<1> QED
  BY <1>1, <1>2, <1>3, <1>4, <1>5, <1>6, <1>7

\* The id goes to the caller and the lock is released.
LEMMA ReturnsIdStep ==
  ASSUME PoolInductive, raced = {}, NEW t \in Allocators, ReturnsId(t)
  PROVE  PoolInductive'
<1> USE IdPoolAssumption
    DEF PoolInductive, IdPoolInv, Threads, Goto, poolVars, threadVars,
        ReturnsId, yieldlock_unlock
<1>0. PoolArithmetic
  BY PoolFacts
<1>r. /\ id' \in [Threads -> Ids] /\ ele' \in [Threads -> SUBSET Offsets]
      /\ idx' \in [Allocators -> 0..(MaxSize \div WordBits)]
      /\ retry' \in [Allocators -> BOOLEAN]
      /\ \A u \in Allocators : idx'[u] <= size \div WordBits
      /\ \A u \in Threads : u # t => id'[u] = id[u] /\ ele'[u] = ele[u]
      /\ \A u \in Allocators : u # t => retry'[u] = retry[u]
      /\ ~retry'[t]
  <2>1. IdPoolTypeOK /\ IdsInPool /\ t \in Threads /\ Return(t)
    OBVIOUS
  <2> QED
    BY <2>1, ReturnResets
<1>a. id[t] \in Ids /\ id[t] < size /\ id[t] \in 0..(size - 1)
  <2>1. id[t] \in Ids /\ id[t] < size
    BY DEF IdPoolTypeOK, IdsInPool
  <2> QED
    BY <2>1, <1>0 DEF PoolArithmetic
<1>b. Marked(id[t]) /\ live[id[t]] = 0
  BY <1>a DEF MarkedIffInUse, IdsUnique, IdPoolTypeOK
<1>c. \A u \in Allocators : u # t /\ pc[u] \in {"load", "store", "unlock"} => id[u] # id[t]
  <2>1. \A u \in Allocators : u # t => pc[u] # "unlock"
    BY DEF LockCovers
  <2> QED
    BY <2>1, <1>b DEF NothingStale
<1>d. /\ live' \in [Ids -> Nat] /\ live'[id[t]] = 1
      /\ \A b \in Ids : b # id[t] => live'[b] = live[b]
  BY <1>a, <1>b DEF IdPoolTypeOK
<1>e. pc'[t] = "idle" /\ \A u \in Threads : u # t => pc'[u] = pc[u]
  BY DEF IdPoolTypeOK
<1>1. IdPoolTypeOK'
  BY <1>r, <1>d DEF IdPoolTypeOK
<1>2. IdsUnique'
  <2>1. \A b \in Ids : live'[b] <= 1
    BY <1>b, <1>d DEF IdsUnique
  <2> QED
    BY <2>1, <1>c, <1>d, <1>e, <1>r DEF IdsUnique
<1>3. MarkedIffInUse'
  <2> SUFFICES ASSUME NEW b \in 0..(size - 1)
               PROVE  Marked(b) <=>
                        \/ live'[b] = 1
                        \/ \E u \in Allocators : id'[u] = b /\ pc'[u] = "unlock"
                        \/ id'[CleanThread] = b /\ pc'[CleanThread] \in {"load", "store"}
    BY DEF MarkedIffInUse, Marked
  <2>1. b \in Ids
    BY <1>0 DEF PoolArithmetic, IdPoolTypeOK, Ids
  <2>2. CASE b = id[t]
    BY <2>2, <1>b, <1>d
  <2>3. CASE b # id[t]
    BY <2>1, <2>3, <1>d, <1>e, <1>r DEF MarkedIffInUse
  <2> QED
    BY <2>2, <2>3
<1>4. LockCovers'
  BY <1>e, <1>r DEF LockCovers
<1>5. IdsInPool'
  BY <1>a, <1>d, <1>e, <1>r DEF IdsInPool
<1>6. NothingStale'
  <2> SUFFICES ASSUME NEW u \in Threads
               PROVE  /\ pc'[u] = "store" => ele'[u] = array[INDEX_FROM_BIT(id'[u])]
                      /\ pc'[u] = "switch" => copy = array
                      /\ u \in Allocators /\ pc'[u] \in {"load", "store"} => ~Marked(id'[u])
    BY DEF NothingStale, Marked, INDEX_FROM_BIT, OFFSET_FROM_BIT
  <2> QED
    BY <1>e, <1>r DEF NothingStale
<1>7. FreedIsUnused'
  <2> SUFFICES ASSUME pc[CleanThread] \in {"load", "store"}
               PROVE  /\ live'[id[CleanThread]] = 0
                      /\ ~\E u \in Allocators : id'[u] = id[CleanThread] /\ pc'[u] = "unlock"
    BY <1>e, <1>r DEF FreedIsUnused
  <2>1. id[CleanThread] # id[t]
    BY DEF FreedIsUnused
  <2> QED
    BY <2>1, <1>d, <1>e, <1>r DEF FreedIsUnused, IdPoolTypeOK
<1> QED
  BY <1>1, <1>2, <1>3, <1>4, <1>5, <1>6, <1>7

\* The attempt after an expansion finds nothing.
LEMMA RetryFailsStep ==
  ASSUME PoolInductive, raced = {}, NEW t \in Allocators, RetryFails(t)
  PROVE  PoolInductive'
<1> USE IdPoolAssumption
    DEF PoolInductive, IdPoolInv, Threads, Goto, poolVars, threadVars,
        RetryFails
<1>0. PoolArithmetic
  BY PoolFacts
<1>r. /\ id' \in [Threads -> Ids] /\ ele' \in [Threads -> SUBSET Offsets]
      /\ idx' \in [Allocators -> 0..(MaxSize \div WordBits)]
      /\ retry' \in [Allocators -> BOOLEAN]
      /\ \A u \in Allocators : idx'[u] <= size \div WordBits
      /\ \A u \in Threads : u # t => id'[u] = id[u] /\ ele'[u] = ele[u]
      /\ \A u \in Allocators : u # t => retry'[u] = retry[u]
      /\ ~retry'[t]
  <2>1. IdPoolTypeOK /\ IdsInPool /\ t \in Threads /\ Return(t)
    OBVIOUS
  <2> QED
    BY <2>1, ReturnResets
<1>1. IdPoolTypeOK'
  BY <1>r DEF IdPoolTypeOK
<1>2. IdsUnique'
  BY <1>r DEF IdPoolTypeOK, IdsUnique
<1>3. MarkedIffInUse'
  <2>1. pc'[t] = "idle" /\ pc[t] = "find" /\ \A u \in Threads : u # t => pc'[u] = pc[u]
    BY DEF IdPoolTypeOK
  <2>2. \A b : Marked(b)' <=> Marked(b)
    BY DEF Marked
  <2> QED
    BY <1>r, <2>1, <2>2 DEF MarkedIffInUse
<1>4. LockCovers'
  BY <1>r DEF IdPoolTypeOK, LockCovers
<1>5. IdsInPool'
  BY <1>r DEF IdPoolTypeOK, IdsInPool
<1>6. NothingStale'
  BY <1>r DEF IdPoolTypeOK, NothingStale, Marked
<1>7. FreedIsUnused'
  BY <1>r DEF IdPoolTypeOK, FreedIsUnused
<1> QED
  BY <1>1, <1>2, <1>3, <1>4, <1>5, <1>6, <1>7

\* The pool is exhausted.
LEMMA ExhaustedStep ==
  ASSUME PoolInductive, raced = {}, NEW t \in Allocators, Exhausted(t)
  PROVE  PoolInductive'
<1> USE IdPoolAssumption
    DEF PoolInductive, IdPoolInv, Threads, Goto, poolVars, threadVars,
        Exhausted, yieldlock_unlock
<1>0. PoolArithmetic
  BY PoolFacts
<1>r. /\ id' \in [Threads -> Ids] /\ ele' \in [Threads -> SUBSET Offsets]
      /\ idx' \in [Allocators -> 0..(MaxSize \div WordBits)]
      /\ retry' \in [Allocators -> BOOLEAN]
      /\ \A u \in Allocators : idx'[u] <= size \div WordBits
      /\ \A u \in Threads : u # t => id'[u] = id[u] /\ ele'[u] = ele[u]
      /\ \A u \in Allocators : u # t => retry'[u] = retry[u]
      /\ ~retry'[t]
  <2>1. IdPoolTypeOK /\ IdsInPool /\ t \in Threads /\ Return(t)
    OBVIOUS
  <2> QED
    BY <2>1, ReturnResets
<1>1. IdPoolTypeOK'
  BY <1>r DEF IdPoolTypeOK
<1>2. IdsUnique'
  BY <1>r DEF IdPoolTypeOK, IdsUnique
<1>3. MarkedIffInUse'
  <2>1. pc'[t] = "idle" /\ pc[t] = "find" /\ \A u \in Threads : u # t => pc'[u] = pc[u]
    BY DEF IdPoolTypeOK
  <2>2. \A b : Marked(b)' <=> Marked(b)
    BY DEF Marked
  <2> QED
    BY <1>r, <2>1, <2>2 DEF MarkedIffInUse
<1>4. LockCovers'
  BY <1>r DEF IdPoolTypeOK, LockCovers
<1>5. IdsInPool'
  BY <1>r DEF IdPoolTypeOK, IdsInPool
<1>6. NothingStale'
  BY <1>r DEF IdPoolTypeOK, NothingStale, Marked
<1>7. FreedIsUnused'
  BY <1>r DEF IdPoolTypeOK, FreedIsUnused
<1> QED
  BY <1>1, <1>2, <1>3, <1>4, <1>5, <1>6, <1>7

\* The words are copied.
LEMMA ExpandCopiesStep ==
  ASSUME PoolInductive, raced = {}, NEW t \in Allocators, ExpandCopies(t)
  PROVE  PoolInductive'
<1> USE IdPoolAssumption
    DEF PoolInductive, IdPoolInv, Threads, Goto, poolVars, threadVars,
        ExpandCopies
<1>0. PoolArithmetic
  BY PoolFacts
<1> USE <1>0 DEF PoolArithmetic
<1>1. IdPoolTypeOK'
  BY DEF IdPoolTypeOK, LockCovers
<1>2. IdsUnique'
  BY DEF IdPoolTypeOK, IdsUnique
<1>3. MarkedIffInUse'
  BY DEF IdPoolTypeOK, MarkedIffInUse, LockCovers, Marked
<1>4. LockCovers'
  BY DEF IdPoolTypeOK, LockCovers
<1>5. IdsInPool'
  BY DEF IdPoolTypeOK, IdsInPool
<1>6. NothingStale'
  BY DEF IdPoolTypeOK, NothingStale, LockCovers, Marked
<1>7. FreedIsUnused'
  BY DEF IdPoolTypeOK, FreedIsUnused, LockCovers
<1> QED
  BY <1>1, <1>2, <1>3, <1>4, <1>5, <1>6, <1>7

\* The copy becomes the array.
LEMMA ExpandSwitchesStep ==
  ASSUME PoolInductive, raced = {}, NEW t \in Allocators, ExpandSwitches(t)
  PROVE  PoolInductive'
<1> USE IdPoolAssumption
    DEF PoolInductive, IdPoolInv, Threads, Goto, poolVars, threadVars,
        ExpandSwitches
<1>0. PoolArithmetic
  BY PoolFacts
<1> DEFINE n == new_size
<1>a. n \in InitSize..MaxSize /\ n >= size /\ n % WordBits = 0 /\ n \in Nat
  <2>1. size \in InitSize..MaxSize /\ size \in Nat /\ size % WordBits = 0
    BY DEF IdsInPool, IdPoolTypeOK
  <2>2. (size + InitSize) % WordBits = 0
    BY <2>1, WholeWords
  <2> QED
    BY <2>1, <2>2 DEF new_size
<1>b. size \div WordBits <= n \div WordBits /\ n \div WordBits \in Nat
  <2>1. size \in Nat /\ size % WordBits = 0
    BY DEF IdsInPool, IdPoolTypeOK
  <2>2. n \div WordBits \in Nat
    BY <1>a, Division
  <2> QED
    BY <1>a, <2>1, <2>2, WholeWords
<1>c. array' = [w \in 0..(n \div WordBits - 1) |->
                  IF w \in 0..(size \div WordBits - 1) THEN array[w] ELSE {}]
  <2>1. copy = array /\ DOMAIN copy = 0..(size \div WordBits - 1)
    BY DEF NothingStale, IdPoolTypeOK
  <2> QED
    BY <2>1 DEF expanded_array
<1>d. array' \in [0..(n \div WordBits - 1) -> SUBSET Offsets]
  BY <1>c DEF IdPoolTypeOK
<1>s. size' = n
  OBVIOUS
<1> HIDE DEF n
<1>e. ASSUME NEW b \in Ids
      PROVE  /\ b < size => (Marked(b)' <=> Marked(b))
             /\ b >= size /\ b < n => ~Marked(b)'
  <2>1. b < n => INDEX_FROM_BIT(b) \in 0..(n \div WordBits - 1)
    BY <1>a, BitOfId
  <2>2. b < size <=> INDEX_FROM_BIT(b) \in 0..(size \div WordBits - 1)
    BY <1>0, BitOfId DEF IdsInPool, PoolArithmetic
  <2>3. b \in Nat /\ size \in Nat /\ n \in Nat /\ n >= size
    BY <1>0, <1>a DEF PoolArithmetic
  <2>4. CASE b < size
    <3>1. array'[INDEX_FROM_BIT(b)] = array[INDEX_FROM_BIT(b)]
      BY <2>1, <2>2, <2>3, <2>4, <1>c
    <3> QED
      BY <2>3, <2>4, <3>1 DEF Marked
  <2>5. CASE b >= size /\ b < n
    <3>1. array'[INDEX_FROM_BIT(b)] = {}
      BY <2>1, <2>2, <2>3, <2>5, <1>c
    <3> QED
      BY <2>3, <2>5, <3>1 DEF Marked
  <2> QED
    BY <2>4, <2>5
<1>f. /\ raced' \subseteq {"free", "first", "retry"}
      /\ raced' = {} => \A u \in Threads : pc[u] # "store"
  <2> DEFINE others == {u \in Threads : pc[u] = "store"}
  <2>1. others \in SUBSET Threads /\ t \in Threads /\ RaceWith(t, others)
    OBVIOUS
  <2> HIDE DEF others
  <2>2. raced' \subseteq {"free", "first", "retry"} /\ (raced' = {} => others = {})
    BY <2>1, RaceRecorded
  <2> QED
    BY <2>2 DEF others
<1>h. /\ id' \in [Threads -> Ids] /\ ele' \in [Threads -> SUBSET Offsets]
      /\ idx' \in [Allocators -> 0..(MaxSize \div WordBits)]
      /\ retry' \in [Allocators -> BOOLEAN]
      /\ \A u \in Allocators : idx'[u] <= size \div WordBits
      /\ \A u \in Threads : u # t => id'[u] = id[u] /\ ele'[u] = ele[u]
      /\ \A u \in Allocators : u # t => retry'[u] = retry[u]
      /\ ~retry'[t]
      /\ pc'[t] \in {"expanded", "idle"} /\ (pc'[t] = "expanded" => lock = t)
      /\ \A u \in Threads : u # t => pc'[u] = pc[u]
  <2>1. /\ pc'[t] \in {"expanded", "idle"}
        /\ pc[t] = "switch"
        /\ \A u \in Threads : u # t => pc'[u] = pc[u]
    BY DEF IdPoolTypeOK
  <2>2. CASE expand_returns
    BY <2>1, <2>2, ZenonT(40) DEF IdPoolTypeOK, IdsInPool, LockCovers
  <2>3. CASE ~expand_returns
    <3>1. IdPoolTypeOK /\ IdsInPool /\ t \in Threads /\ Return(t)
      BY <2>3
    <3>2. pc'[t] = "idle"
      BY <2>3 DEF IdPoolTypeOK
    <3> QED
      BY <2>1, <3>1, <3>2, ReturnResets
  <2> QED
    BY <2>2, <2>3
<1>1. IdPoolTypeOK'
  BY <1>a, <1>d, <1>s, <1>f, <1>h DEF IdPoolTypeOK
<1>2. IdsUnique'
  BY <1>h DEF IdsUnique
<1>3. MarkedIffInUse'
  <2> SUFFICES ASSUME raced' = {}, NEW b \in 0..(n - 1)
               PROVE  Marked(b)' <=>
                        \/ live[b] = 1
                        \/ \E u \in Allocators : id'[u] = b /\ pc'[u] = "unlock"
                        \/ id'[CleanThread] = b /\ pc'[CleanThread] \in {"load", "store"}
    BY <1>s DEF MarkedIffInUse
  <2>1. b \in Ids /\ b \in Nat /\ b < n /\ size \in Nat
    BY <1>0, <1>a DEF PoolArithmetic, Ids
  <2>2. pc[t] = "switch" /\ CleanThread # t
    OBVIOUS
  <2>3. CASE b < size
    <3>1. Marked(b)' <=> Marked(b)
      BY <2>1, <2>3, <1>e
    <3>2. b \in 0..(size - 1)
      BY <2>1, <2>3
    <3> QED
      BY <2>2, <3>1, <3>2, <1>h DEF MarkedIffInUse
  <2>4. CASE b >= size
    <3>1. ~Marked(b)'
      BY <2>1, <2>4, <1>e
    <3>2. \A u \in Threads : pc[u] \in {"load", "store", "unlock"} => id[u] # b
      BY <2>1, <2>4 DEF IdsInPool
    <3>3. live[b] # 1
      BY <2>1, <2>4 DEF IdsInPool
    <3> QED
      BY <2>2, <3>1, <3>2, <3>3, <1>h
  <2> QED
    BY <2>1, <2>3, <2>4
<1>4. LockCovers'
  BY <1>h DEF LockCovers
<1>5. IdsInPool'
  <2>1. \A u \in Threads : pc'[u] \in {"load", "store", "unlock"} => id'[u] < n
    <3>1. ASSUME NEW u \in Threads, pc[u] \in {"load", "store", "unlock"}
          PROVE  id[u] < n
      <4>1. id[u] \in Nat /\ id[u] < size /\ size \in Nat /\ size <= n
        BY <3>1, <1>0, <1>a DEF IdsInPool, IdPoolTypeOK, PoolArithmetic
      <4> QED
        BY <4>1, <1>a
    <3> QED
      BY <3>1, <1>h
  <2>2. \A u \in Allocators : idx'[u] <= n \div WordBits
    BY <1>0, <1>b, <1>h DEF PoolArithmetic
  <2>3. ASSUME NEW b \in Ids, live[b] > 0
        PROVE  b < n
    <3>1. b \in Nat /\ b < size /\ size \in Nat /\ size <= n
      BY <2>3, <1>0, <1>a DEF IdsInPool, PoolArithmetic
    <3> QED
      BY <3>1, <1>a
  <2> QED
    BY <2>1, <2>2, <2>3, <1>a, <1>s DEF IdsInPool
<1>6. NothingStale'
  <2> SUFFICES ASSUME raced' = {}, NEW u \in Threads
               PROVE  /\ pc'[u] \notin {"store", "switch"}
                      /\ u \in Allocators /\ pc'[u] = "load" => ~Marked(id[u])'
    BY DEF NothingStale
  <2>1. u # t => pc[u] \notin {"store", "switch"}
    BY <1>f DEF LockCovers
  <2>2. ASSUME u # t, u \in Allocators, pc[u] = "load", NEW b, b = id[u]
        PROVE  ~Marked(b)'
    <3>1. b \in Ids /\ b < size /\ ~Marked(b)
      BY <2>2 DEF NothingStale, IdPoolTypeOK, IdsInPool
    <3> QED
      BY <3>1, <1>e
  <2> QED
    BY <2>1, <2>2, <1>h DEF Marked
<1>7. FreedIsUnused'
  BY <1>h DEF FreedIsUnused
<1> QED
  BY <1>1, <1>2, <1>3, <1>4, <1>5, <1>6, <1>7

\* The lock is released for the second attempt.
LEMMA RetryUnlockedStep ==
  ASSUME PoolInductive, raced = {}, NEW t \in Allocators, RetryUnlocked(t)
  PROVE  PoolInductive'
<1> USE IdPoolAssumption
    DEF PoolInductive, IdPoolInv, Threads, Goto, poolVars, threadVars,
        RetryUnlocked, yieldlock_unlock
<1>0. PoolArithmetic
  BY PoolFacts
<1> USE <1>0 DEF PoolArithmetic
<1>1. IdPoolTypeOK'
  BY DEF IdPoolTypeOK, LockCovers
<1>2. IdsUnique'
  BY DEF IdPoolTypeOK, IdsUnique
<1>3. MarkedIffInUse'
  BY DEF IdPoolTypeOK, MarkedIffInUse, LockCovers, Marked
<1>4. LockCovers'
  BY DEF IdPoolTypeOK, LockCovers
<1>5. IdsInPool'
  BY DEF IdPoolTypeOK, IdsInPool
<1>6. NothingStale'
  BY DEF IdPoolTypeOK, NothingStale, LockCovers, Marked
<1>7. FreedIsUnused'
  BY DEF IdPoolTypeOK, FreedIsUnused, LockCovers
<1> QED
  BY <1>1, <1>2, <1>3, <1>4, <1>5, <1>6, <1>7

\* An id in use is given back.
LEMMA FreeIdStep ==
  ASSUME PoolInductive, raced = {}, NEW b \in Ids, id_pool_free_id(b)
  PROVE  PoolInductive'
<1> USE IdPoolAssumption
    DEF PoolInductive, IdPoolInv, Threads, Goto, poolVars, threadVars,
        id_pool_free_id
<1>0. PoolArithmetic
  BY PoolFacts
<1> USE <1>0 DEF PoolArithmetic
<1>1. IdPoolTypeOK'
  BY DEF IdPoolTypeOK, LockCovers
<1>2. IdsUnique'
  BY DEF IdPoolTypeOK, IdsUnique, LockCovers
<1>3. MarkedIffInUse'
  BY DEF IdPoolTypeOK, IdsUnique, MarkedIffInUse, LockCovers, Marked
<1>4. LockCovers'
  BY DEF IdPoolTypeOK, LockCovers
<1>5. IdsInPool'
  BY DEF IdPoolTypeOK, IdsInPool
<1>6. NothingStale'
  BY DEF IdPoolTypeOK, NothingStale, LockCovers, Marked
<1>7. FreedIsUnused'
  BY DEF IdPoolTypeOK, IdsUnique, FreedIsUnused, LockCovers
<1> QED
  BY <1>1, <1>2, <1>3, <1>4, <1>5, <1>6, <1>7

\* An id on its way back is cleared.
LEMMA ClearBitStep ==
  ASSUME PoolInductive, raced = {}, bitmap_clear_bit
  PROVE  PoolInductive'
<1> USE IdPoolAssumption
    DEF PoolInductive, IdPoolInv, Threads, Goto, poolVars, threadVars,
        bitmap_clear_bit
<1>0. PoolArithmetic
  BY PoolFacts
<1> DEFINE i == id[CleanThread]
           w == INDEX_FROM_BIT(i)
<1>a. i \in Ids /\ i < size /\ i \in 0..(size - 1)
  <2>1. i \in Ids /\ i < size
    BY DEF IdPoolTypeOK, IdsInPool
  <2> QED
    BY <2>1, <1>0 DEF PoolArithmetic
<1>b. array' = [array EXCEPT ![w] = array[w] \ {OFFSET_FROM_BIT(i)}]
  BY DEF NothingStale, Cleared
<1>c. /\ array' \in [0..(size \div WordBits - 1) -> SUBSET Offsets]
      /\ array'[w] = array[w] \ {OFFSET_FROM_BIT(i)}
      /\ \A b \in Ids : b < size /\ INDEX_FROM_BIT(b) # w =>
           array'[INDEX_FROM_BIT(b)] = array[INDEX_FROM_BIT(b)]
  <2>1. array[w] \ {OFFSET_FROM_BIT(i)} \in SUBSET Offsets
    BY <1>0, <1>a DEF PoolArithmetic
  <2> QED
    BY <1>a, <1>b, <2>1, StoreWord
<1>d. \A b \in Ids : b < size => (Marked(b)' <=> Marked(b) /\ b # i)
  BY <1>a, <1>c, BitOfId DEF Marked
<1>f. /\ raced' \subseteq {"free", "first", "retry"}
      /\ raced' = {} => Clobbered(CleanThread) = {}
  BY RaceRecorded DEF Clobbered
<1>g. ASSUME raced' = {}, NEW u \in Threads, u # CleanThread
      PROVE  /\ pc[u] = "store" => INDEX_FROM_BIT(id[u]) # w
             /\ pc[u] # "switch"
  BY <1>f, <1>g DEF Clobbered
<1>r. /\ id' \in [Threads -> Ids] /\ ele' \in [Threads -> SUBSET Offsets]
      /\ idx' \in [Allocators -> 0..(MaxSize \div WordBits)]
      /\ retry' \in [Allocators -> BOOLEAN]
      /\ \A u \in Allocators : idx'[u] <= size \div WordBits
      /\ \A u \in Threads : u # CleanThread => id'[u] = id[u] /\ ele'[u] = ele[u]
      /\ \A u \in Allocators : u # CleanThread => retry'[u] = retry[u]
  <2>1. IdPoolTypeOK /\ IdsInPool /\ CleanThread \in Threads /\ Return(CleanThread)
    OBVIOUS
  <2> QED
    BY <2>1, ReturnResets
<1>h. /\ pc'[CleanThread] = "idle"
      /\ \A u \in Threads : u # CleanThread => pc'[u] = pc[u]
  BY DEF IdPoolTypeOK
<1>i. live[i] = 0 /\ ~\E u \in Allocators : id[u] = i /\ pc[u] = "unlock"
  BY DEF FreedIsUnused
<1> HIDE DEF i, w
<1>1. IdPoolTypeOK'
  BY <1>c, <1>f, <1>h, <1>r DEF IdPoolTypeOK
<1>2. IdsUnique'
  BY <1>h, <1>r DEF IdsUnique
<1>3. MarkedIffInUse'
  <2> SUFFICES ASSUME raced' = {}, NEW b \in 0..(size - 1)
               PROVE  Marked(b)' <=>
                        \/ live[b] = 1
                        \/ \E u \in Allocators : id'[u] = b /\ pc'[u] = "unlock"
                        \/ id'[CleanThread] = b /\ pc'[CleanThread] \in {"load", "store"}
    BY DEF MarkedIffInUse
  <2>1. b \in Ids /\ b < size
    BY <1>0 DEF PoolArithmetic, IdPoolTypeOK, Ids
  <2>2. CASE b = i
    BY <2>1, <2>2, <1>d, <1>h, <1>i, <1>r
  <2>3. CASE b # i
    <3>1. Marked(b)' <=> Marked(b)
      BY <2>1, <2>3, <1>d
    <3>2. id[CleanThread] # b
      BY <2>3 DEF i
    <3> QED
      BY <3>1, <3>2, <1>h, <1>r DEF MarkedIffInUse
  <2> QED
    BY <2>2, <2>3
<1>4. LockCovers'
  BY <1>h, <1>r DEF LockCovers
<1>5. IdsInPool'
  BY <1>h, <1>r DEF IdsInPool
<1>6. NothingStale'
  <2> SUFFICES ASSUME raced' = {}, NEW u \in Threads
               PROVE  /\ pc'[u] = "store" => ele'[u] = array'[INDEX_FROM_BIT(id[u])']
                      /\ pc'[u] = "switch" => copy' = array'
                      /\ u \in Allocators /\ pc'[u] \in {"load", "store"} =>
                           ~Marked(id[u])'
    BY DEF NothingStale
  <2>1. u = CleanThread => pc'[u] = "idle"
    BY <1>h
  <2>2. id[u] \in Ids /\ (pc[u] \in {"load", "store"} => id[u] < size)
    BY DEF IdPoolTypeOK, IdsInPool
  <2>3. u # CleanThread /\ pc[u] = "store" => ele[u] = array'[INDEX_FROM_BIT(id[u])]
    BY <2>2, <1>c, <1>g DEF NothingStale
  <2>4. ASSUME u # CleanThread, u \in Allocators, pc[u] \in {"load", "store"},
               NEW b, b = id[u]
        PROVE  ~Marked(b)'
    <3>1. b \in Ids /\ b < size /\ ~Marked(b)
      BY <2>2, <2>4 DEF NothingStale
    <3> QED
      BY <3>1, <1>d
  <2>5. u # CleanThread =>
          id'[u] = id[u] /\ ele'[u] = ele[u] /\ pc'[u] = pc[u] /\ pc[u] # "switch"
    BY <1>g, <1>h, <1>r
  <2> QED
    BY <2>1, <2>3, <2>4, <2>5 DEF Marked, INDEX_FROM_BIT
<1>7. FreedIsUnused'
  BY <1>h DEF FreedIsUnused
<1> QED
  BY <1>1, <1>2, <1>3, <1>4, <1>5, <1>6, <1>7

-----------------------------------------------------------------------------
(***************************************************************************)
(* The theorems.                                                           *)
(***************************************************************************)

\* id_pool_init establishes the invariant.
LEMMA PoolInit ==
  ASSUME Init
  PROVE  PoolInductive /\ RaceNeedsUnlocked
<1> USE IdPoolAssumption DEF Init, Threads
<1>1. /\ size \in InitSize..MaxSize /\ size % WordBits = 0
      /\ 0 \in Ids /\ 0 \in 0..(MaxSize \div WordBits) /\ 0 <= size \div WordBits
  <2>1. MaxSize \div WordBits \in Nat /\ InitSize \div WordBits \in Nat
    BY Division
  <2> QED
    BY <2>1 DEF Ids
<1>2. IdPoolTypeOK
  BY <1>1 DEF IdPoolTypeOK
<1>3. IdsUnique
  BY DEF IdsUnique
<1>4. MarkedIffInUse
  <2> SUFFICES ASSUME NEW b \in 0..(size - 1)
               PROVE  ~Marked(b) /\ live[b] # 1
    BY DEF MarkedIffInUse
  <2>1. b \in Ids /\ b < size /\ size \in Nat
    BY <1>1 DEF Ids
  <2>2. INDEX_FROM_BIT(b) \in 0..(size \div WordBits - 1)
    BY <1>1, <2>1, BitOfId
  <2> QED
    BY <2>1, <2>2 DEF Marked
<1>5. LockCovers /\ NothingStale /\ FreedIsUnused
  BY DEF LockCovers, NothingStale, FreedIsUnused
<1>6. IdsInPool
  BY <1>1 DEF IdsInPool
<1>7. RaceNeedsUnlocked
  BY DEF RaceNeedsUnlocked
<1> QED
  BY <1>2, <1>3, <1>4, <1>5, <1>6, <1>7 DEF PoolInductive, IdPoolInv

\* Every step of the allocators and of the clean thread preserves it.
LEMMA PoolNext ==
  ASSUME PoolInductive, [Next]_vars
  PROVE  PoolInductive'
<1>1. CASE Next
  <2> USE <1>1
  <2>1. raced = {}
    BY DEF Next, Defined
  <2>2. ASSUME NEW t \in Allocators, id_pool_allocate_id(t)
        PROVE  PoolInductive'
    BY <2>1, <2>2, AllocateTakesLock
  <2>3. ASSUME NEW t \in Allocators, AllocateStep(t)
        PROVE  PoolInductive'
    <3>1. CASE FullWord(t)
      BY <2>1, <3>1, FullWordStep
    <3>2. CASE FindsFree(t)
      BY <2>1, <3>2, FindsFreeStep
    <3>3. CASE LoadWord(t)
      BY <2>1, <3>3, LoadWordStep DEF Threads
    <3>4. CASE bitmap_set_bit(t)
      BY <2>1, <3>4, SetBitStep
    <3>5. CASE ReturnsId(t)
      BY <2>1, <3>5, ReturnsIdStep
    <3>6. CASE RetryFails(t)
      BY <2>1, <3>6, RetryFailsStep
    <3>7. CASE Exhausted(t)
      BY <2>1, <3>7, ExhaustedStep
    <3>8. CASE ExpandCopies(t)
      BY <2>1, <3>8, ExpandCopiesStep
    <3>9. CASE ExpandSwitches(t)
      BY <2>1, <3>9, ExpandSwitchesStep
    <3>10. CASE RetryUnlocked(t)
      BY <2>1, <3>10, RetryUnlockedStep
    <3> QED
      BY <2>3, <3>1, <3>2, <3>3, <3>4, <3>5, <3>6, <3>7, <3>8, <3>9, <3>10
      DEF AllocateStep
  <2>4. ASSUME NEW b \in Ids, id_pool_free_id(b)
        PROVE  PoolInductive'
    BY <2>1, <2>4, FreeIdStep
  <2>5. ASSUME FreeStep
        PROVE  PoolInductive'
    <3>1. CASE LoadWord(CleanThread)
      BY <2>1, <3>1, LoadWordStep DEF Threads
    <3>2. CASE bitmap_clear_bit
      BY <2>1, <3>2, ClearBitStep
    <3> QED
      BY <2>5, <3>1, <3>2 DEF FreeStep
  <2> QED
    BY <2>2, <2>3, <2>4, <2>5 DEF Next
<1>2. CASE UNCHANGED vars
  BY <1>2 DEF vars, poolVars, threadVars, PoolInductive, IdPoolInv, IdPoolTypeOK, IdsUnique,
              MarkedIffInUse, Marked, LockCovers, IdsInPool, NothingStale, FreedIsUnused
<1> QED
  BY <1>1, <1>2

\* The lock keeps two first attempts apart, whatever word they are at.
LEMMA FirstAttemptsExcluded ==
  ASSUME PoolInductive,
         NEW t \in Threads, NEW others \in SUBSET Threads, RaceWith(t, others),
         pc[t] # "idle", \A u \in others : u # t /\ pc[u] # "idle"
  PROVE  raced' # {"first"}
<1> SUFFICES ASSUME raced' = {"first"}
             PROVE  FALSE
  OBVIOUS
<1>1. Role(t) = "first" /\ \E u \in others : Role(u) = "first"
  BY RaceRecorded
<1>2. PICK u \in others : Role(u) = "first"
  BY <1>1
<1>3. t \in Allocators /\ ~retry[t] /\ u \in Allocators /\ ~retry[u]
  BY <1>1, <1>2 DEF Role, Threads
<1>4. lock = t /\ lock = u
  BY <1>2, <1>3 DEF PoolInductive, LockCovers
<1> QED
  BY <1>2, <1>4

\* No step records a race between first attempts.
LEMMA RaceStep ==
  ASSUME PoolInductive, RaceNeedsUnlocked, [Next]_vars
  PROVE  RaceNeedsUnlocked'
<1> USE DEF RaceNeedsUnlocked
<1>1. CASE raced' = raced
  BY <1>1
<1>2. ASSUME NEW t \in Threads, pc[t] = "store", RaceWith(t, Clobbered(t))
      PROVE  RaceNeedsUnlocked'
  <2>1. Clobbered(t) \in SUBSET Threads /\ \A u \in Clobbered(t) : u # t /\ pc[u] # "idle"
    BY DEF Clobbered
  <2> QED
    BY <1>2, <2>1, FirstAttemptsExcluded
<1>3. ASSUME NEW t \in Threads, pc[t] = "switch",
             RaceWith(t, {u \in Threads : pc[u] = "store"})
      PROVE  RaceNeedsUnlocked'
  <2> DEFINE others == {u \in Threads : pc[u] = "store"}
  <2>1. others \in SUBSET Threads /\ \A u \in others : u # t /\ pc[u] # "idle"
    BY <1>3
  <2>2. RaceWith(t, others)
    BY <1>3
  <2> HIDE DEF others
  <2> QED
    BY <1>3, <2>1, <2>2, FirstAttemptsExcluded
<1>4. CASE Next
  <2>1. ASSUME NEW t \in Allocators, id_pool_allocate_id(t) \/ AllocateStep(t)
        PROVE  RaceNeedsUnlocked'
    <3>1. CASE bitmap_set_bit(t)
      BY <3>1, <1>2 DEF bitmap_set_bit, Goto, Threads
    <3>2. CASE ExpandSwitches(t)
      BY <3>2, <1>3 DEF ExpandSwitches, Goto, Threads
    <3> QED
      BY <2>1, <3>1, <3>2, <1>1
      DEF AllocateStep, id_pool_allocate_id, FullWord, FindsFree, LoadWord, ReturnsId,
          RetryFails, Exhausted, ExpandCopies, RetryUnlocked
  <2>2. ASSUME NEW b \in Ids, id_pool_free_id(b)
        PROVE  RaceNeedsUnlocked'
    BY <2>2, <1>1 DEF id_pool_free_id
  <2>3. ASSUME FreeStep
        PROVE  RaceNeedsUnlocked'
    BY <2>3, <1>1, <1>2 DEF FreeStep, LoadWord, bitmap_clear_bit, Goto, Threads
  <2> QED
    BY <1>4, <2>1, <2>2, <2>3 DEF Next
<1>5. CASE UNCHANGED vars
  BY <1>5, <1>1 DEF vars
<1> QED
  BY <1>4, <1>5

\* The inductive invariant of the pool: what the lock covers, and what is not stale while
\* no race has been recorded, for the whole of id_pool.c and bitmap.c.
THEOREM PoolInvariant == Spec => [](PoolInductive /\ RaceNeedsUnlocked)
<1>1. Init => PoolInductive /\ RaceNeedsUnlocked
  BY PoolInit
<1>2. PoolInductive /\ RaceNeedsUnlocked /\ [Next]_vars
        => (PoolInductive /\ RaceNeedsUnlocked)'
  BY PoolNext, RaceStep
<1> QED
  BY <1>1, <1>2, PTL DEF Spec

\* The types, the uniqueness of the ids in use and the exactness of the bitmap, up to the
\* first race, for any allocators, word size and sizes of the pool.
THEOREM PoolIsExact == Spec => []IdPoolInv
<1>1. PoolInductive => IdPoolInv
  BY DEF PoolInductive
<1> QED
  BY <1>1, PoolInvariant, PTL

\* Without id_pool_free_id and without an expansion there is no race: two allocations at
\* their first attempt exclude each other by the yield lock.
THEOREM RacesAreUnlocked == Spec => []RaceNeedsUnlocked
  BY PoolInvariant, PTL

==============================================================================
