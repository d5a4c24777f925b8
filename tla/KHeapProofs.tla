---------------------------- MODULE KHeapProofs ------------------------------
(***************************************************************************)
(* Proofs about KHeap, for any page size, any sizes of headers and         *)
(* footers, any heap and any requests.                                     *)
(***************************************************************************)
EXTENDS KHeap, FiniteSetTheorems, SequenceTheorems, WellFoundedInduction, TLAPS

-----------------------------------------------------------------------------
(* The inductive invariant.                                                *)

\* What is in an array, that nothing is in it twice, and that it is ordered by size.
Entries(array) == {array[i] : i \in 1..Len(array)}
Unique(array) == \A i, j \in 1..Len(array) : array[i] = array[j] => i = j
Ordered(h, array) ==
  \A i, j \in 1..Len(array) :
    i <= j => h.header[array[i]].size <= h.header[array[j]].size

HolesOf(h) == {a \in DOMAIN h.header : h.header[a].is_hole}

\* The entries are holes, each of them once and the small ones first.  A hole may be
\* missing: ordered_array_insert drops it when the array is full.
Listed(h, array) ==
  /\ array \in Seq(Int)
  /\ Unique(array)
  /\ Entries(array) \subseteq HolesOf(h)
  /\ Ordered(h, array)

\* The blocks from StartAddress to e, apart from the addresses from g up to k, follow
\* each other without a gap and have their footers.  In between is memory that alloc or
\* free is about to give new headers and footers; it ignores those left there.
Outside(h, g, k) == DOMAIN h.header \ (g .. k - 1)
BlockFits(h, e, g, k, a) ==
  /\ StartAddress <= a
  /\ BlockEnd(h, a) <= e
  /\ BlockEnd(h, a) \in Outside(h, g, k) \cup {g, e}
  /\ a < g => BlockEnd(h, a) <= g
  /\ BlockEnd(h, a) - FooterSize \in DOMAIN h.footer
  /\ h.footer[BlockEnd(h, a) - FooterSize] = a
Tiled(h, e, g, k) ==
  /\ h.header \in [DOMAIN h.header -> [size : Nat \ {0}, is_hole : BOOLEAN]]
  /\ DOMAIN h.header \subseteq Int
  /\ DOMAIN h.footer \subseteq Int
  /\ StartAddress <= g
  /\ StartAddress \in Outside(h, g, k) \cup {g}
  /\ k \in Outside(h, g, k) \cup {e}
  /\ \A a \in Outside(h, g, k) : BlockFits(h, e, g, k, a)
  /\ \A a, b \in Outside(h, g, k) : a < b => BlockEnd(h, a) <= b
  /\ \A f \in DOMAIN h.footer \ (g .. k - 1) :
       /\ h.footer[f] \in Outside(h, g, k)
       /\ f = BlockEnd(h, h.footer[f]) - FooterSize
  /\ e - FooterSize \in DOMAIN h.footer \/ (g < k /\ k = e)

\* The callers hold the blocks that are no holes, and have asked for no more than these.
LiveFits ==
  /\ DOMAIN live = {a + HeaderSize : a \in Headers \ Holes}
  /\ \A a \in Headers \ Holes :
       live[a + HeaderSize] \in Nat /\ live[a + HeaderSize] <= heap.header[a].size

HeapInv ==
  /\ end_address \in Int /\ end_address <= MaxAddress
  /\ Tiled(heap, end_address, end_address, end_address)
  /\ Listed(heap, index)
  /\ HolesMerged
  /\ LiveFits
  /\ request = {} \/ \E r \in Requests : request = {r}

\* Besides, as long as the index has never been full: no hole is missing.
IndexComplete == Holes \subseteq Entries(index) /\ panic # "assert_failed"

-----------------------------------------------------------------------------
(* The array.                                                              *)

LEMMA RemoveEntry ==
  ASSUME NEW array \in Seq(Int), NEW i \in 1..Len(array)
  PROVE  LET new == ordered_array_remove(array, i)
         IN  /\ new \in Seq(Int)
             /\ Len(new) = Len(array) - 1
             /\ \A j \in 1..Len(new) : new[j] = IF j < i THEN array[j] ELSE array[j + 1]
<1> DEFINE left == SubSeq(array, 1, i - 1)
           right == SubSeq(array, i + 1, Len(array))
           new == left \o right
<1>1. left \in Seq(Int) /\ Len(left) = i - 1 /\ \A j \in 1..(i - 1) : left[j] = array[j]
  OBVIOUS
<1>2. /\ right \in Seq(Int) /\ Len(right) = Len(array) - i
      /\ \A j \in 1..(Len(array) - i) : right[j] = array[i + j]
  OBVIOUS
<1> HIDE DEF left, right
<1>3. /\ new \in Seq(Int) /\ Len(new) = Len(array) - 1
      /\ \A j \in 1..Len(new) : j < i => new[j] = left[j]
      /\ \A j \in 1..Len(new) : j >= i => new[j] = right[j - Len(left)]
  <2>1. /\ new \in Seq(Int)
        /\ Len(new) = Len(left) + Len(right)
        /\ \A j \in 1..(Len(left) + Len(right)) :
             new[j] = IF j <= Len(left) THEN left[j] ELSE right[j - Len(left)]
    BY <1>1, <1>2, ConcatProperties, Zenon
  <2> HIDE DEF new
  <2>2. Len(left) = i - 1 /\ Len(right) = Len(array) - i /\ Len(array) \in Nat
    BY <1>1, <1>2
  <2>3. Len(new) = Len(array) - 1
    BY <2>1, <2>2
  <2>4. ASSUME NEW j \in 1..Len(new)
        PROVE  /\ j < i => new[j] = left[j]
               /\ j >= i => new[j] = right[j - Len(left)]
    <3>1. j \in 1..(Len(left) + Len(right))
      BY <2>1
    <3>2. new[j] = IF j <= Len(left) THEN left[j] ELSE right[j - Len(left)]
      BY <2>1, <3>1
    <3> QED
      BY <2>2, <3>2
  <2> QED
    BY <2>1, <2>3, <2>4
<1> HIDE DEF new
<1>4. ASSUME NEW j \in 1..Len(new)
      PROVE  new[j] = IF j < i THEN array[j] ELSE array[j + 1]
  <2>1. CASE j < i
    <3>1. new[j] = left[j] /\ j \in 1..(i - 1)
      BY <2>1, <1>3
    <3>2. left[j] = array[j]
      BY <1>1, <3>1
    <3> QED
      BY <2>1, <3>1, <3>2
  <2>2. CASE j >= i
    <3>1. new[j] = right[j - Len(left)]
      BY <2>2, <1>3
    <3>2. Len(left) = i - 1
      BY <1>1
    <3>3. j - (i - 1) \in 1..(Len(array) - i)
      BY <2>2, <1>3
    <3>4. right[j - (i - 1)] = array[i + (j - (i - 1))]
      BY <3>3, <1>2
    <3>5. i + (j - (i - 1)) = j + 1
      OBVIOUS
    <3> QED
      BY <2>2, <3>1, <3>2, <3>4, <3>5
  <2> QED
    BY <2>1, <2>2
<1> QED
  BY <1>3, <1>4 DEF ordered_array_remove, RemoveAt, left, right, new

LEMMA InsertEntry ==
  ASSUME NEW array \in Seq(Int), NEW i \in 1..(Len(array) + 1), NEW item \in Int
  PROVE  LET new == InsertAt(array, i, item)
         IN  /\ new \in Seq(Int)
             /\ Len(new) = Len(array) + 1
             /\ \A j \in 1..Len(new) :
                  new[j] = IF j < i THEN array[j]
                           ELSE IF j = i THEN item ELSE array[j - 1]
<1> DEFINE left == SubSeq(array, 1, i - 1)
           right == SubSeq(array, i, Len(array))
<1>1. left \in Seq(Int) /\ Len(left) = i - 1 /\ \A j \in 1..(i - 1) : left[j] = array[j]
  OBVIOUS
<1>2. /\ right \in Seq(Int) /\ Len(right) = Len(array) + 1 - i
      /\ \A j \in 1..(Len(array) + 1 - i) : right[j] = array[i + j - 1]
  OBVIOUS
<1> DEFINE front == left \o <<item>>
<1>3. /\ front \in Seq(Int) /\ Len(front) = i /\ front[i] = item
      /\ \A j \in 1..(i - 1) : front[j] = array[j]
  BY <1>1
<1> HIDE DEF left, right, front
<1> DEFINE new == front \o right
<1>4. /\ new \in Seq(Int) /\ Len(new) = Len(array) + 1
      /\ \A j \in 1..Len(new) : new[j] = IF j <= i THEN front[j] ELSE right[j - i]
  <2>1. /\ new \in Seq(Int)
        /\ Len(new) = Len(front) + Len(right)
        /\ \A j \in 1..(Len(front) + Len(right)) :
             new[j] = IF j <= Len(front) THEN front[j] ELSE right[j - Len(front)]
    BY <1>2, <1>3, ConcatProperties, Zenon
  <2> HIDE DEF new
  <2> QED
    BY <2>1, <1>2, <1>3
<1> HIDE DEF new
<1>5. ASSUME NEW j \in 1..(Len(array) + 1)
      PROVE  new[j] = IF j < i THEN array[j] ELSE IF j = i THEN item ELSE array[j - 1]
  <2>1. CASE j <= i
    BY <2>1, <1>3, <1>4
  <2>2. CASE j > i
    <3>1. new[j] = right[j - i]
      BY <2>2, <1>4
    <3>2. j - i \in 1..(Len(array) + 1 - i)
      BY <2>2
    <3>3. right[j - i] = array[i + (j - i) - 1]
      BY <3>2, <1>2
    <3> QED
      BY <2>2, <3>1, <3>3
  <2> QED
    BY <2>1, <2>2
<1> QED
  BY <1>4, <1>5 DEF InsertAt, left, right, front, new

\* Removing an entry from a list of holes.
LEMMA RemoveListed ==
  ASSUME NEW array \in Seq(Int), NEW i \in 1..Len(array), Unique(array)
  PROVE  LET new == ordered_array_remove(array, i)
         IN  /\ new \in Seq(Int)
             /\ Len(new) = Len(array) - 1
             /\ Unique(new)
             /\ Entries(new) = Entries(array) \ {array[i]}
             /\ \A h : Ordered(h, array) => Ordered(h, new)
<1> DEFINE new == ordered_array_remove(array, i)
           from == [j \in 1..Len(new) |-> IF j < i THEN j ELSE j + 1]
<1>1. /\ new \in Seq(Int) /\ Len(new) = Len(array) - 1
      /\ \A j \in 1..Len(new) : new[j] = IF j < i THEN array[j] ELSE array[j + 1]
  BY RemoveEntry
<1> HIDE DEF new
<1>2. ASSUME NEW j \in 1..Len(new)
      PROVE  from[j] \in 1..Len(array) /\ from[j] # i /\ new[j] = array[from[j]]
  <2>1. CASE j < i
    BY <1>1, <2>1
  <2>2. CASE j >= i
    <3>1. from[j] = j + 1 /\ new[j] = array[j + 1]
      BY <1>1, <2>2
    <3> QED
      BY <1>1, <2>2, <3>1
  <2> QED
    BY <2>1, <2>2
<1>3. ASSUME NEW j \in 1..Len(new), NEW k \in 1..Len(new)
      PROVE  /\ from[j] = from[k] => j = k
             /\ j <= k => from[j] <= from[k]
  <2>1. /\ from[j] = IF j < i THEN j ELSE j + 1
        /\ from[k] = IF k < i THEN k ELSE k + 1
    OBVIOUS
  <2> HIDE DEF from
  <2> QED
    BY <2>1
<1>4. \A k \in 1..Len(array) : k # i => \E j \in 1..Len(new) : from[j] = k
  <2>1. ASSUME NEW k \in 1..Len(array), k < i
        PROVE  k \in 1..Len(new) /\ from[k] = k
    BY <2>1, <1>1
  <2>2. ASSUME NEW k \in 1..Len(array), k > i
        PROVE  k - 1 \in 1..Len(new) /\ from[k - 1] = k
    BY <2>2, <1>1
  <2> HIDE DEF from
  <2> QED
    BY <2>1, <2>2
<1> HIDE DEF from
<1>5. Unique(new)
  <2>1. ASSUME NEW j \in 1..Len(new), NEW k \in 1..Len(new), new[j] = new[k]
        PROVE  j = k
    <3>1. array[from[j]] = array[from[k]]
      BY <1>2, <2>1
    <3>2. from[j] = from[k]
      BY <1>2, <3>1 DEF Unique
    <3> QED
      BY <1>3, <3>2
  <2> QED
    BY <2>1 DEF Unique
<1>6. Entries(new) = Entries(array) \ {array[i]}
  <2>1. ASSUME NEW x \in Entries(new) PROVE x \in Entries(array) \ {array[i]}
    BY <2>1, <1>2 DEF Entries, Unique
  <2>2. ASSUME NEW x \in Entries(array), x # array[i] PROVE x \in Entries(new)
    <3>1. PICK k \in 1..Len(array) : x = array[k]
      BY DEF Entries
    <3>2. PICK j \in 1..Len(new) : from[j] = k
      BY <2>2, <3>1, <1>4
    <3> QED
      BY <3>1, <3>2, <1>2 DEF Entries
  <2> QED
    BY <2>1, <2>2
<1>7. ASSUME NEW h, Ordered(h, array) PROVE Ordered(h, new)
  <2> SUFFICES ASSUME NEW j \in 1..Len(new), NEW k \in 1..Len(new), j <= k
               PROVE  h.header[new[j]].size <= h.header[new[k]].size
    BY DEF Ordered
  <2> QED
    BY <1>2, <1>3, <1>7 DEF Ordered
<1> QED
  BY <1>1, <1>5, <1>6, <1>7 DEF new

\* A nonempty set of natural numbers has a least one.
LEMMA LeastNumber ==
  ASSUME NEW S \in SUBSET Nat, S # {}
  PROVE  Min(S) \in S /\ \A x \in S : Min(S) <= x
<1>1. PICK less : /\ IsWellFoundedOn(less, Nat)
                  /\ \A x, y \in Nat : x < y => <<x, y>> \in less
  <2>1. \A x, y \in Nat : x < y => <<x, y>> \in OpToRel(<, Nat)
    BY DEF OpToRel
  <2> QED
    BY <2>1, NatLessThanWellFounded, Zenon
<1>2. S \subseteq Nat
  OBVIOUS
<1>3. PICK m \in S : \A x \in S : <<x, m>> \notin less
  <2>1. IsWellFoundedOn(less, Nat)
    BY <1>1
  <2>2. \E m \in S : \A x \in S : ~(<<x, m>> \in less)
    BY <2>1, <1>2, WFMin
  <2> QED
    BY <2>2
<1>4. \A x \in S : ~(x < m)
  BY <1>1, <1>2, <1>3, Zenon
<1>5. \A x \in S : m <= x
  BY <1>2, <1>4
<1> QED
  BY <1>5 DEF Min

\* Removing an element that is in the list.
LEMMA RemoveElement ==
  ASSUME NEW array \in Seq(Int), NEW item \in Entries(array), Unique(array)
  PROVE  LET new == ordered_array_remove_element(array, item)
         IN  /\ new \in Seq(Int)
             /\ Len(new) = Len(array) - 1
             /\ Unique(new)
             /\ Entries(new) = Entries(array) \ {item}
             /\ \A h : Ordered(h, array) => Ordered(h, new)
<1> DEFINE places == {i \in 1..Len(array) : array[i] = item}
           first == Min(places)
<1>1. places \in SUBSET Nat /\ places # {}
  BY DEF Entries
<1>2. first \in 1..Len(array) /\ array[first] = item
  <2> HIDE DEF places
  <2>1. first \in places
    BY <1>1, LeastNumber
  <2> QED
    BY <2>1 DEF places
<1>3. ordered_array_remove_element(array, item) = ordered_array_remove(array, first)
  BY DEF ordered_array_remove_element, ordered_array_find_element, Entries
<1> HIDE DEF first
<1> QED
  BY <1>2, <1>3, RemoveListed

\* An item goes behind the entries that are not larger, unless the array is full.
LEMMA InsertListed ==
  ASSUME NEW h, NEW array \in Seq(Int), NEW item \in Int,
         Unique(array), Ordered(h, array), item \notin Entries(array),
         h.header[item].size \in Int,
         \A a \in Entries(array) : h.header[a].size \in Int
  PROVE  LET new == ordered_array_insert(h, array, item)
         IN  /\ new \in Seq(Int)
             /\ Unique(new)
             /\ Ordered(h, new)
             /\ Entries(new) \subseteq Entries(array) \cup {item}
             /\ Len(array) < KHEAP_INDEX_NUM =>
                  /\ Entries(new) = Entries(array) \cup {item}
                  /\ Len(new) = Len(array) + 1
<1> DEFINE larger == {j \in 1..Len(array) : h.header[array[j]].size > h.header[item].size}
           i == Min(larger \cup {Len(array) + 1})
<1>1. /\ i \in 1..(Len(array) + 1)
      /\ \A j \in 1..Len(array) :
           IF j < i THEN h.header[array[j]].size <= h.header[item].size
                    ELSE h.header[array[j]].size > h.header[item].size
  <2>1. /\ i \in larger \cup {Len(array) + 1}
        /\ \A j \in larger \cup {Len(array) + 1} : i <= j
    <3>1. larger \cup {Len(array) + 1} \in SUBSET Nat
      OBVIOUS
    <3> HIDE DEF larger
    <3> QED
      BY <3>1, LeastNumber
  <2>2. \A j \in 1..Len(array) : h.header[array[j]].size \in Int
    BY DEF Entries
  <2> HIDE DEF i
  <2>3. i \in 1..(Len(array) + 1)
    BY <2>1
  <2>4. ASSUME NEW j \in 1..Len(array), j < i
        PROVE  h.header[array[j]].size <= h.header[item].size
    BY <2>1, <2>2, <2>3, <2>4
  <2>5. ASSUME NEW j \in 1..Len(array), j >= i
        PROVE  h.header[array[j]].size > h.header[item].size
    <3>1. i \in larger
      BY <2>1, <2>3, <2>5
    <3>2. h.header[array[i]].size <= h.header[array[j]].size
      BY <3>1, <2>3, <2>5 DEF Ordered
    <3>3. i \in 1..Len(array) /\ h.header[array[i]].size > h.header[item].size
      BY <3>1
    <3>4. \A x, y, z \in Int : x <= y /\ x > z => y > z
      OBVIOUS
    <3>5. /\ h.header[array[i]].size \in Int
          /\ h.header[array[j]].size \in Int
      BY <3>3, <2>2
    <3> HIDE DEF larger
    <3> QED
      BY <3>2, <3>3, <3>4, <3>5
  <2> QED
    BY <2>3, <2>4, <2>5
<1> HIDE DEF i
<1>2. CASE Len(array) >= KHEAP_INDEX_NUM
  <2>1. ordered_array_insert(h, array, item) = array
    BY <1>2 DEF ordered_array_insert
  <2> QED
    BY <1>2, <2>1, KHeapAssumption
<1>3. CASE ~(Len(array) >= KHEAP_INDEX_NUM)
  <2> DEFINE new == InsertAt(array, i, item)
             to == [j \in 1..Len(array) |-> IF j < i THEN j ELSE j + 1]
  <2>1. ordered_array_insert(h, array, item) = new
    BY <1>3 DEF ordered_array_insert, i
  <2>2. /\ new \in Seq(Int) /\ Len(new) = Len(array) + 1
        /\ \A j \in 1..Len(new) : new[j] = IF j < i THEN array[j]
                                           ELSE IF j = i THEN item ELSE array[j - 1]
    BY <1>1, InsertEntry
  <2> HIDE DEF new
  <2>3. ASSUME NEW j \in 1..Len(array)
        PROVE  to[j] \in 1..Len(new) /\ to[j] # i /\ new[to[j]] = array[j]
    <3>1. CASE j < i
      BY <1>1, <2>2, <3>1
    <3>2. CASE j >= i
      <4>0. i \in Int /\ Len(new) = Len(array) + 1
        BY <1>1, <2>2
      <4>1. to[j] = j + 1 /\ j + 1 \in 1..Len(new) /\ j + 1 > i
        BY <3>2, <4>0
      <4>2. new[j + 1] = array[j + 1 - 1]
        <5>1. ASSUME NEW k \in 1..Len(new), k > i
              PROVE  new[k] = array[k - 1]
          BY <1>1, <2>2, <5>1
        <5> QED
          BY <4>1, <5>1
      <4>3. j + 1 - 1 = j
        OBVIOUS
      <4> QED
        BY <4>1, <4>2, <4>3
    <3> QED
      BY <3>1, <3>2, <1>1
  <2>4. \A k \in 1..Len(new) : k # i => \E j \in 1..Len(array) : to[j] = k
    <3>1. ASSUME NEW k \in 1..Len(new), k < i
          PROVE  k \in 1..Len(array) /\ to[k] = k
      BY <3>1, <1>1, <2>2
    <3>2. ASSUME NEW k \in 1..Len(new), k > i
          PROVE  k - 1 \in 1..Len(array) /\ to[k - 1] = k
      BY <3>2, <1>1, <2>2
    <3> HIDE DEF to
    <3>3. \A k \in 1..Len(new) : k < i \/ k = i \/ k > i
      BY <1>1
    <3> QED
      BY <3>1, <3>2, <3>3
  <2>5. \A j, k \in 1..Len(array) : to[j] <= to[k] => j <= k
    BY <1>1
  <2>6. i \in 1..Len(new) /\ new[i] = item
    BY <1>1, <2>2
  <2>7. \A j \in 1..Len(array) : IF to[j] < i THEN j < i ELSE j >= i
    BY <1>1
  <2> HIDE DEF to
  <2>8. Entries(new) = Entries(array) \cup {item}
    <3>1. ASSUME NEW x \in Entries(new) PROVE x \in Entries(array) \cup {item}
      <4>1. PICK k \in 1..Len(new) : x = new[k]
        BY DEF Entries
      <4>2. CASE k = i
        BY <4>1, <4>2, <2>6
      <4>3. CASE k # i
        BY <4>1, <4>3, <2>3, <2>4 DEF Entries
      <4> QED
        BY <4>2, <4>3
    <3>2. Entries(array) \subseteq Entries(new)
      BY <2>3 DEF Entries
    <3>3. item \in Entries(new)
      BY <2>6 DEF Entries
    <3> QED
      BY <3>1, <3>2, <3>3
  <2>9. Unique(new)
    <3> SUFFICES ASSUME NEW k \in 1..Len(new), NEW l \in 1..Len(new), new[k] = new[l]
                 PROVE  k = l
      BY DEF Unique
    <3>1. CASE k # i /\ l # i
      <4>1. PICK j \in 1..Len(array) : to[j] = k
        BY <3>1, <2>4
      <4>2. PICK m \in 1..Len(array) : to[m] = l
        BY <3>1, <2>4
      <4>3. array[j] = array[m]
        BY <4>1, <4>2, <2>3
      <4> QED
        BY <4>1, <4>2, <4>3 DEF Unique
    <3>2. ASSUME NEW m \in 1..Len(new), m # i
          PROVE  new[m] # item
      <4>1. PICK j \in 1..Len(array) : to[j] = m
        BY <3>2, <2>4
      <4> QED
        BY <4>1, <2>3 DEF Entries
    <3> QED
      BY <3>1, <3>2, <2>6
  <2>10. Ordered(h, new)
    <3> SUFFICES ASSUME NEW k \in 1..Len(new), NEW l \in 1..Len(new), k <= l
                 PROVE  h.header[new[k]].size <= h.header[new[l]].size
      BY DEF Ordered
    <3>0. \A j \in 1..Len(array) : h.header[array[j]].size \in Int
      BY DEF Entries
    <3>1. CASE k # i /\ l # i
      <4>1. PICK j \in 1..Len(array) : to[j] = k
        BY <3>1, <2>4
      <4>2. PICK m \in 1..Len(array) : to[m] = l
        BY <3>1, <2>4
      <4>3. j <= m /\ new[k] = array[j] /\ new[l] = array[m]
        BY <4>1, <4>2, <2>3, <2>5
      <4> QED
        BY <4>3 DEF Ordered
    <3>2. CASE k = i /\ l = i
      BY <3>2, <2>6
    <3>3. CASE k = i /\ l # i
      <4>1. PICK j \in 1..Len(array) : to[j] = l
        BY <3>3, <2>4
      <4>2. j >= i /\ new[l] = array[j]
        BY <3>3, <4>1, <2>3, <2>7
      <4>3. h.header[array[j]].size > h.header[item].size
        BY <4>2, <1>1
      <4>4. new[k] = item
        BY <3>3, <2>6
      <4> QED
        BY <3>0, <4>2, <4>3, <4>4
    <3>4. CASE k # i /\ l = i
      <4>1. PICK j \in 1..Len(array) : to[j] = k
        BY <3>4, <2>4
      <4>2. j < i /\ new[k] = array[j]
        BY <3>4, <4>1, <2>3, <2>7, <1>1
      <4>3. h.header[array[j]].size <= h.header[item].size
        BY <4>2, <1>1
      <4>4. new[l] = item
        BY <3>4, <2>6
      <4> QED
        BY <4>2, <4>3, <4>4
    <3> QED
      BY <3>1, <3>2, <3>3, <3>4
  <2> QED
    BY <2>1, <2>2, <2>8, <2>9, <2>10
<1> QED
  BY <1>2, <1>3

-----------------------------------------------------------------------------
(* Blocks.                                                                 *)

LEMMA MetaSize ==
  /\ HeaderSize \in Int /\ HeaderSize > 0
  /\ FooterSize \in Int /\ FooterSize > 0
  /\ BLOCK_META_SIZE \in Int /\ BLOCK_META_SIZE = HeaderSize + FooterSize
  /\ PageSize \in Int /\ PageSize > 0
  /\ StartAddress \in Int /\ MaxAddress \in Int
  BY KHeapAssumption DEF BLOCK_META_SIZE

\* What make_block leaves of the headers and footers and what it adds.
LEMMA MakeBlock ==
  ASSUME NEW h, NEW start \in Int, NEW size \in Int, NEW is_hole, NEW m, NEW end,
         m = make_block(h, start, size, is_hole),
         end = start + size + BLOCK_META_SIZE
  PROVE  /\ DOMAIN m.header = (DOMAIN h.header \ (start .. end - 1)) \cup {start}
         /\ m.header[start] = [size |-> size, is_hole |-> is_hole]
         /\ \A a \in DOMAIN h.header \ (start .. end - 1) :
              a # start => m.header[a] = h.header[a]
         /\ m.header = [a \in DOMAIN m.header |-> m.header[a]]
         /\ DOMAIN m.footer =
              (DOMAIN h.footer \ (start .. end - 1)) \cup {end - FooterSize}
         /\ m.footer[end - FooterSize] = start
         /\ \A f \in DOMAIN h.footer \ (start .. end - 1) :
              f # end - FooterSize => m.footer[f] = h.footer[f]
  BY DEF make_block

\* Memory that is given up is the gap: the blocks from s up to t, or new memory behind
\* the heap.
LEMMA OpenGap ==
  ASSUME NEW h, NEW e \in Int, NEW n \in Int, NEW s \in Int, NEW t \in Int,
         Tiled(h, e, e, e),
         e <= n, s < t,
         s \in DOMAIN h.header \cup {e},
         t \in DOMAIN h.header \cup {n},
         e < n => t = n
  PROVE  Tiled(h, n, s, t)
<1> USE MetaSize DEF BlockEnd
<1> DEFINE B == Outside(h, s, t)
<1>1. \A a \in DOMAIN h.header : /\ a \in Int /\ BlockEnd(h, a) \in Int
                                 /\ BlockEnd(h, a) > a + BLOCK_META_SIZE
                                 /\ BlockFits(h, e, e, e, a)
  BY DEF Tiled, Outside
<1>2. \A a \in B : a \in DOMAIN h.header /\ (a < s \/ a >= t)
  BY <1>1 DEF Outside
<1>3. \A a, b \in DOMAIN h.header : a < b => BlockEnd(h, a) <= b
  BY DEF Tiled, Outside
<1>4. StartAddress \in DOMAIN h.header
  <2>1. e - FooterSize \in DOMAIN h.footer
    BY DEF Tiled
  <2>2. h.footer[e - FooterSize] \in DOMAIN h.header
    BY <2>1 DEF Tiled, Outside
  <2>3. StartAddress < e
    BY <2>2, <1>1 DEF BlockFits
  <2> QED
    BY <2>3 DEF Tiled, Outside
<1>5. StartAddress <= s
  BY <1>1, <1>4 DEF BlockFits, Tiled
<1>6. ASSUME NEW a \in B
      PROVE  BlockFits(h, n, s, t, a)
  <2>1. StartAddress <= a /\ BlockEnd(h, a) <= n
    BY <1>1, <1>2 DEF BlockFits
  <2>2. a < s => BlockEnd(h, a) <= s
    BY <1>1, <1>2, <1>3 DEF BlockFits
  <2>3. BlockEnd(h, a) \in B \cup {s, n}
    <3>1. BlockEnd(h, a) \in DOMAIN h.header \cup {e}
      BY <1>1, <1>2 DEF BlockFits, Outside
    <3>2. CASE a < s
      <4>1. CASE BlockEnd(h, a) = s
        BY <4>1
      <4>2. CASE BlockEnd(h, a) < s
        <5>1. BlockEnd(h, a) # e
          BY <4>2, <1>1, <1>2, <3>2, <2>2 DEF BlockFits
        <5> QED
          BY <3>1, <5>1, <4>2, <1>1 DEF Outside
      <4> QED
        BY <2>2, <3>2, <4>1, <4>2, <1>1, <1>2
    <3>3. CASE a >= t
      <4>1. BlockEnd(h, a) > t
        BY <3>3, <1>1, <1>2
      <4>2. e = n
        BY <3>3, <1>1, <1>2 DEF BlockFits
      <4> QED
        BY <3>1, <4>1, <4>2 DEF Outside
    <3> QED
      BY <1>2, <3>2, <3>3
  <2>4. /\ BlockEnd(h, a) - FooterSize \in DOMAIN h.footer
        /\ h.footer[BlockEnd(h, a) - FooterSize] = a
    BY <1>1, <1>2 DEF BlockFits
  <2> QED
    BY <2>1, <2>2, <2>3, <2>4 DEF BlockFits
<1>7. ASSUME NEW f \in DOMAIN h.footer \ (s .. t - 1)
      PROVE  h.footer[f] \in B /\ f = BlockEnd(h, h.footer[f]) - FooterSize
  <2>1. /\ f \in Int /\ h.footer[f] \in DOMAIN h.header
        /\ f = BlockEnd(h, h.footer[f]) - FooterSize
    <3>1. \A x \in DOMAIN h.footer : x \in Int /\ x \notin e .. e - 1
      BY DEF Tiled
    <3> QED
      BY <3>1 DEF Tiled, Outside
  <2>2. f < s \/ f >= t
    BY <2>1
  <2>3. CASE f < s
    BY <2>1, <2>3, <1>1 DEF Outside
  <2>4. CASE f >= t
    <3>1. h.footer[f] >= t \/ h.footer[f] < t
      BY <2>1, <1>1
    <3>2. CASE h.footer[f] < t
      <4>1. t \in DOMAIN h.header => BlockEnd(h, h.footer[f]) <= t
        BY <3>2, <2>1, <1>3
      <4>2. t = n => BlockEnd(h, h.footer[f]) <= t
        BY <2>1, <1>1 DEF BlockFits
      <4> QED
        BY <4>1, <4>2, <2>1, <2>4, <1>1
    <3>3. CASE h.footer[f] >= t
      BY <3>3, <2>1, <1>1 DEF Outside
    <3> QED
      BY <3>1, <3>2, <3>3
  <2> QED
    BY <2>2, <2>3, <2>4
<1>8. e - FooterSize \in DOMAIN h.footer
  BY DEF Tiled
<1>9. n - FooterSize \in DOMAIN h.footer \/ (s < t /\ t = n)
  BY <1>8
<1>10. StartAddress \in B \cup {s}
  BY <1>4, <1>5 DEF Outside
<1>11. t \in B \cup {n}
  BY DEF Outside
<1>12. /\ h.header \in [DOMAIN h.header -> [size : Nat \ {0}, is_hole : BOOLEAN]]
       /\ DOMAIN h.header \subseteq Int /\ DOMAIN h.footer \subseteq Int
  BY DEF Tiled
<1>13. \A a, b \in B : a < b => BlockEnd(h, a) <= b
  BY <1>2, <1>3
<1> HIDE DEF BlockEnd
<1> QED
  BY <1>5, <1>6, <1>7, <1>9, <1>10, <1>11, <1>12, <1>13 DEF Tiled

\* A new block fills the gap, or the front of it.
LEMMA FillGap ==
  ASSUME NEW h, NEW e \in Int, NEW g \in Int, NEW k \in Int,
         NEW size \in Nat \ {0}, NEW is_hole \in BOOLEAN, NEW m, NEW t,
         Tiled(h, e, g, k),
         m = make_block(h, g, size, is_hole),
         t = g + size + BLOCK_META_SIZE, t <= k
  PROVE  /\ Tiled(m, e, t, k)
         /\ Outside(m, t, k) = Outside(h, g, k) \cup {g}
         /\ m.header[g] = [size |-> size, is_hole |-> is_hole]
         /\ \A a \in Outside(h, g, k) : m.header[a] = h.header[a]
<1> USE MetaSize
<1> DEFINE B == Outside(h, g, k)
<1>0. t \in Int /\ t > g + BLOCK_META_SIZE
  OBVIOUS
<1>1. /\ DOMAIN m.header = (DOMAIN h.header \ (g .. t - 1)) \cup {g}
      /\ m.header[g] = [size |-> size, is_hole |-> is_hole]
      /\ \A a \in DOMAIN h.header \ (g .. t - 1) : a # g => m.header[a] = h.header[a]
      /\ DOMAIN m.footer = (DOMAIN h.footer \ (g .. t - 1)) \cup {t - FooterSize}
      /\ m.footer[t - FooterSize] = g
      /\ \A f \in DOMAIN h.footer \ (g .. t - 1) :
           f # t - FooterSize => m.footer[f] = h.footer[f]
      /\ m.header = [a \in DOMAIN m.header |-> m.header[a]]
  BY MakeBlock
<1>2. m.header \in [DOMAIN m.header -> [size : Nat \ {0}, is_hole : BOOLEAN]]
  <2>1. ASSUME NEW a \in DOMAIN m.header
        PROVE  m.header[a] \in [size : Nat \ {0}, is_hole : BOOLEAN]
    <3>1. CASE a = g
      BY <3>1, <1>1
    <3>2. CASE a # g
      BY <3>2, <1>1 DEF Tiled
    <3> QED
      BY <3>1, <3>2
  <2> QED
    BY <1>1, <2>1
<1>3. DOMAIN m.header \subseteq Int /\ DOMAIN m.footer \subseteq Int
  BY <1>1 DEF Tiled
<1>4. /\ DOMAIN h.header \subseteq Int /\ DOMAIN h.footer \subseteq Int
      /\ \A a \in B : BlockEnd(h, a) \in Int /\ BlockEnd(h, a) > a + BLOCK_META_SIZE
  BY DEF Tiled, Outside, BlockEnd
<1>5. Outside(m, t, k) = B \cup {g}
  BY <1>1, <1>4 DEF Outside
<1>6. \A a \in B : a \in DOMAIN h.header /\ a \in Int /\ (a < g \/ a >= k)
  BY <1>4 DEF Outside
<1>7. \A a \in B : m.header[a] = h.header[a] /\ BlockEnd(m, a) = BlockEnd(h, a)
  BY <1>1, <1>6 DEF BlockEnd
<1>8. BlockEnd(m, g) = t
  BY <1>1 DEF BlockEnd
<1>9. \A a \in B : BlockFits(h, e, g, k, a)
  BY DEF Tiled
<1>10. k <= e /\ (k # e => k \in B)
  <2>1. k \in B \cup {e}
    BY DEF Tiled
  <2> QED
    BY <2>1, <1>4, <1>9 DEF BlockFits
<1>11. BlockFits(m, e, t, k, g)
  <2>1. t \in B \cup {g} \cup {t, e} /\ StartAddress <= g
    BY DEF Tiled
  <2> QED
    BY <2>1, <1>1, <1>5, <1>8, <1>10 DEF BlockFits
<1>12. ASSUME NEW a \in B
       PROVE  BlockFits(m, e, t, k, a)
  <2>1. StartAddress <= a /\ BlockEnd(m, a) <= e /\ BlockEnd(m, a) \in B \cup {g, e}
    BY <1>7, <1>9 DEF BlockFits
  <2>2. a < t => BlockEnd(m, a) <= t
    BY <1>4, <1>6, <1>7, <1>9 DEF BlockFits
  <2>3. BlockEnd(h, a) - FooterSize \notin g .. k - 1
    BY <1>4, <1>6, <1>9 DEF BlockFits
  <2>4. /\ BlockEnd(h, a) - FooterSize \in DOMAIN h.footer
        /\ h.footer[BlockEnd(h, a) - FooterSize] = a
    BY <1>9 DEF BlockFits
  <2>5. /\ BlockEnd(h, a) - FooterSize \in DOMAIN h.footer \ (g .. t - 1)
        /\ BlockEnd(h, a) - FooterSize # t - FooterSize
    BY <2>3, <2>4, <1>4, <1>6, <1>9 DEF BlockFits
  <2>6. /\ BlockEnd(m, a) - FooterSize \in DOMAIN m.footer
        /\ m.footer[BlockEnd(m, a) - FooterSize] = a
    BY <2>4, <2>5, <1>1, <1>7
  <2> QED
    BY <2>1, <2>2, <2>6, <1>5 DEF BlockFits
<1>13. ASSUME NEW a \in B \cup {g}, NEW b \in B \cup {g}, a < b
       PROVE  BlockEnd(m, a) <= b
  <2>1. CASE a = g
    BY <2>1, <1>6, <1>8, <1>13
  <2>2. CASE a # g /\ b = g
    BY <2>2, <1>6, <1>7, <1>9, <1>13 DEF BlockFits
  <2>3. CASE a # g /\ b # g
    BY <2>3, <1>7, <1>13 DEF Tiled
  <2> QED
    BY <2>1, <2>2, <2>3
<1>14. ASSUME NEW f \in DOMAIN m.footer \ (t .. k - 1)
       PROVE  /\ m.footer[f] \in B \cup {g}
              /\ f = BlockEnd(m, m.footer[f]) - FooterSize
  <2>1. CASE f = t - FooterSize
    BY <2>1, <1>1, <1>8
  <2>2. CASE f # t - FooterSize
    <3>1. f \in DOMAIN h.footer \ (g .. t - 1) /\ m.footer[f] = h.footer[f]
      BY <2>2, <1>1
    <3>2. f \in DOMAIN h.footer \ (g .. k - 1)
      BY <3>1, <1>4
    <3>3. h.footer[f] \in B /\ f = BlockEnd(h, h.footer[f]) - FooterSize
      BY <3>2 DEF Tiled
    <3> QED
      BY <3>1, <3>3, <1>7
  <2> QED
    BY <2>1, <2>2
<1>15. e - FooterSize \in DOMAIN m.footer \/ (t < k /\ k = e)
  <2>1. CASE k = e
    BY <2>1, <1>1
  <2>2. CASE k # e
    <3>1. e - FooterSize \in DOMAIN h.footer
      BY <2>2 DEF Tiled
    <3>2. BlockEnd(h, k) <= e /\ BlockEnd(h, k) > k + BLOCK_META_SIZE
      BY <2>2, <1>4, <1>9, <1>10 DEF BlockFits
    <3>3. e - FooterSize > k
      BY <3>2, <2>2, <1>4, <1>10
    <3> QED
      BY <3>1, <3>3, <1>1
  <2> QED
    BY <2>1, <2>2
<1>16. StartAddress <= t /\ StartAddress \in B \cup {g} /\ k \in B \cup {e}
  BY DEF Tiled
<1>17. Tiled(m, e, t, k)
  BY <1>2, <1>3, <1>5, <1>11, <1>12, <1>13, <1>14, <1>15, <1>16 DEF Tiled
<1> QED
  BY <1>1, <1>5, <1>7, <1>17

\* A gap that begins with a new hole, and one that begins with a new used block.
HoleBlock(h, start, size) == make_block(h, start, size, TRUE)

LEMMA FillHole ==
  ASSUME NEW h, NEW e \in Int, NEW g \in Int, NEW k \in Int, NEW size \in Nat \ {0},
         NEW m, NEW t, Tiled(h, e, g, k),
         m = HoleBlock(h, g, size),
         t = g + size + BLOCK_META_SIZE, t <= k
  PROVE  /\ Tiled(m, e, t, k)
         /\ Outside(m, t, k) = Outside(h, g, k) \cup {g}
         /\ m.header[g].size = size
         /\ m.header[g].is_hole
         /\ \A a \in Outside(h, g, k) : m.header[a] = h.header[a]
<1> DEFINE yes == TRUE
<1>1. yes \in BOOLEAN /\ m = make_block(h, g, size, yes)
  BY DEF HoleBlock
<1> HIDE DEF yes
<1>2. /\ Tiled(m, e, t, k)
      /\ Outside(m, t, k) = Outside(h, g, k) \cup {g}
      /\ m.header[g] = [size |-> size, is_hole |-> yes]
      /\ \A a \in Outside(h, g, k) : m.header[a] = h.header[a]
  BY <1>1, FillGap
<1>3. m.header[g].size = size /\ m.header[g].is_hole = yes
  BY <1>2
<1>4. m.header[g].is_hole
  BY <1>3, Zenon DEF yes
<1> QED
  BY <1>2, <1>3, <1>4

LEMMA FillUsed ==
  ASSUME NEW h, NEW e \in Int, NEW g \in Int, NEW k \in Int, NEW size \in Nat \ {0},
         NEW m, NEW t, Tiled(h, e, g, k),
         m = use_block(h, g, size),
         t = g + size + BLOCK_META_SIZE, t <= k
  PROVE  /\ Tiled(m, e, t, k)
         /\ Outside(m, t, k) = Outside(h, g, k) \cup {g}
         /\ m.header[g].size = size
         /\ ~m.header[g].is_hole
         /\ \A a \in Outside(h, g, k) : m.header[a] = h.header[a]
<1> DEFINE no == FALSE
<1>1. no \in BOOLEAN /\ m = make_block(h, g, size, no)
  BY DEF use_block
<1> HIDE DEF no
<1>2. /\ Tiled(m, e, t, k)
      /\ Outside(m, t, k) = Outside(h, g, k) \cup {g}
      /\ m.header[g] = [size |-> size, is_hole |-> no]
      /\ \A a \in Outside(h, g, k) : m.header[a] = h.header[a]
  BY <1>1, FillGap
<1>3. m.header[g].size = size /\ m.header[g].is_hole = no
  BY <1>2
<1>4. ~m.header[g].is_hole
  BY <1>3, Zenon DEF no
<1> QED
  BY <1>2, <1>3, <1>4

\* A gap that is full is none.
LEMMA CloseGap ==
  ASSUME NEW h, NEW e \in Int, NEW k \in Int, Tiled(h, e, k, k)
  PROVE  /\ Tiled(h, e, e, e)
         /\ Outside(h, k, k) = DOMAIN h.header
<1> USE MetaSize
<1> DEFINE D == DOMAIN h.header
<1>1. Outside(h, k, k) = D /\ Outside(h, e, e) = D
  BY DEF Outside
<1>2. /\ \A f \in DOMAIN h.footer : f \notin k .. k - 1
      /\ \A f \in DOMAIN h.footer : f \notin e .. e - 1
  BY DEF Tiled
<1>3. k \in D \cup {e}
  BY <1>1 DEF Tiled
<1>4. k <= e
  <2>1. \A a \in D : a \in Int /\ BlockEnd(h, a) \in Int
                     /\ BlockEnd(h, a) > a /\ BlockEnd(h, a) <= e
    BY <1>1 DEF Tiled, BlockFits, BlockEnd
  <2> QED
    BY <1>3, <2>1
<1>5. ASSUME NEW a \in D
      PROVE  BlockFits(h, e, e, e, a)
  <2>1. BlockFits(h, e, k, k, a)
    BY <1>1 DEF Tiled
  <2> QED
    BY <1>1, <1>3, <2>1 DEF BlockFits
<1>6. StartAddress <= e /\ StartAddress \in D \cup {e}
  BY <1>1, <1>3, <1>4 DEF Tiled
<1>7. e - FooterSize \in DOMAIN h.footer
  BY DEF Tiled
<1>8. /\ h.header \in [D -> [size : Nat \ {0}, is_hole : BOOLEAN]]
      /\ D \subseteq Int /\ DOMAIN h.footer \subseteq Int
      /\ \A a, b \in D : a < b => BlockEnd(h, a) <= b
      /\ \A f \in DOMAIN h.footer :
           h.footer[f] \in D /\ f = BlockEnd(h, h.footer[f]) - FooterSize
  BY <1>1, <1>2 DEF Tiled
<1>9. Tiled(h, e, e, e)
  BY <1>1, <1>2, <1>5, <1>6, <1>7, <1>8 DEF Tiled
<1> QED
  BY <1>1, <1>9

\* A place for one hole of that size from g to k: blocks of the heap that ends at e, or new
\* memory up to n, or both; and the heap m that has the hole there.
PlaceFor(h, e, n, g, size, k) ==
  /\ e \in Int /\ n \in Int /\ g \in Int /\ k \in Int /\ size \in Nat \ {0}
  /\ k = g + size + BLOCK_META_SIZE
  /\ Tiled(h, e, e, e)
  /\ e <= n
  /\ g \in DOMAIN h.header \cup {e}
  /\ k \in DOMAIN h.header \cup {n}
  /\ e < n => k = n
HoleAt(m, h, n, g, size, k) ==
  LET kept == DOMAIN h.header \ (g .. k - 1)
  IN  /\ Tiled(m, n, n, n)
      /\ DOMAIN m.header = kept \cup {g}
      /\ m.header[g].size = size
      /\ m.header[g].is_hole
      /\ \A a \in kept : m.header[a] = h.header[a]

LEMMA OneHole ==
  ASSUME NEW h, NEW e, NEW n, NEW g, NEW size, NEW k, PlaceFor(h, e, n, g, size, k)
  PROVE  HoleAt(HoleBlock(h, g, size), h, n, g, size, k)
<1> SUFFICES ASSUME NEW e0 \in Int, NEW n0 \in Int, NEW g0 \in Int, NEW k0 \in Int,
                    NEW size0 \in Nat \ {0}, NEW m,
                    Tiled(h, e0, e0, e0),
                    e0 <= n0,
                    k0 = g0 + size0 + BLOCK_META_SIZE,
                    g0 \in DOMAIN h.header \cup {e0},
                    k0 \in DOMAIN h.header \cup {n0},
                    e0 < n0 => k0 = n0,
                    m = HoleBlock(h, g0, size0)
             PROVE  HoleAt(m, h, n0, g0, size0, k0)
  <2> DEFINE m == HoleBlock(h, g, size)
  <2>1. /\ e \in Int /\ n \in Int /\ g \in Int /\ k \in Int /\ size \in Nat \ {0}
        /\ k = g + size + BLOCK_META_SIZE
        /\ Tiled(h, e, e, e)
        /\ e <= n
        /\ g \in DOMAIN h.header \cup {e}
        /\ k \in DOMAIN h.header \cup {n}
        /\ e < n => k = n
    BY DEF PlaceFor
  <2> QED
    BY <2>1, Zenon
<1>1. g0 < k0 /\ k0 <= k0
  BY MetaSize
<1>2. Tiled(h, n0, g0, k0)
  BY <1>1, OpenGap
<1>3. /\ Tiled(m, n0, k0, k0)
      /\ Outside(m, k0, k0) = Outside(h, g0, k0) \cup {g0}
      /\ m.header[g0].size = size0
      /\ m.header[g0].is_hole
      /\ \A a \in Outside(h, g0, k0) : m.header[a] = h.header[a]
  BY <1>1, <1>2, FillHole
<1>4. Tiled(m, n0, n0, n0) /\ Outside(m, k0, k0) = DOMAIN m.header
  BY <1>3, CloseGap
<1> QED
  BY <1>3, <1>4 DEF HoleAt, Outside

-----------------------------------------------------------------------------
(* What the invariant says of a heap between two calls.                    *)

LEMMA Blocks ==
  ASSUME NEW h, NEW e \in Int, Tiled(h, e, e, e)
  PROVE  /\ DOMAIN h.header \subseteq Nat
         /\ e \in Nat
         /\ StartAddress \in DOMAIN h.header
         /\ e - FooterSize \in DOMAIN h.footer
         /\ \A a \in DOMAIN h.header :
              /\ h.header[a].size \in Nat \ {0}
              /\ h.header[a].is_hole \in BOOLEAN
              /\ StartAddress <= a
              /\ BlockEnd(h, a) \in Int
              /\ BlockEnd(h, a) = a + h.header[a].size + BLOCK_META_SIZE
              /\ a < BlockEnd(h, a)
              /\ BlockEnd(h, a) <= e
              /\ BlockEnd(h, a) \in DOMAIN h.header \cup {e}
              /\ BlockEnd(h, a) - FooterSize \in DOMAIN h.footer
              /\ h.footer[BlockEnd(h, a) - FooterSize] = a
         /\ \A a, b \in DOMAIN h.header : a < b => BlockEnd(h, a) <= b
         /\ \A f \in DOMAIN h.footer :
              h.footer[f] \in DOMAIN h.header /\ f = BlockEnd(h, h.footer[f]) - FooterSize
<1> USE MetaSize
<1> DEFINE D == DOMAIN h.header
<1>1. Outside(h, e, e) = D
  BY DEF Outside
<1>2. \A f \in DOMAIN h.footer : f \notin e .. e - 1
  BY DEF Tiled
<1>3. ASSUME NEW a \in D
      PROVE  /\ h.header[a].size \in Nat \ {0}
             /\ h.header[a].is_hole \in BOOLEAN
             /\ StartAddress <= a /\ a \in Int
             /\ BlockEnd(h, a) \in Int
             /\ BlockEnd(h, a) = a + h.header[a].size + BLOCK_META_SIZE
             /\ a < BlockEnd(h, a)
             /\ BlockEnd(h, a) <= e
             /\ BlockEnd(h, a) \in D \cup {e}
             /\ BlockEnd(h, a) - FooterSize \in DOMAIN h.footer
             /\ h.footer[BlockEnd(h, a) - FooterSize] = a
  <2>1. BlockFits(h, e, e, e, a)
    BY <1>1 DEF Tiled
  <2>2. h.header[a] \in [size : Nat \ {0}, is_hole : BOOLEAN] /\ a \in Int
    BY DEF Tiled
  <2>3. /\ h.header[a].size \in Nat \ {0}
        /\ h.header[a].is_hole \in BOOLEAN
    BY <2>2
  <2> QED
    BY <1>1, <2>1, <2>2, <2>3 DEF BlockFits, BlockEnd
<1>4. \A f \in DOMAIN h.footer :
        h.footer[f] \in D /\ f = BlockEnd(h, h.footer[f]) - FooterSize
  BY <1>1, <1>2 DEF Tiled
<1>5. e - FooterSize \in DOMAIN h.footer
  BY DEF Tiled
<1>6. StartAddress \in D \cup {e}
  BY <1>1 DEF Tiled
<1>7. StartAddress # e
  BY <1>3, <1>4, <1>5
<1>8. \A a, b \in D : a < b => BlockEnd(h, a) <= b
  BY <1>1 DEF Tiled
<1>9. D \subseteq Nat /\ e \in Nat
  <2>1. StartAddress \in Nat
    BY KHeapAssumption
  <2>2. \A a \in D : a \in Nat
    BY <1>3, <2>1
  <2>3. StartAddress <= e
    BY DEF Tiled
  <2> QED
    BY <2>1, <2>2, <2>3
<1>10. StartAddress \in D
  BY <1>6, <1>7
<1> QED
  BY <1>3, <1>4, <1>5, <1>8, <1>9, <1>10, Zenon

\* An index stays good when the blocks it lists keep their headers.
LEMMA KeepListed ==
  ASSUME NEW h, NEW m, NEW array, Listed(h, array),
         \A a \in Entries(array) : a \in DOMAIN m.header /\ m.header[a] = h.header[a]
  PROVE  Listed(m, array)
<1>1. \A i \in 1..Len(array) : array[i] \in Entries(array)
  BY DEF Entries
<1>2. Ordered(m, array)
  BY <1>1 DEF Ordered, Listed
<1>3. Entries(array) \subseteq HolesOf(m)
  BY DEF Listed, HolesOf
<1> QED
  BY <1>2, <1>3 DEF Listed

LEMMA InsertHole ==
  ASSUME NEW h, NEW array, NEW item, NEW new,
         h.header \in [DOMAIN h.header -> [size : Nat \ {0}, is_hole : BOOLEAN]],
         DOMAIN h.header \subseteq Int,
         Listed(h, array), item \in HolesOf(h), item \notin Entries(array),
         new = ordered_array_insert(h, array, item)
  PROVE  /\ Listed(h, new)
         /\ Entries(new) \subseteq Entries(array) \cup {item}
         /\ Len(array) < KHEAP_INDEX_NUM =>
              Entries(new) = Entries(array) \cup {item} /\ Len(new) = Len(array) + 1
<1>1. /\ array \in Seq(Int) /\ Unique(array) /\ Ordered(h, array)
      /\ Entries(array) \subseteq HolesOf(h)
  BY DEF Listed
<1>2. ASSUME NEW a \in HolesOf(h)
      PROVE  a \in Int /\ h.header[a].size \in Int
  <2>1. a \in DOMAIN h.header
    BY DEF HolesOf
  <2>2. h.header[a] \in [size : Nat \ {0}, is_hole : BOOLEAN]
    BY <2>1
  <2> QED
    BY <2>1, <2>2
<1>3. /\ new \in Seq(Int)
      /\ Unique(new)
      /\ Ordered(h, new)
      /\ Entries(new) \subseteq Entries(array) \cup {item}
      /\ Len(array) < KHEAP_INDEX_NUM =>
           /\ Entries(new) = Entries(array) \cup {item}
           /\ Len(new) = Len(array) + 1
  <2>1. item \in Int /\ h.header[item].size \in Int
    BY <1>2
  <2>2. \A a \in Entries(array) : h.header[a].size \in Int
    BY <1>1, <1>2
  <2> QED
    BY <1>1, <2>1, <2>2, InsertListed
<1> QED
  BY <1>1, <1>3 DEF Listed

\* The same for an entry that is taken out.
LEMMA RemoveHole ==
  ASSUME NEW h, NEW array, NEW item \in Entries(array), NEW new, Listed(h, array),
         new = ordered_array_remove_element(array, item)
  PROVE  /\ Listed(h, new)
         /\ Entries(new) = Entries(array) \ {item}
         /\ Len(new) = Len(array) - 1
<1>1. /\ array \in Seq(Int) /\ Unique(array) /\ Ordered(h, array)
      /\ Entries(array) \subseteq HolesOf(h)
  BY DEF Listed
<1>2. /\ new \in Seq(Int)
      /\ Len(new) = Len(array) - 1
      /\ Unique(new)
      /\ Entries(new) = Entries(array) \ {item}
      /\ \A g : Ordered(g, array) => Ordered(g, new)
  BY <1>1, RemoveElement
<1> QED
  BY <1>1, <1>2 DEF Listed

LEMMA RemoveAtHole ==
  ASSUME NEW h, NEW array, NEW i \in 1..Len(array), NEW new, Listed(h, array),
         new = ordered_array_remove(array, i)
  PROVE  /\ Listed(h, new)
         /\ Entries(new) = Entries(array) \ {array[i]}
         /\ Len(new) = Len(array) - 1
<1>1. /\ array \in Seq(Int) /\ Unique(array) /\ Ordered(h, array)
      /\ Entries(array) \subseteq HolesOf(h)
  BY DEF Listed
<1>2. /\ new \in Seq(Int)
      /\ Len(new) = Len(array) - 1
      /\ Unique(new)
      /\ Entries(new) = Entries(array) \ {array[i]}
      /\ \A g : Ordered(g, array) => Ordered(g, new)
  BY <1>1, RemoveListed
<1> QED
  BY <1>1, <1>2 DEF Listed

-----------------------------------------------------------------------------
(* kfree.                                                                  *)

\* The footer in front of a block and the header behind it lead to its neighbours.
LEMMA Neighbours ==
  ASSUME HeapInv, NEW a \in Headers
  PROVE  /\ LeftHole(a) = {b \in Holes : BlockEnd(heap, b) = a}
         /\ RightHole(a) = {b \in Holes : b = BlockEnd(heap, a)}
         /\ \A b, c \in LeftHole(a) : b = c
<1> USE MetaSize
<1> DEFINE e == end_address
<1>1. e \in Int /\ Tiled(heap, e, e, e)
  BY DEF HeapInv
<1> HIDE DEF e
<1>2. a \in Int
  BY <1>1, Blocks DEF Headers
<1>3. ASSUME NEW b \in LeftHole(a)
      PROVE  /\ b \in Holes /\ BlockEnd(heap, b) = a
             /\ a - FooterSize \in DOMAIN heap.footer /\ b = heap.footer[a - FooterSize]
  <2>1. /\ a - FooterSize \in DOMAIN heap.footer /\ b = heap.footer[a - FooterSize]
        /\ heap.header[b].is_hole
    BY DEF LeftHole
  <2>2. b \in DOMAIN heap.header /\ a - FooterSize = BlockEnd(heap, b) - FooterSize
        /\ BlockEnd(heap, b) \in Int
    BY <1>1, <2>1, Blocks
  <2> QED
    BY <1>2, <2>1, <2>2 DEF Holes, Headers
<1>4. ASSUME NEW b \in Holes, BlockEnd(heap, b) = a
      PROVE  b \in LeftHole(a)
  <2>1. b \in DOMAIN heap.header /\ heap.header[b].is_hole
    BY DEF Holes, Headers
  <2>2. a - FooterSize \in DOMAIN heap.footer /\ b = heap.footer[a - FooterSize]
    BY <1>1, <1>4, <2>1, Blocks
  <2> QED
    BY <2>1, <2>2 DEF LeftHole
<1>5. LeftHole(a) = {b \in Holes : BlockEnd(heap, b) = a}
  BY <1>3, <1>4
<1>6. RightHole(a) = {b \in Holes : b = BlockEnd(heap, a)}
  BY DEF RightHole, Holes, Headers
<1>7. \A b, c \in LeftHole(a) : b = c
  BY <1>3
<1> QED
  BY <1>5, <1>6, <1>7

\* The hole that kfree makes of the block a begins at hole and ends at end.
FreedSpan(a, hole, end) ==
  /\ hole = Min({a} \cup LeftHole(a))
  /\ end = IF RightHole(a) = {} THEN BlockEnd(heap, a)
           ELSE BlockEnd(heap, BlockEnd(heap, a))

\* The block that is freed and the holes beside it are all the blocks from hole to end,
\* and on neither side of them is another hole.
LEMMA FreedBlocks ==
  ASSUME HeapInv, NEW a \in Headers \ Holes, NEW hole, NEW end,
         FreedSpan(a, hole, end)
  PROVE  /\ hole \in Headers /\ hole \in Int
         /\ end \in Headers \cup {end_address} /\ end \in Int /\ end <= end_address
         /\ end - hole - BLOCK_META_SIZE \in Nat \ {0}
         /\ \A b \in Headers :
              b \in hole .. end - 1 <=> b \in {a} \cup MergedHoles(a)
         /\ LeftHole(a) # {} => LeftHole(a) = {hole}
         /\ RightHole(a) # {} => RightHole(a) = {BlockEnd(heap, a)}
         /\ \A b \in Holes : BlockEnd(heap, b) # hole
         /\ end \notin Holes
<1> USE MetaSize
<1> DEFINE e == end_address
           D == DOMAIN heap.header
           L == LeftHole(a)
           R == RightHole(a)
           x == BlockEnd(heap, a)
<1>1. e \in Int /\ Tiled(heap, e, e, e)
  BY DEF HeapInv
<1>2. Headers = D /\ a \in D /\ a \notin Holes
  BY DEF Headers
<1>3. /\ \A b \in D : /\ b \in Nat
                      /\ BlockEnd(heap, b) \in Int
                      /\ BlockEnd(heap, b) > b + BLOCK_META_SIZE
                      /\ BlockEnd(heap, b) <= e
                      /\ BlockEnd(heap, b) \in D \cup {e}
      /\ \A b, c \in D : b < c => BlockEnd(heap, b) <= c
  BY <1>1, Blocks
<1>4. /\ L = {b \in Holes : BlockEnd(heap, b) = a}
      /\ R = {b \in Holes : b = x}
      /\ \A b, c \in L : b = c
  BY Neighbours
<1>5. Holes \subseteq D
  BY DEF Holes, Headers
<1>6. \A b \in Holes : BlockEnd(heap, b) \notin Holes
  BY DEF HeapInv, HolesMerged
<1>7. x \in Int /\ x > a + BLOCK_META_SIZE /\ x <= e /\ x \in D \cup {e} /\ a \in Nat
  BY <1>2, <1>3
<1> HIDE DEF e, D, L, R, x
<1>8. /\ hole \in D /\ hole \in Nat /\ hole <= a
      /\ L # {} => L = {hole} /\ hole < a
      /\ L = {} => hole = a
      /\ \A b \in Holes : BlockEnd(heap, b) # hole
  <2>1. CASE L = {}
    <3>1. {a} \cup L = {a} /\ {a} \in SUBSET Nat
      BY <2>1, <1>7
    <3>2. hole = a
      BY <3>1, LeastNumber DEF FreedSpan, L
    <3>3. \A b \in Holes : BlockEnd(heap, b) # a
      BY <1>4, <2>1
    <3>4. hole \in D /\ hole \in Nat /\ hole <= a
      BY <1>2, <1>7, <3>2 DEF D
    <3> QED
      BY <2>1, <3>2, <3>3, <3>4, Zenon
  <2>2. ASSUME NEW b \in L
        PROVE  /\ hole \in D /\ hole \in Nat /\ hole <= a
               /\ L # {} => L = {hole} /\ hole < a
               /\ L = {} => hole = a
               /\ \A c \in Holes : BlockEnd(heap, c) # hole
    <3>1. b \in Holes /\ b \in D /\ b < a /\ L = {b} /\ b \in Nat
      BY <1>3, <1>4, <1>5
    <3>2. {a} \cup L \in SUBSET Nat /\ {a} \cup L = {a, b} /\ {a} \cup L # {}
      BY <1>7, <3>1
    <3>3. hole \in {a, b} /\ hole <= b
      BY <3>2, LeastNumber DEF FreedSpan, L
    <3>4. hole = b
      BY <1>7, <3>1, <3>3
    <3>5. \A c \in Holes : BlockEnd(heap, c) # hole
      BY <1>6, <3>1, <3>4
    <3>6. hole \in D /\ hole \in Nat /\ hole <= a /\ hole < a
      BY <1>7, <3>1, <3>4
    <3> QED
      BY <3>1, <3>4, <3>5, <3>6, Zenon
  <2> QED
    BY <2>1, <2>2
<1>9. /\ end \in D \cup {e} /\ end \in Int /\ end <= e /\ x <= end
      /\ R # {} => R = {x} /\ x < end /\ x \in Holes /\ end = BlockEnd(heap, x)
      /\ R = {} => end = x
  <2>1. CASE R = {}
    BY <2>1, <1>7 DEF FreedSpan, R, x
  <2>2. CASE R # {}
    <3>1. R = {x} /\ x \in Holes /\ x \in D
      BY <2>2, <1>4, <1>5
    <3>2. end = BlockEnd(heap, x)
      BY <2>2 DEF FreedSpan, R, x
    <3> QED
      BY <3>1, <3>2, <1>3
  <2> QED
    BY <2>1, <2>2
<1>10. end \notin Holes
  <2>1. CASE R = {}
    BY <2>1, <1>4, <1>9
  <2>2. CASE R # {}
    BY <2>2, <1>9, <1>6
  <2> QED
    BY <2>1, <2>2
<1>11. ASSUME NEW b \in D
       PROVE  b \in hole .. end - 1 <=> b \in {a} \cup L \cup R
  <2>1. ASSUME b \in {a} \cup L \cup R
        PROVE  b \in hole .. end - 1
    <3>1. CASE b = a
      BY <3>1, <1>7, <1>8, <1>9
    <3>2. CASE b \in L
      <4>1. b = hole
        BY <3>2, <1>8
      <4> QED
        BY <4>1, <1>7, <1>8, <1>9
    <3>3. CASE b \in R
      <4>1. b = x /\ x < end
        BY <3>3, <1>9
      <4> QED
        BY <4>1, <1>7, <1>8, <1>9
    <3> QED
      BY <2>1, <3>1, <3>2, <3>3
  <2>2. ASSUME b \in hole .. end - 1, b # a, b \notin L, b \notin R
        PROVE  FALSE
    <3>0. b \in Int /\ hole <= b /\ b < end
      BY <2>2, <1>3, <1>8, <1>9
    <3>1. CASE b < a
      <4>1. L = {hole} /\ hole < b
        <5>1. hole # a
          BY <3>0, <3>1, <1>7, <1>8
        <5>2. L = {hole} /\ hole # b
          BY <5>1, <1>8, <2>2
        <5> QED
          BY <3>0, <5>2, <1>8
      <4>2. BlockEnd(heap, hole) = a
        BY <4>1, <1>4
      <4>3. BlockEnd(heap, hole) <= b
        BY <4>1, <1>3, <1>8
      <4> QED
        BY <3>1, <4>2, <4>3, <1>7, <3>0
    <3>2. CASE a < b
      <4>1. x <= b
        BY <3>2, <1>2, <1>3 DEF x
      <4>2. R = {x} /\ x < b /\ x \in D /\ end = BlockEnd(heap, x)
        BY <3>0, <4>1, <2>2, <1>5, <1>7, <1>9
      <4>3. BlockEnd(heap, x) <= b
        BY <4>2, <1>3
      <4> QED
        BY <3>0, <4>2, <4>3, <1>9
    <3> QED
      BY <3>0, <3>1, <3>2, <2>2, <1>7
  <2> QED
    BY <2>1, <2>2
<1>12. end - hole - BLOCK_META_SIZE \in Nat \ {0}
  BY <1>7, <1>8, <1>9
<1>13. hole \in Int
  BY <1>8
<1>14. {a} \cup L \cup R = {a} \cup MergedHoles(a)
  BY DEF L, R, MergedHoles
<1> QED
  BY <1>2, <1>8, <1>9, <1>10, <1>11, <1>12, <1>13, <1>14, Zenon DEF e, D, L, R, x

\* One hole takes their place.
LEMMA FreedHeap ==
  ASSUME HeapInv, NEW a \in Headers \ Holes,
         NEW hole \in Int, NEW end \in Int, NEW size \in Nat \ {0}, NEW h,
         FreedSpan(a, hole, end),
         end = hole + size + BLOCK_META_SIZE,
         h = HoleBlock(heap, hole, size)
  PROVE  /\ Tiled(h, end_address, end_address, end_address)
         /\ HolesOf(h) = (Holes \ MergedHoles(a)) \cup {hole}
         /\ DOMAIN h.header \ HolesOf(h) = (Headers \ Holes) \ {a}
         /\ \A b \in Headers \ ({a} \cup MergedHoles(a)) :
              b \in DOMAIN h.header /\ h.header[b] = heap.header[b]
         /\ hole \in Holes => hole \in MergedHoles(a)
         /\ \A b \in HolesOf(h) : BlockEnd(h, b) \notin HolesOf(h)
<1> DEFINE e == end_address
           M == {a} \cup MergedHoles(a)
<1>1. e \in Int /\ Tiled(heap, e, e, e) /\ Headers = DOMAIN heap.header
  BY DEF HeapInv, Headers
<1>2. /\ hole \in Headers /\ hole \in Int
      /\ end \in Headers \cup {e} /\ end \in Int /\ end <= e
      /\ size \in Nat \ {0}
      /\ \A b \in Headers : b \in hole .. end - 1 <=> b \in M
      /\ \A b \in Holes : BlockEnd(heap, b) # hole
      /\ end \notin Holes
  BY FreedBlocks
<1>3. /\ hole < end /\ end = hole + size + BLOCK_META_SIZE
      /\ hole \in Int /\ end \in Int /\ size \in Nat \ {0}
  BY <1>2, MetaSize
<1> HIDE DEF e
<1>4. PlaceFor(heap, e, e, hole, size, end)
  BY <1>1, <1>2, <1>3 DEF PlaceFor
<1>5. Headers \ (hole .. end - 1) = Headers \ M
  BY <1>2
<1> HIDE DEF M
<1>6. HoleAt(h, heap, e, hole, size, end)
  BY <1>4, OneHole
<1>7. /\ Tiled(h, e, e, e)
       /\ DOMAIN h.header = (Headers \ (hole .. end - 1)) \cup {hole}
       /\ h.header[hole].size = size
       /\ h.header[hole].is_hole
       /\ \A b \in Headers \ (hole .. end - 1) : h.header[b] = heap.header[b]
  BY <1>1, <1>3, <1>6, Zenon DEF HoleAt
<1>8. /\ DOMAIN h.header = (Headers \ M) \cup {hole}
      /\ \A b \in Headers \ M : h.header[b] = heap.header[b]
  BY <1>1, <1>5, <1>7, Zenon
<1>9. HolesOf(h) = (Holes \ MergedHoles(a)) \cup {hole}
  <2>1. ASSUME NEW b \in DOMAIN h.header, b # hole
        PROVE  h.header[b].is_hole <=> b \in Holes \ MergedHoles(a)
    BY <2>1, <1>1, <1>8 DEF Holes, M
  <2>2. h.header[hole].is_hole
    BY <1>7
  <2>3. Holes \ MergedHoles(a) \subseteq Headers \ M
    BY DEF Holes, M
  <2> QED
    BY <2>1, <2>2, <2>3, <1>8 DEF HolesOf
<1>10. hole \in M
  <2>1. hole \in hole .. end - 1
    BY <1>3
  <2> QED
    BY <1>2, <2>1
<1>11. DOMAIN h.header \ HolesOf(h) = (Headers \ Holes) \ {a}
  <2>1. MergedHoles(a) \subseteq Holes
    BY Neighbours DEF MergedHoles
  <2> QED
    BY <1>8, <1>9, <1>10, <2>1 DEF M
<1>12. hole \in Holes => hole \in MergedHoles(a)
  BY <1>10 DEF M
<1>13. ASSUME NEW b \in HolesOf(h)
       PROVE  BlockEnd(h, b) \notin HolesOf(h)
  <2>1. CASE b = hole
    <3>1. BlockEnd(h, b) = end
      BY <2>1, <1>3, <1>7, MetaSize DEF BlockEnd
    <3>2. end # hole /\ end \notin Holes
      BY <1>2, <1>3
    <3> QED
      BY <3>1, <3>2, <1>9
  <2>2. CASE b # hole
    <3>1. b \in Holes /\ b \in Headers \ M
      BY <2>2, <1>9 DEF Holes, M
    <3>2. BlockEnd(h, b) = BlockEnd(heap, b)
      BY <3>1, <1>8 DEF BlockEnd
    <3>3. BlockEnd(heap, b) \notin Holes
      BY <3>1 DEF HeapInv, HolesMerged
    <3> QED
      BY <3>1, <3>2, <3>3, <1>2, <1>9
  <2> QED
    BY <2>1, <2>2
<1> QED
  BY <1>7, <1>8, <1>9, <1>11, <1>12, <1>13, Zenon DEF M, e

\* Before that the merged holes leave the index.
LEMMA RemoveIfAny ==
  ASSUME NEW h, NEW array, NEW S, NEW item, NEW new, Listed(h, array),
         S \subseteq Entries(array), S # {} => S = {item},
         new = IF S = {} THEN array ELSE ordered_array_remove_element(array, item)
  PROVE  /\ Listed(h, new)
         /\ Entries(new) = Entries(array) \ S
         /\ Len(new) <= Len(array)
<1>1. Len(array) \in Nat
  BY DEF Listed
<1>2. CASE S = {}
  BY <1>1, <1>2
<1>3. CASE S # {}
  <2>1. new = ordered_array_remove_element(array, item) /\ item \in Entries(array)
    BY <1>3
  <2>2. /\ Listed(h, new)
        /\ Entries(new) = Entries(array) \ {item}
        /\ Len(new) = Len(array) - 1
    BY <2>1, RemoveHole
  <2> QED
    BY <1>1, <1>3, <2>2
<1> QED
  BY <1>2, <1>3

LEMMA FreedIndex ==
  ASSUME HeapInv, NEW a \in Headers \ Holes, NEW hole, NEW end, NEW index0, NEW index1,
         FreedSpan(a, hole, end),
         MergedHoles(a) \subseteq Entries(index),
         index0 = IF RightHole(a) = {} THEN index
                  ELSE ordered_array_remove_element(index, BlockEnd(heap, a)),
         index1 = IF LeftHole(a) = {} THEN index0
                  ELSE ordered_array_remove_element(index0, hole)
  PROVE  /\ Listed(heap, index1)
         /\ Entries(index1) = Entries(index) \ MergedHoles(a)
         /\ Len(index1) <= Len(index)
<1>1. Listed(heap, index)
  BY DEF HeapInv
<1>2. /\ LeftHole(a) # {} => LeftHole(a) = {hole}
      /\ RightHole(a) # {} => RightHole(a) = {BlockEnd(heap, a)}
  BY FreedBlocks
<1>3. LeftHole(a) \cap RightHole(a) = {}
  <2>1. end_address \in Int /\ Tiled(heap, end_address, end_address, end_address)
    BY DEF HeapInv
  <2>2. ASSUME NEW b \in LeftHole(a), b \in RightHole(a)
        PROVE  FALSE
    <3>1. b \in Headers /\ BlockEnd(heap, b) = a /\ b = BlockEnd(heap, a)
      BY <2>2, Neighbours DEF Holes
    <3>2. b \in Nat /\ a \in Nat /\ b < a /\ a < b
      BY <2>1, <3>1, Blocks DEF Headers
    <3> QED
      BY <3>2
  <2> QED
    BY <2>2
<1>4. LeftHole(a) \subseteq Entries(index) /\ RightHole(a) \subseteq Entries(index)
  BY DEF MergedHoles
<1>5. /\ Listed(heap, index0)
      /\ Entries(index0) = Entries(index) \ RightHole(a)
      /\ Len(index0) <= Len(index)
  BY <1>1, <1>2, <1>4, RemoveIfAny
<1>6. LeftHole(a) \subseteq Entries(index0)
  BY <1>3, <1>4, <1>5
<1>7. /\ Listed(heap, index1)
      /\ Entries(index1) = Entries(index0) \ LeftHole(a)
      /\ Len(index1) <= Len(index0)
  BY <1>2, <1>5, <1>6, RemoveIfAny
<1>8. Entries(index1) = Entries(index) \ MergedHoles(a)
  BY <1>5, <1>7 DEF MergedHoles
<1>9. Len(index) \in Nat /\ Len(index0) \in Nat /\ Len(index1) \in Nat
  BY <1>1, <1>5, <1>7 DEF Listed
<1> QED
  BY <1>5, <1>7, <1>8, <1>9

\* What the step of kfree does, for the block a of the pointer.
FreesInto(a, hole, end, index0, index1) ==
  /\ FreedSpan(a, hole, end)
  /\ index0 = IF RightHole(a) = {} THEN index
              ELSE ordered_array_remove_element(index, BlockEnd(heap, a))
  /\ index1 = IF LeftHole(a) = {} THEN index0
              ELSE ordered_array_remove_element(index0, hole)
  /\ heap' = HoleBlock(heap, hole, end - hole - BLOCK_META_SIZE)
  /\ index' = ordered_array_insert(heap', index1, hole)
  /\ live' = [p \in DOMAIN live \ {a + HeaderSize} |-> live[p]]
  /\ UNCHANGED <<end_address, request, panic>>

LEMMA FreeCases ==
  ASSUME HeapInv, NEW ptr \in DOMAIN live, kfree(ptr)
  PROVE  \E a \in Headers \ Holes :
           \/ ~(MergedHoles(a) \subseteq Entries(index)) /\ Panic("assert_failed")
           \/ /\ MergedHoles(a) \subseteq Entries(index)
              /\ \E hole, end, index0, index1 : FreesInto(a, hole, end, index0, index1)
<1>1. end_address \in Int /\ Tiled(heap, end_address, end_address, end_address)
  BY DEF HeapInv
<1>2. PICK a \in Headers \ Holes : ptr = a + HeaderSize
  BY DEF HeapInv, LiveFits
<1>3. a \in Nat /\ BlockEnd(heap, a) - FooterSize \in DOMAIN heap.footer
  BY <1>1, Blocks DEF Headers
<1>4. ptr - HeaderSize = a
  BY <1>2, <1>3, MetaSize
<1> DEFINE hole == Min({a} \cup LeftHole(a))
           end == IF RightHole(a) = {} THEN BlockEnd(heap, a)
                  ELSE BlockEnd(heap, BlockEnd(heap, a))
           index0 == IF RightHole(a) = {} THEN index
                     ELSE ordered_array_remove_element(index, BlockEnd(heap, a))
           index1 == IF LeftHole(a) = {} THEN index0
                     ELSE ordered_array_remove_element(index0, hole)
           found == \A b \in MergedHoles(a) : ordered_array_find_element(index, b)
<1>5. found <=> MergedHoles(a) \subseteq Entries(index)
  BY DEF ordered_array_find_element, Entries
<1>6. IF ~found
      THEN Panic("assert_failed")
      ELSE /\ heap' = HoleBlock(heap, hole, end - hole - BLOCK_META_SIZE)
           /\ index' = ordered_array_insert(
                         HoleBlock(heap, hole, end - hole - BLOCK_META_SIZE), index1, hole)
           /\ live' = [p \in DOMAIN live \ {ptr} |-> live[p]]
           /\ UNCHANGED <<end_address, request, panic>>
  BY <1>3, <1>4, Zenon DEF kfree, HoleBlock, Headers
<1>7. CASE ~found
  BY <1>5, <1>6, <1>7, Zenon
<1>8. CASE found
  <2>1. FreesInto(a, hole, end, index0, index1)
    BY <1>2, <1>6, <1>8, Zenon DEF FreesInto, FreedSpan
  <2> QED
    BY <1>5, <1>8, <2>1, Zenon
<1> QED
  BY <1>7, <1>8

LEMMA FreeStep ==
  ASSUME HeapInv, NEW ptr \in DOMAIN live, kfree(ptr)
  PROVE  /\ HeapInv'
         /\ IndexComplete /\ Len(index) < KHEAP_INDEX_NUM => IndexComplete'
<1>1. PICK a \in Headers \ Holes :
           \/ ~(MergedHoles(a) \subseteq Entries(index)) /\ Panic("assert_failed")
           \/ /\ MergedHoles(a) \subseteq Entries(index)
              /\ \E hole, end, index0, index1 : FreesInto(a, hole, end, index0, index1)
  BY FreeCases
<1>2. CASE ~(MergedHoles(a) \subseteq Entries(index)) /\ Panic("assert_failed")
  <2>1. HeapInv'
    BY <1>2 DEF Panic, HeapInv, LiveFits, HolesMerged, Holes, Headers
  <2>2. ~IndexComplete
    BY <1>2, Neighbours DEF MergedHoles, IndexComplete
  <2> QED
    BY <2>1, <2>2
<1>3. ASSUME MergedHoles(a) \subseteq Entries(index),
             NEW hole, NEW end, NEW index0, NEW index1,
             FreesInto(a, hole, end, index0, index1)
      PROVE  /\ HeapInv'
             /\ IndexComplete /\ Len(index) < KHEAP_INDEX_NUM => IndexComplete'
  <2> DEFINE size == end - hole - BLOCK_META_SIZE
  <2>1. /\ FreedSpan(a, hole, end)
        /\ heap' = HoleBlock(heap, hole, size)
        /\ index' = ordered_array_insert(heap', index1, hole)
        /\ live' = [p \in DOMAIN live \ {a + HeaderSize} |-> live[p]]
        /\ UNCHANGED <<end_address, request, panic>>
    BY <1>3 DEF FreesInto
  <2>2. hole \in Int /\ end \in Int /\ size \in Nat \ {0}
    BY <2>1, FreedBlocks
  <2>3. end = hole + size + BLOCK_META_SIZE
    BY <2>2, MetaSize
  <2> HIDE DEF size
  <2>4. /\ Tiled(heap', end_address, end_address, end_address)
        /\ HolesOf(heap') = (Holes \ MergedHoles(a)) \cup {hole}
        /\ DOMAIN heap'.header \ HolesOf(heap') = (Headers \ Holes) \ {a}
        /\ \A b \in Headers \ ({a} \cup MergedHoles(a)) :
             b \in DOMAIN heap'.header /\ heap'.header[b] = heap.header[b]
        /\ hole \in Holes => hole \in MergedHoles(a)
        /\ \A b \in HolesOf(heap') : BlockEnd(heap', b) \notin HolesOf(heap')
    BY <2>1, <2>2, <2>3, FreedHeap
  <2>5. /\ Listed(heap, index1)
        /\ Entries(index1) = Entries(index) \ MergedHoles(a)
        /\ Len(index1) <= Len(index)
    BY <1>3, <2>1, FreedIndex DEF FreesInto
  <2>6. Headers' = DOMAIN heap'.header /\ Holes' = HolesOf(heap')
    BY DEF Headers, Holes, HolesOf
  <2>7. /\ Listed(heap', index')
        /\ Len(index1) < KHEAP_INDEX_NUM => Entries(index') = Entries(index1) \cup {hole}
    <3>1. Entries(index) \subseteq Holes
      BY DEF HeapInv, Listed, HolesOf, Holes, Headers
    <3>2. \A b \in Entries(index1) : b \in Headers \ ({a} \cup MergedHoles(a))
      BY <2>5, <3>1 DEF Holes
    <3>3. Listed(heap', index1)
      BY <2>4, <2>5, <3>2, KeepListed
    <3>4. hole \in HolesOf(heap') /\ hole \notin Entries(index1)
      BY <2>4, <2>5, <3>1
    <3>5. /\ heap'.header \in [DOMAIN heap'.header -> [size : Nat \ {0}, is_hole : BOOLEAN]]
          /\ DOMAIN heap'.header \subseteq Int
      BY <2>4 DEF Tiled
    <3> QED
      BY <2>1, <3>3, <3>4, <3>5, InsertHole
  <2>8. LiveFits'
    <3> DEFINE used == Headers \ Holes
    <3>1. \A b \in used : b \in Int
      <4>1. end_address \in Int /\ Tiled(heap, end_address, end_address, end_address)
        BY DEF HeapInv
      <4> QED
        BY <4>1, Blocks DEF Headers
    <3>2. DOMAIN live = {b + HeaderSize : b \in used}
      BY DEF HeapInv, LiveFits
    <3>3. DOMAIN live' = DOMAIN live \ {a + HeaderSize}
      BY <2>1
    <3>4. DOMAIN live' = {b + HeaderSize : b \in used \ {a}}
      BY <3>1, <3>2, <3>3, MetaSize
    <3>5. (Headers \ Holes)' = used \ {a}
      BY <2>4, <2>6
    <3>6. ASSUME NEW b \in used \ {a}
          PROVE  /\ live'[b + HeaderSize] \in Nat
                 /\ live'[b + HeaderSize] <= heap'.header[b].size
      <4>1. b + HeaderSize \in DOMAIN live' /\ live'[b + HeaderSize] = live[b + HeaderSize]
        BY <2>1, <3>3, <3>4
      <4>2. heap'.header[b] = heap.header[b]
        BY <2>4, Neighbours DEF MergedHoles
      <4>3. /\ live[b + HeaderSize] \in Nat
            /\ live[b + HeaderSize] <= heap.header[b].size
        BY DEF HeapInv, LiveFits
      <4> QED
        BY <4>1, <4>2, <4>3
    <3> QED
      BY <3>4, <3>5, <3>6 DEF LiveFits
  <2>9. HolesMerged'
    BY <2>4, <2>6 DEF HolesMerged
  <2>10. HeapInv'
    BY <2>1, <2>4, <2>7, <2>8, <2>9 DEF HeapInv
  <2>11. ASSUME IndexComplete, Len(index) < KHEAP_INDEX_NUM
         PROVE  IndexComplete'
    <3>1. Len(index1) < KHEAP_INDEX_NUM
      <4>1. index \in Seq(Int) /\ index1 \in Seq(Int)
        BY <2>5 DEF HeapInv, Listed
      <4>2. KHEAP_INDEX_NUM \in Int
        BY KHeapAssumption
      <4> QED
        BY <2>5, <2>11, <4>1, <4>2
    <3>2. Entries(index') = Entries(index1) \cup {hole}
      BY <2>7, <3>1
    <3>3. Holes' \subseteq Entries(index')
      BY <2>4, <2>5, <2>6, <2>11, <3>2 DEF IndexComplete
    <3>4. panic' # "assert_failed"
      BY <2>1, <2>11 DEF IndexComplete
    <3> QED
      BY <3>3, <3>4 DEF IndexComplete
  <2> QED
    BY <2>10, <2>11
<1> QED
  BY <1>1, <1>2, <1>3, Zenon

-----------------------------------------------------------------------------
(* kheap_expand.                                                           *)

LEMMA Division ==
  ASSUME NEW a \in Nat, NEW n \in Nat \ {0}
  PROVE  /\ a \div n \in Nat /\ a % n \in 0..(n - 1)
         /\ a = n * (a \div n) + (a % n)
  OBVIOUS

LEMMA AlignUp ==
  ASSUME NEW n \in Nat
  PROVE  align_to_page(n) \in Nat /\ align_to_page(n) >= n
<1> DEFINE m == n + PageSize - 1
           q == m \div PageSize
<1>1. PageSize \in Nat \ {0} /\ m \in Nat
  BY KHeapAssumption
<1> HIDE DEF m
<1>2. q \in Nat /\ m % PageSize \in 0..(PageSize - 1) /\ m = PageSize * q + (m % PageSize)
  BY <1>1, Division
<1> HIDE DEF q
<1>3. PageSize * q \in Nat /\ PageSize * q = q * PageSize
  BY <1>1, <1>2
<1>4. PageSize * q >= n
  BY <1>1, <1>2, <1>3 DEF m
<1> QED
  BY <1>3, <1>4 DEF align_to_page, q, m

\* The last block, which the footer at the end of the heap points to.
LEMMA LastBlock ==
  ASSUME HeapInv, NEW last, last = heap.footer[end_address - FooterSize]
  PROVE  /\ last \in Headers
         /\ BlockEnd(heap, last) = end_address
         /\ \A b \in Headers : BlockEnd(heap, b) = end_address => b = last
         /\ \A b \in Headers : b < end_address /\ (b # last => b < last)
<1>1. end_address \in Int /\ Tiled(heap, end_address, end_address, end_address)
  BY DEF HeapInv
<1>2. /\ last \in Headers
      /\ end_address - FooterSize = BlockEnd(heap, last) - FooterSize
      /\ BlockEnd(heap, last) \in Int
      /\ \A b \in Headers : /\ BlockEnd(heap, b) = end_address => b = last
                            /\ BlockEnd(heap, b) \in Int /\ b \in Int
                            /\ b < BlockEnd(heap, b) /\ BlockEnd(heap, b) <= end_address
      /\ \A b, c \in Headers : b < c => BlockEnd(heap, b) <= c
  BY <1>1, Blocks DEF Headers
<1>3. BlockEnd(heap, last) = end_address
  BY <1>1, <1>2, MetaSize
<1>4. ASSUME NEW b \in Headers
      PROVE  b < end_address /\ (b # last => b < last)
  BY <1>1, <1>2, <1>3
<1> QED
  BY <1>2, <1>3, <1>4

\* The blocks of the callers are safe when they and their headers stay.
LEMMA UsedKept ==
  ASSUME HeapInv, live' = live,
         Headers' \ Holes' = Headers \ Holes,
         \A b \in Headers \ Holes : heap'.header[b] = heap.header[b]
  PROVE  LiveFits'
  BY DEF HeapInv, LiveFits

\* kheap_expand, when it does not stop the kernel.
GrowsBy(extended_size) ==
  LET last == heap.footer[end_address - FooterSize]
  IN  /\ \/ /\ heap.header[last].is_hole
            /\ last \in Entries(index)
            /\ heap' = HoleBlock(heap, last, heap.header[last].size + extended_size)
            /\ index' = ordered_array_insert(heap',
                           ordered_array_remove_element(index, last), last)
         \/ /\ ~heap.header[last].is_hole
            /\ heap' = HoleBlock(heap, end_address, extended_size - BLOCK_META_SIZE)
            /\ index' = ordered_array_insert(heap', index, end_address)
      /\ end_address + extended_size <= MaxAddress
      /\ end_address' = end_address + extended_size
      /\ UNCHANGED <<request, panic, live>>

LEMMA ExpandCases ==
  ASSUME HeapInv, NEW size \in Nat, kheap_expand(size)
  PROVE  \/ Panic("out_of_memory")
         \/ Panic("assert_failed") /\ ~IndexComplete
         \/ GrowsBy(size)
<1> DEFINE last == heap.footer[end_address - FooterSize]
           found == ordered_array_find_element(index, last)
           asserted == heap.header[last].is_hole => found
<1>1. found <=> last \in Entries(index)
  BY DEF ordered_array_find_element, Entries
<1>2. last \in Headers
  BY LastBlock
<1>3. IndexComplete => asserted
  BY <1>1, <1>2 DEF IndexComplete, Holes
<1>4. IF end_address + size > MaxAddress THEN Panic("out_of_memory")
      ELSE IF ~asserted THEN Panic("assert_failed")
      ELSE /\ grow_heap(size)
           /\ end_address' = end_address + size
           /\ UNCHANGED <<request, panic, live>>
  BY Zenon DEF kheap_expand
<1>5. ~(end_address + size > MaxAddress) => end_address + size <= MaxAddress
  BY MetaSize DEF HeapInv
<1>6. grow_heap(size) /\ asserted =>
        \/ /\ heap.header[last].is_hole
           /\ last \in Entries(index)
           /\ heap' = HoleBlock(heap, last, heap.header[last].size + size)
           /\ index' = ordered_array_insert(heap',
                          ordered_array_remove_element(index, last), last)
        \/ /\ ~heap.header[last].is_hole
           /\ heap' = HoleBlock(heap, end_address, size - BLOCK_META_SIZE)
           /\ index' = ordered_array_insert(heap', index, end_address)
  BY <1>1, Zenon DEF grow_heap, HoleBlock
<1> QED
  BY <1>3, <1>4, <1>5, <1>6, Zenon DEF GrowsBy

\* The new hole, or the larger one, is put into an array of good entries.
LEMMA ListedAfter ==
  ASSUME NEW h, NEW m, NEW e, NEW g, NEW k, NEW array, NEW hole, NEW new,
         Listed(h, array), Tiled(m, e, g, k),
         \A b \in Entries(array) : b \in DOMAIN m.header /\ m.header[b] = h.header[b],
         hole \in HolesOf(m), hole \notin Entries(array),
         new = ordered_array_insert(m, array, hole)
  PROVE  /\ Listed(m, new)
         /\ Entries(new) \subseteq Entries(array) \cup {hole}
         /\ Len(array) < KHEAP_INDEX_NUM =>
              Entries(new) = Entries(array) \cup {hole} /\ Len(new) = Len(array) + 1
<1>1. Listed(m, array)
  BY KeepListed
<1>2. /\ m.header \in [DOMAIN m.header -> [size : Nat \ {0}, is_hole : BOOLEAN]]
      /\ DOMAIN m.header \subseteq Int
  BY DEF Tiled
<1> QED
  BY <1>1, <1>2, InsertHole

LEMMA GrowStep ==
  ASSUME HeapInv, NEW ext \in Nat, ext > BLOCK_META_SIZE, GrowsBy(ext)
  PROVE  /\ HeapInv'
         /\ IndexComplete /\ Len(index) < KHEAP_INDEX_NUM => IndexComplete'
<1> DEFINE e == end_address
           n == e + ext
           last == heap.footer[e - FooterSize]
<1>1. e \in Int /\ Tiled(heap, e, e, e) /\ Headers = DOMAIN heap.header
  BY DEF HeapInv, Headers
<1>2. /\ last \in Headers
      /\ BlockEnd(heap, last) = e
      /\ \A b \in Headers : BlockEnd(heap, b) = e => b = last
      /\ \A b \in Headers : b < e /\ (b # last => b < last)
  BY LastBlock
<1>3. /\ last \in Int /\ heap.header[last].size \in Nat \ {0}
      /\ e = last + heap.header[last].size + BLOCK_META_SIZE
      /\ \A b \in Headers : b \in Int
  BY <1>1, <1>2, Blocks
<1>4. n \in Int /\ e < n /\ n <= MaxAddress /\ e <= MaxAddress
  BY <1>1, MetaSize DEF GrowsBy, HeapInv
<1>5. /\ end_address' = n
      /\ UNCHANGED <<request, panic, live>>
  BY DEF GrowsBy
<1>6. Headers' = DOMAIN heap'.header /\ Holes' = HolesOf(heap')
  BY DEF Headers, Holes, HolesOf
<1>7. Listed(heap, index) /\ Entries(index) \subseteq Holes /\ Holes \subseteq Headers
  BY DEF HeapInv, Listed, HolesOf, Holes, Headers
<1> HIDE DEF last, n, e
<1>8. ASSUME NEW hole \in Headers', NEW array,
             Tiled(heap', n, n, n),
             heap'.header[hole].is_hole,
             BlockEnd(heap', hole) = n,
             Headers' = Headers \cup {hole},
             \A b \in Headers \ {hole} : heap'.header[b] = heap.header[b],
             hole \in Headers => hole \in Holes,
             \A b \in Holes : BlockEnd(heap, b) # hole,
             Listed(heap, array),
             Entries(array) = Entries(index) \ {hole},
             Len(array) <= Len(index),
             index' = ordered_array_insert(heap', array, hole)
      PROVE  /\ HeapInv'
             /\ IndexComplete /\ Len(index) < KHEAP_INDEX_NUM => IndexComplete'
  <2>1. Holes' = Holes \cup {hole}
    <3>1. \A b \in Headers \ {hole} : b \in Holes' <=> b \in Holes
      BY <1>6, <1>8 DEF Holes, Headers
    <3>2. hole \in Holes'
      BY <1>6, <1>8 DEF Holes, Headers
    <3>3. Holes' \subseteq Headers'
      BY DEF Holes
    <3> QED
      BY <1>7, <1>8, <3>1, <3>2, <3>3
  <2>2. /\ Listed(heap', index')
        /\ Len(array) < KHEAP_INDEX_NUM => Entries(index') = Entries(array) \cup {hole}
    <3>1. \A b \in Entries(array) :
            b \in DOMAIN heap'.header /\ heap'.header[b] = heap.header[b]
      BY <1>6, <1>7, <1>8
    <3>2. hole \in HolesOf(heap') /\ hole \notin Entries(array)
      BY <1>6, <1>8, <2>1
    <3> QED
      BY <1>8, <3>1, <3>2, ListedAfter
  <2>3. HolesMerged'
    <3>1. n \notin Holes'
      <4>1. \A b \in Headers' : b < n
        <5>1. ASSUME NEW b \in Headers'
              PROVE  b < n
          <6>1. CASE b \in Headers
            BY <6>1, <1>1, <1>2, <1>3, <1>4
          <6>2. CASE b = hole
            BY <6>2, <1>4, <1>6, <1>8, Blocks
          <6> QED
            BY <6>1, <6>2, <1>8
        <5> QED
          BY <5>1
      <4> QED
        BY <1>4, <2>1, <4>1, <1>7, <1>8
    <3>2. ASSUME NEW b \in Holes', b # hole
          PROVE  BlockEnd(heap, b) \notin Holes' /\ BlockEnd(heap', b) = BlockEnd(heap, b)
      <4>1. b \in Holes /\ b \in Headers \ {hole}
        BY <3>2, <2>1, <1>7
      <4>2. BlockEnd(heap', b) = BlockEnd(heap, b)
        BY <4>1, <1>8 DEF BlockEnd
      <4>3. BlockEnd(heap, b) \notin Holes
        BY <4>1 DEF HeapInv, HolesMerged
      <4> QED
        BY <4>1, <4>2, <4>3, <1>8, <2>1
    <3>3. \A b \in Holes' : BlockEnd(heap', b) \notin Holes'
      BY <3>1, <3>2, <1>8
    <3> QED
      BY <3>3 DEF HolesMerged
  <2>4. LiveFits'
    <3>1. Headers' \ Holes' = Headers \ Holes
      BY <1>8, <2>1
    <3>2. \A b \in Headers \ Holes : heap'.header[b] = heap.header[b]
      BY <1>8
    <3> QED
      BY <1>5, <3>1, <3>2, UsedKept
  <2>5. HeapInv'
    BY <1>4, <1>5, <1>8, <2>2, <2>3, <2>4 DEF HeapInv
  <2>6. ASSUME IndexComplete, Len(index) < KHEAP_INDEX_NUM
        PROVE  IndexComplete'
    <3>1. Len(array) < KHEAP_INDEX_NUM
      <4>1. index \in Seq(Int) /\ array \in Seq(Int)
        BY <1>7, <1>8 DEF Listed
      <4>2. KHEAP_INDEX_NUM \in Int
        BY KHeapAssumption
      <4> QED
        BY <1>8, <2>6, <4>1, <4>2
    <3>2. Entries(index') = Entries(array) \cup {hole}
      BY <2>2, <3>1
    <3>3. Holes' \subseteq Entries(index')
      BY <1>8, <2>1, <2>6, <3>2 DEF IndexComplete
    <3>4. panic' # "assert_failed"
      BY <1>5, <2>6 DEF IndexComplete
    <3> QED
      BY <3>3, <3>4 DEF IndexComplete
  <2> QED
    BY <2>5, <2>6
<1>9. CASE /\ heap.header[last].is_hole
           /\ last \in Entries(index)
           /\ heap' = HoleBlock(heap, last, heap.header[last].size + ext)
           /\ index' = ordered_array_insert(heap',
                          ordered_array_remove_element(index, last), last)
  <2> DEFINE size == heap.header[last].size + ext
             array == ordered_array_remove_element(index, last)
  <2>1. PlaceFor(heap, e, n, last, size, n)
    <3>1. size \in Nat \ {0} /\ n = last + size + BLOCK_META_SIZE /\ e <= n
      BY <1>1, <1>3, <1>4, MetaSize DEF n
    <3> HIDE DEF size
    <3>2. last \in DOMAIN heap.header \cup {e}
      BY <1>1, <1>2
    <3> QED
      BY <1>1, <1>3, <1>4, <3>1, <3>2 DEF PlaceFor
  <2>2. HoleAt(heap', heap, n, last, size, n)
    BY <1>9, <2>1, OneHole
  <2>3. Headers \ (last .. n - 1) = Headers \ {last}
    <3>1. \A b \in Headers : b \in last .. n - 1 <=> b = last
      BY <1>1, <1>2, <1>3, <1>4
    <3> QED
      BY <3>1
  <2>4. /\ Tiled(heap', n, n, n)
        /\ Headers' = (Headers \ {last}) \cup {last}
        /\ heap'.header[last].size = size
        /\ heap'.header[last].is_hole
        /\ \A b \in Headers \ {last} : heap'.header[b] = heap.header[b]
    BY <1>1, <1>6, <2>2, <2>3, Zenon DEF HoleAt
  <2>5. BlockEnd(heap', last) = n
    BY <1>3, <2>4, MetaSize DEF BlockEnd, n
  <2>6. last \in Headers' /\ Headers' = Headers \cup {last} /\ last \in Holes
    BY <1>2, <1>9, <2>4 DEF Holes
  <2>7. \A b \in Holes : BlockEnd(heap, b) # last
    BY <2>6 DEF HeapInv, HolesMerged
  <2>8. /\ Listed(heap, array) /\ Entries(array) = Entries(index) \ {last}
        /\ Len(array) = Len(index) - 1
    <3>1. last \in Entries(index) /\ Listed(heap, index)
      BY <1>7, <1>9
    <3>2. array = ordered_array_remove_element(index, last)
      OBVIOUS
    <3> HIDE DEF array
    <3> QED
      BY <3>1, <3>2, RemoveHole
  <2>9. Len(array) <= Len(index)
    BY <1>7, <2>8 DEF Listed
  <2> HIDE DEF array, size
  <2>10. index' = ordered_array_insert(heap', array, last)
    BY <1>9 DEF array
  <2> QED
    BY <1>8, <2>4, <2>5, <2>6, <2>7, <2>8, <2>9, <2>10, Zenon
<1>10. CASE /\ ~heap.header[last].is_hole
            /\ heap' = HoleBlock(heap, e, ext - BLOCK_META_SIZE)
            /\ index' = ordered_array_insert(heap', index, e)
  <2> DEFINE size == ext - BLOCK_META_SIZE
  <2>1. PlaceFor(heap, e, n, e, size, n)
    BY <1>1, <1>3, <1>4, MetaSize DEF PlaceFor, n
  <2>2. HoleAt(heap', heap, n, e, size, n)
    BY <1>10, <2>1, OneHole
  <2>3. Headers \ (e .. n - 1) = Headers /\ Headers \ {e} = Headers /\ e \notin Headers
    <3>1. \A b \in Headers : b \notin e .. n - 1 /\ b # e
      BY <1>1, <1>2, <1>3
    <3> QED
      BY <3>1
  <2>4. /\ Tiled(heap', n, n, n)
        /\ Headers' = Headers \cup {e}
        /\ heap'.header[e].size = size
        /\ heap'.header[e].is_hole
        /\ \A b \in Headers \ {e} : heap'.header[b] = heap.header[b]
    BY <1>1, <1>6, <2>2, <2>3, Zenon DEF HoleAt
  <2>5. BlockEnd(heap', e) = n
    BY <1>1, <2>4, MetaSize DEF BlockEnd, n
  <2>6. e \in Headers'
    BY <2>4
  <2>7. \A b \in Holes : BlockEnd(heap, b) # e
    BY <1>2, <1>10 DEF Holes
  <2>8. Entries(index) = Entries(index) \ {e}
    BY <1>7, <2>3
  <2>9. Len(index) <= Len(index)
    BY <1>7 DEF Listed
  <2> HIDE DEF size
  <2> QED
    BY <1>7, <1>8, <1>10, <2>3, <2>4, <2>5, <2>6, <2>7, <2>8, <2>9, Zenon
<1> QED
  BY <1>9, <1>10, Zenon DEF GrowsBy, last, e

LEMMA PanicStep ==
  ASSUME HeapInv, NEW why, Panic(why)
  PROVE  HeapInv' /\ (IndexComplete /\ why # "assert_failed" => IndexComplete')
<1>1. HeapInv'
  BY DEF Panic, HeapInv, LiveFits, HolesMerged, Holes, Headers
<1>2. IndexComplete /\ why # "assert_failed" => IndexComplete'
  BY DEF Panic, IndexComplete, Holes, Headers
<1> QED
  BY <1>1, <1>2

LEMMA ExpandStep ==
  ASSUME HeapInv, NEW r \in Requests, alloc_expand(r)
  PROVE  /\ HeapInv'
         /\ IndexComplete /\ Len(index) < KHEAP_INDEX_NUM => IndexComplete'
<1> DEFINE ext == align_to_page(r.size + BLOCK_META_SIZE)
<1>1. r.size \in Nat \ {0}
  BY KHeapAssumption DEF Requests
<1>2. ext \in Nat /\ ext >= r.size + BLOCK_META_SIZE
  <2>1. r.size + BLOCK_META_SIZE \in Nat
    BY <1>1, MetaSize
  <2> QED
    BY <2>1, AlignUp
<1>3. kheap_expand(ext)
  BY DEF alloc_expand
<1> HIDE DEF ext
<1>4. ext > BLOCK_META_SIZE
  BY <1>1, <1>2, MetaSize
<1>5. \/ Panic("out_of_memory")
      \/ Panic("assert_failed") /\ ~IndexComplete
      \/ GrowsBy(ext)
  BY <1>2, <1>3, ExpandCases
<1>6. CASE GrowsBy(ext)
  BY <1>2, <1>4, <1>6, GrowStep
<1>7. CASE Panic("out_of_memory")
  BY <1>7, PanicStep
<1>8. CASE Panic("assert_failed") /\ ~IndexComplete
  BY <1>8, PanicStep
<1> QED
  BY <1>5, <1>6, <1>7, <1>8

-----------------------------------------------------------------------------
(* alloc.                                                                  *)

\* The memory from g up to t becomes a hole, if there is any.
HoleUpTo(h, g, t) == IF t > g THEN HoleBlock(h, g, t - g - BLOCK_META_SIZE) ELSE h
Spare(g, t) == IF t > g THEN {g} ELSE {}

LEMMA FillUpTo ==
  ASSUME NEW h, NEW e \in Int, NEW g \in Int, NEW t \in Int, NEW k \in Int, NEW m,
         Tiled(h, e, g, k), t = g \/ t - g > BLOCK_META_SIZE, t <= k,
         m = HoleUpTo(h, g, t)
  PROVE  /\ Tiled(m, e, t, k)
         /\ Outside(m, t, k) = Outside(h, g, k) \cup Spare(g, t)
         /\ \A b \in Outside(h, g, k) : m.header[b] = h.header[b]
         /\ \A b \in Spare(g, t) : m.header[b].is_hole /\ BlockEnd(m, b) = t
<1>1. CASE t = g
  <2>1. m = h /\ Spare(g, t) = {}
    BY <1>1 DEF HoleUpTo, Spare
  <2> QED
    BY <1>1, <2>1
<1>2. CASE t - g > BLOCK_META_SIZE
  <2> DEFINE size == t - g - BLOCK_META_SIZE
  <2>1. size \in Nat \ {0} /\ t = g + size + BLOCK_META_SIZE /\ t > g
    BY <1>2, MetaSize
  <2>2. m = HoleBlock(h, g, size) /\ Spare(g, t) = {g}
    BY <2>1 DEF HoleUpTo, Spare
  <2> HIDE DEF size
  <2>3. /\ Tiled(m, e, t, k)
        /\ Outside(m, t, k) = Outside(h, g, k) \cup {g}
        /\ m.header[g].size = size
        /\ m.header[g].is_hole
        /\ \A a \in Outside(h, g, k) : m.header[a] = h.header[a]
    BY <2>1, <2>2, FillHole
  <2>4. BlockEnd(m, g) = t
    BY <2>1, <2>3 DEF BlockEnd
  <2> QED
    BY <2>2, <2>3, <2>4
<1> QED
  BY <1>1, <1>2

\* The hole from a to x is cut: a hole up to header if there is room for one, a used
\* block of that size, and the rest of it.
Cut(h, e, a, x, header, size, rest) ==
  /\ e \in Int /\ a \in Int /\ x \in Int /\ header \in Int /\ rest \in Int
  /\ size \in Nat \ {0}
  /\ Tiled(h, e, e, e)
  /\ a \in DOMAIN h.header
  /\ x = BlockEnd(h, a)
  /\ header = a \/ header - a > BLOCK_META_SIZE
  /\ rest = header + size + BLOCK_META_SIZE
  /\ rest = x \/ x - rest > BLOCK_META_SIZE
CutHeap(h, m1, m, e, a, x, header, size, rest) ==
  LET kept == DOMAIN h.header \ {a}
  IN  /\ Tiled(m1, e, header, x)
      /\ \A b \in kept : b \in DOMAIN m1.header /\ m1.header[b] = h.header[b]
      /\ \A b \in Spare(a, header) : b \in DOMAIN m1.header /\ m1.header[b].is_hole
      /\ Tiled(m, e, e, e)
      /\ DOMAIN m.header = kept \cup Spare(a, header) \cup {header} \cup Spare(rest, x)
      /\ \A b \in kept : m.header[b] = h.header[b]
      /\ \A b \in Spare(a, header) :
           /\ m.header[b] = m1.header[b]
           /\ m.header[b].is_hole /\ BlockEnd(m, b) = header
      /\ m.header[header].size = size /\ ~m.header[header].is_hole
      /\ \A b \in Spare(rest, x) : m.header[b].is_hole /\ BlockEnd(m, b) = x

LEMMA CutIsTiled ==
  ASSUME NEW h, NEW e, NEW a, NEW x, NEW header, NEW size, NEW rest,
         Cut(h, e, a, x, header, size, rest)
  PROVE  LET m1 == HoleUpTo(h, a, header)
             m2 == use_block(m1, header, size)
             m3 == HoleUpTo(m2, rest, x)
         IN  CutHeap(h, m1, m3, e, a, x, header, size, rest)
<1> SUFFICES ASSUME NEW e0 \in Int, NEW a0 \in Int, NEW x0 \in Int, NEW header0 \in Int,
                    NEW rest0 \in Int, NEW size0 \in Nat \ {0},
                    NEW m1, NEW m2, NEW m3,
                    Cut(h, e0, a0, x0, header0, size0, rest0),
                    m1 = HoleUpTo(h, a0, header0),
                    m2 = use_block(m1, header0, size0),
                    m3 = HoleUpTo(m2, rest0, x0)
             PROVE  CutHeap(h, m1, m3, e0, a0, x0, header0, size0, rest0)
  <2>1. /\ e \in Int /\ a \in Int /\ x \in Int /\ header \in Int /\ rest \in Int
        /\ size \in Nat \ {0}
    BY DEF Cut
  <2> QED
    BY <2>1, Zenon
<1> USE MetaSize
<1> DEFINE D == DOMAIN h.header
           kept == D \ {a0}
<1>1. /\ Tiled(h, e0, e0, e0)
      /\ a0 \in D
      /\ x0 = BlockEnd(h, a0)
      /\ header0 = a0 \/ header0 - a0 > BLOCK_META_SIZE
      /\ rest0 = header0 + size0 + BLOCK_META_SIZE
      /\ rest0 = x0 \/ x0 - rest0 > BLOCK_META_SIZE
  BY DEF Cut
<1>2. a0 <= header0 /\ header0 < rest0 /\ rest0 <= x0 /\ header0 <= x0 /\ x0 <= x0
  BY <1>1
<1>3. /\ x0 \in D \cup {e0} /\ a0 < x0
      /\ \A b \in D : b \in Int
      /\ \A b, c \in D : b < c => BlockEnd(h, b) <= c
      /\ \A b \in D : b < BlockEnd(h, b) /\ BlockEnd(h, b) \in Int
  BY <1>1, Blocks
<1>4. Tiled(h, e0, a0, x0)
  <2>1. e0 <= e0 /\ a0 \in D \cup {e0}
    BY <1>1
  <2> QED
    BY <1>1, <1>3, <2>1, OpenGap
<1>5. Outside(h, a0, x0) = kept
  <2>1. ASSUME NEW b \in D
        PROVE  b \in a0 .. x0 - 1 <=> b = a0
    <3>1. CASE b = a0
      BY <3>1, <1>3
    <3>2. CASE b < a0
      BY <3>2, <1>3
    <3>3. CASE a0 < b
      BY <3>3, <1>1, <1>3
    <3> QED
      BY <3>1, <3>2, <3>3, <1>3
  <2> QED
    BY <2>1 DEF Outside
<1> HIDE DEF kept
<1>6. /\ Tiled(m1, e0, header0, x0)
      /\ Outside(m1, header0, x0) = Outside(h, a0, x0) \cup Spare(a0, header0)
      /\ \A b \in Outside(h, a0, x0) : m1.header[b] = h.header[b]
      /\ \A b \in Spare(a0, header0) : m1.header[b].is_hole /\ BlockEnd(m1, b) = header0
  BY <1>1, <1>2, <1>4, FillUpTo
<1>7. /\ Tiled(m2, e0, rest0, x0)
      /\ Outside(m2, rest0, x0) = Outside(m1, header0, x0) \cup {header0}
      /\ m2.header[header0].size = size0
      /\ ~m2.header[header0].is_hole
      /\ \A b \in Outside(m1, header0, x0) : m2.header[b] = m1.header[b]
  <2>1. Tiled(m1, e0, header0, x0)
    BY <1>6
  <2> QED
    BY <1>1, <1>2, <2>1, FillUsed
<1>8. /\ Tiled(m3, e0, x0, x0)
      /\ Outside(m3, x0, x0) = Outside(m2, rest0, x0) \cup Spare(rest0, x0)
      /\ \A b \in Outside(m2, rest0, x0) : m3.header[b] = m2.header[b]
      /\ \A b \in Spare(rest0, x0) : m3.header[b].is_hole /\ BlockEnd(m3, b) = x0
  <2>1. Tiled(m2, e0, rest0, x0) /\ (x0 = rest0 \/ x0 - rest0 > BLOCK_META_SIZE)
    BY <1>1, <1>7
  <2> QED
    BY <1>2, <2>1, FillUpTo
<1>9. Tiled(m3, e0, e0, e0) /\ Outside(m3, x0, x0) = DOMAIN m3.header
  <2>1. Tiled(m3, e0, x0, x0)
    BY <1>8
  <2> QED
    BY <2>1, CloseGap
<1>10. DOMAIN m3.header = kept \cup Spare(a0, header0) \cup {header0} \cup Spare(rest0, x0)
  BY <1>5, <1>6, <1>7, <1>8, <1>9, Zenon
<1>11. ASSUME NEW b \in kept \cup Spare(a0, header0)
       PROVE  b \in DOMAIN m1.header /\ m3.header[b] = m1.header[b]
  <2>1. b \in Outside(m1, header0, x0)
    BY <1>5, <1>6
  <2>2. b \in Outside(m2, rest0, x0) /\ m2.header[b] = m1.header[b]
    BY <1>7, <2>1
  <2> QED
    BY <1>8, <2>1, <2>2 DEF Outside
<1>12. \A b \in kept : m1.header[b] = h.header[b]
  BY <1>5, <1>6
<1>13. \A b \in Spare(a0, header0) : m3.header[b].is_hole /\ BlockEnd(m3, b) = header0
  BY <1>6, <1>11 DEF BlockEnd
<1>14. m3.header[header0].size = size0 /\ ~m3.header[header0].is_hole
  <2>1. header0 \in Outside(m2, rest0, x0)
    BY <1>7
  <2>2. m3.header[header0] = m2.header[header0]
    BY <1>8, <2>1
  <2> QED
    BY <1>7, <2>2
<1>15. /\ \A b \in kept : b \in DOMAIN m1.header /\ m3.header[b] = h.header[b]
       /\ \A b \in Spare(a0, header0) :
            b \in DOMAIN m1.header /\ m1.header[b].is_hole /\ m3.header[b] = m1.header[b]
  BY <1>6, <1>11, <1>12
<1> QED
  BY <1>6, <1>8, <1>9, <1>10, <1>12, <1>13, <1>14, <1>15, Zenon DEF CutHeap, kept

\* The address alloc returns, in a hole that find_hole has found to fit.
LEMMA AllocPos ==
  ASSUME HeapInv, NEW a \in Holes, NEW r \in Requests, Fits(heap, a, r),
         NEW pos, pos = alloc_pos(a, r)
  PROVE  /\ pos \in Int
         /\ pos - HeaderSize = a \/ pos - HeaderSize - a > BLOCK_META_SIZE
         /\ pos + r.size <= a + HeaderSize + heap.header[a].size
         /\ r.page_align => pos % PageSize = 0
<1> USE MetaSize
<1> DEFINE sz == heap.header[a].size
           start == a + HeaderSize
           P == AlignedPositions(heap, a, r.size)
<1>1. /\ a \in Nat /\ sz \in Nat \ {0}
  <2>1. end_address \in Int /\ Tiled(heap, end_address, end_address, end_address)
    BY DEF HeapInv
  <2>2. a \in DOMAIN heap.header
    BY DEF Holes, Headers
  <2> QED
    BY <2>1, <2>2, Blocks
<1>2. r.size \in Nat \ {0} /\ r.page_align \in BOOLEAN
  BY KHeapAssumption DEF Requests
<1>3. CASE r.page_align
  <2>1. P # {}
    BY <1>3 DEF Fits
  <2>2. P \in SUBSET Nat
    BY <1>1 DEF AlignedPositions
  <2>3. Min(P) \in P
    BY <2>1, <2>2, LeastNumber
  <2>4. pos \in P
    BY <1>3, <2>3 DEF alloc_pos
  <2>5. /\ pos \in Int /\ pos % PageSize = 0
        /\ pos - start > BLOCK_META_SIZE /\ pos + r.size <= start + sz
    BY <1>1, <2>4 DEF AlignedPositions
  <2> QED
    BY <1>1, <1>2, <2>5
<1>4. CASE ~r.page_align
  <2>1. pos = start /\ sz >= r.size
    BY <1>4 DEF alloc_pos, Fits
  <2> QED
    BY <1>1, <1>2, <1>4, <2>1
<1> QED
  BY <1>3, <1>4

\* What the step of alloc does with the hole a, the i-th of the index.
InsertSpare(h, array, g, t) == IF t > g THEN ordered_array_insert(h, array, g) ELSE array
CutsInto(i, a, r, x, header, size, rest) ==
  /\ Cut(heap, end_address, a, x, header, size, rest)
  /\ r.size <= size
  /\ header + HeaderSize = alloc_pos(a, r)
  /\ heap' = HoleUpTo(use_block(HoleUpTo(heap, a, header), header, size), rest, x)
  /\ index' = InsertSpare(heap', InsertSpare(HoleUpTo(heap, a, header),
                                             ordered_array_remove(index, i), a, header),
                          rest, x)
  /\ live' = [p \in DOMAIN live \cup {header + HeaderSize} |->
                IF p = header + HeaderSize THEN r.size ELSE live[p]]
  /\ request' = {}
  /\ UNCHANGED <<end_address, panic>>

\* The sizes alloc computes for a request in a hole that ends at x.
SizesOf(header, remain_size, requested, block_size, x, size, rest) ==
  /\ header \in Int /\ remain_size \in Nat /\ requested \in Nat \ {0}
  /\ block_size = remain_size + requested
  /\ x = header + BLOCK_META_SIZE + block_size
  /\ size = IF cuts_remainder(remain_size) THEN requested ELSE block_size
  /\ rest = header + BLOCK_META_SIZE + size

\* A block that is not cut keeps the remainder, and one that is cut leaves it behind.
LEMMA CutSizes ==
  ASSUME NEW header, NEW remain_size, NEW requested, NEW block_size, NEW x, NEW size,
         NEW rest, SizesOf(header, remain_size, requested, block_size, x, size, rest)
  PROVE  /\ size \in Nat \ {0} /\ requested <= size /\ rest \in Int
         /\ rest = header + size + BLOCK_META_SIZE
         /\ ~cuts_remainder(remain_size) => rest = x
         /\ cuts_remainder(remain_size) => x - rest = remain_size
<1> USE DEF SizesOf
<1>1. BLOCK_META_SIZE \in Int
  BY MetaSize
<1>2. CASE cuts_remainder(remain_size)
  <2>1. size = requested
    BY <1>2
  <2>2. size \in Nat \ {0} /\ requested <= size
    BY <2>1
  <2>3. rest \in Int /\ rest = header + size + BLOCK_META_SIZE
    BY <1>1, <2>2
  <2>4. x - rest = remain_size
    BY <1>1, <2>1
  <2> QED
    BY <1>2, <2>2, <2>3, <2>4, Zenon
<1>3. CASE ~cuts_remainder(remain_size)
  <2>1. size = block_size
    BY <1>3
  <2>2. size \in Nat \ {0} /\ requested <= size
    BY <2>1
  <2>3. rest \in Int /\ rest = header + size + BLOCK_META_SIZE
    BY <1>1, <2>2
  <2>4. rest = x
    BY <2>1, Zenon
  <2> QED
    BY <1>3, <2>2, <2>3, <2>4, Zenon
<1> QED
  BY <1>2, <1>3, Zenon

LEMMA AllocCuts ==
  ASSUME HeapInv, NEW r \in Requests, NEW i \in 1..Len(index),
         Fits(heap, index[i], r), alloc_block(i, r)
  PROVE  /\ index[i] \in Holes
         /\ \E x, header, size, rest : CutsInto(i, index[i], r, x, header, size, rest)
<1> USE MetaSize
<1> DEFINE a == index[i]
           sz == heap.header[a].size
           pos == alloc_pos(a, r)
           header == pos - HeaderSize
           block_size == sz - (header - a)
           remain_size == block_size - r.size
           size == IF cuts_remainder(remain_size) THEN r.size ELSE block_size
           rest == header + BLOCK_META_SIZE + size
           x == BlockEnd(heap, a)
<1>1. a \in Holes /\ a \in DOMAIN heap.header
  BY DEF HeapInv, Listed, Entries, HolesOf, Holes, Headers
<1>2. end_address \in Int /\ Tiled(heap, end_address, end_address, end_address)
  BY DEF HeapInv
<1>3. a \in Int /\ sz \in Nat \ {0} /\ x \in Int /\ x = a + sz + BLOCK_META_SIZE
  BY <1>1, <1>2, Blocks
<1>4. /\ pos \in Int
      /\ header = a \/ header - a > BLOCK_META_SIZE
      /\ pos + r.size <= a + HeaderSize + sz
  BY <1>1, AllocPos
<1>5. r.size \in Nat \ {0}
  BY KHeapAssumption DEF Requests
<1> HIDE DEF a, sz, pos, x
<1>6. /\ header \in Int /\ block_size \in Int /\ remain_size \in Nat
      /\ pos = header + HeaderSize
      /\ x = header + BLOCK_META_SIZE + block_size
  BY <1>3, <1>4, <1>5
<1>7. cuts_remainder(remain_size) <=> remain_size > BLOCK_META_SIZE
  BY DEF cuts_remainder
<1> HIDE DEF header
<1>8. /\ size \in Nat \ {0} /\ r.size <= size /\ rest \in Int
      /\ rest = header + size + BLOCK_META_SIZE
      /\ ~cuts_remainder(remain_size) => rest = x
      /\ cuts_remainder(remain_size) => x - rest = remain_size
  <2>1. block_size = remain_size + r.size
    BY <1>5, <1>6
  <2>2. size = IF cuts_remainder(remain_size) THEN r.size ELSE block_size
    OBVIOUS
  <2>3. rest = header + BLOCK_META_SIZE + size
    OBVIOUS
  <2>4. /\ header \in Int /\ remain_size \in Nat /\ r.size \in Nat \ {0}
        /\ x = header + BLOCK_META_SIZE + block_size
    BY <1>5, <1>6
  <2> HIDE DEF size, rest, block_size, remain_size
  <2>5. SizesOf(header, remain_size, r.size, block_size, x, size, rest)
    BY <2>1, <2>2, <2>3, <2>4, Zenon DEF SizesOf
  <2> QED
    BY <2>5, CutSizes
<1>9. ~(block_size < r.size)
  BY <1>5, <1>6
<1> DEFINE h1 == IF header > a
                 THEN HoleBlock(heap, a, header - a - BLOCK_META_SIZE) ELSE heap
           h2 == use_block(h1, header, size)
           h3 == IF cuts_remainder(remain_size)
                 THEN HoleBlock(h2, rest, remain_size - BLOCK_META_SIZE) ELSE h2
           index0 == ordered_array_remove(index, i)
           index1 == IF header > a THEN ordered_array_insert(h1, index0, a) ELSE index0
<1>10. /\ heap' = h3
       /\ index' = IF cuts_remainder(remain_size)
                   THEN ordered_array_insert(h3, index1, rest) ELSE index1
       /\ live' = [p \in DOMAIN live \cup {pos} |->
                     IF p = pos THEN r.size ELSE live[p]]
       /\ request' = {}
       /\ UNCHANGED <<end_address, panic>>
  BY <1>9, Zenon DEF alloc_block, HoleBlock, header, pos, a, sz
<1> HIDE DEF remain_size, size, rest, block_size
<1>11. cuts_remainder(remain_size) <=> x > rest
  BY <1>3, <1>6, <1>7, <1>8
<1>12. cuts_remainder(remain_size) =>
         remain_size - BLOCK_META_SIZE = x - rest - BLOCK_META_SIZE
  BY <1>8
<1>13. h1 = HoleUpTo(heap, a, header)
  BY Zenon DEF HoleUpTo
<1>14. index1 = InsertSpare(HoleUpTo(heap, a, header), index0, a, header)
  BY <1>13, Zenon DEF InsertSpare
<1>15. h2 = use_block(HoleUpTo(heap, a, header), header, size)
  BY <1>13, Zenon
<1> HIDE DEF h1, h2, index1
<1>16. heap' = HoleUpTo(h2, rest, x)
  BY <1>10, <1>11, <1>12, Zenon DEF HoleUpTo
<1>17. index' = InsertSpare(heap', index1, rest, x)
  BY <1>10, <1>11, Zenon DEF InsertSpare
<1>18. Cut(heap, end_address, a, x, header, size, rest)
  BY <1>1, <1>2, <1>3, <1>4, <1>6, <1>7, <1>8 DEF Cut, x
<1>19. CutsInto(i, a, r, x, header, size, rest)
  BY <1>6, <1>8, <1>10, <1>14, <1>15, <1>16, <1>17, <1>18, Zenon DEF CutsInto, pos
<1> QED
  BY <1>1, <1>19, Zenon DEF a

\* Where the parts of the hole are: between its ends, where no other block is.
LEMMA CutOrder ==
  ASSUME NEW h, NEW e, NEW a, NEW x, NEW header, NEW size, NEW rest,
         Cut(h, e, a, x, header, size, rest)
  PROVE  /\ a <= header /\ header < rest /\ rest <= x
         /\ \A b \in DOMAIN h.header \ {a} :
              (b < a /\ BlockEnd(h, b) <= a) \/ (x <= b /\ x < BlockEnd(h, b))
         /\ \A b \in DOMAIN h.header \ {a} :
              /\ b \notin {header, rest} \/ b = x
              /\ BlockEnd(h, b) \in Int /\ BlockEnd(h, b) # x
              /\ BlockEnd(h, b) \in {header, rest} => BlockEnd(h, b) = a
<1> USE MetaSize
<1>1. /\ e \in Int /\ a \in Int /\ x \in Int /\ header \in Int /\ rest \in Int
      /\ size \in Nat \ {0}
      /\ Tiled(h, e, e, e)
      /\ a \in DOMAIN h.header
      /\ x = BlockEnd(h, a)
      /\ header = a \/ header - a > BLOCK_META_SIZE
      /\ rest = header + size + BLOCK_META_SIZE
      /\ rest = x \/ x - rest > BLOCK_META_SIZE
  BY DEF Cut
<1>2. a <= header /\ header < rest /\ rest <= x
  BY <1>1
<1>3. ASSUME NEW b \in DOMAIN h.header \ {a}
      PROVE  /\ b \in Int /\ BlockEnd(h, b) \in Int /\ b < BlockEnd(h, b)
             /\ (b < a /\ BlockEnd(h, b) <= a) \/ (x <= b /\ x < BlockEnd(h, b))
  <2>1. /\ b \in Int /\ BlockEnd(h, b) \in Int /\ b < BlockEnd(h, b)
        /\ b < a => BlockEnd(h, b) <= a
        /\ a < b => x <= b
    BY <1>1, Blocks
  <2> QED
    BY <1>1, <2>1
<1>4. ASSUME NEW b \in DOMAIN h.header \ {a}
      PROVE  /\ b \notin {header, rest} \/ b = x
             /\ BlockEnd(h, b) # x
             /\ BlockEnd(h, b) \in {header, rest} => BlockEnd(h, b) = a
  BY <1>1, <1>2, <1>3
<1> QED
  BY <1>2, <1>3, <1>4

\* The holes that are left of the hole a are listed in its place.
LEMMA CutIndex ==
  ASSUME NEW h, NEW m, NEW e, NEW g, NEW k, NEW array, NEW s, NEW t, NEW new,
         Listed(h, array), Tiled(m, e, g, k),
         \A b \in Entries(array) : b \in DOMAIN m.header /\ m.header[b] = h.header[b],
         \A b \in Spare(s, t) : b \in HolesOf(m) /\ b \notin Entries(array),
         new = InsertSpare(m, array, s, t)
  PROVE  /\ Listed(m, new)
         /\ Entries(new) \subseteq Entries(array) \cup Spare(s, t)
         /\ Len(array) < KHEAP_INDEX_NUM =>
              /\ Entries(new) = Entries(array) \cup Spare(s, t)
              /\ Len(new) <= Len(array) + 1
<1>1. array \in Seq(Int) /\ Len(array) \in Nat
  BY DEF Listed
<1>2. CASE t > s
  <2>1. /\ Spare(s, t) = {s} /\ new = ordered_array_insert(m, array, s)
        /\ s \in HolesOf(m) /\ s \notin Entries(array)
    BY <1>2 DEF Spare, InsertSpare
  <2>2. /\ Listed(m, new)
        /\ Entries(new) \subseteq Entries(array) \cup {s}
        /\ Len(array) < KHEAP_INDEX_NUM =>
             Entries(new) = Entries(array) \cup {s} /\ Len(new) = Len(array) + 1
    BY <2>1, ListedAfter
  <2> QED
    BY <1>1, <2>1, <2>2
<1>3. CASE ~(t > s)
  <2>1. Spare(s, t) = {} /\ new = array
    BY <1>3 DEF Spare, InsertSpare
  <2>2. Listed(m, new)
    BY <2>1, KeepListed
  <2> QED
    BY <1>1, <2>1, <2>2
<1> QED
  BY <1>2, <1>3

LEMMA CutStep ==
  ASSUME HeapInv, NEW r \in Requests, NEW i \in 1..Len(index),
         NEW a \in Holes, a = index[i],
         NEW x, NEW header, NEW size, NEW rest,
         CutsInto(i, a, r, x, header, size, rest)
  PROVE  /\ HeapInv'
         /\ IndexComplete /\ Len(index) < KHEAP_INDEX_NUM => IndexComplete'
<1> DEFINE e == end_address
           D == DOMAIN heap.header
           kept == D \ {a}
           front == Spare(a, header)
           back == Spare(rest, x)
           m1 == HoleUpTo(heap, a, header)
           index0 == ordered_array_remove(index, i)
           index1 == InsertSpare(m1, index0, a, header)
<1>1. /\ Cut(heap, e, a, x, header, size, rest)
      /\ r.size <= size
      /\ heap' = HoleUpTo(use_block(m1, header, size), rest, x)
      /\ index' = InsertSpare(heap', index1, rest, x)
      /\ live' = [p \in DOMAIN live \cup {header + HeaderSize} |->
                    IF p = header + HeaderSize THEN r.size ELSE live[p]]
      /\ request' = {}
      /\ UNCHANGED <<end_address, panic>>
  BY DEF CutsInto
<1>2. CutHeap(heap, m1, heap', e, a, x, header, size, rest)
  BY <1>1, CutIsTiled
<1>3. index0 = ordered_array_remove(index, i) /\ index1 = InsertSpare(m1, index0, a, header)
  OBVIOUS
<1> HIDE DEF m1, index0, index1, e
<1>4. /\ Tiled(m1, e, header, x)
      /\ \A b \in kept : b \in DOMAIN m1.header /\ m1.header[b] = heap.header[b]
      /\ \A b \in front : b \in DOMAIN m1.header /\ m1.header[b].is_hole
      /\ Tiled(heap', e, e, e)
      /\ DOMAIN heap'.header = kept \cup front \cup {header} \cup back
      /\ \A b \in kept : heap'.header[b] = heap.header[b]
      /\ \A b \in front :
           /\ heap'.header[b] = m1.header[b]
           /\ heap'.header[b].is_hole /\ BlockEnd(heap', b) = header
      /\ heap'.header[header].size = size /\ ~heap'.header[header].is_hole
      /\ \A b \in back : heap'.header[b].is_hole /\ BlockEnd(heap', b) = x
  BY <1>2, Zenon DEF CutHeap
<1>5. /\ e \in Int /\ a \in Int /\ x \in Int /\ header \in Int /\ rest \in Int
      /\ size \in Nat \ {0}
      /\ Tiled(heap, e, e, e)
      /\ a \in D
      /\ x = BlockEnd(heap, a)
      /\ a <= header /\ header < rest /\ rest <= x
  <2>1. Cut(heap, e, a, x, header, size, rest)
    BY <1>1
  <2>2. a <= header /\ header < rest /\ rest <= x
    BY <2>1, CutOrder
  <2> QED
    BY <2>1, <2>2 DEF Cut
<1>6. \A b \in kept : /\ b \notin {header, rest} \/ b = x
                      /\ BlockEnd(heap, b) \in Int /\ BlockEnd(heap, b) # x
                      /\ BlockEnd(heap, b) \in {header, rest} => BlockEnd(heap, b) = a
  BY <1>1, CutOrder
<1>7. /\ front \subseteq {a} /\ (a \in front <=> a < header)
      /\ back \subseteq {rest} /\ (rest \in back <=> rest < x)
  BY <1>5 DEF Spare
<1> HIDE DEF front, back
<1>8. header \notin kept \cup front \cup back
  <2>1. header \notin kept
    BY <1>5, <1>6
  <2> QED
    BY <2>1, <1>5, <1>7
<1>9. back \cap (kept \cup front) = {}
  <2>1. rest # a /\ (rest < x => rest \notin kept)
    BY <1>5, <1>6
  <2> QED
    BY <1>7, <2>1
<1>10. /\ Headers = D /\ Headers' = DOMAIN heap'.header /\ Holes' = HolesOf(heap')
       /\ Holes \subseteq D /\ a \in Holes
  BY DEF Headers, Holes, HolesOf
<1>11. Holes' = (Holes \ {a}) \cup front \cup back
  <2>1. \A b \in kept : b \in Holes' <=> b \in Holes
    BY <1>4, <1>10 DEF Holes, HolesOf
  <2>2. \A b \in front \cup back : b \in Holes'
    BY <1>4, <1>10 DEF HolesOf
  <2>3. header \notin Holes'
    BY <1>4, <1>10 DEF HolesOf
  <2>4. Holes' \subseteq kept \cup front \cup {header} \cup back
    BY <1>4, <1>10 DEF HolesOf
  <2> QED
    BY <1>10, <2>1, <2>2, <2>3, <2>4
<1>12. Listed(heap, index) /\ Entries(index) \subseteq Holes
  BY <1>10 DEF HeapInv, Listed, HolesOf, Holes, Headers
<1>13. /\ Listed(heap, index0)
       /\ Entries(index0) = Entries(index) \ {a}
       /\ Len(index0) = Len(index) - 1
  BY <1>3, <1>12, RemoveAtHole
<1>14. /\ Listed(m1, index1)
       /\ Entries(index1) \subseteq Entries(index0) \cup front
       /\ Len(index0) < KHEAP_INDEX_NUM =>
            /\ Entries(index1) = Entries(index0) \cup front
            /\ Len(index1) <= Len(index0) + 1
  <2>1. \A b \in Entries(index0) : b \in DOMAIN m1.header /\ m1.header[b] = heap.header[b]
    BY <1>4, <1>10, <1>12, <1>13
  <2>2. \A b \in Spare(a, header) : b \in HolesOf(m1) /\ b \notin Entries(index0)
    BY <1>4, <1>7, <1>13 DEF front, HolesOf
  <2>3. Tiled(m1, e, header, x)
    BY <1>4
  <2> QED
    BY <1>3, <1>13, <2>1, <2>2, <2>3, CutIndex DEF front
<1>15. /\ Listed(heap', index')
       /\ Len(index1) < KHEAP_INDEX_NUM => Entries(index') = Entries(index1) \cup back
  <2>1. ASSUME NEW b \in Entries(index1)
        PROVE  b \in DOMAIN heap'.header /\ heap'.header[b] = m1.header[b]
    <3>1. b \in kept \cup front
      BY <1>10, <1>12, <1>13, <1>14
    <3> QED
      BY <1>4, <3>1
  <2>2. \A b \in Spare(rest, x) : b \in HolesOf(heap') /\ b \notin Entries(index1)
    <3>1. Entries(index1) \subseteq kept \cup front
      BY <1>10, <1>12, <1>13, <1>14
    <3> QED
      BY <1>9, <1>10, <1>11, <3>1 DEF back
  <2>3. Tiled(heap', e, e, e)
    BY <1>4
  <2> QED
    BY <1>1, <1>14, <2>1, <2>2, <2>3, CutIndex DEF back
<1>16. HolesMerged'
  <2>1. \A b \in Holes : BlockEnd(heap, b) \notin Holes
    BY DEF HeapInv, HolesMerged
  <2>2. ASSUME NEW b \in Holes'
        PROVE  BlockEnd(heap', b) \notin Holes'
    <3>1. CASE b \in Holes \ {a}
      <4>1. BlockEnd(heap', b) = BlockEnd(heap, b)
        BY <3>1, <1>4, <1>10 DEF BlockEnd
      <4>2. BlockEnd(heap, b) \notin Holes /\ BlockEnd(heap, b) # rest
        BY <3>1, <2>1, <1>6, <1>10
      <4> QED
        BY <4>1, <4>2, <1>7, <1>10, <1>11
    <3>2. CASE b \in front
      BY <3>2, <1>4, <1>8, <1>10, <1>11
    <3>3. CASE b \in back
      <4>1. BlockEnd(heap', b) = x
        BY <3>3, <1>4
      <4>2. x \notin Holes
        BY <2>1, <1>5
      <4>3. x \notin front \cup back
        BY <1>5, <1>7
      <4> QED
        BY <4>1, <4>2, <4>3, <1>11
    <3> QED
      BY <3>1, <3>2, <3>3, <1>11
  <2> QED
    BY <2>2 DEF HolesMerged
<1>17. LiveFits'
  <2> DEFINE used == Headers \ Holes
  <2>1. DOMAIN live = {b + HeaderSize : b \in used}
    BY DEF HeapInv, LiveFits
  <2>2. Headers' \ Holes' = used \cup {header}
    <3>1. ASSUME NEW b \in used
          PROVE  b \in Headers' \ Holes'
      <4>1. b \in kept /\ b \notin Holes /\ b # a
        BY <1>10
      <4> QED
        BY <4>1, <1>4, <1>7, <1>9, <1>10, <1>11
    <3>2. header \in Headers' \ Holes'
      BY <1>4, <1>8, <1>10, <1>11
    <3>3. \A b \in Headers' \ Holes' : b \in used \cup {header}
      BY <1>4, <1>10, <1>11
    <3> QED
      BY <3>1, <3>2, <3>3
  <2>3. DOMAIN live' = {b + HeaderSize : b \in used \cup {header}}
    BY <1>1, <2>1
  <2>4. \A b \in used : b \in Int /\ b # header
    BY <1>5, <1>8, <1>10, Blocks
  <2>5. ASSUME NEW b \in used
        PROVE  /\ live'[b + HeaderSize] \in Nat
               /\ live'[b + HeaderSize] <= heap'.header[b].size
    <3>1. b + HeaderSize # header + HeaderSize
      BY <2>4, <1>5, MetaSize
    <3>2. live'[b + HeaderSize] = live[b + HeaderSize]
      BY <1>1, <2>1, <3>1
    <3>3. heap'.header[b] = heap.header[b]
      BY <1>4, <1>10
    <3>4. /\ live[b + HeaderSize] \in Nat
          /\ live[b + HeaderSize] <= heap.header[b].size
      BY DEF HeapInv, LiveFits
    <3> QED
      BY <3>2, <3>3, <3>4
  <2>6. /\ live'[header + HeaderSize] \in Nat
        /\ live'[header + HeaderSize] <= heap'.header[header].size
    <3>1. live'[header + HeaderSize] = r.size
      BY <1>1
    <3>2. r.size \in Nat
      BY KHeapAssumption DEF Requests
    <3> QED
      BY <1>1, <1>4, <3>1, <3>2
  <2> QED
    BY <2>2, <2>3, <2>5, <2>6 DEF LiveFits
<1>18. HeapInv'
  <2>1. end_address' = e /\ e <= MaxAddress
    BY <1>1 DEF HeapInv, e
  <2> QED
    BY <1>1, <1>4, <1>5, <1>15, <1>16, <1>17, <2>1 DEF HeapInv
<1>19. ASSUME IndexComplete, Len(index) < KHEAP_INDEX_NUM
       PROVE  IndexComplete'
  <2>1. Len(index) \in Nat /\ Len(index0) \in Nat /\ Len(index1) \in Nat
        /\ KHEAP_INDEX_NUM \in Int
    <3>1. index \in Seq(Int) /\ index0 \in Seq(Int) /\ index1 \in Seq(Int)
      BY <1>12, <1>13, <1>14 DEF Listed
    <3>2. KHEAP_INDEX_NUM \in Int
      BY KHeapAssumption
    <3> QED
      BY <3>1, <3>2
  <2>2. Len(index0) < KHEAP_INDEX_NUM
    BY <1>13, <1>19, <2>1
  <2>3. Entries(index1) = Entries(index0) \cup front /\ Len(index1) < KHEAP_INDEX_NUM
    BY <1>13, <1>14, <1>19, <2>1, <2>2
  <2>4. Entries(index') = Entries(index1) \cup back
    BY <1>15, <2>3
  <2>5. Holes' \subseteq Entries(index')
    BY <1>11, <1>13, <1>19, <2>3, <2>4 DEF IndexComplete
  <2>6. panic' # "assert_failed"
    BY <1>1, <1>19 DEF IndexComplete
  <2> QED
    BY <2>5, <2>6 DEF IndexComplete
<1> QED
  BY <1>18, <1>19

\* find_hole gives a place of the index, and alloc the block there.
LEMMA FoundHole ==
  ASSUME HeapInv, NEW r, find_hole(r) # {}
  PROVE  /\ Min(find_hole(r)) \in find_hole(r)
         /\ \A j \in find_hole(r) : Min(find_hole(r)) <= j
<1>1. find_hole(r) \in SUBSET Nat
  BY DEF find_hole
<1> QED
  BY <1>1, LeastNumber

LEMMA AllocStep ==
  ASSUME HeapInv, NEW r \in Requests, alloc(r)
  PROVE  /\ HeapInv'
         /\ IndexComplete /\ Len(index) < KHEAP_INDEX_NUM => IndexComplete'
<1>1. CASE alloc_expand(r)
  BY <1>1, ExpandStep
<1>2. CASE find_hole(r) # {} /\ alloc_block(Min(find_hole(r)), r)
  <2>1. PICK i \in 1..Len(index) : Fits(heap, index[i], r) /\ alloc_block(i, r)
    BY <1>2, FoundHole DEF find_hole
  <2>2. index[i] \in Holes
    BY <2>1, AllocCuts
  <2>3. PICK x, header, size, rest : CutsInto(i, index[i], r, x, header, size, rest)
    BY <2>1, AllocCuts
  <2> QED
    BY <2>2, <2>3, CutStep
<1> QED
  BY <1>1, <1>2 DEF alloc

LEMMA InitHeap == Init => HeapInv /\ IndexComplete
<1> SUFFICES ASSUME Init
             PROVE  HeapInv /\ IndexComplete
  OBVIOUS
<1> USE MetaSize
<1> DEFINE empty == [header |-> <<>>, footer |-> <<>>]
           size0 == MinSize - BLOCK_META_SIZE
           e0 == StartAddress + MinSize
<1>1. size0 \in Nat \ {0} /\ e0 = StartAddress + size0 + BLOCK_META_SIZE /\ e0 \in Int
      /\ e0 <= e0 /\ e0 <= MaxAddress /\ StartAddress < e0
  BY KHeapAssumption
<1>2. heap = HoleBlock(empty, StartAddress, size0)
  BY Zenon DEF Init, HoleBlock
<1>3. Tiled(empty, e0, StartAddress, e0)
  <2>1. DOMAIN empty.header = {} /\ DOMAIN empty.footer = {}
    OBVIOUS
  <2>2. empty.header \in [DOMAIN empty.header -> [size : Nat \ {0}, is_hole : BOOLEAN]]
    OBVIOUS
  <2> HIDE DEF empty
  <2>3. Outside(empty, StartAddress, e0) = {}
    BY <2>1 DEF Outside
  <2> QED
    BY <1>1, <2>1, <2>2, <2>3 DEF Tiled
<1>4. Outside(empty, StartAddress, e0) = {}
  BY DEF Outside
<1> HIDE DEF empty, size0, e0
<1>5. /\ Tiled(heap, e0, e0, e0) /\ Headers = {StartAddress}
      /\ heap.header[StartAddress].size = size0
      /\ heap.header[StartAddress].is_hole
  <2>1. /\ Tiled(heap, e0, e0, e0)
        /\ Outside(heap, e0, e0) = Outside(empty, StartAddress, e0) \cup {StartAddress}
        /\ heap.header[StartAddress].size = size0
        /\ heap.header[StartAddress].is_hole
    BY <1>1, <1>2, <1>3, FillHole
  <2>2. Outside(heap, e0, e0) = DOMAIN heap.header
    BY <1>1, <2>1, CloseGap
  <2> QED
    BY <1>4, <2>1, <2>2 DEF Headers
<1>6. Holes = {StartAddress} /\ HolesOf(heap) = {StartAddress}
  BY <1>5 DEF Holes, HolesOf, Headers
<1>7. /\ end_address = e0 /\ index = <<StartAddress>> /\ request = {} /\ panic = "none"
      /\ DOMAIN live = {}
  BY DEF Init, e0
<1>8. /\ index \in Seq(Int) /\ Len(index) = 1 /\ index[1] = StartAddress
  BY <1>7
<1>9. Entries(index) = {StartAddress}
  BY <1>8 DEF Entries
<1>10. Listed(heap, index)
  <2>1. Unique(index)
    BY <1>8 DEF Unique
  <2>2. Ordered(heap, index)
    BY <1>1, <1>5, <1>8 DEF Ordered
  <2> QED
    BY <1>6, <1>8, <1>9, <2>1, <2>2 DEF Listed
<1>11. HolesMerged
  <2>1. BlockEnd(heap, StartAddress) = e0
    BY <1>1, <1>5 DEF BlockEnd
  <2> QED
    BY <1>1, <1>6, <2>1 DEF HolesMerged
<1>12. LiveFits
  <2>1. Headers \ Holes = {}
    BY <1>5, <1>6
  <2> QED
    BY <1>7, <2>1 DEF LiveFits
<1>13. HeapInv
  BY <1>1, <1>5, <1>7, <1>10, <1>11, <1>12 DEF HeapInv
<1> QED
  BY <1>6, <1>7, <1>9, <1>13 DEF IndexComplete

LEMMA HeapStep ==
  ASSUME HeapInv, [Next]_vars
  PROVE  /\ HeapInv'
         /\ IndexComplete /\ Len(index) < KHEAP_INDEX_NUM => IndexComplete'
<1>1. ASSUME NEW r \in Requests, kmalloc(r)
      PROVE  /\ HeapInv'
             /\ IndexComplete /\ Len(index) < KHEAP_INDEX_NUM => IndexComplete'
  <2>1. HeapInv'
    BY <1>1 DEF kmalloc, HeapInv, LiveFits, HolesMerged, Holes, Headers
  <2>2. IndexComplete => IndexComplete'
    BY <1>1 DEF kmalloc, IndexComplete, Holes, Headers
  <2> QED
    BY <2>1, <2>2
<1>2. ASSUME NEW r \in request, alloc(r)
      PROVE  /\ HeapInv'
             /\ IndexComplete /\ Len(index) < KHEAP_INDEX_NUM => IndexComplete'
  <2>1. r \in Requests
    BY <1>2 DEF HeapInv
  <2> QED
    BY <1>2, <2>1, AllocStep
<1>3. ASSUME NEW ptr \in DOMAIN live, kfree(ptr)
      PROVE  /\ HeapInv'
             /\ IndexComplete /\ Len(index) < KHEAP_INDEX_NUM => IndexComplete'
  BY <1>3, FreeStep
<1>4. CASE UNCHANGED vars
  <2>1. HeapInv'
    BY <1>4 DEF vars, HeapInv, LiveFits, HolesMerged, Holes, Headers
  <2>2. IndexComplete => IndexComplete'
    BY <1>4 DEF vars, IndexComplete, Holes, Headers
  <2> QED
    BY <2>1, <2>2
<1> QED
  BY <1>1, <1>2, <1>3, <1>4 DEF Next

-----------------------------------------------------------------------------
(* The theorems.                                                           *)

\* The blocks of the heap follow each other from start to end, no two holes are
\* neighbours, the index lists holes in the order of their sizes, and each caller has
\* a block as large as it asked for.
THEOREM HeapInvariant == Spec => []HeapInv
<1>1. Init => HeapInv
  BY InitHeap
<1>2. HeapInv /\ [Next]_vars => HeapInv'
  BY HeapStep
<1> QED
  BY <1>1, <1>2, PTL DEF Spec

\* No two holes are neighbours, although alloc cuts holes, kheap_expand adds memory
\* behind the last block, and the index may have dropped a hole.
THEOREM HolesStayMerged == Spec => []HolesMerged
<1>1. HeapInv => HolesMerged
  BY DEF HeapInv
<1> QED
  BY <1>1, HeapInvariant, PTL

\* The blocks of two callers do not overlap, nor does that of a caller and a hole.
LEMMA HoleIsFree ==
  ASSUME HeapInv, NEW a \in Holes, NEW r \in Requests, Fits(heap, a, r),
         NEW pos, pos = alloc_pos(a, r)
  PROVE  /\ Abstract!Block(pos, r.size) \subseteq StartAddress .. MaxAddress - 1
         /\ pos \in StartAddress .. MaxAddress - 1
         /\ \A q \in DOMAIN live :
              Abstract!Block(q, live[q]) \cap Abstract!Block(pos, r.size) = {}
<1> USE MetaSize
<1> DEFINE e == end_address
           sz == heap.header[a].size
<1>1. e \in Int /\ Tiled(heap, e, e, e) /\ e <= MaxAddress
  BY DEF HeapInv
<1>2. a \in Headers
  BY DEF Holes
<1>3. /\ a \in Int /\ sz \in Nat \ {0} /\ StartAddress <= a
      /\ BlockEnd(heap, a) = a + sz + BLOCK_META_SIZE
      /\ BlockEnd(heap, a) <= e
  BY <1>1, <1>2, Blocks DEF Headers
<1>4. /\ pos \in Int
      /\ pos - HeaderSize = a \/ pos - HeaderSize - a > BLOCK_META_SIZE
      /\ pos + r.size <= a + HeaderSize + sz
  BY AllocPos
<1>5. r.size \in Nat \ {0}
  BY KHeapAssumption DEF Requests
<1> HIDE DEF e, sz
<1>6. /\ a + HeaderSize <= pos
      /\ pos + r.size <= BlockEnd(heap, a) - FooterSize
      /\ BlockEnd(heap, a) \in Int
  BY <1>3, <1>4, <1>5
<1>7. ASSUME NEW c \in Abstract!Block(pos, r.size)
      PROVE  c \in Int /\ a + HeaderSize <= c /\ c < BlockEnd(heap, a) - FooterSize
  BY <1>3, <1>4, <1>5, <1>6 DEF Abstract!Block
<1>8. Abstract!Block(pos, r.size) \subseteq StartAddress .. MaxAddress - 1
  BY <1>1, <1>3, <1>6, <1>7
<1>9. pos \in StartAddress .. MaxAddress - 1
  BY <1>1, <1>3, <1>4, <1>5, <1>6
<1>10. ASSUME NEW q \in DOMAIN live, NEW c \in Abstract!Block(q, live[q]),
              c \in Abstract!Block(pos, r.size)
       PROVE  FALSE
  <2>1. PICK b \in Headers \ Holes : q = b + HeaderSize
    BY DEF HeapInv, LiveFits
  <2>2. live[q] \in Nat /\ live[q] <= heap.header[b].size
    BY <2>1 DEF HeapInv, LiveFits
  <2>3. /\ b \in Int /\ heap.header[b].size \in Nat
        /\ BlockEnd(heap, b) = b + heap.header[b].size + BLOCK_META_SIZE
        /\ a < b => BlockEnd(heap, a) <= b
        /\ b < a => BlockEnd(heap, b) <= a
        /\ a # b
    BY <1>1, <1>2, Blocks DEF Headers
  <2>4. c \in Int /\ b + HeaderSize <= c /\ c < BlockEnd(heap, b) - FooterSize
    BY <1>10, <2>1, <2>2, <2>3 DEF Abstract!Block
  <2>5. c \in Int /\ a + HeaderSize <= c /\ c < BlockEnd(heap, a) - FooterSize
    BY <1>7, <1>10
  <2> QED
    BY <1>3, <1>6, <2>3, <2>4, <2>5
<1> QED
  BY <1>8, <1>9, <1>10

LEMMA HeapStepsAllocator ==
  ASSUME HeapInv, [Next]_vars
  PROVE  [Abstract!AllocNext]_(Abstract!allocVars)
<1>1. ASSUME NEW r \in Requests, kmalloc(r)
      PROVE  Abstract!AllocNext
  BY <1>1 DEF kmalloc, Abstract!AllocNext, Abstract!Request
<1>2. ASSUME UNCHANGED <<live, request>>
      PROVE  UNCHANGED Abstract!allocVars
  BY <1>2 DEF Abstract!allocVars
<1>3. ASSUME NEW why, Panic(why)
      PROVE  UNCHANGED Abstract!allocVars
  BY <1>2, <1>3 DEF Panic
<1>4. ASSUME NEW r \in request, alloc(r)
      PROVE  [Abstract!AllocNext]_(Abstract!allocVars)
  <2>1. r \in Requests /\ request = {r}
    BY <1>4 DEF HeapInv
  <2>2. CASE alloc_expand(r)
    <3>1. UNCHANGED <<live, request>>
      BY <2>2, Zenon DEF alloc_expand, kheap_expand, Panic
    <3> QED
      BY <1>2, <3>1
  <2>3. CASE find_hole(r) # {} /\ alloc_block(Min(find_hole(r)), r)
    <3>1. PICK i \in 1..Len(index) : Fits(heap, index[i], r) /\ alloc_block(i, r)
      BY <2>3, FoundHole DEF find_hole
    <3>2. index[i] \in Holes
      BY <2>1, <3>1, AllocCuts
    <3>3. PICK x, header, size, rest : CutsInto(i, index[i], r, x, header, size, rest)
      BY <2>1, <3>1, AllocCuts
    <3> DEFINE pos == alloc_pos(index[i], r)
    <3>4. /\ live' = [p \in DOMAIN live \cup {pos} |-> IF p = pos THEN r.size ELSE live[p]]
          /\ request' = {}
      BY <3>3, Zenon DEF CutsInto
    <3>5. /\ Abstract!Block(pos, r.size) \subseteq StartAddress .. MaxAddress - 1
          /\ pos \in StartAddress .. MaxAddress - 1
          /\ \A q \in DOMAIN live :
               Abstract!Block(q, live[q]) \cap Abstract!Block(pos, r.size) = {}
      BY <2>1, <3>1, <3>2, HoleIsFree
    <3>6. r.page_align => pos % PageSize = 0
      BY <2>1, <3>1, <3>2, AllocPos
    <3>7. Abstract!Answer(r, pos)
      BY <2>1, <3>4, <3>5, <3>6, Zenon DEF Abstract!Answer
    <3> QED
      BY <2>1, <3>5, <3>7, Zenon DEF Abstract!AllocNext
  <2> QED
    BY <1>4, <2>2, <2>3 DEF alloc
<1>5. ASSUME NEW ptr \in DOMAIN live, kfree(ptr)
      PROVE  [Abstract!AllocNext]_(Abstract!allocVars)
  <2>1. \/ Panic("assert_failed")
        \/ /\ request = {}
           /\ live' = [p \in DOMAIN live \ {ptr} |-> live[p]]
           /\ UNCHANGED request
    BY <1>5, Zenon DEF kfree
  <2> QED
    BY <1>3, <2>1, Zenon DEF Abstract!AllocNext, Abstract!Free
<1>6. CASE UNCHANGED vars
  BY <1>2, <1>6 DEF vars
<1> QED
  BY <1>1, <1>4, <1>5, <1>6, Zenon DEF Next

\* kmalloc and kfree keep the promise of an allocator: the memory a caller gets is inside
\* the heap, aligned if requested, and its own until it frees it.  This does not depend
\* on the index: the memory of a hole that was dropped is lost, but not handed out twice.
THEOREM HeapIsAllocator == Spec => AllocatorSpec
<1>1. Init => Abstract!AllocInit
  BY DEF Init, Abstract!AllocInit
<1>2. HeapInv /\ [Next]_vars => [Abstract!AllocNext]_(Abstract!allocVars)
  BY HeapStepsAllocator
<1> QED
  BY <1>1, <1>2, HeapInvariant, PTL DEF Spec, AllocatorSpec, Abstract!AllocSpec

-----------------------------------------------------------------------------
(* As long as the index has room, no hole is missing in it.                *)

HasRoom == Len(index) < KHEAP_INDEX_NUM

\* A hole is missing only after an insertion into a full array, and an assertion of
\* kheap_expand or kfree fails only when a hole is missing.
LEMMA IndexStaysComplete == Spec /\ []HasRoom => []IndexComplete
<1>1. Init => IndexComplete
  BY InitHeap
<1>2. HeapInv /\ HasRoom /\ IndexComplete /\ [Next]_vars => IndexComplete'
  BY HeapStep DEF HasRoom
<1> QED
  BY <1>1, <1>2, HeapInvariant, PTL DEF Spec

LEMMA TiledBlocks == HeapInv /\ IndexComplete => BlocksTileHeap
<1> SUFFICES ASSUME HeapInv, IndexComplete
             PROVE  BlocksTileHeap
  OBVIOUS
<1>1. end_address \in Int /\ Tiled(heap, end_address, end_address, end_address)
  BY DEF HeapInv
<1>2. StartAddress \in Headers /\ \A a, b \in Headers : a < b => BlockEnd(heap, a) <= b
  BY <1>1, Blocks DEF Headers
<1>3. \A a \in Headers :
        /\ heap.header[a].size > 0
        /\ BlockEnd(heap, a) \in Headers \cup {end_address}
        /\ BlockEnd(heap, a) - FooterSize \in DOMAIN heap.footer
        /\ heap.footer[BlockEnd(heap, a) - FooterSize] = a
  BY <1>1, Blocks DEF Headers
<1>4. panic # "assert_failed"
  BY DEF IndexComplete
<1> QED
  BY <1>2, <1>3, <1>4 DEF BlocksTileHeap

LEMMA ListedHoles == HeapInv /\ IndexComplete => IndexIsHoles
<1> SUFFICES ASSUME HeapInv, IndexComplete
             PROVE  IndexIsHoles
  OBVIOUS
<1>1. \A i, j \in 1..Len(index) : index[i] = index[j] => i = j
  BY DEF HeapInv, Listed, Unique
<1>2. {index[i] : i \in 1..Len(index)} = Holes
  BY DEF HeapInv, Listed, IndexComplete, Entries, HolesOf, Holes, Headers
<1>3. {a + HeaderSize : a \in Headers \ Holes} = DOMAIN live
  BY DEF HeapInv, LiveFits
<1> QED
  BY <1>1, <1>2, <1>3 DEF IndexIsHoles

LEMMA SmallestFirst == HeapInv /\ IndexComplete => FindsSmallestHole
<1> SUFFICES ASSUME HeapInv, IndexComplete, NEW r \in Requests
             PROVE  LET fitting == {a \in Holes : Fits(heap, a, r)}
                        found == find_hole(r)
                    IN  /\ found = {} <=> fitting = {}
                        /\ found # {} => \A a \in fitting :
                             heap.header[index[Min(found)]].size <= heap.header[a].size
  BY DEF FindsSmallestHole
<1>1. {index[i] : i \in 1..Len(index)} = Holes
  BY DEF HeapInv, Listed, IndexComplete, Entries, HolesOf, Holes, Headers
<1>2. \A i \in find_hole(r) :
        i \in 1..Len(index) /\ index[i] \in Holes /\ Fits(heap, index[i], r)
  BY <1>1 DEF find_hole
<1>3. ASSUME NEW a \in Holes, Fits(heap, a, r)
      PROVE  \E j \in find_hole(r) : index[j] = a
  BY <1>1, <1>3 DEF find_hole
<1>4. find_hole(r) = {} <=> {a \in Holes : Fits(heap, a, r)} = {}
  BY <1>2, <1>3
<1>5. ASSUME find_hole(r) # {}, NEW a \in Holes, Fits(heap, a, r)
      PROVE  heap.header[index[Min(find_hole(r))]].size <= heap.header[a].size
  <2>1. PICK j \in find_hole(r) : index[j] = a
    BY <1>3, <1>5
  <2>2. Min(find_hole(r)) \in find_hole(r) /\ Min(find_hole(r)) <= j
    BY <1>5, FoundHole
  <2>3. Min(find_hole(r)) \in 1..Len(index) /\ j \in 1..Len(index)
    BY <1>2, <2>2
  <2> QED
    BY <2>1, <2>2, <2>3 DEF HeapInv, Listed, Ordered
<1> QED
  BY <1>4, <1>5

\* What kheap_validate_print asserts of the blocks, and the assertions inside alloc and
\* free, hold after any sequence of calls, as long as the index does not fill up.
THEOREM BlocksAlwaysTileHeap == Spec /\ []HasRoom => []BlocksTileHeap
  BY HeapInvariant, IndexStaysComplete, TiledBlocks, PTL

\* What it asserts of the index: it holds all holes, each once; and no block is lost.
THEOREM IndexIsAlwaysHoles == Spec /\ []HasRoom => []IndexIsHoles
  BY HeapInvariant, IndexStaysComplete, ListedHoles, PTL

\* find_hole finds the smallest hole that fits: when a hole changes its size it is moved
\* to its new place in the array.
THEOREM AlwaysFindsSmallestHole == Spec /\ []HasRoom => []FindsSmallestHole
  BY HeapInvariant, IndexStaysComplete, SmallestFirst, PTL

-----------------------------------------------------------------------------
(* When the index has room.                                                *)

\* From one hole to the next there is the block of a caller: two headers, two footers
\* and two blocks that are not empty.
HoleDistance == 2 * (BLOCK_META_SIZE + 1)

LEMMA HolesApart ==
  ASSUME HeapInv, NEW a \in Holes, NEW b \in Holes, a < b
  PROVE  a + HoleDistance <= b
<1> USE MetaSize
<1>1. end_address \in Int /\ Tiled(heap, end_address, end_address, end_address)
  BY DEF HeapInv
<1>2. a \in Headers /\ b \in Headers
  BY DEF Holes
<1> DEFINE c == BlockEnd(heap, a)
<1>3. /\ a \in Int /\ b \in Int /\ c \in Int /\ c >= a + BLOCK_META_SIZE + 1
      /\ c <= b /\ c \in Headers \cup {end_address} /\ b < end_address
  BY <1>1, <1>2, Blocks DEF Headers
<1>4. c # b
  BY DEF HeapInv, HolesMerged
<1> HIDE DEF c
<1>5. c \in Headers /\ c < b
  BY <1>1, <1>3, <1>4
<1>6. BlockEnd(heap, c) \in Int /\ BlockEnd(heap, c) >= c + BLOCK_META_SIZE + 1
      /\ BlockEnd(heap, c) <= b
  BY <1>1, <1>2, <1>5, Blocks DEF Headers
<1> QED
  BY <1>3, <1>6 DEF HoleDistance

LEMMA FewHoles ==
  ASSUME HeapInv,
         end_address - StartAddress <= HoleDistance * (KHEAP_INDEX_NUM - 1)
  PROVE  HasRoom
<1> USE MetaSize
<1> DEFINE n == Len(index)
           k == KHEAP_INDEX_NUM - 1
           place == [i \in 1..n |-> (index[i] - StartAddress) \div HoleDistance]
<1>1. HoleDistance \in Nat \ {0} /\ k \in Nat /\ n \in Nat
  BY KHeapAssumption DEF HoleDistance, HeapInv, Listed
<1>2. end_address \in Int /\ Tiled(heap, end_address, end_address, end_address)
  BY DEF HeapInv
<1>3. ASSUME NEW i \in 1..n
      PROVE  /\ index[i] \in Holes
             /\ index[i] - StartAddress \in Nat
             /\ index[i] - StartAddress < HoleDistance * k
  <2>1. index[i] \in Holes /\ index[i] \in Headers
    BY DEF HeapInv, Listed, Entries, HolesOf, Holes, Headers
  <2>2. index[i] \in Int /\ StartAddress <= index[i] /\ index[i] < end_address
    <3>1. ASSUME NEW b \in Headers
          PROVE  b \in Int /\ StartAddress <= b /\ b < end_address
      BY <1>2, Blocks DEF Headers
    <3> QED
      BY <2>1, <3>1
  <2>3. HoleDistance * k \in Int
    BY <1>1
  <2> QED
    BY <1>2, <2>1, <2>2, <2>3
<1>4. ASSUME NEW i \in 1..n
      PROVE  place[i] \in 0..(k - 1)
  <2> DEFINE d == index[i] - StartAddress
             q == d \div HoleDistance
  <2>1. d \in Nat /\ d < HoleDistance * k
    BY <1>3
  <2> HIDE DEF d
  <2>2. q \in Nat /\ d % HoleDistance \in 0..(HoleDistance - 1)
        /\ d = HoleDistance * q + (d % HoleDistance)
    BY <1>1, <2>1, Division
  <2>3. place[i] = q
    BY DEF d
  <2> HIDE DEF q, k
  <2>4. q < k
    <3>1. ASSUME q >= k
          PROVE  HoleDistance * q >= HoleDistance * k
      BY <1>1, <2>2, <3>1
    <3>2. HoleDistance * q \in Int /\ HoleDistance * k \in Int
      BY <1>1, <2>2
    <3> QED
      BY <1>1, <2>1, <2>2, <3>1, <3>2
  <2>5. q \in 0..(k - 1)
    <3>1. q \in Nat /\ k \in Nat
      BY <1>1, <2>2
    <3> QED
      BY <2>4, <3>1
  <2> QED
    BY <2>3, <2>5
<1>5. ASSUME NEW i \in 1..n, NEW j \in 1..n, place[i] = place[j]
      PROVE  i = j
  <2> DEFINE d == index[i] - StartAddress
             f == index[j] - StartAddress
             q == d \div HoleDistance
  <2>1. d \in Nat /\ f \in Nat /\ f \div HoleDistance = q
    BY <1>3, <1>5
  <2>2. /\ d = HoleDistance * q + (d % HoleDistance)
        /\ d % HoleDistance \in 0..(HoleDistance - 1) /\ q \in Nat
    BY <1>1, <2>1, Division
  <2>3. /\ f = HoleDistance * q + (f % HoleDistance)
        /\ f % HoleDistance \in 0..(HoleDistance - 1)
    BY <1>1, <2>1, Division
  <2>4. d - f < HoleDistance /\ f - d < HoleDistance
    <3> DEFINE z == HoleDistance * q
               u == d % HoleDistance
               v == f % HoleDistance
    <3>1. z \in Int
      BY <1>1, <2>2
    <3>2. /\ d = z + u /\ f = z + v
          /\ u \in 0..(HoleDistance - 1) /\ v \in 0..(HoleDistance - 1)
      BY <2>2, <2>3
    <3> HIDE DEF d, f, z, u, v
    <3> QED
      BY <1>1, <2>1, <3>1, <3>2
  <2>5. index[i] \in Int /\ index[j] \in Int
    BY DEF HeapInv, Listed
  <2>6. index[i] = index[j]
    <3>1. index[i] - index[j] < HoleDistance /\ index[j] - index[i] < HoleDistance
      BY <2>4, <2>5
    <3>2. /\ index[i] < index[j] => index[i] + HoleDistance <= index[j]
          /\ index[j] < index[i] => index[j] + HoleDistance <= index[i]
      BY <1>3, HolesApart
    <3> QED
      BY <1>1, <2>5, <3>1, <3>2
  <2> QED
    BY <2>6 DEF HeapInv, Listed, Unique
<1>6. place \in Injection(1..n, 0..(k - 1))
  <2>1. place \in [1..n -> 0..(k - 1)]
    BY <1>4
  <2> HIDE DEF place
  <2> QED
    BY <1>5, <2>1 DEF Injection, IsInjective
<1> HIDE DEF place, n, k
<1>7. /\ IsFiniteSet(0..(k - 1)) /\ Cardinality(0..(k - 1)) = k
      /\ Cardinality(1..n) = n
  BY <1>1, FS_Interval
<1>8. Cardinality(1..n) <= Cardinality(0..(k - 1))
  BY <1>6, <1>7, FS_Injection
<1>9. n <= k
  BY <1>7, <1>8
<1> QED
  BY <1>1, <1>9, KHeapAssumption DEF HasRoom, n, k

\* The length of a heap in which the index cannot be full.
HeapIsSmall == end_address - StartAddress <= HoleDistance * (KHEAP_INDEX_NUM - 1)

\* The index cannot fill up before the heap is that long: no two holes are neighbours,
\* so that the number of holes is bounded by the size of the heap.
THEOREM IndexHasRoom == Spec => [](HeapIsSmall => HasRoom)
<1>1. HeapInv => (HeapIsSmall => HasRoom)
  BY FewHoles DEF HeapIsSmall
<1> QED
  BY <1>1, HeapInvariant, PTL

\* kheap_expand is the only step that moves the end of the heap, and it moves it up.
LEMMA HeapOnlyGrows ==
  ASSUME HeapInv, [Next]_vars
  PROVE  end_address' \in Int /\ end_address' >= end_address
<1>1. end_address \in Int
  BY DEF HeapInv
<1>2. ASSUME NEW r \in Requests, alloc_expand(r)
      PROVE  end_address' \in Int /\ end_address' >= end_address
  <2> DEFINE ext == align_to_page(r.size + BLOCK_META_SIZE)
  <2>1. r.size \in Nat
    BY KHeapAssumption DEF Requests
  <2>2. ext \in Nat
    <3>1. r.size + BLOCK_META_SIZE \in Nat
      BY <2>1, MetaSize
    <3> QED
      BY <3>1, AlignUp
  <2>3. kheap_expand(ext)
    BY <1>2 DEF alloc_expand
  <2> HIDE DEF ext
  <2>4. end_address' \in {end_address, end_address + ext}
    BY <2>3 DEF kheap_expand, Panic
  <2> QED
    BY <1>1, <2>2, <2>4
<1>3. ASSUME NEW r \in Requests, kmalloc(r)
      PROVE  end_address' = end_address
  BY <1>3 DEF kmalloc
<1>4. ASSUME NEW i, NEW r, alloc_block(i, r)
      PROVE  end_address' = end_address
  BY <1>4, Zenon DEF alloc_block, Panic
<1>5. ASSUME NEW ptr, kfree(ptr)
      PROVE  end_address' = end_address
  BY <1>5, Zenon DEF kfree, Panic
<1>6. CASE UNCHANGED vars
  BY <1>1, <1>6 DEF vars
<1>7. CASE Next
  <2>1. CASE \E r \in request : alloc(r)
    <3>1. PICK r \in request : alloc(r)
      BY <2>1
    <3>2. r \in Requests
      BY <3>1 DEF HeapInv
    <3> QED
      BY <1>1, <1>2, <1>4, <3>1, <3>2 DEF alloc
  <2> QED
    BY <1>1, <1>3, <1>5, <1>7, <2>1 DEF Next
<1> QED
  BY <1>6, <1>7

\* While the heap is that small the blocks are in order, the index holds the holes and
\* find_hole finds the smallest one that fits, after any sequence of calls and without an
\* assumption on the index: it has not been full before either, as the heap only grows.
THEOREM SoundWhileSmall ==
  Spec => [](HeapIsSmall => BlocksTileHeap /\ IndexIsHoles /\ FindsSmallestHole)
<1>1. Init => IndexComplete
  BY InitHeap
<1>2. HeapInv /\ [Next]_vars => (HeapIsSmall' => HeapIsSmall)
  <2> SUFFICES ASSUME HeapInv, [Next]_vars, HeapIsSmall'
               PROVE  HeapIsSmall
    OBVIOUS
  <2> DEFINE limit == HoleDistance * (KHEAP_INDEX_NUM - 1)
  <2>1. limit \in Int /\ StartAddress \in Int /\ end_address \in Int
    BY MetaSize, KHeapAssumption DEF HoleDistance, HeapInv
  <2>2. end_address' - StartAddress <= limit
    BY DEF HeapIsSmall
  <2>3. end_address' \in Int /\ end_address' >= end_address
    BY HeapOnlyGrows
  <2>4. \A l, a, e, f \in Int : f - a <= l /\ f >= e => e - a <= l
    OBVIOUS
  <2> HIDE DEF limit
  <2>5. end_address - StartAddress <= limit
    BY <2>1, <2>2, <2>3, <2>4
  <2> QED
    BY <2>5 DEF HeapIsSmall, limit
<1>3. HeapInv /\ HeapIsSmall => HasRoom
  BY FewHoles DEF HeapIsSmall
<1>4. HeapInv /\ HasRoom /\ IndexComplete /\ [Next]_vars => IndexComplete'
  BY HeapStep DEF HasRoom
<1>5. HeapInv /\ IndexComplete => BlocksTileHeap /\ IndexIsHoles /\ FindsSmallestHole
  BY TiledBlocks, ListedHoles, SmallestFirst
<1> QED
  BY <1>1, <1>2, <1>3, <1>4, <1>5, HeapInvariant, PTL DEF Spec

==============================================================================
