-------------------------------- MODULE KHeap --------------------------------
(***************************************************************************)
(* The kernel heap of src/src/mem/kheap.c with its index, the ordered      *)
(* array of src/src/utils/ordered_array.c.                                 *)
(*                                                                         *)
(* The heap is a row of blocks, each between a header and a footer written *)
(* into the memory itself.  heap.header holds the headers by address and   *)
(* heap.footer the header each footer points to; an address outside their  *)
(* domains has no KHEAP_MAGIC.  What lies between the header and the       *)
(* footer of a block is the caller's data, so make_block forgets the       *)
(* headers and footers that older blocks have left there.                  *)
(*                                                                         *)
(* kmalloc and kfree hold kheap_lock from start to end, so only one call   *)
(* is under way.  kmalloc takes one step per turn of the recursion of      *)
(* alloc; kheap_lock is held while request is not empty.                   *)
(* kheap.size is always end_address - start_address and is left out, as    *)
(* are kheap_contract, which is never called, and requests of size 0 and   *)
(* null pointers, which return at once.                                    *)
(***************************************************************************)
EXTENDS Integers, Sequences, SequencesExt, FiniteSetsExt

CONSTANTS
  PageSize,         \* PAGE_SIZE
  HeaderSize,       \* HEADER_SIZE
  FooterSize,       \* FOOTER_SIZE
  StartAddress,     \* kheap.start_address, page aligned
  MinSize,          \* the size of the heap at the start
  MaxAddress,       \* kheap.max_address
  KHEAP_INDEX_NUM,  \* the capacity of the index
  Sizes             \* the sizes callers request

ASSUME KHeapAssumption ==
  /\ {PageSize, HeaderSize, FooterSize} \subseteq Nat \ {0}
  /\ {StartAddress, MinSize, MaxAddress} \subseteq Nat
  /\ KHEAP_INDEX_NUM \in Nat \ {0}
  /\ StartAddress % PageSize = 0 /\ MinSize % PageSize = 0
  /\ MinSize > HeaderSize + FooterSize
  /\ StartAddress + MinSize <= MaxAddress
  /\ Sizes \subseteq Nat \ {0}

VARIABLES
  heap,         \* the headers and footers in memory
  index,        \* kheap.index.array, as far as kheap.index.size
  end_address,  \* kheap.end_address
  request,      \* the call of kmalloc under way, if any
  panic,        \* why the kernel has stopped
  live          \* the callers' view: the pointers they hold and the sizes requested

vars == <<heap, index, end_address, request, panic, live>>

BLOCK_META_SIZE == HeaderSize + FooterSize

Requests == [size : Sizes, page_align : BOOLEAN]

\* The end of the block with header a.
BlockEnd(h, a) == a + h.header[a].size + BLOCK_META_SIZE

-----------------------------------------------------------------------------
align_to_page(n) == ((n + PageSize - 1) \div PageSize) * PageSize

make_block(h, start, size, is_hole) ==
  LET end == start + size + BLOCK_META_SIZE
  IN  [header |-> [a \in (DOMAIN h.header \ (start .. end - 1)) \cup {start} |->
                     IF a = start THEN [size |-> size, is_hole |-> is_hole]
                                  ELSE h.header[a]],
       footer |-> [a \in (DOMAIN h.footer \ (start .. end - 1)) \cup {end - FooterSize} |->
                     IF a = end - FooterSize THEN start ELSE h.footer[a]]]

use_block(h, start, size) == make_block(h, start, size, FALSE)

\* The item goes behind the ones that are not larger (kheap_block_comparator
\* compares the sizes in the headers); when the array is full it is dropped.
ordered_array_insert(h, array, item) ==
  LET larger == {i \in 1..Len(array) : h.header[array[i]].size > h.header[item].size}
  IN  IF Len(array) >= KHEAP_INDEX_NUM THEN array
      ELSE InsertAt(array, Min(larger \cup {Len(array) + 1}), item)

ordered_array_find_element(array, item) == \E i \in 1..Len(array) : array[i] = item

ordered_array_remove(array, i) == RemoveAt(array, i)

\* The first entry that is the item goes.
ordered_array_remove_element(array, item) ==
  IF ordered_array_find_element(array, item)
  THEN ordered_array_remove(array, Min({i \in 1..Len(array) : array[i] = item}))
  ELSE array

\* The page-aligned addresses in the hole a that leave room for size bytes behind
\* them and for a hole of its own in front of them.
AlignedPositions(h, a, size) ==
  LET start == a + HeaderSize
  IN  {p \in start .. start + h.header[a].size :
         /\ p % PageSize = 0
         /\ p - start > BLOCK_META_SIZE
         /\ p + size <= start + h.header[a].size}

Fits(h, a, r) ==
  IF r.page_align THEN AlignedPositions(h, a, r.size) # {}
                  ELSE h.header[a].size >= r.size

\* find_hole: the places in the index of the holes that fit; the first is taken.
find_hole(r) == {i \in 1..Len(index) : Fits(heap, index[i], r)}

\* The start of the hole, whether or not it is aligned.
alloc_pos_unaligned(a, r) == a + HeaderSize

\* The address alloc returns.
alloc_pos(a, r) == IF r.page_align THEN Min(AlignedPositions(heap, a, r.size))
                                   ELSE a + HeaderSize

-----------------------------------------------------------------------------
\* An assertion fails and the kernel stops.
Panic(why) ==
  /\ panic' = why
  /\ UNCHANGED <<heap, index, end_address, request, live>>

\* kmalloc and kmalloc_aligned
kmalloc(r) ==
  /\ request = {}
  /\ request' = {r}
  /\ UNCHANGED <<heap, index, end_address, panic, live>>

\* The last hole grows where it is in the index.
grow_heap_in_place(extended_size) ==
  LET last == heap.footer[end_address - FooterSize]
  IN  IF heap.header[last].is_hole
      THEN /\ heap' = make_block(heap, last, heap.header[last].size + extended_size, TRUE)
           /\ index' = index
      ELSE /\ heap' = make_block(heap, end_address, extended_size - BLOCK_META_SIZE, TRUE)
           /\ index' = ordered_array_insert(heap', index, end_address)

\* The last hole is put into the index again and not taken out first.
grow_heap_relists(extended_size) ==
  LET last == heap.footer[end_address - FooterSize]
  IN  IF heap.header[last].is_hole
      THEN /\ heap' = make_block(heap, last, heap.header[last].size + extended_size, TRUE)
           /\ index' = ordered_array_insert(heap', index, last)
      ELSE /\ heap' = make_block(heap, end_address, extended_size - BLOCK_META_SIZE, TRUE)
           /\ index' = ordered_array_insert(heap', index, end_address)

\* The new memory is added to the last hole, which is moved to its new place in
\* the index, or becomes a hole of its own.
grow_heap(extended_size) ==
  LET last == heap.footer[end_address - FooterSize]
  IN  IF heap.header[last].is_hole
      THEN /\ heap' = make_block(heap, last, heap.header[last].size + extended_size, TRUE)
           /\ index' = ordered_array_insert(heap',
                          ordered_array_remove_element(index, last), last)
      ELSE /\ heap' = make_block(heap, end_address, extended_size - BLOCK_META_SIZE, TRUE)
           /\ index' = ordered_array_insert(heap', index, end_address)

\* kheap_expand adds whole pages, and asserts that they are below the limit; then the
\* last hole must be found in the index.
kheap_expand(size) ==
  LET last == heap.footer[end_address - FooterSize]
      asserted == heap.header[last].is_hole => ordered_array_find_element(index, last)
  IN  IF end_address + size > MaxAddress THEN Panic("out_of_memory")
      ELSE IF ~asserted THEN Panic("assert_failed")
      ELSE /\ grow_heap(size)
           /\ end_address' = end_address + size
           /\ UNCHANGED <<request, panic, live>>

\* alloc, when no hole fits: the heap grows, and alloc is called again.
alloc_expand(r) ==
  /\ find_hole(r) = {}
  /\ kheap_expand(align_to_page(r.size + BLOCK_META_SIZE))

\* A remainder is cut off when it has room for a header and a footer.
cuts_remainder_empty(remain_size) == remain_size >= BLOCK_META_SIZE

\* A remainder is cut off when it has room for more than a header and a footer.
cuts_remainder(remain_size) == remain_size > BLOCK_META_SIZE

\* alloc, when a hole fits: an aligned block leaves a hole in front of it, and the
\* space that is left behind it becomes a hole when it is large enough.
alloc_block(i, r) ==
  LET a == index[i]
      pos == alloc_pos(a, r)
      header == pos - HeaderSize
      block_size == heap.header[a].size - (header - a)
      remain_size == block_size - r.size
      size == IF cuts_remainder(remain_size) THEN r.size ELSE block_size
      h1 == IF header > a
            THEN make_block(heap, a, header - a - BLOCK_META_SIZE, TRUE) ELSE heap
      h2 == use_block(h1, header, size)
      rest == header + BLOCK_META_SIZE + size
      h3 == IF cuts_remainder(remain_size)
            THEN make_block(h2, rest, remain_size - BLOCK_META_SIZE, TRUE) ELSE h2
      index0 == ordered_array_remove(index, i)
      index1 == IF header > a THEN ordered_array_insert(h1, index0, a) ELSE index0
  IN  IF block_size < r.size
      THEN Panic("assert_failed")
      ELSE /\ heap' = h3
           /\ index' = IF cuts_remainder(remain_size)
                       THEN ordered_array_insert(h3, index1, rest) ELSE index1
           /\ live' = [p \in DOMAIN live \cup {pos} |->
                         IF p = pos THEN r.size ELSE live[p]]
           /\ request' = {}
           /\ UNCHANGED <<end_address, panic>>

alloc(r) ==
  \/ alloc_expand(r)
  \/ /\ find_hole(r) # {}
     /\ alloc_block(Min(find_hole(r)), r)

\* A block that has been freed is not merged with the one on its left.
LeftHole_none(a) == {}

\* The hole left of the block a, and right of it, if there is one.
LeftHole(a) ==
  LET footer == a - FooterSize
  IN  {b \in {heap.footer[f] : f \in DOMAIN heap.footer \cap {footer}} :
         heap.header[b].is_hole}

RightHole(a) ==
  {b \in DOMAIN heap.header : b = BlockEnd(heap, a) /\ heap.header[b].is_hole}

\* The holes that free takes out of the index and merges with the block a.
MergedHoles(a) == LeftHole(a) \cup RightHole(a)

\* kfree: the block becomes one hole with the holes on both sides.
kfree(ptr) ==
  LET a == ptr - HeaderSize
      hole == Min({a} \cup LeftHole(a))
      end == IF RightHole(a) = {} THEN BlockEnd(heap, a)
             ELSE BlockEnd(heap, BlockEnd(heap, a))
      h == make_block(heap, hole, end - hole - BLOCK_META_SIZE, TRUE)
      index0 == IF RightHole(a) = {} THEN index
                ELSE ordered_array_remove_element(index, BlockEnd(heap, a))
      index1 == IF LeftHole(a) = {} THEN index0
                ELSE ordered_array_remove_element(index0, hole)
      asserted ==
        /\ a \in DOMAIN heap.header
        /\ BlockEnd(heap, a) - FooterSize \in DOMAIN heap.footer
        /\ \A b \in MergedHoles(a) : ordered_array_find_element(index, b)
  IN  /\ request = {}
      /\ ptr \in DOMAIN live
      /\ IF ~asserted
         THEN Panic("assert_failed")
         ELSE /\ heap' = h
              /\ index' = ordered_array_insert(h, index1, hole)
              /\ live' = [p \in DOMAIN live \ {ptr} |-> live[p]]
              /\ UNCHANGED <<end_address, request, panic>>

\* create_kheap: one large hole.
Init ==
  /\ heap = make_block([header |-> <<>>, footer |-> <<>>], StartAddress,
                       MinSize - BLOCK_META_SIZE, TRUE)
  /\ index = <<StartAddress>>
  /\ end_address = StartAddress + MinSize
  /\ request = {}
  /\ panic = "none"
  /\ live = [p \in {} |-> 0]

Next ==
  /\ panic = "none"
  /\ \/ \E r \in Requests : kmalloc(r)
     \/ \E r \in request : alloc(r)
     \/ \E ptr \in DOMAIN live : kfree(ptr)

Spec == Init /\ [][Next]_vars

-----------------------------------------------------------------------------
Headers == DOMAIN heap.header
Holes == {a \in Headers : heap.header[a].is_hole}

\* kheap_validate_print walks from block to block and must end at end_address:
\* after any sequence of calls the blocks are not empty, follow each other
\* without a gap or an overlap, and have their footers, as the assertions inside
\* alloc and free want it.
BlocksTileHeap ==
  /\ panic # "assert_failed"
  /\ StartAddress \in Headers
  /\ \A a \in Headers :
       /\ heap.header[a].size > 0
       /\ BlockEnd(heap, a) \in Headers \cup {end_address}
       /\ BlockEnd(heap, a) - FooterSize \in DOMAIN heap.footer
       /\ heap.footer[BlockEnd(heap, a) - FooterSize] = a
  /\ \A a, b \in Headers : a < b => BlockEnd(heap, a) <= b

\* Another assertion of kheap_validate_print: the index holds every hole once and
\* nothing else, although holes are cut, grown and merged.  All the other blocks are
\* those the callers hold: none is lost.
IndexIsHoles ==
  /\ \A i, j \in 1..Len(index) : index[i] = index[j] => i = j
  /\ {index[i] : i \in 1..Len(index)} = Holes
  /\ {a + HeaderSize : a \in Headers \ Holes} = DOMAIN live

\* "Find the smallest hole that fits requested size": for every request that
\* could come now, the first fitting entry of the index is a smallest one,
\* and the heap grows only when no hole fits.
FindsSmallestHole ==
  \A r \in Requests :
    LET fitting == {a \in Holes : Fits(heap, a, r)}
        found == find_hole(r)
    IN  /\ found = {} <=> fitting = {}
        /\ found # {} => \A a \in fitting :
             heap.header[index[Min(found)]].size <= heap.header[a].size

\* Freed memory is not fragmented: no two holes are neighbours.
HolesMerged == \A a \in Holes : BlockEnd(heap, a) \notin Holes

\* kmalloc and kfree, with all that happens inside the heap, implement an
\* allocator: memory given to a caller is its own until the caller frees it.
Abstract ==
  INSTANCE Allocator WITH Addresses <- StartAddress .. MaxAddress - 1
AllocatorSpec == Abstract!AllocSpec

==============================================================================
