----------------------------- MODULE LinkedList ------------------------------
(***************************************************************************)
(* The doubly linked list of src/src/utils/linked_list.c, at the level of  *)
(* its pointers.  A list is a record of head, tail and size; nodes is the  *)
(* memory, a function from addresses to records with prev and next.  An    *)
(* operation that changes both returns both.                               *)
(***************************************************************************)
EXTENDS Integers

CONSTANT Null  \* the null pointer

linked_list_init == [head |-> Null, tail |-> Null, size |-> 0]

linked_list_append(nodes, list, n) ==
  LET first  == list.size = 0
      linked == [nodes EXCEPT ![n].next = Null,
                              ![n].prev = IF first THEN Null ELSE list.tail]
  IN  [nodes |-> IF first THEN linked ELSE [linked EXCEPT ![list.tail].next = n],
       list  |-> [head |-> IF first THEN n ELSE list.head,
                  tail |-> n,
                  size |-> list.size + 1]]

\* (a removal that leaves the previous pointer of the next node as it is)
linked_list_remove_half(nodes, list, n) ==
  LET before == nodes[n].prev
      after  == nodes[n].next
  IN  [nodes |-> IF before = Null THEN nodes ELSE [nodes EXCEPT ![before].next = after],
       list  |-> [head |-> IF before = Null THEN after ELSE list.head,
                  tail |-> IF after = Null THEN before ELSE list.tail,
                  size |-> list.size - 1]]

\* The node itself keeps its pointers.
linked_list_remove(nodes, list, n) ==
  LET before == nodes[n].prev
      after  == nodes[n].next
      skipped == IF before = Null THEN nodes ELSE [nodes EXCEPT ![before].next = after]
  IN  [nodes |-> IF after = Null THEN skipped ELSE [skipped EXCEPT ![after].prev = before],
       list  |-> [head |-> IF before = Null THEN after ELSE list.head,
                  tail |-> IF after = Null THEN before ELSE list.tail,
                  size |-> list.size - 1]]

==============================================================================
