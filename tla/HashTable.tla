------------------------------ MODULE HashTable ------------------------------
(***************************************************************************)
(* The hash table of src/src/utils/hash_table.c, with which the kernel     *)
(* keeps its processes, threads, children and frame counts.  Its buckets   *)
(* are linked lists; a node of a list and the key and value it points to   *)
(* are one record here.  The loops take one step per node.  Callers        *)
(* serialise their calls with locks of their own.                          *)
(***************************************************************************)
EXTENDS LinkedList, FiniteSets

CONSTANTS
  Keys,                  \* keys, unsigned numbers
  Values,                \* pointers to values
  Nodes,                 \* addresses of nodes
  INITIAL_BUCKETS_NUM

ASSUME HashTableAssumption ==
  /\ Keys \subseteq Nat
  /\ Null \notin Values \cup Nodes
  /\ INITIAL_BUCKETS_NUM \in Nat \ {0}

VARIABLES
  nodes,        \* the memory of the nodes, Null where nothing is allocated
  buckets,      \* the buckets of the table
  new_buckets,  \* those hash_table_expand moves the nodes to
  size,
  pc,           \* where the call in progress is
  req,          \* the call in progress
  kv_node,      \* the node the loop has reached
  index,        \* the bucket the loop is in
  seen,         \* iteration: calls of hash_table_iterator_next, keys they returned
  ret           \* the last value returned

tableVars == <<nodes, buckets, new_buckets, size>>
callVars == <<pc, req, kv_node, index, seen>>
vars == <<tableVars, callVars, ret>>

buckets_num == Cardinality(DOMAIN buckets)
Bucket(k) == k % buckets_num
EmptyBuckets(n) == [b \in 0..(n - 1) |-> linked_list_init]

\* size > buckets_num * LOAD_FACTOR
Overloaded(s) == 4 * s > 3 * buckets_num

\* The call is over.
Return ==
  /\ pc' = "idle"
  /\ req' = Null
  /\ kv_node' = Null
  /\ index' = 0
  /\ seen' = [steps |-> 0, keys |-> {}]

Answer(v) == ret' = v /\ Return

-----------------------------------------------------------------------------
Requests == [op : {"put"}, key : Keys, val : Values]
       \cup [op : {"get", "remove"}, key : Keys]
       \cup [op : {"iterate", "clear", "destroy"}]

Call(r) ==
  /\ pc = "idle"
  /\ pc' = "called"
  /\ req' = r
  /\ UNCHANGED <<tableVars, kv_node, index, seen, ret>>

\* hash_table_bucket_lookup: from the head of the bucket
LookupStarts ==
  /\ pc = "called"
  /\ req.op \in {"put", "get", "remove"}
  /\ pc' = "lookup"
  /\ kv_node' = buckets[Bucket(req.key)].head
  /\ UNCHANGED <<tableVars, req, index, seen, ret>>

\* (a loop that stays where it is behind the head)
Advance_stays(n) == IF nodes[n].prev = Null THEN nodes[n].next ELSE n

Advance(n) == nodes[n].next

\* to the first node with the key
LookupNext ==
  /\ pc = "lookup"
  /\ kv_node # Null
  /\ nodes[kv_node].key # req.key
  /\ kv_node' = Advance(kv_node)
  /\ UNCHANGED <<tableVars, pc, req, index, seen, ret>>

\* or to the end.
Found(op) ==
  pc = "lookup" /\ req.op = op /\ kv_node # Null /\ nodes[kv_node].key = req.key
NotFound(op) == pc = "lookup" /\ req.op = op /\ kv_node = Null

\* hash_table_get, hash_table_contains
hash_table_get ==
  /\ \/ Found("get") /\ Answer(nodes[kv_node].val)
     \/ NotFound("get") /\ Answer(Null)
  /\ UNCHANGED tableVars

-----------------------------------------------------------------------------
\* hash_table_put replaces the value of a key,
PutReplaces ==
  /\ Found("put")
  /\ nodes' = [nodes EXCEPT ![kv_node].val = req.val]
  /\ Answer(nodes[kv_node].val)
  /\ UNCHANGED <<buckets, new_buckets, size>>

\* or appends a node, and expands the table when it is too full.
PutAppends ==
  /\ NotFound("put")
  /\ LET n     == CHOOSE m \in Nodes : nodes[m] = Null
         b     == Bucket(req.key)
         fresh == [key |-> req.key, val |-> req.val, prev |-> Null, next |-> Null]
         new   == linked_list_append([nodes EXCEPT ![n] = fresh], buckets[b], n)
     IN  /\ nodes' = new.nodes
         /\ buckets' = [buckets EXCEPT ![b] = new.list]
  /\ size' = size + 1
  /\ IF Overloaded(size + 1)
     THEN /\ pc' = "expand"
          /\ new_buckets' = EmptyBuckets(2 * buckets_num)
          /\ kv_node' = buckets'[0].head
          /\ ret' = Null
          /\ UNCHANGED <<req, index, seen>>
     ELSE Answer(Null) /\ UNCHANGED new_buckets

\* (the next node is read after the node has been moved)
NextAfterMove(memory) == memory[kv_node].next
NextBeforeMove(memory) == nodes[kv_node].next

\* hash_table_expand moves the nodes of a bucket one by one,
ExpandMoves ==
  /\ pc = "expand"
  /\ kv_node # Null
  /\ LET old == linked_list_remove(nodes, buckets[index], kv_node)
         b   == nodes[kv_node].key % (2 * buckets_num)
         new == linked_list_append(old.nodes, new_buckets[b], kv_node)
     IN  /\ nodes' = new.nodes
         /\ buckets' = [buckets EXCEPT ![index] = old.list]
         /\ new_buckets' = [new_buckets EXCEPT ![b] = new.list]
         /\ kv_node' = NextBeforeMove(new.nodes)
  /\ UNCHANGED <<size, pc, req, index, seen, ret>>

\* The loops over the buckets.
BucketDone == kv_node = Null /\ index + 1 < buckets_num
LastBucketDone == kv_node = Null /\ index + 1 = buckets_num

NextBucket ==
  /\ pc \in {"expand", "clear"}
  /\ BucketDone
  /\ index' = index + 1
  /\ kv_node' = buckets[index + 1].head
  /\ UNCHANGED <<tableVars, pc, req, seen, ret>>

\* and replaces the buckets.
ExpandEnds ==
  /\ pc = "expand"
  /\ LastBucketDone
  /\ buckets' = new_buckets
  /\ new_buckets' = <<>>
  /\ Return
  /\ UNCHANGED <<nodes, size, ret>>

-----------------------------------------------------------------------------
\* hash_table_remove
hash_table_remove ==
  /\ \/ /\ Found("remove")
        /\ LET b   == Bucket(req.key)
               old == linked_list_remove(nodes, buckets[b], kv_node)
           IN  /\ nodes' = [old.nodes EXCEPT ![kv_node] = Null]
               /\ buckets' = [buckets EXCEPT ![b] = old.list]
        /\ size' = size - 1
        /\ Answer(nodes[kv_node].val)
     \/ /\ NotFound("remove")
        /\ Answer(Null)
        /\ UNCHANGED <<nodes, buckets, size>>
  /\ UNCHANGED new_buckets

\* hash_table_clear and hash_table_destroy
ClearStarts ==
  /\ pc = "called"
  /\ req.op \in {"clear", "destroy"}
  /\ pc' = "clear"
  /\ kv_node' = buckets[0].head
  /\ UNCHANGED <<tableVars, req, index, seen, ret>>

\* free the nodes of all the buckets.
ClearFrees ==
  /\ pc = "clear"
  /\ kv_node # Null
  /\ LET old == linked_list_remove(nodes, buckets[index], kv_node)
     IN  /\ nodes' = [old.nodes EXCEPT ![kv_node] = Null]
         /\ buckets' = [buckets EXCEPT ![index] = old.list]
  /\ kv_node' = nodes[kv_node].next
  /\ UNCHANGED <<new_buckets, size, pc, req, index, seen, ret>>

ClearEnds ==
  /\ pc = "clear"
  /\ LastBucketDone
  /\ size' = 0
  /\ req.op = "clear"
  /\ Return
  /\ UNCHANGED <<nodes, buckets, new_buckets, ret>>

\* A destroyed table has no buckets until it is initialised again, as process_exec does.
DestroyEnds ==
  /\ pc = "clear"
  /\ LastBucketDone
  /\ size' = 0
  /\ req.op = "destroy"
  /\ buckets' = <<>>
  /\ pc' = "destroyed"
  /\ UNCHANGED <<nodes, new_buckets, req, kv_node, index, seen, ret>>

hash_table_init ==
  /\ pc = "destroyed"
  /\ buckets' = EmptyBuckets(INITIAL_BUCKETS_NUM)
  /\ size' = 0
  /\ Return
  /\ UNCHANGED <<nodes, new_buckets, ret>>

-----------------------------------------------------------------------------
\* hash_table_create_iterator, and a loop over what it has: seen.steps - 1 is the
\* index of the iterator, index its bucket_index.
hash_table_create_iterator ==
  /\ pc = "called"
  /\ req.op = "iterate"
  /\ pc' = "iterate"
  /\ index' = -1
  /\ kv_node' = Null
  /\ UNCHANGED <<tableVars, req, seen, ret>>

hash_table_iterator_has_next == seen.steps - 1 < size - 1

LaterHeads == {b \in DOMAIN buckets : b > index /\ buckets[b].head # Null}

\* The next node of the bucket, or the head of the next bucket that has one.  With
\* none left what is returned is undefined; the loop just counts on.  (The kernel asks
\* has_next first; only the unit test gets the null pointer of the test inside next.)
hash_table_iterator_next ==
  /\ pc = "iterate"
  /\ hash_table_iterator_has_next
  /\ IF kv_node # Null /\ nodes[kv_node].next # Null
     THEN kv_node' = nodes[kv_node].next /\ UNCHANGED index
     ELSE /\ index' = IF LaterHeads = {} THEN buckets_num
                      ELSE CHOOSE b \in LaterHeads : \A c \in LaterHeads : b <= c
          /\ kv_node' = IF LaterHeads = {} THEN Null ELSE buckets[index'].head
  /\ seen' = [steps |-> seen.steps + 1,
              keys |-> IF kv_node' = Null THEN seen.keys
                       ELSE seen.keys \cup {nodes[kv_node'].key}]
  /\ UNCHANGED <<tableVars, pc, req, ret>>

IterateEnds ==
  /\ pc = "iterate"
  /\ ~hash_table_iterator_has_next
  /\ Answer(seen)
  /\ UNCHANGED tableVars

-----------------------------------------------------------------------------
Init ==
  /\ nodes = [n \in Nodes |-> Null]
  /\ buckets = EmptyBuckets(INITIAL_BUCKETS_NUM)
  /\ new_buckets = <<>>
  /\ size = 0
  /\ pc = "idle"
  /\ req = Null
  /\ kv_node = Null
  /\ index = 0
  /\ seen = [steps |-> 0, keys |-> {}]
  /\ ret = Null

Step ==
  \/ LookupStarts \/ LookupNext
  \/ hash_table_get
  \/ PutReplaces \/ PutAppends \/ ExpandMoves \/ NextBucket \/ ExpandEnds
  \/ hash_table_remove
  \/ ClearStarts \/ ClearFrees \/ ClearEnds \/ DestroyEnds \/ hash_table_init
  \/ hash_table_create_iterator \/ hash_table_iterator_next \/ IterateEnds

Next == (\E r \in Requests : Call(r)) \/ Step

Spec == Init /\ [][Next]_vars

\* A call that has started goes on.
FairSpec == Spec /\ WF_vars(Step)

-----------------------------------------------------------------------------
Allocated == {n \in Nodes : nodes[n] # Null}

\* The node at place i of a list, following the next pointers.
At(list, i) ==
  LET at[j \in 0..i] ==
        IF j = 0 THEN list.head
        ELSE IF at[j - 1] \in Allocated THEN nodes[at[j - 1]].next ELSE Null
  IN  at[i]

Chain(list) == {At(list, i) : i \in 0..(list.size - 1)}

\* A list is what its head, tail, size and pointers in both directions say.
WellLinked(list) ==
  /\ Chain(list) \subseteq Allocated
  /\ Cardinality(Chain(list)) = list.size
  /\ At(list, list.size) = Null
  /\ list.tail = IF list.size = 0 THEN Null ELSE At(list, list.size - 1)
  /\ \A i \in 0..(list.size - 1) :
       nodes[At(list, i)].prev = IF i = 0 THEN Null ELSE At(list, i - 1)

\* All lists of a table are well linked and hold only keys that hash to them.
BucketsIntact(table) ==
  \A b \in DOMAIN table :
    /\ WellLinked(table[b])
    /\ \A n \in Chain(table[b]) : nodes[n].key % Cardinality(DOMAIN table) = b

\* In every step of put, remove, clear and expand the lists of the old and of the new
\* buckets are intact, and every node is in one of them.
ListsIntact ==
  /\ BucketsIntact(buckets)
  /\ BucketsIntact(new_buckets)
  /\ LET old == UNION {Chain(buckets[b]) : b \in DOMAIN buckets}
         new == UNION {Chain(new_buckets[b]) : b \in DOMAIN new_buckets}
     IN  old \cap new = {} /\ old \cup new = Allocated

\* Every call returns: no loop goes round in a chain.
CallReturns == pc # "idle" ~> pc = "idle"

\* The table implements a map.  A call takes effect when it has found the key, and one
\* that empties the table when it starts.
MapOf ==
  [k \in Keys |->
     IF pc \notin {"clear", "destroyed"} /\ \E n \in Allocated : nodes[n].key = k
     THEN nodes[CHOOSE n \in Allocated : nodes[n].key = k].val
     ELSE Null]

M == INSTANCE Map WITH
       map <- MapOf,
       req <- IF pc \in {"expand", "clear", "destroyed"} THEN Null ELSE req

\* Whatever the sequence of calls, put, get, remove and the iterator answer as a map would.
ImplementsMap == M!MapSpec

==============================================================================
