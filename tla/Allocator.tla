------------------------------ MODULE Allocator ------------------------------
(***************************************************************************)
(* What a memory allocator promises its callers: a request is answered     *)
(* with memory that no other live block overlaps, at a multiple of the     *)
(* page size if so requested, and that memory stays as it is until its     *)
(* owner frees it.  Where the memory lies, and whether a request is ever   *)
(* answered, is left open.                                                 *)
(***************************************************************************)
EXTENDS Integers

CONSTANTS
  Addresses,  \* the memory that can be given out
  Requests,   \* records of a size and whether the block shall be page aligned
  PageSize

VARIABLES
  live,    \* from the addresses of the live blocks to their sizes
  request  \* the request that waits for its answer, if any

allocVars == <<live, request>>

Block(p, size) == p .. (p + size - 1)

Request(r) ==
  /\ request = {}
  /\ request' = {r}
  /\ UNCHANGED live

Answer(r, p) ==
  /\ request = {r}
  /\ Block(p, r.size) \subseteq Addresses
  /\ \A q \in DOMAIN live : Block(q, live[q]) \cap Block(p, r.size) = {}
  /\ r.page_align => p % PageSize = 0
  /\ live' = [q \in DOMAIN live \cup {p} |-> IF q = p THEN r.size ELSE live[q]]
  /\ request' = {}

Free(p) ==
  /\ request = {}
  /\ live' = [q \in DOMAIN live \ {p} |-> live[q]]
  /\ UNCHANGED request

AllocInit ==
  /\ live = [p \in {} |-> 0]
  /\ request = {}

AllocNext ==
  \/ \E r \in Requests : Request(r) \/ \E p \in Addresses : Answer(r, p)
  \/ \E p \in DOMAIN live : Free(p)

AllocSpec == AllocInit /\ [][AllocNext]_allocVars

==============================================================================
