------------------------------- MODULE MCKHeap -------------------------------
(***************************************************************************)
(* KHeap for TLC: a heap of two pages that can grow to four.               *)
(***************************************************************************)
EXTENDS KHeap

==============================================================================
