---------------------------- MODULE MCHashTable ------------------------------
(***************************************************************************)
(* HashTable for TLC.                                                      *)
(***************************************************************************)
EXTENDS HashTable

==============================================================================
