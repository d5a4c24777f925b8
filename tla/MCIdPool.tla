------------------------------ MODULE MCIdPool -------------------------------
(***************************************************************************)
(* IdPool for TLC.                                                         *)
(***************************************************************************)
EXTENDS IdPool

==============================================================================
