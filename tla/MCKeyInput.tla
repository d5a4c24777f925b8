----------------------------- MODULE MCKeyInput ------------------------------
(***************************************************************************)
(* KeyInput for TLC.                                                       *)
(***************************************************************************)
EXTENDS KeyInput

==============================================================================
