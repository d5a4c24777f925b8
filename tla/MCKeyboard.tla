----------------------------- MODULE MCKeyboard ------------------------------
(***************************************************************************)
(* Keyboard for TLC: the idle thread and two threads that read.            *)
(***************************************************************************)
EXTENDS Keyboard

CONSTANTS main, r1, r2, kernelProcess

MCThreads == {main, r1, r2}

==============================================================================
