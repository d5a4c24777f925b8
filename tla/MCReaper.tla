------------------------------ MODULE MCReaper -------------------------------
(***************************************************************************)
(* Reaper for TLC: the idle thread, the clean thread, two threads of a     *)
(* user process that exit, and one child process to be reaped.             *)
(***************************************************************************)
EXTENDS Reaper

CONSTANTS main, clean, w1, w2, kernelProcess, userProcess, child

MCThreads == {main, clean, w1, w2}

==============================================================================
