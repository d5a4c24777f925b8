----------------------------- MODULE MCScheduler -----------------------------
(***************************************************************************)
(* Scheduler for TLC: the idle thread, the clean thread and two            *)
(* threads, in the main process or in one user process.                    *)
(***************************************************************************)
EXTENDS Scheduler

CONSTANTS main, clean, user1, user2, kernelProcess, userProcess

MCThreads == {main, clean, user1, user2}

==============================================================================
