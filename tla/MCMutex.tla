------------------------------- MODULE MCMutex -------------------------------
(***************************************************************************)
(* Mutex for TLC: the idle thread and three workers of the main process.   *)
(***************************************************************************)
EXTENDS Mutex

CONSTANTS main, w1, w2, w3, kernelProcess

MCThreads == {main, w1, w2, w3}

==============================================================================
