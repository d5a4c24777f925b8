------------------------------ MODULE MCProcess ------------------------------
(***************************************************************************)
(* Process for TLC: the idle thread, the clean thread, three slots for     *)
(* user threads, and two slots for processes besides the init process.     *)
(***************************************************************************)
EXTENDS Process, TLC

CONSTANTS main, clean, t1, t2, t3, kernelProcess, init, p1, p2

MCThreads == {main, clean, t1, t2, t3}
MCProcesses == {kernelProcess, init, p1, p2}

\* The slots for threads and for processes are interchangeable.
MCSymmetry == Permutations({t1, t2, t3}) \cup Permutations({p1, p2})

==============================================================================
