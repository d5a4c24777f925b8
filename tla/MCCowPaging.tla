---------------------------- MODULE MCCowPaging ------------------------------
(***************************************************************************)
(* CowPaging for TLC: a process and two it or its child can fork.          *)
(***************************************************************************)
EXTENDS CowPaging, TLC

CONSTANTS p1, p2, p3

MCProcesses == {p1, p2, p3}

\* The processes to come are interchangeable.
MCSymmetry == Permutations({p2, p3})

==============================================================================
