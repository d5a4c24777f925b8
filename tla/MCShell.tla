------------------------------ MODULE MCShell --------------------------------
(***************************************************************************)
(* Shell for TLC.  The lines "exit" and "clear" are short ones here.       *)
(***************************************************************************)
EXTENDS Shell

MCExit == <<"a", "a", "a">>
MCClear == <<"a", "a">>

\* A line of blanks can start a program of an earlier line, or none that exists.
MCLeftovers == {<<"a">>, <<"NUL">>}

==============================================================================
