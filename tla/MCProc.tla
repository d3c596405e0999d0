------------------------------- MODULE MCProc -------------------------------
(* Instances of Proc for TLC.                                              *)
EXTENDS Proc, TLC

CONSTANTS p1, p2, p3

\* The slots other than idle's and init's are interchangeable.
Symm == Permutations(Procs \ {Idle, InitP})
=============================================================================
