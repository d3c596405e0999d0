---------------------------- MODULE MCAddrSpace ----------------------------
(* Instances of AddrSpace for TLC.                                         *)
EXTENDS AddrSpace, TLC

Area(s, e) == [start |-> s, end |-> e]

\* Program and stack under different entries of the root, as in memlayout.h;
\* and a program that reaches across the entries of the root.
TwoLayouts == { [areas |-> <<Area(1, 2), Area(6, 8)>>, pages |-> {1, 7}],
                [areas |-> <<Area(3, 5)>>, pages |-> {3, 4}] }

Symm == Permutations(Procs) \cup Permutations(Values)
=============================================================================
