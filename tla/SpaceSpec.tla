------------------------------ MODULE SpaceSpec ------------------------------
(***************************************************************************)
(* What the address spaces of processes promise: each process has a memory *)
(* of its own, fork copies it, exec replaces it and exit removes it; a     *)
(* write of one process is seen by no other.                               *)
(***************************************************************************)
CONSTANTS Procs, VA, Values, NULL,
          Images  \* the sets of pages that programs have

VARIABLE mem  \* the contents of each page of each process; NULL: no such page

Nothing == [v \in VA |-> NULL]

Init == mem = [p \in Procs |-> Nothing]

Write(p, v, x) == mem[p][v] # NULL /\ mem' = [mem EXCEPT ![p][v] = x]

Fork(p, q) == /\ mem[q] = Nothing /\ mem[p] # Nothing
              /\ mem' = [mem EXCEPT ![q] = mem[p]]

Exec(p) == \E S \in Images, x \in Values :
             mem' = [mem EXCEPT ![p] = [v \in VA |-> IF v \in S THEN x ELSE NULL]]

Exit(p) == mem' = [mem EXCEPT ![p] = Nothing]

Next == \E p \in Procs : \/ \E v \in VA, x \in Values : Write(p, v, x)
                         \/ \E q \in Procs : Fork(p, q)
                         \/ Exec(p) \/ Exit(p)

Spec == Init /\ [][Next]_mem
=============================================================================
