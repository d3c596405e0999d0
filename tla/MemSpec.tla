------------------------------ MODULE MemSpec ------------------------------
(***************************************************************************)
(* What paging promises the program: a memory that keeps what was last     *)
(* written to each page.  A page nobody has touched has no content; when   *)
(* it is first touched it holds anything, for no page is cleared.          *)
(***************************************************************************)
CONSTANTS VA, Values, NULL

VARIABLE mem

Init == mem = [v \in VA |-> NULL]

Touch(v)    == mem[v] = NULL /\ \E x \in Values : mem' = [mem EXCEPT ![v] = x]
Write(v, x) == mem[v] # NULL /\ mem' = [mem EXCEPT ![v] = x]

Next == \E v \in VA : Touch(v) \/ \E x \in Values : Write(v, x)

Spec == Init /\ [][Next]_mem
=============================================================================
