------------------------------ MODULE PageSpec ------------------------------
(***************************************************************************)
(* What the physical memory manager of kernel/mm promises: alloc_pages(n)  *)
(* gives out the first n pages of a gap of n or more free pages, of a gap  *)
(* as small as there is, and refuses only when there is no such gap.  The  *)
(* free pages may be put aside for a while, and come back as they were.    *)
(***************************************************************************)
EXTENDS Integers

CONSTANTS NumPages,  \* the pages are 0 .. NumPages - 1
          Sizes,     \* arguments of alloc_pages
          NULL

VARIABLES free,   \* the pages nobody holds
          result, \* what the last alloc_pages returned
          aside   \* free pages that are put aside

vars == <<free, result, aside>>

Run(b, n) == b .. b + n - 1

\* The gaps of n pages: free pages in a row that cannot be made longer.
Gaps(n) == { b \in free : /\ Run(b, n) \subseteq free
                          /\ b - 1 \notin free /\ b + n \notin free }

Init == free = 0 .. NumPages - 1 /\ result = NULL /\ aside = {}

Alloc(n) ==
  \E k \in n .. NumPages :
    /\ \A j \in n .. k - 1 : Gaps(j) = {}
    /\ \E b \in Gaps(k) : free' = free \ Run(b, n) /\ result' = b
    /\ UNCHANGED aside

Refuse(n) ==
  /\ \A k \in n .. NumPages : Gaps(k) = {}
  /\ result' = NULL
  /\ UNCHANGED <<free, aside>>

Free(b, n) ==
  /\ Run(b, n) \subseteq (0 .. NumPages - 1) \ (free \cup aside)
  /\ free' = free \cup Run(b, n)
  /\ UNCHANGED <<result, aside>>

PutAside == aside = {} /\ aside' = free /\ free' = {} /\ UNCHANGED result
PutBack  == free' = aside /\ aside' = {} /\ UNCHANGED result

Next == \/ \E n \in Sizes : Alloc(n) \/ Refuse(n)
        \/ \E b \in 0 .. NumPages - 1, n \in 1 .. NumPages : Free(b, n)
        \/ PutAside \/ PutBack

Spec == Init /\ [][Next]_vars
=============================================================================
