------------------------------- MODULE BestFit -------------------------------
(***************************************************************************)
(* The free list of kernel/mm/best_fit_pmm.c, as alloc_pages and           *)
(* free_pages of kernel/mm/pmm.c call it, with interrupts off, before      *)
(* swapping is on.  A free block is known by its first page, which has the *)
(* flag PAGE_PROPERTY and the length in property; the list holds the first *)
(* pages in the order of their addresses.  Callers may give back a block   *)
(* in parts, as test_best_fit does; and as there, a test may put the whole *)
(* list aside, work with pages it holds, and put the list back.            *)
(***************************************************************************)
EXTENDS Integers, Sequences, FiniteSets

CONSTANTS NumPages,  \* pages after the kernel's
          Sizes,     \* arguments of alloc_pages
          NULL

Pages == 0 .. NumPages - 1
Run(b, n) == b .. b + n - 1

VARIABLES list,      \* free_area.free_list
          num_free,  \* free_area.num_free
          flag,      \* the pages with PAGE_PROPERTY
          property,  \* page.property
          used,      \* the pages that callers hold (not in the code)
          result,    \* what the last alloc_pages returned
          saved,     \* temp_free_area of a test, or NULL
          lost       \* the pages nobody holds or will get (not in the code)

area == <<list, num_free, flag, property>>
vars == <<area, used, result, saved, lost>>

TypeOK ==
  /\ list \in Seq(Pages)
  /\ num_free \in 0 .. NumPages
  /\ flag \subseteq Pages
  /\ property \in [Pages -> 0 .. NumPages]
  /\ used \subseteq Pages
  /\ result \in Pages \cup {NULL}
  /\ saved = NULL \/ saved \in [list : Seq(Pages), num_free : 0 .. NumPages]
  /\ lost \subseteq Pages

\* init_page: best_fit_init_memmap of all pages after the kernel's.
Init ==
  /\ list = <<0>>
  /\ num_free = NumPages
  /\ flag = {0}
  /\ property = [p \in Pages |-> IF p = 0 THEN NumPages ELSE 0]
  /\ used = {}
  /\ result = NULL
  /\ saved = NULL
  /\ lost = {}

-----------------------------------------------------------------------------
\* list with positions i .. j replaced by the sequence s.
Splice(i, j, s) == SubSeq(list, 1, i - 1) \o s \o SubSeq(list, j + 1, Len(list))

\* The block at position i of the list is large enough.
Fits(i, n) == property[list[i]] >= n

\* Slip: the last block that fits is taken, whatever its size.
BestLast(n) == CHOOSE i \in 1 .. Len(list) :
                 Fits(i, n) /\ \A j \in i + 1 .. Len(list) : ~Fits(j, n)

\* The first of the smallest blocks that fit.
Best(n) == CHOOSE i \in 1 .. Len(list) :
             /\ Fits(i, n)
             /\ \A j \in 1 .. Len(list) : Fits(j, n) =>
                  \/ property[list[i]] < property[list[j]]
                  \/ property[list[i]] = property[list[j]] /\ i <= j

CanAlloc(n) == n <= num_free /\ \E i \in 1 .. Len(list) : Fits(i, n)

\* best_fit_alloc_pages(n) finds a block; what it does not need of it stays in
\* the list, in the same place.
AllocPages(n) ==
  LET i    == Best(n)
      page == list[i]
      rest == property[page] - n
  IN /\ CanAlloc(n)
     /\ list' = Splice(i, i, IF rest > 0 THEN <<page + n>> ELSE <<>>)
     /\ flag' = (flag \ {page}) \cup (IF rest > 0 THEN {page + n} ELSE {})
     /\ property' = [p \in Pages |-> IF p = page THEN 0
                                     ELSE IF p = page + n /\ rest > 0 THEN rest
                                     ELSE property[p]]
     /\ num_free' = num_free - n
     /\ used' = used \cup Run(page, n)
     /\ result' = page
     /\ UNCHANGED <<saved, lost>>

\* It finds none.
AllocFails(n) ==
  /\ ~CanAlloc(n)
  /\ result' = NULL
  /\ UNCHANGED <<area, used, saved, lost>>

\* Slip: a block is not joined with the one before it.
JoinsPrevNever(k, b) == FALSE

\* The block before position k ends where the block b begins.
JoinsPrev(k, b) == k > 1 /\ list[k - 1] + property[list[k - 1]] = b

\* The block at position k begins where the n pages from b end.
JoinsNext(k, b, n) == k <= Len(list) /\ b + n = list[k]

\* The position of the first block with a higher address than b, or the end.
Place(b) == CHOOSE k \in 1 .. Len(list) + 1 :
              /\ k <= Len(list) => b < list[k]
              /\ \A i \in 1 .. k - 1 : ~(b < list[i])

\* best_fit_free_pages(b, n): the block is put in its place and joined with its
\* neighbours.
FreePages(b, n) ==
  LET k     == Place(b)
      prev  == JoinsPrev(k, b)
      next  == JoinsNext(k, b, n)
      base  == IF prev THEN list[k - 1] ELSE b
      gone  == (IF prev THEN {b} ELSE {}) \cup (IF next THEN {list[k]} ELSE {})
      total == n + (IF prev THEN property[list[k - 1]] ELSE 0)
                 + (IF next THEN property[list[k]] ELSE 0)
  IN /\ Run(b, n) \subseteq used
     /\ list' = Splice(IF prev THEN k - 1 ELSE k, IF next THEN k ELSE k - 1, <<base>>)
     /\ flag' = (flag \cup {b}) \ gone
     /\ property' = [p \in Pages |-> IF p = base THEN total
                                     ELSE IF p \in gone THEN 0 ELSE property[p]]
     /\ num_free' = num_free + n
     /\ used' = used \ Run(b, n)
     /\ UNCHANGED <<result, saved, lost>>

\* The pages of the blocks of a list.
Blocks(l)  == { l[i] : i \in 1 .. Len(l) }
Covered(l) == UNION { Run(b, property[b]) : b \in Blocks(l) }

\* temp_free_area = g_best_fit_free_area, and the list is made empty.
SaveArea ==
  /\ saved = NULL
  /\ saved' = [list |-> list, num_free |-> num_free]
  /\ list' = <<>>
  /\ num_free' = 0
  /\ UNCHANGED <<flag, property, used, result, lost>>

\* g_best_fit_free_area = temp_free_area: what is in the list now drops out of it.
RestoreArea ==
  /\ saved # NULL
  /\ list' = saved.list
  /\ num_free' = saved.num_free
  /\ saved' = NULL
  /\ lost' = lost \cup Covered(list)
  /\ UNCHANGED <<flag, property, used, result>>

\* basic_test and test_best_fit assert that the list is empty at that point.
TestsRestore == num_free = 0 /\ RestoreArea

Next == \/ \E n \in Sizes : AllocPages(n) \/ AllocFails(n)
        \/ \E b \in Pages, n \in 1 .. NumPages : FreePages(b, n)
        \/ SaveArea \/ TestsRestore

Spec == Init /\ [][Next]_vars

-----------------------------------------------------------------------------
\* The pages of the list that is put aside.
Aside == IF saved = NULL THEN {} ELSE Covered(saved.list)

\* Ordered by address; blocks next to each other have been merged.
Merged(l) == \A i \in 2 .. Len(l) : l[i - 1] + property[l[i - 1]] < l[i]

\* The free blocks of the list are disjoint, in the order of their addresses
\* and never next to each other, and cover exactly what nobody holds; num_free
\* counts their pages (best_fit_alloc_pages, best_fit_free_pages).  A list that
\* is put aside stays as it was, whatever a test frees next to its blocks.  No
\* page but the first of a free block has PAGE_PROPERTY or a length: the ASSERT
\* of best_fit_free_pages holds for whatever its caller holds, and a stale flag
\* or length never reaches the list.
ListExact ==
  LET known == Pages \ lost
      firsts == Blocks(list) \cup (IF saved = NULL THEN {} ELSE Blocks(saved.list))
  IN /\ TypeOK
     /\ Merged(list) /\ num_free = Cardinality(Covered(list))
     /\ saved # NULL => Merged(saved.list) /\ saved.num_free = Cardinality(Aside)
     /\ Covered(list) \cap Aside = {}
     /\ Covered(list) \cup Aside = known \ used
     /\ flag \cap known = firsts
     /\ \A p \in known : property[p] # 0 <=> p \in flag

\* The free list implements the promise of PageSpec.
Promise == INSTANCE PageSpec WITH free <- Covered(list), aside <- Aside
KeepsPageSpec == Promise!Spec
=============================================================================
