-------------------------------- MODULE Vmas --------------------------------
(***************************************************************************)
(* The virtual memory areas of a process: add_vma, find_vma, vm_map,       *)
(* dup_vmm and check_vmm of kernel/mm/vmm.c, as operators on the list of   *)
(* areas l and the area c that find_vma found last (vma_curr), or NULL.    *)
(* An area is a record with vm_start, vm_end and vm_flags.                 *)
(***************************************************************************)
EXTENDS Integers, Sequences

CONSTANTS PAGE_SIZE, USER_BEGIN, USER_STACK_BEGIN, USER_END,
          NULL

\* struct vm_area.
Areas == [vm_start : Nat, vm_end : Nat, vm_flags : SUBSET {"R", "W", "X", "STACK"}]

ASSUME VmasAssumption ==
  /\ NULL \notin Areas
  /\ PAGE_SIZE \in Nat \ {0} /\ USER_BEGIN \in Nat \ {0}
  /\ USER_STACK_BEGIN \in Nat /\ USER_END \in Nat
  /\ USER_BEGIN < USER_STACK_BEGIN /\ USER_STACK_BEGIN < USER_END
  /\ \A a \in {USER_BEGIN, USER_STACK_BEGIN, USER_END} : a % PAGE_SIZE = 0

rounddown(a) == a - (a % PAGE_SIZE)
roundup(a)   == rounddown(a + PAGE_SIZE - 1)

user_access(begin, end) == USER_BEGIN <= begin /\ begin < end /\ end <= USER_END

Has(v, a) == v.vm_start <= a /\ a < v.vm_end

\* add_vma: before the first area that does not begin below v; the neighbours
\* must not overlap.
add_vma(l, v) ==
  LET below == { i \in 1 .. Len(l) : \A j \in 1 .. i : l[j].vm_start < v.vm_start }
      k     == CHOOSE i \in 0 .. Len(l) : below = 1 .. i
  IN [list  |-> SubSeq(l, 1, k) \o <<v>> \o SubSeq(l, k + 1, Len(l)),
      panic |-> \/ v.vm_start >= v.vm_end
                \/ k > 0 /\ l[k].vm_end > v.vm_start
                \/ k < Len(l) /\ v.vm_end > l[k + 1].vm_start]

\* Slip: only the end of the cached area is compared.
CacheHitsBelow(c, a) == c # NULL /\ a < c.vm_end

\* find_vma's test of vma_curr.
CacheHits(c, a) == c # NULL /\ Has(c, a)

\* find_vma: the cached area, or the first that has the address.
find_vma(l, c, a) ==
  IF CacheHits(c, a) THEN c
  ELSE IF \E i \in 1 .. Len(l) : Has(l[i], a)
  THEN l[CHOOSE i \in 1 .. Len(l) : Has(l[i], a) /\ \A j \in 1 .. i - 1 : ~Has(l[j], a)]
  ELSE NULL

\* vma_curr after find_vma.
Cache(l, c, a) == LET v == find_vma(l, c, a) IN IF v # NULL THEN v ELSE c

\* vm_map returns -E_INVAL: the area does not lie in user space, or it begins
\* in another one.  (vma_curr then changes in a vmm that is given up.)
MapRefuses(l, c, start, end) ==
  \/ ~user_access(start, end)
  \/ LET v == find_vma(l, c, start) IN v # NULL /\ end > v.vm_start

\* vm_map when it does not refuse: the new list, and whether add_vma panics.
vm_map(l, start, end, flags) ==
  add_vma(l, [vm_start |-> start, vm_end |-> end, vm_flags |-> flags])

\* The test of check_vmm for the area v that holds begin.
Allowed(v, begin, write) ==
  /\ v # NULL
  /\ (IF write THEN "W" ELSE "R") \in v.vm_flags
  /\ write /\ "STACK" \in v.vm_flags => begin >= v.vm_start + PAGE_SIZE

\* The loop of check_vmm, from begin: the result, and vma_curr after it.  T[i] is
\* what it has come to after i turns; each turn gets past one byte at least.
check_loop(l, c, begin, end, write) ==
  LET T[i \in 0 .. end - begin] ==
        IF i = 0 THEN [begin |-> begin, curr |-> c, ok |-> TRUE]
        ELSE LET t == T[i - 1]
                 v == find_vma(l, t.curr, t.begin)
             IN IF ~t.ok \/ t.begin >= end THEN t
                ELSE IF ~Allowed(v, t.begin, write)
                THEN [t EXCEPT !.ok = FALSE, !.curr = Cache(l, t.curr, t.begin)]
                ELSE [t EXCEPT !.begin = v.vm_end, !.curr = v]
  IN [ok |-> T[end - begin].ok, curr |-> T[end - begin].curr]

\* check_vmm(addr, len, write), for a process with a vmm.
check_vmm(l, c, addr, len, write) ==
  IF user_access(addr, addr + len) THEN check_loop(l, c, addr, addr + len, write)
  ELSE [ok |-> FALSE, curr |-> c]

\* dup_vmm: add_vma of each area from the last to the first.
dup_vmm(l) ==
  LET D[i \in 0 .. Len(l)] ==
        IF i = 0 THEN [list |-> <<>>, panic |-> FALSE]
        ELSE LET a == add_vma(D[i - 1].list, l[Len(l) - i + 1])
             IN [list |-> a.list, panic |-> a.panic \/ D[i - 1].panic]
  IN D[Len(l)]
=============================================================================
