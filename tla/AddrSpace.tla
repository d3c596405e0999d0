------------------------------ MODULE AddrSpace ------------------------------
(***************************************************************************)
(* The address spaces of user processes: the page tables of kernel/mm/     *)
(* pmm.c (get_pte, add_page, del_page, copy_range, del_range, free_range), *)
(* del_vmas and dup_vmm of vmm.c, and what copy_vmm, do_execve, load_bin   *)
(* and do_exit of kernel/proc/proc.c do with them, each in one step since  *)
(* interrupts are off in a trap from user mode; load_bin takes a second    *)
(* step when it gives up, so that what it has made until then is seen.     *)
(*                                                                         *)
(* A table has PT_SIZE entries in place of 512, a virtual address is the   *)
(* number of a page, and a page is one value.  alloc_page takes the lowest *)
(* free frame: which one does not matter here, BestFit.tla is about the    *)
(* choice.  No frame left would be the end (alloc_pages then calls         *)
(* swap_out with no vmm), so a step that needs more than there are is not  *)
(* taken.  A vmm is never shared: the kernel threads have none.            *)
(***************************************************************************)
EXTENDS Naturals, Sequences, FiniteSets

CONSTANTS Procs,      \* user processes
          PT_SIZE,    \* entries of a page table
          NumFrames,  \* bound on the physical pages
          Layouts,    \* programs: their areas, and the pages load_bin maps
          Values,     \* contents of a page
          NULL

NumPages == PT_SIZE * PT_SIZE * PT_SIZE
Frames   == 1 .. NumFrames
Index    == 0 .. PT_SIZE - 1
VA       == 0 .. NumPages - 1

\* The pages of the areas s.
PagesOf(s) == { v \in VA : \E i \in 1 .. Len(s) : s[i].start <= v /\ v < s[i].end }

ASSUME SpaceAssumption ==
  /\ PT_SIZE \in Nat \ {0} /\ NumFrames \in Nat
  /\ NULL \notin Values /\ NULL \notin Frames /\ NULL \notin Procs
  /\ \A l \in Layouts : l.pages # {} /\ l.pages \subseteq PagesOf(l.areas)

get_gptx(v) == v \div (PT_SIZE * PT_SIZE)
get_mptx(v) == (v \div PT_SIZE) % PT_SIZE
get_ptx(v)  == v % PT_SIZE

NoEntries == [i \in Index |-> NULL]

VARIABLES m,     \* physical memory: tab (entries, of a frame that is a table),
                 \* data (of a page), ref, free, and twice: a frame freed twice
          gpt,   \* the root table of each process, NULL: no vmm
          areas, \* the list of vmas of each process
          failed \* the process whose load_bin gives up, or NULL: its gpt and
                 \* areas are still those of the local variable vmm

vars == <<m, gpt, areas, failed>>

TypeOK ==
  /\ m.tab \in [Frames -> [Index -> Frames \cup {NULL}]]
  /\ m.data \in [Frames -> Values]
  /\ m.ref \in [Frames -> Nat]
  /\ m.free \subseteq Frames
  /\ m.twice \in BOOLEAN
  /\ gpt \in [Procs -> Frames \cup {NULL}]
  /\ \A p \in Procs : areas[p] = <<>> <=> gpt[p] = NULL
  /\ failed \in Procs \cup {NULL}

-----------------------------------------------------------------------------
(* Physical pages and page tables.                                         *)

NextFrame(n) == CHOOSE f \in n.free : \A g \in n.free : f <= g

free_page(n, f) == [n EXCEPT !.free = @ \cup {f}, !.ref[f] = 0,
                             !.twice = @ \/ f \in n.free]

\* Entry i of the table t gets a new table, unless it has one.
MakeTable(n, t, i) ==
  LET f == NextFrame(n)
  IN IF n.tab[t][i] # NULL THEN n
     ELSE [n EXCEPT !.free = @ \ {f}, !.ref[f] = 1,
                    !.tab = [@ EXCEPT ![f] = NoEntries, ![t][i] = f]]

\* get_pte(g, v, 1): the tables on the way to v are made.
MakeTables(n, g, v) ==
  LET a == MakeTable(n, g, get_gptx(v))
  IN MakeTable(a, a.tab[g][get_gptx(v)], get_mptx(v))

\* get_pte(g, v, 0): the page table that holds the pte of v, or NULL.
get_pte(n, g, v) ==
  LET t == n.tab[g][get_gptx(v)] IN IF t = NULL THEN NULL ELSE n.tab[t][get_mptx(v)]

\* va2pa_mmu, the walk of the MMU: the frame of v, or NULL.
va2pa_mmu(n, g, v) ==
  LET t == get_pte(n, g, v) IN IF t = NULL THEN NULL ELSE n.tab[t][get_ptx(v)]

\* The reference del_page takes away was the last.
Drops(n, f) == n.ref[f] = 1

del_page(n, g, v) ==
  LET f == va2pa_mmu(n, g, v)
      t == get_pte(n, g, v)
      d == [n EXCEPT !.ref[f] = @ - 1, !.tab[t][get_ptx(v)] = NULL]
  IN IF f = NULL THEN n ELSE IF Drops(n, f) THEN free_page(d, f) ELSE d

add_page(n, g, f, v) ==
  LET a   == [MakeTables(n, g, v) EXCEPT !.ref[f] = @ + 1]
      old == va2pa_mmu(a, g, v)
      b   == IF old = f THEN [a EXCEPT !.ref[f] = @ - 1]
             ELSE IF old # NULL THEN del_page(a, g, v) ELSE a
  IN [b EXCEPT !.tab[get_pte(b, g, v)][get_ptx(v)] = f]

\* alloc_page_gpte, and the content the caller gives the new page.
alloc_page_gpte(n, g, v, x) ==
  LET f == NextFrame(n)
  IN add_page([n EXCEPT !.free = @ \ {f}, !.data[f] = x], g, f, v)

\* alloc_gpt: a copy of the boot page table, which has no entries for users.
alloc_gpt(n) ==
  LET f == NextFrame(n) IN [n EXCEPT !.free = @ \ {f}, !.tab[f] = NoEntries]

-----------------------------------------------------------------------------
(* Ranges.  PT_SIZE is added to an address where a table is missing: that is *)
(* 512 bytes, so that the loops meet each page, and most of them eight times. *)
(* The areas do not overlap (add_vma): their pages are met one by one.     *)

\* Slip: the page of the parent is mapped for the child as well.
CopyPageShared(n, to, v, f) == add_page(n, to, f, v)

\* copy_range, for one page: a new page with the content of frame f.
CopyPage(n, to, v, f) == alloc_page_gpte(MakeTables(n, to, v), to, v, n.data[f])

\* dup_vmm: copy_range of each area (the code begins with the last: the order
\* only changes which frame a page gets).
dup_vmm(n, from, to, s) ==
  LET D[i \in 0 .. NumPages] ==
        IF i = 0 THEN n
        ELSE LET d == D[i - 1]
                 f == va2pa_mmu(d, from, i - 1)
             IN IF i - 1 \in PagesOf(s) /\ f # NULL THEN CopyPage(d, to, i - 1, f) ELSE d
  IN D[NumPages]

\* free_range, for one page: the table the root points to is freed.  The page
\* tables that one points to are not.
FreeTable(n, g, v) ==
  LET t == n.tab[g][get_gptx(v)]
  IN IF t = NULL THEN n ELSE free_page([n EXCEPT !.tab[g][get_gptx(v)] = NULL], t)

del_ranges(n, g, s) ==
  LET D[i \in 0 .. NumPages] ==
        IF i = 0 THEN n
        ELSE IF i - 1 \in PagesOf(s) THEN del_page(D[i - 1], g, i - 1) ELSE D[i - 1]
  IN D[NumPages]

free_ranges(n, g, s) ==
  LET F[i \in 0 .. NumPages] ==
        IF i = 0 THEN n
        ELSE IF i - 1 \in PagesOf(s) THEN FreeTable(F[i - 1], g, i - 1) ELSE F[i - 1]
  IN F[NumPages]

\* del_vmas: del_range of all areas, then free_range of all areas.
del_vmas(n, g, s) == free_ranges(del_ranges(n, g, s), g, s)

\* load_bin: alloc_page_gpte of each page, with the content x.
load_bin(n, g, pages, x) ==
  LET L[i \in 0 .. NumPages] ==
        IF i = 0 THEN n
        ELSE IF i - 1 \in pages THEN alloc_page_gpte(L[i - 1], g, i - 1, x) ELSE L[i - 1]
  IN L[NumPages]

-----------------------------------------------------------------------------
(* Processes.                                                              *)

Init ==
  /\ m \in [tab : {[f \in Frames |-> NoEntries]}, data : {[f \in Frames |-> x] : x \in Values},
            ref : {[f \in Frames |-> 0]}, free : {Frames}, twice : {FALSE}]
  /\ gpt = [p \in Procs |-> NULL]
  /\ areas = [p \in Procs |-> <<>>]
  /\ failed = NULL

\* A frame for each page, for the tables on the way, and for the root.
Cost(pages) == 1 + Cardinality(pages) + Cardinality({ get_gptx(v) : v \in pages })
                 + Cardinality({ v \div PT_SIZE : v \in pages })

Mapped(p) == IF gpt[p] = NULL THEN {} ELSE { v \in VA : va2pa_mmu(m, gpt[p], v) # NULL }

\* del_vmas and free_gpt, of a process that has a vmm.
WithoutSpace(n, p) ==
  IF gpt[p] = NULL THEN n ELSE free_page(del_vmas(n, gpt[p], areas[p]), gpt[p])

\* do_execve: the old address space goes, and load_bin makes areas and pages of
\* the new one; each page gets the content x.  user_main comes here without a vmm.
Load(p, new, pages, x) ==
  LET old == WithoutSpace(m, p)
      g   == NextFrame(old)
  IN /\ Cardinality(old.free) >= Cost(pages)
     /\ m' = load_bin(alloc_gpt(old), g, pages, x)
     /\ gpt' = [gpt EXCEPT ![p] = g]
     /\ areas' = [areas EXCEPT ![p] = new]

Exec(p, l, x) == Load(p, l.areas, l.pages, x) /\ UNCHANGED failed

\* The header after the first k segments is refused, or vm_map refuses its area or
\* the stack's: the segments before it have their areas and all their pages.
LoadPart(p, l, k, x) ==
  LET new   == SubSeq(l.areas, 1, k)
      pages == l.pages \cap PagesOf(new)
  IN /\ pages # {}
     /\ Load(p, new, pages, x)
     /\ failed' = p

\* The address space of p is removed, and p has no vmm any more.
Leave(p) ==
  /\ m' = WithoutSpace(m, p)
  /\ gpt' = [gpt EXCEPT ![p] = NULL]
  /\ areas' = [areas EXCEPT ![p] = <<>>]

\* Slip: free_gpt without del_vmas, as where the magic of the file is wrong.
GiveUpBare ==
  /\ failed # NULL /\ failed' = NULL
  /\ m' = free_page(m, gpt[failed])
  /\ gpt' = [gpt EXCEPT ![failed] = NULL]
  /\ areas' = [areas EXCEPT ![failed] = <<>>]

\* load_bin gives up: del_vmas, free_gpt, del_vmm.  do_execve then calls do_exit,
\* which finds no vmm.
GiveUp == failed # NULL /\ Leave(failed) /\ failed' = NULL

\* do_fork: copy_vmm.
Fork(p, q) ==
  LET g == NextFrame(m)
  IN /\ gpt[p] # NULL /\ gpt[q] = NULL
     /\ Cardinality(m.free) >= Cost(Mapped(p))
     /\ m' = dup_vmm(alloc_gpt(m), gpt[p], g, areas[p])
     /\ gpt' = [gpt EXCEPT ![q] = g]
     /\ areas' = [areas EXCEPT ![q] = areas[p]]
     /\ UNCHANGED failed

\* do_exit; and do_execve of a file for which load_bin gives up before it has mapped
\* a page (no ELF magic, or the first header refused): it allocates a root table,
\* frees it, and do_execve calls do_exit.
Exit(p) == gpt[p] # NULL /\ Leave(p) /\ UNCHANGED failed

\* The process writes to a page it has.
Write(p, v, x) ==
  /\ v \in Mapped(p)
  /\ m' = [m EXCEPT !.data[va2pa_mmu(m, gpt[p], v)] = x]
  /\ UNCHANGED <<gpt, areas, failed>>

\* What a process does by itself or by a trap.
ProcStep(p) ==
  \/ \E l \in Layouts, x \in Values : Exec(p, l, x)
  \/ \E l \in Layouts, x \in Values : \E k \in 1 .. Len(l.areas) - 1 : LoadPart(p, l, k, x)
  \/ \E q \in Procs : Fork(p, q)
  \/ Exit(p)
  \/ \E v \in VA, x \in Values : Write(p, v, x)

\* Nothing comes between the two steps of a load_bin that gives up.
Next == \/ failed = NULL /\ \E p \in Procs : ProcStep(p)
        \/ GiveUp

Spec == Init /\ [][Next]_vars

-----------------------------------------------------------------------------
\* The tables below the root of p, the page tables below those, and the pages.
Middle(p) == IF gpt[p] = NULL THEN {} ELSE { m.tab[gpt[p]][i] : i \in Index } \ {NULL}
Leaves(p) == { m.tab[t][i] : t \in Middle(p), i \in Index } \ {NULL}
Data(p)   == { m.tab[t][i] : t \in Leaves(p), i \in Index } \ {NULL}
Used(p)   == ({gpt[p]} \ {NULL}) \cup Middle(p) \cup Leaves(p) \cup Data(p)

\* No frame has two uses: the address spaces share none, none is a table and a
\* page, or a page at two addresses, none that is used is free, and no frame is
\* freed twice; so no process can reach the memory or the tables of another.
NoSharing ==
  /\ TypeOK /\ ~m.twice
  /\ \A p, q \in Procs : p # q => Used(p) \cap Used(q) = {}
  /\ \A p \in Procs :
       /\ Used(p) \cap m.free = {}
       /\ Cardinality(Used(p)) = (IF gpt[p] = NULL THEN 0 ELSE Cost(Mapped(p)))
       /\ \A f \in Data(p) : m.ref[f] = 1

AllUsed   == UNION { Used(p) : p \in Procs }
AllLeaves == UNION { Leaves(p) : p \in Procs }

\* exit and exec return what the address space had, and a load_bin that gives up
\* what it has made, except the page tables of the last level.
OnlyLeavesLost ==
  [][AllUsed \ AllLeaves \subseteq AllUsed' \cup m'.free]_vars

\* g_curr_proc->vmm: while load_bin is at work it is NULL.
vmm(p) == IF p = failed THEN NULL ELSE gpt[p]

\* What the process finds at each address.
View(p) ==
  [v \in VA |-> LET f == IF vmm(p) = NULL THEN NULL ELSE va2pa_mmu(m, vmm(p), v)
                IN IF f = NULL THEN NULL ELSE m.data[f]]

\* Every process sees a memory of its own, which a fork copies; a program that is
\* not loaded to its end is never seen.
Space == INSTANCE SpaceSpec WITH
           mem    <- [p \in Procs |-> View(p)],
           Images <- { l.pages : l \in Layouts }
KeepsSpaceSpec == Space!Spec

\* "only after do_wait function, all resources of the child processes are free"
\* (proc.h): with no process left every frame is free again.
AllReturned == (\A p \in Procs : gpt[p] = NULL) => m.free = Frames
=============================================================================
