------------------------------- MODULE Paging -------------------------------
(***************************************************************************)
(* Demand paging and swapping: handle_page_fault of kernel/mm/vmm.c, with  *)
(* alloc_pages, alloc_page_gpte and add_page of pmm.c, swap_out and        *)
(* swap_in of swap.c and the replacement of fifo_swap.c.                   *)
(*                                                                         *)
(* The accesses are the kernel's own to the area of g_test_vmm, which is   *)
(* how test_swap uses all this, or (UserMode) those of a user process to   *)
(* its stack, of which load_bin has mapped the pages of Loaded.  A page is *)
(* one value.  A fault is handled with interrupts off, in one step, or in   *)
(* two if alloc_pages finds no free page and calls swap_out first; then    *)
(* the access is tried again.  The page tables themselves are there        *)
(* beforehand (test_swap makes them with its first get_pte).               *)
(***************************************************************************)
EXTENDS Naturals, Sequences, FiniteSets

CONSTANTS VA,       \* the pages of the area
          Frames,   \* physical pages
          Values,   \* contents of a page
          UserMode, \* who makes the accesses
          Loaded,   \* pages mapped by load_bin
          NULL

ASSUME PagingAssumption ==
  /\ NULL \notin VA \cup Frames \cup Values
  /\ UserMode \in BOOLEAN
  /\ Loaded \subseteq VA /\ (~UserMode => Loaded = {})
  /\ IsFiniteSet(Frames) /\ Frames # {}

VARIABLES frame,     \* the PPN of a valid pte, or NULL
          user,      \* the pages whose pte has PTE_U
          swapped,   \* the pages whose pte is a swap entry
          content,   \* of each frame
          disk,      \* the contents at addr2swap of each page
          free,      \* the frames of the free list
          pra,       \* g_pra_list, youngest frame first
          pra_addr,  \* page.pra_addr
          handling,  \* the page whose fault waits for swap_out, or NULL
          retry,     \* the page whose access is tried again after a fault
          panic      \* an ASSERT failed, or NULL was dereferenced

table == <<frame, user, swapped>>
vars  == <<table, content, disk, free, pra, pra_addr, handling, retry, panic>>

TypeOK ==
  /\ frame \in [VA -> Frames \cup {NULL}]
  /\ user \subseteq VA /\ swapped \subseteq VA
  /\ content \in [Frames -> Values]
  /\ disk \in [VA -> Values \cup {NULL}]
  /\ free \subseteq Frames
  /\ pra \in Seq(Frames)
  /\ pra_addr \in [Frames -> VA \cup {NULL}]
  /\ handling \in VA \cup {NULL}
  /\ retry \in VA \cup {NULL}
  /\ panic \in BOOLEAN

Init ==
  /\ frame \in [VA -> Frames \cup {NULL}]
  /\ \A v, w \in VA : frame[v] = frame[w] /\ v # w => frame[v] = NULL
  /\ { v \in VA : frame[v] # NULL } = Loaded
  /\ user = Loaded
  /\ swapped = {}
  /\ content \in [Frames -> Values]
  /\ disk = [v \in VA |-> NULL]
  /\ free = Frames \ { frame[v] : v \in VA }
  /\ pra = <<>>
  /\ pra_addr = [f \in Frames |-> NULL]
  /\ handling = NULL
  /\ retry = NULL
  /\ panic = FALSE

-----------------------------------------------------------------------------
\* The MMU lets the access through.
Accessible(v) == frame[v] # NULL /\ (UserMode => v \in user)

\* The program may access v.
Running(v) == ~panic /\ handling = NULL /\ retry \in {NULL, v}

Read(v) ==
  /\ Running(v) /\ Accessible(v)
  /\ retry' = NULL
  /\ UNCHANGED <<table, content, disk, free, pra, pra_addr, handling, panic>>

Write(v, x) ==
  /\ Running(v) /\ Accessible(v)
  /\ content' = [content EXCEPT ![frame[v]] = x]
  /\ retry' = NULL
  /\ UNCHANGED <<table, disk, free, pra, pra_addr, handling, panic>>

\* fifo_swap_out_page: the oldest.
Victim == pra[Len(pra)]

\* Slip: swap_out does not write the page to the disk.
DiskAfterNone(f) == disk

\* swap_out writes the victim to the slot of its address.
DiskAfter(f) == [disk EXCEPT ![pra_addr[f]] = content[f]]

\* Slip: the pte of the victim stays valid.
EvictedNone(f) == {}

\* The page that loses its frame f.
Evicted(f) == {pra_addr[f]}

\* swap_out, called by alloc_pages for the fault of v: there must be a g_test_vmm
\* and something to swap out, and its pte must be valid.
SwapOut(v) ==
  /\ Running(v) /\ ~Accessible(v) /\ free = {}
  /\ panic' = (UserMode \/ pra = <<>> \/ frame[pra_addr[Victim]] = NULL)
  /\ IF panic'
     THEN UNCHANGED <<table, content, disk, free, pra, pra_addr, handling, retry>>
     ELSE /\ frame' = [w \in VA |-> IF w \in Evicted(Victim) THEN NULL ELSE frame[w]]
          /\ swapped' = swapped \cup Evicted(Victim)
          /\ user' = user \ Evicted(Victim)
          /\ disk' = DiskAfter(Victim)
          /\ free' = {Victim}
          /\ pra' = SubSeq(pra, 1, Len(pra) - 1)
          /\ handling' = v
          /\ UNCHANGED <<content, pra_addr, retry>>

\* handle_page_fault(v), a page of the area, once alloc_page has a frame f: with no
\* pte yet alloc_page_gpte, with a swap entry swap_in (which asserts that the pte is
\* not valid), add_page and swap_set_swappable, if there is a g_test_vmm.  The new
\* pte has PTE_V, PTE_R and PTE_W.
PageFault(v) ==
  /\ \/ Running(v) /\ ~Accessible(v)
     \/ ~panic /\ handling = v
  /\ \E f \in free :
       /\ panic' = (frame[v] # NULL)
       /\ frame' = [frame EXCEPT ![v] = IF panic' THEN @ ELSE f]
       /\ swapped' = swapped \ {v}
       /\ content' = [content EXCEPT ![f] = IF v \in swapped THEN disk[v] ELSE @]
       /\ free' = free \ {f}
       /\ pra' = IF UserMode THEN pra ELSE <<f>> \o pra
       /\ pra_addr' = IF UserMode THEN pra_addr ELSE [pra_addr EXCEPT ![f] = v]
       /\ handling' = NULL
       /\ retry' = v
       /\ UNCHANGED <<user, disk>>

Next == \E v \in VA : \/ Read(v) \/ SwapOut(v) \/ PageFault(v)
                      \/ \E x \in Values : Write(v, x)

Spec == Init /\ [][Next]_vars

-----------------------------------------------------------------------------
Mapped == { v \in VA : frame[v] # NULL }

\* No frame is lost or shared: each is free or holds one page, which is not on
\* the disk, and the FIFO holds each frame in use once, under the address by
\* which swap_out will find its pte.  So handle_page_fault always finds a frame,
\* and the ASSERTs of swap_out, swap_in and fifo_swap_out_page hold.
FramesExact ==
  /\ TypeOK /\ ~panic
  /\ free = Frames \ { frame[v] : v \in Mapped }
  /\ \A v, w \in Mapped : frame[v] = frame[w] => v = w
  /\ Mapped \cap swapped = {}
  /\ Len(pra) = Cardinality(Mapped)
  /\ \A v \in Mapped : pra_addr[frame[v]] = v /\ \E i \in 1 .. Len(pra) : pra[i] = frame[v]

\* Swapping cannot be seen: each page keeps what was last written to it.
Memory == INSTANCE MemSpec WITH
            mem <- [v \in VA |-> IF frame[v] # NULL THEN content[frame[v]]
                                 ELSE IF v \in swapped THEN disk[v] ELSE NULL]
KeepsMemSpec == Memory!Spec

\* The ASSERTs of fault handling hold: swap_in's ASSERT(!(*p_pte & PTE_V)), which
\* needs the access that is tried again to be let through this time (as the comment
\* in swap.h says of a page that is swapped in).
FaultAsserts == ~panic
=============================================================================
