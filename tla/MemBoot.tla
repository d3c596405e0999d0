------------------------------ MODULE MemBoot ------------------------------
(***************************************************************************)
(* Memory while the kernel starts: init_pmm has the page allocator tested  *)
(* (BestFit.tla, swapping is off), then init_swap runs test_swap of        *)
(* kernel/mm/swap.c, which takes a few pages, puts the rest of the free    *)
(* list aside and lets the pager (Paging.tla) work with those few.  The    *)
(* frames of Paging are the pages of the test; its free frames are what    *)
(* the free list holds meanwhile.  What the test accesses and in which     *)
(* order is left open; it must have touched every page in the end.         *)
(***************************************************************************)
EXTENDS Paging, SequencesExt

CONSTANTS NumPages,   \* pages after the kernel's
          Sizes,      \* arguments of alloc_pages
          NumEnv,     \* pages test_swap allocates first: vmm, area, page tables
          NumTables   \* those of them it never gives back: the table of the last level

NumTest == Cardinality(Frames)  \* NUM_CHECK_PAGES - 1

ASSUME MemBootAssumption ==
  /\ ~UserMode                                \* test_swap is code of the kernel
  /\ NumPages \in Nat \ {0}
  /\ Sizes \subseteq Nat \ {0} /\ 1 \in Sizes  \* alloc_page() is alloc_pages(1)
  /\ NumEnv \in Nat /\ NumTables \in 0 .. NumEnv /\ NumEnv + NumTest <= NumPages
  /\ Frames = NumEnv .. NumEnv + NumTest - 1  \* the first pages are taken first
  /\ NULL \notin 0 .. NumPages - 1
  /\ NULL \notin [list : Seq(0 .. NumPages - 1), num_free : 0 .. NumPages]

VARIABLES list, num_free, flag, property, used, result, saved, lost,
          phase,  \* how far the start has come
          held    \* the pages test_swap has got from alloc_page, in order

Pmm == INSTANCE BestFit

pmm   == <<list, num_free, flag, property, used, result, saved, lost>>
bvars == <<vars, pmm, phase, held>>

BInit == Init /\ Pmm!Init /\ phase = "boot" /\ held = <<>>

-----------------------------------------------------------------------------
\* The tests of best_fit_pmm.c: any calls, the list put aside and back.
TestPmm ==
  /\ phase = "boot"
  /\ Pmm!Next
  /\ UNCHANGED <<vars, phase, held>>

\* test_swap begins; the tests before it have given all pages back.
BeginTest ==
  /\ phase = "boot" /\ used = {} /\ saved = NULL
  /\ phase' = "take"
  /\ UNCHANGED <<vars, pmm, held>>

\* init_vmm, init_vma, get_pte; then the pages for the test.
TakePage ==
  /\ phase = "take" /\ Len(held) < NumEnv + NumTest
  /\ Pmm!AllocPages(1)
  /\ held' = Append(held, result')
  /\ UNCHANGED <<vars, phase>>

\* temp_free_area = *get_free_area(), and the list is made empty.
EmptyArea ==
  /\ phase = "take" /\ Len(held) = NumEnv + NumTest
  /\ Pmm!SaveArea
  /\ phase' = "give"
  /\ UNCHANGED <<vars, held>>

TestPages == SubSeq(held, NumEnv + 1, NumEnv + NumTest)

\* The test pages become the only free ones.
GivePage ==
  /\ phase = "give" /\ num_free < NumTest
  /\ Pmm!FreePages(TestPages[num_free + 1], 1)
  /\ UNCHANGED <<vars, phase, held>>

BeginSwap ==
  /\ phase = "give" /\ num_free = NumTest
  /\ phase' = "swap"
  /\ UNCHANGED <<vars, pmm, held>>

\* test_content_set and test_fifo: accesses, and the faults they cause.
Access(v) ==
  /\ phase = "swap"
  /\ Read(v) \/ \E x \in Values : Write(v, x)
  /\ UNCHANGED <<pmm, phase, held>>

\* swap_out gives the victim's frame back to the allocator.
Evict(v) ==
  /\ phase = "swap"
  /\ SwapOut(v)
  /\ Pmm!FreePages(Victim, 1)
  /\ UNCHANGED <<phase, held>>

\* The frame of a fault is the page alloc_page returns.
Fault(v) ==
  /\ phase = "swap"
  /\ Pmm!AllocPages(1)
  /\ PageFault(v)
  /\ frame'[v] = result'
  /\ UNCHANGED <<phase, held>>

\* All pages have been touched and no access is under way.
EndSwap ==
  /\ phase = "swap" /\ free = {} /\ handling = NULL /\ retry = NULL
  /\ phase' = "end"
  /\ UNCHANGED <<vars, pmm, held>>

\* The test pages, a page table, the area and the vmm, in the order they are
\* given back.
GivenBack == TestPages \o Reverse(SubSeq(held, 1, NumEnv - NumTables))

GiveBack ==
  /\ phase = "end" /\ num_free < Len(GivenBack)
  /\ Pmm!FreePages(GivenBack[num_free + 1], 1)
  /\ UNCHANGED <<vars, phase, held>>

\* *get_free_area() = temp_free_area: the pages given back are in the list that
\* is overwritten.
EndTest ==
  /\ phase = "end" /\ num_free = Len(GivenBack)
  /\ Pmm!RestoreArea
  /\ phase' = "done"
  /\ UNCHANGED <<vars, held>>

\* The running kernel, as long as there is memory.
KernelRuns ==
  /\ phase = "done"
  /\ \/ \E n \in Sizes : Pmm!AllocPages(n)
     \/ \E b \in Pmm!Pages, n \in Sizes : b + n <= NumPages /\ Pmm!FreePages(b, n)
  /\ UNCHANGED <<vars, phase, held>>

BNext == \/ TestPmm \/ BeginTest \/ TakePage \/ EmptyArea \/ GivePage \/ BeginSwap
         \/ \E v \in VA : Access(v) \/ Evict(v) \/ Fault(v)
         \/ EndSwap \/ GiveBack \/ EndTest \/ KernelRuns

BSpec == BInit /\ [][BNext]_bvars

-----------------------------------------------------------------------------
\* See BestFit: the list and the flags of the pages are exact, through the tests
\* that put the list aside, and while the pager takes and returns pages.
ListExact == Pmm!ListExact

\* See BestFit: the free list keeps the promise of PageSpec throughout.
KeepsPageSpec == Pmm!KeepsPageSpec

\* No frame is lost or shared by the pager (FramesExact of Paging), its frames are
\* the pages that test_swap has given it, and what it takes for free is what the
\* allocator has in its list.
PagerExact ==
  /\ FramesExact
  /\ phase \in {"boot", "take", "give", "swap", "end", "done"}
  /\ phase \in {"swap", "end"} => ToSet(TestPages) = Frames
  /\ phase = "swap" => free = Pmm!Covered(list)

\* "restore kernel mem env" (swap.c): after test_swap every page is free again
\* or in use.
NothingLost == lost = {}
=============================================================================
