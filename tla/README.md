# Garret-OS in TLA+

Garret-OS is a small RISC-V kernel for one hart: processes with fork, exec, wait,
kill, exit and sleep, a stride scheduler, a timer list, semaphores and a monitor,
a best-fit page allocator, page tables, virtual memory areas, demand paging with a
FIFO swap, and an ELF loader. This directory holds TLA+ specifications of these
parts, the TLC configurations that check them on small instances, and TLAPS proofs
of most of the safety properties for every value of the constants.
`PROJECT.json` maps each definition to the lines of the source it stands for.

## 1. Inventory

| part | source (kernel/) | state | operations | what is hard about it |
|---|---|---|---|---|
| process life cycle | proc/proc.c, trap/trap.c, syscall/ | pcbs, run queue, current process | do_fork, do_execve, do_wait, do_kill, do_exit, do_sleep, do_yield, init_main, the tail of trap() | wakeups between two halves of do_wait; kills at any time; ticks inside kernel threads; freeing what others point to |
| family pointers | proc/proc.c | parent, child, younger, older | set_links, remove_links, loop of do_exit | a list spliced by hand while it is walked |
| pid allocation | proc/proc.c | prev_pid, next_pid, process list | alloc_pid | a cached gap, wrap-around |
| process table | proc/proc.c, lib/hash.c | g_proc_list, g_hash_list, g_num_proc | hash_proc, unhash_proc, set_links, remove_links | four structures that must name the same processes |
| timers | proc/schedule.c | delta list | add_timer, del_timer, run_timers | deltas around insertions, deletions and equal deadlines |
| stride scheduler | proc/stride_scheduler.c, lib/skew_heap.h | strides, skew heap | enqueue, dequeue, pick_next | u32 wrap, parent pointers of the heap, starvation |
| semaphores | sync/sem.c, wait.c, lib/list.h | value, wait queue | up, down | hand-over of a unit to a process that has not run yet |
| monitor | sync/monitor.c | mutex, next, conditions | wait_cond, signal_cond | who owns the monitor after a signal |
| philosophers | sync/test_phi.c | table | take and put forks, two ways | exclusion, nobody overlooked, all finish |
| page allocator | mm/best_fit_pmm.c | free list, page flags | alloc_pages, free_pages | merging on both sides, stale flags |
| page tables | mm/pmm.c | tables, reference counts | get_pte, add_page, del_page, copy_range, del_range, free_range | a frame used twice or never returned |
| areas | mm/vmm.c | vma list, vma_curr | vm_map, find_vma, check_vmm, dup_vmm | a cached lookup, boundaries |
| paging and swap | mm/vmm.c, swap.c, fifo_swap.c | ptes, disk, FIFO | handle_page_fault, swap_in, swap_out | old content coming back; the retried access |
| loader | proc/proc.c | new address space | load_bin | alignment of segments, giving up half-way |
| memory tests at boot | mm/best_fit_pmm.c, swap.c | a list put aside, the pages of the test | basic_test, test_best_fit, test_swap | two lists over the same page structures; pages that come back to the wrong list |
| user programs | ../user/ | variables, exit codes | ten tests and the library that makes their system calls | tests that kill one another, the limit of processes, the width of an exit code |

How they interact. `schedule()` is called from do_wait, do_exit, do_sleep, down, the
tail of trap(), init_main and the idle loop; `wakeup_proc` from do_fork, do_exit,
do_kill, run_timers and up. A timer tick runs run_timers and the scheduler's tick in
whatever process is current. do_fork and do_exit build and tear down address spaces
with pmm.c and vmm.c, which allocate with best_fit_pmm.c; alloc_pages falls back to
swap_out.

Granularity. A trap from user mode runs with interrupts off, so a system call is atomic
up to its schedule(). Kernel threads (idle, init, the philosophers, user_main before
its execve) run with interrupts on: a tick may fall between any two of their steps
unless they are inside local_intr_save, but trap() never reschedules a kernel thread.
Nothing is persisted, there is one hart, and no messages: crashes, lost messages and
true parallelism do not occur here.

## 2. Modules

| module | models | composes / implements |
|---|---|---|
| Proc | life cycle of processes, interleaved with ticks | proved about in ProcProofs |
| ProcLinks | the four family pointers; one step per round of do_exit's loop | Proc's sets of children |
| PidAlloc | alloc_pid, one list entry per step | Proc's slots; proved about in ProcTableProofs |
| ProcTable | process list and hash list; do_fork, do_exit and do_wait on the whole table | extends PidAlloc, instantiates ProcLinks with pids for processes; ProcTableProofs |
| UserTests | ten programs of user/ as sequences of system calls with the results they assert | extends Proc |
| Timers | the delta list, one step per round of its loops | implements TimerSpec (independent countdowns); ScheduleProofs |
| Stride | stride scheduler and skew heap with its pointers, strides modulo `Modulus` | Proc's fairness of schedule(); ScheduleProofs |
| Sem | list.h, wait.c, sem.c as operators on a record | used by Diners |
| Diners | what the two tests of test_phi.c share: threads, sleeps, the table | Sem |
| PhiSem, PhiMonitor | test_phi_sem; test_phi_cond with the monitor of monitor.c | Diners |
| TestPhi | the two tests one after the other, as init_main runs them | PhiSem, PhiMonitor; TestPhiProofs |
| BestFit | free list, flags and lengths; the list put aside and back | implements PageSpec; BestFitProofs |
| AddrSpace | page tables under fork, exec, exit and writes | implements SpaceSpec (one memory per process); AddrSpaceProofs |
| Vmas | areas, cache, check_vmm, fork's copy, as operators | used by LoadBin; LoadBinProofs |
| Paging | faults, swap, FIFO | implements MemSpec (plain memory); proved about in MemBootProofs |
| MemBoot | the tests of the allocator, then test_swap | extends Paging, instantiates BestFit: the frames of the pager are pages of the allocator; MemBootProofs |
| LoadBin | load_bin byte by byte, one step per turn of a loop; then the page faults, checks and fork of the program | Vmas; LoadBinProofs |
| MCProc, MCAddrSpace, MCLoadBin | values of constants and symmetry sets for TLC | |

The variables carry the names of the fields and globals they stand for, and the actions
those of the functions. Where a function runs in several steps the action names say
which part (`WaitBlocks`, `WaitWoken`, `WaitReaps`: do_wait before, after and around its
schedule()). `panic` (or `sem.panic`) becomes TRUE where the code's ASSERT or PANIC
would stop the machine. Definitions marked "Slip" are plausible programming errors:
each property is shown to notice one of them, named under "mutants" in PROJECT.json.

### Proc in more detail

`pc` says where each process is. `user` and `phi` are the places from which a user
program or a philosopher takes its next system call or step; the `*_sched` places are
calls of schedule(). A system call of a user process is one action, except that do_wait,
do_sleep and do_exit stop at schedule(). For kernel threads the steps of do_exit
(zombie, waking the parent, one child after another) are separate steps, and `Tick` may
come between those that run with interrupts on (`Interruptible`): also after a thread has made
itself a zombie and before local_intr_save, so that timers fire while a zombie is current. From
there on do_exit has interrupts off. `TrapTail` is the test
of PROC_FLAG_EXIT and need_reschedule with which a trap from user mode ends; a process
that was forked and has not run, and one that comes back from schedule() there, return
to user mode past it.

Abstractions: a pid is the slot, the run queue is a set, siblings are a set, timers are
countdowns. The modules named above show what each leaves out. User programs that
access invalid addresses or make undefined system calls stop the machine by a PANIC in
trap.c and syscall.c on purpose; Proc has no such programs. Philosophers wait in
do_sleep only (their semaphores are in PhiSem and PhiMonitor), and one round of them
stands for the two tests that init_main runs one after the other.

### The compositions

ProcTable puts alloc_pid, the lists and the family pointers together as do_fork, do_exit
and do_wait do. A pcb is its pid, so that the pid given out by PidAlloc is the process
ProcLinks links, and the scan of alloc_pid follows g_proc_list in its order. alloc_pid,
the loop of do_exit and the unlinking of do_wait run with interrupts off: no other operation
starts while one of them is under way. The
hash is computed as hash32 does; only the upper half of the product matters, which the
model has in 16 bits.

UserTests replaces Proc's "any system call" by the programs. Each process has a position
in its program (`ip`), the variables the tests use (`mem`: the children it has forked, the
pid stored by waitkill.c, the depth in forktree.c), and an exit code. The steps of the
kernel are Proc's own actions, with what they do to these variables added. A call whose
result is not what the program asks for leads to FAIL, where the library's panic() exits
with -E_PANIC. A row of equal calls is cut to one or two and a computation to none, since
a tick may fall between any two calls anyway.

MemBoot runs BestFit with any calls, including those that put the list aside, as long as
the tests of init_pmm last; then the phases of test_swap: take pages, put the rest aside,
give the test pages back one by one, let the pager work on them, give everything back,
restore. `Evict` is swap_out with its free_page, `Fault` an alloc_page that BestFit answers
and the mapping of that very page. So the two components must agree on what is free.

## 3. Runs

Passing runs:

| run | instance | shows |
|---|---|---|
| proc | idle, init, 2 slots that are reused, 3 forks, sleeps of 2 ticks, user processes killable | TypeOK, NoPanic, RunQueueExact, NoDangling, NoLostWakeup, TimersSound, SleepNotCutShort, ZombieIsFinal, KilledDiesOrWaits, OrphansReaped, AllKilledShutsDown |
| proc_table | 4 processes, pids 1..7, 2 chains, any number of wraps | TableExact, LinksExact, NoOrphans, GapFree, UniquePids, LoopsEnd |
| user_tests | ten programs, 2 children, trees of depth 2, at most 3 processes of a test | TestsPass, TestsEnd |
| timers | 4 timers, durations 1..3 | HeadNotExpired, KeepsTimerSpec |
| stride | 3 processes forked at any time, blocking, settled priorities, strides modulo 8 | HeapSound, PicksLeast, EveryoneRuns |
| test_phi | 3 philosophers, 2 rounds, semaphores and then the monitor | NeighboursNotEating, OneActive, NoneOverlooked, NobodyLost, AllEat |
| mem_boot | 6 pages, blocks of 1..3; then 4 pages in 3 frames, 2 values | ListExact, PagerExact, KeepsPageSpec, KeepsMemSpec |
| load_bin | pages of 3 bytes; all alignments, sizes up to 7 bytes, 6 second segments, one of them within the stack, buffers up to 5 bytes | ImageExact, CheckExact, WritesInPage, LoadOutcome |
| addr_space | 2 processes, 3 levels of 2 entries, 2 programs, loads that give up after a segment, 15 frames, symmetry in the processes and the values | NoSharing, OnlyLeavesLost, KeepsSpaceSpec |

Runs that TLC finds violated, each against a line of the repository (see "findings" in
PROJECT.json):

- proc_kill: a process killed while it is queued returns to user mode and may go to
  sleep in do_wait with its exit flag set; no later kill wakes it.
- phi_five: add_wait_queue links a third waiter between nodes that are not neighbours;
  with the five philosophers of test_phi.c one is lost in the queue of the monitor's mutex.
- user_fault: handle_page_fault never sets PTE_U, so that a user access to the stack beyond
  the pages load_bin maps faults again and trips the ASSERT of swap_in.

Because of phi_five the run test_phi has three philosophers: with at most two waiters the queue is sound,
and the run shows what semaphores and monitor do on top of it. What a third waiter breaks
is NobodyLost only: NeighboursNotEating, OneActive and NoneOverlooked are proved for every
number of philosophers, the five of test_phi.c included.

LoadOutcome says which of three ends load_bin comes to. A segment that begins strictly inside
the stack is not refused by vm_map (find_vma of the stack's first address finds no area), and
the kernel stops in add_vma's ASSERT when MapStack adds the stack (`OverlapUnseen`, `pc =
"stopped"`); one program of the instance has such a segment. Every other program that cannot be
loaded is refused with an error. What load_bin has taken by then is a matter of frames, and of
AddrSpace: `LoadPart` stops after some of a program's segments, with their pages and tables in
place, and `GiveUp` runs del_vmas, free_gpt and del_vmm on them. OnlyLeavesLost holds of that
step too, and a `GiveUp` without del_vmas violates it. (GiveUp of LoadBin, which has no
frames, forgets the address space only.)

Further instances are kept in the directory. They are not listed in PROJECT.json, and are
run by hand (`tlc -config <cfg> <module>`):

| cfg | module | result |
|---|---|---|
| MCProcWide.cfg | MCProc | the safety properties of proc hold with 3 slots, 5 forks, two philosophers, sleeps of 1 or 2 ticks and init killable too |
| MCProcLinks.cfg | ProcLinks | the family pointers alone with init and 4 others: three generations, siblings on both sides |
| MCPidAlloc.cfg | PidAlloc | alloc_pid alone, the scan in any order; also NoImmediateReuse: a parent that reaps and forks again does not meet the old pid at once in a new child (proved in ProcTableProofs) |
| MCBestFit.cfg | BestFit | the free list alone with 8 pages and blocks of 1..4 |
| MCPaging.cfg | Paging | the pager alone, any free frame chosen |
| MCStrideFixed.cfg | Stride | with a fixed set of processes that never block, priorities that change for ever and strides modulo 16, no two strides are more than one BIG_STRIDE apart (Spread, proved in ScheduleProofs) and nobody starves (EveryoneRuns) |
| MCPhiSem.cfg | PhiSem | test_phi_sem with four philosophers, of whom two can eat at a time |
| MCProcKillInit.cfg | MCProc | ExitReachesSchedule is violated: after sys_kill(1) init's do_exit (proc.c:467) hands init's children to init for ever; proc.c:438 says "3. call schedule to switch to other process" |
| MCStrideFork.cfg | Stride | PicksMinimum is violated: a process forked with stride 0 (proc.c:138) compares as ahead of strides above 2^31; stride_scheduler.c:47 says "with the minimum value of stride" |
| MCAddrSpaceLeak.cfg | MCAddrSpace | AllReturned is violated: free_range (pmm.c:189) does not free the page tables of the last level; proc.c:376 says that after do_wait "all resources of the child processes are free" |
| MCUserCode.cfg | UserTests | TestsPass is violated: sleep.c:21 and badarg.c:9 pass the address of an uninitialised u64, do_wait (proc.c:420) stores an i32 there, and the ASSERT that follows reads all eight bytes (user_tests has the other four zero) |
| MCSwapLeak.cfg | MemBoot | NothingLost is violated: test_swap frees its pages into the list that it then overwrites (swap.c:193), and never frees the page table of the last level; swap.c:183 says "restore kernel mem env" |
| MCLoadBinPerms.cfg | MCLoadBin | PermsExact is violated: vm_flags (proc.c:522) is not reset between segments, so that a later segment has the permissions of the earlier ones too; elf.h:36 has them in each header |

Why the bounds are enough. In proc two user processes give a parent and a child that
kill each other, and slots are reused after a wait. A grandchild, whose exiting parent
is not init's child, needs a third slot: MCProcWide.cfg has it, and the safety results
are proved for all sizes anyway. The pids wrap after seven, so that a scan meets live
pids before, in and behind the gap. With eight strides any two decisions may
have a wrap between them. The chains of the hash list are two, so that they
hold several processes and are empty at times. In user_tests two children per parent give
siblings that exit in either order, and a tree of depth 2 has seven processes, more than
there may be, so that forks of forktree.c fail. Six pages can hold three gaps, so that every
merge happens (none, before, after, both), also while half of the list is put aside.
MCBestFit.cfg has eight. Three levels of two entries make address spaces
that share a table, that cross from one table into the next, and that use both entries
of the root; fifteen frames are enough for both processes with one page table lost.
Three bytes are the least page with a first, a middle and a last byte.

CHECK_DEADLOCK FALSE is said where the system may stop: addr_space (frames used up by
what exits lose) and load_bin (it returns).

## 4. Fairness

Proc (`FairSpec`): weak fairness of the kernel's own steps of each process and of
init_main (the CPU does not stop); strong fairness of `Tick` (an interrupt that comes
while interrupts are off stays pending); a philosopher ends, since it has TIMES rounds;
and each queued process is scheduled in the end (SF of schedule(n)). The last is what
Stride's EveryoneRuns establishes, with late forks, blocking and settled priorities
(stride) or with a fixed set of processes and changing priorities (MCStrideFixed.cfg). It is an
assumption about the programs: with priorities that keep changing, late forks and
blocking together (`Priorities = {0, 2}`, `First = {a}`, `Sleepers` all) TLC finds a
process that is passed over for ever, because the wrapped comparison is not transitive
once strides are more than half the range apart. Nor does EveryoneRuns hold of a process with
a priority above BIG_STRIDE, which no instance has: its pass is zero, so that it keeps the least
stride once it has it, and is picked every time it comes back to the queue. (SpreadHolds allows
such priorities.) No fairness is assumed of user
programs. UserTests (`TSpec`): weak fairness of the kernel's
steps, strong fairness of ticks, of the calls of the programs (they run between two ticks,
and none of them computes for ever except where `Spin` says so) and of schedule(n).
ProcTable, PidAlloc, ProcLinks and LoadBin: weak fairness of sequential code. Stride:
schedule() is called again and again while somebody is queued. TestPhi, PhiSem and
PhiMonitor: the fairness is in their `Spec`; a sleep ends, the CPU goes on, and a ready
philosopher is resumed in the end.

## 5. Proofs

Checked by TLAPS for every value of the constants that meets the modules' assumptions.

**ProcProofs** (9 theorems). The invariant `IInv` adds to TypeOK and the safety
properties what makes them inductive: `PcShape` (state, wait_state and timer at each
place of the code), `CurrShape` (which places only the current process can be at),
`RunQueueExact`, `Roots` and `Family` (idle and init have fixed parents, everyone else
a live one, and a parent is not a zombie unless it is in the loop of do_exit), `NoCycle`,
`Philosophers` and `Boot` (what init_main has started and not yet waited for), `Count`
(g_num_proc is the number of live slots), `Childless` (a process past do_exit's loop has
no children) and `SleepShape`. Why it is needed: NoLostWakeup alone does not survive
do_exit, unless one knows that the exiting process is current, that its parent is alive,
and that nobody else is between setting ZOMBIE and waking its parent. NoPanic rests on
Count for init_main's `g_num_proc == 2` and on PcShape for the ASSERTs of wakeup_proc and
schedule. The step theorem has one case per action.

**ProcTableProofs** (GapFree, UniquePids and NoImmediateReuse of PidAlloc; then TableExact,
LinksExact, NoOrphans, and PidAlloc's three properties once more, now of the real table).
alloc_pid by itself: the gap is free of live pids among those the scan has visited; a scan
that ends has visited all, a call without a scan stays inside the gap, and a reap only removes
pids. For NoImmediateReuse, prev_pid has passed the pid given out last and comes back to it
only after a wrap. The invariant `TabInv` of the whole table has a part for each structure.
`ListsInv`: the process list, the chains and g_num_proc name the same processes, each once,
and hash32 gives every pid one of the chains (the product is reduced before it is divided,
so that the quotient stays below their number). `FamilyInv`: `Rows` (the children of a process
are exactly those met from `child` along `older`), `BackLinks` (`younger` leads back, except
among the children of the process in do_exit's loop, whose pointers the loop does not keep),
`Parents` (everyone but init has a live parent, which is no zombie unless it is in that loop)
and `Rooted` (there is no circle of parents). And PidAlloc's invariant, with the scan following
g_proc_list. NoOrphans alone is not inductive: that do_exit leaves no orphan needs Rows, or a
child might not be met by the loop. `Rooted` is what makes the `child == NULL` of init mean
that init is alone.

**ScheduleProofs** has the two structures behind schedule.c. Of the timers: HeadNotExpired, the
ASSERT of run_timers, and KeepsTimerSpec, that Timers implements the independent countdowns of
TimerSpec. The invariant says that only the head
can be at zero, and only inside run_timers' loop, and that add_timer's walk has subtracted
less than the new timer still has. In the mapping a timer's countdown is the sum of the deltas
up to it. An insertion, a deletion and a turn of run_timers must leave the sums of all other
timers alone, which is proved at the least place of the list where a sum would change.

Of the stride scheduler: HeapSound and PicksLeast, for any finite set of processes, any range of
strides that four divides (`StrideAssumption`; 2^32 in the code) and any priorities. HeapSound
speaks of what can be reached from the root, which is awkward in the middle of a merge. The
invariant `SchedInv` says instead that the queue is a `Forest` with one root: children are
queued, lead back to their parents, and have a smaller rank; everyone else has a parent; and no
child's stride is more than half of the range behind its parent's. `Joined` says of
merge_skew_heap that it makes one tree of two and touches nothing else; it is proved for a call
from the calls inside it (`TopOff`, `TopOn`, `MergesOne`) and for all trees by the number of
their nodes (`Merges`, by `Rounds...` and `Upward` as for the address spaces). The rank of a new
top is the sum of the ranks of the two roots, which is more than those of the trees under it.
PicksLeast follows by going up from a least process (`Climb`): its parent is neither more than half of
the range ahead of it nor behind it, so its stride is the same, up to the root. It needs no bound on how far
apart the other strides are, and so holds with late forks and sleeps.

SpreadHolds, that no two strides are more than one BIG_STRIDE apart, has two more assumptions:
`First = Procs` and `Sleepers = {}`, nobody is forked late or blocks (MCStrideFork.cfg shows what
happens without). The invariant says that some process has nobody more than one BIG_STRIDE ahead
of it (`Within`). Then all are within half of the range of that one, so the root has its stride
(`RootLeast`); the root pays at most one BIG_STRIDE (`PassIs`, `PaysPass`), and everyone is
within one of the stride it had before; and of the processes so placed the one least ahead is
such a process again (`SomeoneLeast`). Priorities do not occur in it and may change at will.

**BestFitProofs** (ListExact, and KeepsPageSpec: BestFit implements PageSpec), for every
number of pages and every set of block sizes. ListExact is inductive together with
`used` and `lost` being disjoint. The work is in the operators: a free block inserted where
`Place` says keeps the list sorted and disjoint, each of the four ways to merge covers
exactly the same pages, a split leaves the rest of the block in its place, and flags and lengths
of pages that are not heads of blocks do not matter. What holds along a list is proved by
its least counterexample (the lemma `Least`), as induction theorems cannot be instantiated.
Assumed (`PmmConstants`): at least one page, and NULL is neither a page nor a saved list.

**MemBootProofs** has two parts. The first is the pager by itself (FramesExact, and
KeepsMemSpec: Paging implements MemSpec), for any pages, frames and values and for accesses of
the kernel (`~UserMode`; user_fault shows that it is false without). It assumes only
`PagingAssumption`, at least one frame, without which the pager cannot start. The invariant
`PagingInv` ties every frame to at most one page, the FIFO to the mapped pages, each exactly
once, and the content of a page that is not mapped to its disk slot; and the page being faulted
in is not mapped yet. That last part is what the refinement needs at the step where the old
content comes back.

The second part is the composition (ListExact, PagerExact, KeepsPageSpec, KeepsMemSpec). The
invariant `BInv` contains those of BestFit and Paging, and says for each phase of test_swap
which pages it holds and in what order, and that while it takes pages all free memory is one
block, so that alloc_page returns the next one. That is how the frames of the pager come to be
the pages the allocator has free. Steps of the composition are steps of BestFit and of Paging,
so that their lemmas are cited and not proved again. Assumed (`MemBootAssumption`): the pages
test_swap takes exist, alloc_page asks for one page, NULL is no page and no list.

**AddrSpaceProofs** (NoSharing, OnlyLeavesLost, and KeepsSpaceSpec: AddrSpace implements
SpaceSpec), for every size of the page tables, any processes, programs and number of frames.
NoSharing counts the uses of a frame, which no step can be argued about directly. The invariant
`SpaceInv` says instead that every frame in use has one role: the root of a process, its table
for an entry, its table for two entries, or its page at an address (`Shape`, with one map from
frames to roles as its witness), and that free, used and lost frames are disjoint (`Sound`,
`Proper`). A frame with one role cannot be met twice by any walk, and NoSharing follows. The
loops of copy_range, del_range, free_range and load_bin are recursive functions; what they have
done after n turns is shown for every n by the lemmas `Rounds...` (the values of the function
exist and obey its equation) and `Upward` (a set of numbers that contains 0 and successors is
the whole interval). The bound `Costs` of what a fork or an exec can take shows that neither
runs out of frames half-way when its guard holds. A load that gives up is in the invariant as
`failed`: between its two steps the process has an address space in the making, whose frames have
their roles like any other, but sees no memory (`vmm`). Assumed (`SpaceAssumption`): tables have
entries, NULL is neither a frame nor a value, and a program's pages lie in its areas.

**LoadBinProofs** (WritesInPage, CheckExact, ImageExact), for every page size, every user space
made of pages, and all programs whose headers come in the order of their addresses. ImageExact
speaks of the end only; it follows from where load_bin is at each turn. The invariant `LoadInv`
says that the areas are the spans of the headers loaded so far, in order and without overlap
(`Laid`); what each byte holds that a finished header covers, that the current header has
reached, and that belongs to neither (`AllWhole`, `Part`, `Others`, `ByteAt`); how to_begin,
to_end, p_va and page stand to each other at each place of the code (`Progress`), in particular
that a page is either not begun or filled up to to_begin. WritesInPage follows from Progress:
the bytes written in a turn begin and end in the page just allocated. On the way add_vma is
shown never to fail for a segment, and the ASSERT behind the bss never to fail; only adding the
stack can stop the kernel, as said above. The loops of check_vmm and dup_vmm are recursive functions
(`Turns`, `Upward`): check_vmm's answer is the one of CheckExact for every list in order and
whatever area is cached (`CheckIs`, which rests on `FindIs`), and dup_vmm rebuilds the list it
is given (`DupIs`). Assumed: `VmasAssumption` (the borders of the user space are whole pages,
in order) and `LoadBinAssumption` (the headers in order, the stack's first pages inside the
stack).

**TestPhiProofs** (NeighboursNotEating, OneActive, NoneOverlooked, NoPanic), for every number
of philosophers from two on and every number of rounds. NeighboursNotEating needs only what
the table says (`TableInv`: a philosopher becomes EATING only after a look at both
neighbours). The others need the queues. The invariant `PhiInv` is `SemTestInv` during
test_phi_sem and `CondTestInv` during test_phi_cond: every queue is empty or has a first and
a last node that really wait there and point to each other (`SemInv`); whoever is awake inside
down was woken by an up (`Downs`); only a philosopher between taking and putting its forks is
not THINKING (`Seated`); the monitor is free, or exactly one is active in it (`Owned`); a
signaller that waits has handed the monitor to one that leaves it next (`Signals`); and
`CondEach`: the counts of the conditions are those of who waits, who waits is the one that up
will find, and a philosopher that could eat has a left neighbour who is about to look.
The finding of phi_five fits in: a third waiter makes the queue forget one, but leaves no
stale link behind, so that only NobodyLost fails. NoPanic says that no ASSERT of wait.c, sem.c or
monitor.c fails. Assumed (`DinersAssumption`): at least two philosophers, one round, and
NONE is no philosopher.

Only model-checked:

- liveness: AllKilledShutsDown, OrphansReaped, KilledDiesOrWaits, LoopsEnd, TestsEnd,
  EveryoneRuns, AllEat and LoadOutcome (the prover does not do fairness);
- NobodyLost, which is false for five philosophers (phi_five) and holds for three (test_phi): a
  theorem would have to assume fewer philosophers than test_phi.c has;
- UserTests (TestsPass): it would need an invariant of where each of ten programs stands
  while any other runs; not tried.

## 6. Not modelled

Assembly (trap entry, context switch, boot), drivers and SBI calls, console and debug
output, the C library except memset and memcpy. Of the user programs sleepkill.c (whether
its child is killed in time is a matter of seconds), testbss.c, faultread.c and
faultreadkernel.c (they end, on purpose, in the PANIC of an invalid address), and hello.c
and divzero.c, which do less than yield.c. test_vma_struct and test_page_fault, which run
after test_swap: they call what Vmas and Paging model, with less to go wrong. CLONE_VM: only kernel threads are cloned with it, and they have no vmm. Memory
exhaustion after boot: alloc_pages then calls swap_out with no vmm, so that the kernel
cannot go on and every -E_NO_MEM return is unreachable; AddrSpace and LoadBin stop short
of it. wakeup_first and wakeup_queue have no callers. del_vmm reads the link of an area
it has just freed, which yields the old link as nothing else runs.

## 7. Plan

Done: Proc and its proofs first, as the centre of the kernel; then the parts Proc
abstracts from (PidAlloc, Timers, Stride, ProcLinks); then synchronisation; then memory;
then the compositions (ProcTable, MemBoot) and the programs on top (UserTests); then the
proofs about the table, the memory, the philosophers, the scheduler, the address spaces and
the loader.

Next, in this order:

1. Proofs: TestsPass, program by program.
2. Proc with semaphores: philosophers that wait in down inside Proc, so that a kill of a
   process with WAIT_SEM (which does not wake it) is part of the same state space.
3. A composition of Paging with AddrSpace: a swapped-out page under fork and exit
   (copy_range skips a pte without PTE_V, del_range calls del_page for it). The code cannot
   get there, since only the area of the tests is ever swapped.

A choice that shapes the plan: each run asks one question of one component or composition
at a bound where TLC ends within a minute or two; wider instances stay outside the list.
