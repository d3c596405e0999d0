------------------------------- MODULE LoadBin -------------------------------
(***************************************************************************)
(* load_bin of kernel/proc/proc.c: how the segments of a program become    *)
(* the areas (Vmas.tla), the pages and the bytes of a new address space;   *)
(* and what the program's system calls and do_fork then do with the areas. *)
(* One step is one turn of a loop of load_bin.  Addresses are bytes.       *)
(*                                                                         *)
(* alloc_page_gpte maps a page with the bytes the frame had before.  Its   *)
(* failure is left out: alloc_pages does not return when no page is free.  *)
(* The segments come in the order of their addresses, as ELF demands.      *)
(***************************************************************************)
EXTENDS Vmas

CONSTANTS STACK_PAGES,  \* pages of the stack that are there from the start
          Programs,     \* sequences of program headers
          MaxLen        \* bound on the length of a checked buffer

\* struct prog_header.
Headers == [p_type : STRING, p_va : Nat, p_file_size : Nat, p_mem_size : Nat, p_offset : Nat,
            p_flags : SUBSET {"R", "W", "X"}]

ASSUME LoadBinAssumption ==
  /\ Programs \subseteq Seq(Headers)
  /\ STACK_PAGES \in Nat /\ MaxLen \in Nat
  /\ USER_STACK_BEGIN + STACK_PAGES * PAGE_SIZE <= USER_END
  /\ \A P \in Programs : \A i, j \in 1 .. Len(P) : i < j => P[i].p_va <= P[j].p_va

\* What a byte of memory holds that is not a byte of the file, whose bytes are
\* named by their offsets.
Unmapped == -3
Junk     == -2
Zero     == -1

Addr == 0 .. USER_END + PAGE_SIZE

VARIABLES bin,         \* the program headers
          n,           \* prog: the header that is being loaded
          pc,          \* "stopped": by an ASSERT of load_bin or add_vma
          vm_flags,
          pte_flags,
          vma_list, vma_curr,
          from_begin, to_begin, to_end, p_va,
          page,        \* the address of the page allocated last
          mem,         \* each byte of the address space
          perm,        \* the flags of each page that is mapped
          copy,        \* the areas of a forked child, or NULL
          panic        \* an ASSERT of load_bin or add_vma failed

local == <<from_begin, to_begin, to_end, p_va, page>>
vars  == <<bin, n, pc, vm_flags, pte_flags, vma_list, vma_curr, local, mem, perm, copy, panic>>

prog == bin[n]

PageOf(a) == rounddown(a) .. rounddown(a) + PAGE_SIZE - 1

TypeOK ==
  /\ bin \in Programs /\ n \in 1 .. Len(bin) + 1
  /\ pc \in {"header", "text", "bss", "zero", "done", "failed", "stopped"}
  /\ vm_flags \subseteq {"R", "W", "X", "STACK"}
  /\ pte_flags \subseteq {"R", "W", "X"}
  /\ \A i \in 1 .. Len(vma_list) : vma_list[i].vm_flags \subseteq {"R", "W", "X", "STACK"}
  /\ vma_curr = NULL \/ \E i \in 1 .. Len(vma_list) : vma_curr = vma_list[i]
  /\ from_begin \in Nat /\ to_begin \in Addr /\ to_end \in Addr
  /\ p_va \in Addr /\ page \in Addr
  /\ DOMAIN mem = Addr /\ \A a \in Addr : mem[a] \in Int
  /\ DOMAIN perm \subseteq Addr /\ \A a \in DOMAIN perm : perm[a] \subseteq {"R", "W", "X"}
  /\ panic \in BOOLEAN

Init ==
  /\ bin \in Programs /\ n = 1
  /\ pc = "header"
  /\ vm_flags = {} /\ pte_flags = {}
  /\ vma_list = <<>> /\ vma_curr = NULL /\ copy = NULL
  /\ from_begin = 0 /\ to_begin = 0 /\ to_end = 0 /\ p_va = 0 /\ page = 0
  /\ mem = [a \in Addr |-> Unmapped]
  /\ perm = << >>
  /\ panic = FALSE

-----------------------------------------------------------------------------
\* memory after alloc_page_gpte at a, and after size bytes from a on are set.
WithPage(s, a) == [b \in Addr |-> IF b \in PageOf(a) THEN Junk ELSE s[b]]
memset(s, a, size) == [b \in Addr |-> IF a <= b /\ b < a + size THEN Zero ELSE s[b]]
memcpy(s, a, from, size) ==
  [b \in Addr |-> IF a <= b /\ b < a + size THEN from + b - a ELSE s[b]]

Grant(a) == [b \in DOMAIN perm \cup {a} |-> IF b = a THEN pte_flags ELSE perm[b]]

\* del_vmas, free_gpt, del_vmm and an error: no space is left to ask for bytes in.
\* What the teardown gives back to the allocator is AddrSpace's GiveUp.
GiveUp ==
  /\ pc' = "failed"
  /\ vma_list' = <<>> /\ vma_curr' = NULL /\ perm' = << >>
  /\ mem' = [a \in Addr |-> Unmapped]
  /\ UNCHANGED <<bin, n, vm_flags, pte_flags, local, copy, panic>>

\* Slip: a whole page, wherever in the page it begins.
ChunkWhole(p_off, next) == PAGE_SIZE

\* The size of what goes into the page that ends at next, from p_off on.
Chunk(p_off, next) ==
  PAGE_SIZE - p_off - (IF to_end < next THEN next - to_end ELSE 0)

SkipHeader ==
  /\ pc = "header" /\ n <= Len(bin)
  /\ prog.p_type # "LOAD"
  /\ n' = n + 1
  /\ UNCHANGED <<bin, pc, vm_flags, pte_flags, vma_list, vma_curr, local, mem, perm, copy, panic>>

\* Slip: the sizes of the header are not compared.
BadSizesNever == FALSE

BadSizes == prog.p_file_size > prog.p_mem_size

RefuseHeader ==
  /\ pc = "header" /\ n <= Len(bin)
  /\ prog.p_type = "LOAD" /\ BadSizes
  /\ GiveUp

\* The flags of earlier segments stay: vm_flags is set to 0 before the loop.
SegmentFlags == vm_flags \cup prog.p_flags

MapSegment ==
  LET start == rounddown(prog.p_va)
      end   == roundup(prog.p_va + prog.p_mem_size)
  IN /\ pc = "header" /\ n <= Len(bin)
     /\ prog.p_type = "LOAD" /\ ~BadSizes
     /\ \/ MapRefuses(vma_list, vma_curr, start, end) /\ GiveUp
        \/ /\ ~MapRefuses(vma_list, vma_curr, start, end)
           /\ vma_list' = vm_map(vma_list, start, end, SegmentFlags).list
           /\ panic' = vm_map(vma_list, start, end, SegmentFlags).panic
           /\ vm_flags' = SegmentFlags
           /\ pte_flags' = SegmentFlags \cup (IF "W" \in SegmentFlags THEN {"R"} ELSE {})
           /\ from_begin' = prog.p_offset
           /\ to_begin' = prog.p_va
           /\ to_end' = prog.p_va + prog.p_file_size
           /\ p_va' = start
           /\ pc' = IF panic' THEN "stopped" ELSE "text"
           /\ UNCHANGED <<bin, n, vma_curr, page, mem, perm, copy>>

\* A turn of the loop that copies the bytes of the file.
CopyText ==
  LET p_off == to_begin - p_va
      size  == Chunk(p_off, p_va + PAGE_SIZE)
  IN /\ pc = "text" /\ to_begin < to_end
     /\ page' = p_va
     /\ p_va' = p_va + PAGE_SIZE
     /\ mem' = memcpy(WithPage(mem, p_va), p_va + p_off, from_begin, size)
     /\ perm' = Grant(p_va)
     /\ to_begin' = to_begin + size
     /\ from_begin' = from_begin + size
     /\ UNCHANGED <<bin, n, pc, vm_flags, pte_flags, vma_list, vma_curr, to_end, copy, panic>>

MemEnd == prog.p_va + prog.p_mem_size

TextDone ==
  /\ pc = "text" /\ to_begin >= to_end
  /\ to_end' = MemEnd
  /\ pc' = "bss"
  /\ UNCHANGED <<bin, n, vm_flags, pte_flags, vma_list, vma_curr, from_begin, to_begin, p_va, page,
                 mem, perm, copy, panic>>

\* The first byte of the page that is not from the file: p_va is already past it.
BssOffset == to_begin + PAGE_SIZE - p_va

\* The rest of the page in which the bytes of the file end.
ClearBss ==
  LET size == Chunk(BssOffset, p_va)
      next == to_begin + size
  IN /\ pc = "bss" /\ to_begin < p_va /\ to_begin # to_end
     /\ mem' = memset(mem, page + BssOffset, size)
     /\ to_begin' = next
     /\ panic' = ~(\/ to_end < p_va /\ next = to_end
                   \/ to_end >= p_va /\ next = p_va)
     /\ pc' = IF panic' THEN "stopped" ELSE "zero"
     /\ UNCHANGED <<bin, n, vm_flags, pte_flags, vma_list, vma_curr, from_begin, to_end, p_va, page, perm, copy>>

\* continue: there is no bss.
NoBss ==
  /\ pc = "bss" /\ to_begin < p_va /\ to_begin = to_end
  /\ pc' = "header" /\ n' = n + 1
  /\ UNCHANGED <<bin, vm_flags, pte_flags, vma_list, vma_curr, local, mem, perm, copy, panic>>

PageFull ==
  /\ pc = "bss" /\ to_begin >= p_va
  /\ pc' = "zero"
  /\ UNCHANGED <<bin, n, vm_flags, pte_flags, vma_list, vma_curr, local, mem, perm, copy, panic>>

\* Slip: the loop ends with the page in which the bytes of the file end.
MoreZerosNever == FALSE

MoreZeros == to_begin < to_end

\* A turn of the loop that adds pages of zeros.
AddZeros ==
  LET p_off == to_begin - p_va
      size  == Chunk(p_off, p_va + PAGE_SIZE)
  IN /\ pc = "zero" /\ MoreZeros
     /\ page' = p_va
     /\ p_va' = p_va + PAGE_SIZE
     /\ mem' = memset(WithPage(mem, p_va), p_va + p_off, size)
     /\ perm' = Grant(p_va)
     /\ to_begin' = to_begin + size
     /\ UNCHANGED <<bin, n, pc, vm_flags, pte_flags, vma_list, vma_curr, from_begin, to_end, copy, panic>>

SegmentDone ==
  /\ pc = "zero" /\ ~MoreZeros
  /\ pc' = "header" /\ n' = n + 1
  /\ UNCHANGED <<bin, vm_flags, pte_flags, vma_list, vma_curr, local, mem, perm, copy, panic>>

StackPages == { USER_END - k * PAGE_SIZE : k \in 1 .. STACK_PAGES }

\* The user stack, its first pages, and the return.
MapStack ==
  /\ pc = "header" /\ n > Len(bin)
  /\ \/ MapRefuses(vma_list, vma_curr, USER_STACK_BEGIN, USER_END) /\ GiveUp
     \/ /\ ~MapRefuses(vma_list, vma_curr, USER_STACK_BEGIN, USER_END)
        /\ vm_flags' = {"R", "W", "STACK"}
        /\ vma_list' = vm_map(vma_list, USER_STACK_BEGIN, USER_END, vm_flags').list
        /\ panic' = vm_map(vma_list, USER_STACK_BEGIN, USER_END, vm_flags').panic
        /\ mem' = [a \in Addr |-> IF rounddown(a) \in StackPages THEN Junk ELSE mem[a]]
        /\ perm' = [a \in DOMAIN perm \cup StackPages |->
                      IF a \in StackPages THEN {"R", "W", "X"} ELSE perm[a]]
        /\ pc' = IF panic' THEN "stopped" ELSE "done"
        /\ UNCHANGED <<bin, n, pte_flags, vma_curr, local, copy>>

-----------------------------------------------------------------------------
(* The program runs: do_execve returns to user mode.  From here on only    *)
(* the areas are followed; what faults and fork do to pages is in Paging   *)
(* and AddrSpace.                                                          *)

\* handle_page_fault looks the address up.
Fault(a) ==
  /\ pc = "done"
  /\ vma_curr' = Cache(vma_list, vma_curr, a)
  /\ UNCHANGED <<bin, n, pc, vm_flags, pte_flags, vma_list, local, mem, perm, copy, panic>>

\* do_execve and do_wait check their arguments.
Check(addr, len, write) ==
  /\ pc = "done"
  /\ vma_curr' = check_vmm(vma_list, vma_curr, addr, len, write).curr
  /\ UNCHANGED <<bin, n, pc, vm_flags, pte_flags, vma_list, local, mem, perm, copy, panic>>

\* do_fork: dup_vmm.
Fork ==
  /\ pc = "done" /\ copy = NULL
  /\ copy' = dup_vmm(vma_list).list
  /\ panic' = dup_vmm(vma_list).panic
  /\ UNCHANGED <<bin, n, pc, vm_flags, pte_flags, vma_list, vma_curr, local, mem, perm>>

Loading == \/ SkipHeader \/ RefuseHeader \/ MapSegment
           \/ CopyText \/ TextDone
           \/ ClearBss \/ NoBss \/ PageFull \/ AddZeros \/ SegmentDone
           \/ MapStack

Next == \/ Loading
        \/ \E a \in Addr : Fault(a)
        \/ \E a \in Addr, len \in 1 .. MaxLen, w \in BOOLEAN : Check(a, len, w)
        \/ Fork

Spec == Init /\ [][Next]_vars

\* The loader is sequential code that runs with interrupts off.
FairSpec == Spec /\ WF_vars(Loading)

-----------------------------------------------------------------------------
Loads == { bin[i] : i \in { j \in 1 .. Len(bin) : bin[j].p_type = "LOAD" } }

InFile(h, a) == h.p_va <= a /\ a < h.p_va + h.p_file_size
InBss(h, a)  == h.p_va + h.p_file_size <= a /\ a < h.p_va + h.p_mem_size

\* When load_bin returns 0 every byte of a segment is the byte of the file, or
\* zero behind them; the other bytes of those pages, and the stack, are whatever
\* the frames held, and nothing else is mapped.  The program may use a page in at
\* least the ways its headers name (vm_flags carried over can only add to them).
ImageExact ==
  /\ TypeOK
  /\ pc = "done" =>
       \A a \in Addr :
         IF \E h \in Loads : InFile(h, a)
         THEN \E h \in Loads : InFile(h, a) /\ mem[a] = h.p_offset + a - h.p_va
         ELSE IF \E h \in Loads : InBss(h, a) THEN mem[a] = Zero
         ELSE IF \/ rounddown(a) \in StackPages
                 \/ \E h \in Loads, b \in PageOf(a) : InFile(h, b) \/ InBss(h, b)
         THEN mem[a] = Junk
         ELSE mem[a] = Unmapped
  /\ pc = "done" =>
       \A h \in Loads, a \in Addr : InFile(h, a) \/ InBss(h, a) => h.p_flags \subseteq perm[rounddown(a)]

\* No byte is written outside the page that was allocated last: the frame after
\* it may be anyone's.
WritesInPage ==
  [][(pc \in {"text", "bss", "zero"} => \A a \in Addr : mem'[a] # mem[a] => a \in PageOf(page'))]_vars

Span(h) == [start |-> rounddown(h.p_va), end |-> roundup(h.p_va + h.p_mem_size)]

\* The segments lie in user space, none is larger in the file than in memory, and
\* no two share a page.
Separate ==
  /\ \A h \in Loads : /\ h.p_file_size <= h.p_mem_size
                      /\ user_access(Span(h).start, Span(h).end)
  /\ \A i, j \in 1 .. Len(bin) :
       i < j /\ bin[i].p_type = "LOAD" /\ bin[j].p_type = "LOAD"
         => Span(bin[i]).end <= Span(bin[j]).start

Loadable == Separate /\ \A h \in Loads : Span(h).end <= USER_STACK_BEGIN

\* vm_map looks for an area that holds the first byte of the stack; add_vma is the
\* first to see one that begins behind that byte.
OverlapUnseen ==
  /\ Separate /\ ~Loadable
  /\ \A h \in Loads : ~(Span(h).start <= USER_STACK_BEGIN /\ USER_STACK_BEGIN < Span(h).end)

\* load_bin comes to an end, with 0 for exactly the programs that can be loaded, and
\* with an error for the others: except where a segment begins behind the first page
\* of the stack and none reaches that page, where the ASSERT of add_vma stops the
\* kernel.  No other program meets an ASSERT of load_bin or add_vma.
LoadOutcome ==
  <>(pc = IF Loadable THEN "done" ELSE IF OverlapUnseen THEN "stopped" ELSE "failed")

\* While the program runs check_vmm says yes exactly if every byte lies in an area
\* with the permission, and no written byte in the guard page of the stack,
\* whatever vma_curr holds; and a forked child has the same areas, in the same
\* order, for which add_vma has found no overlap (dup_vmm).
CheckExact ==
  pc = "done" =>
    /\ \A a \in Addr, len \in 1 .. MaxLen, w \in BOOLEAN :
         check_vmm(vma_list, vma_curr, a, len, w).ok <=>
           \A b \in a .. a + len - 1 : \E i \in 1 .. Len(vma_list) :
             LET v == vma_list[i]
             IN /\ Has(v, b)
                /\ (IF w THEN "W" ELSE "R") \in v.vm_flags
                /\ w /\ "STACK" \in v.vm_flags => b >= v.vm_start + PAGE_SIZE
    /\ copy # NULL => copy = vma_list /\ ~panic

\* "p_flags: read/write/execute bits" (elf.h): a page of a segment may be used in
\* the ways its header names, and in no other.
PermsExact ==
  pc = "done" => \A h \in Loads, a \in Addr :
                   InFile(h, a) \/ InBss(h, a) =>
                     perm[rounddown(a)] = h.p_flags \cup (IF "W" \in h.p_flags THEN {"R"} ELSE {})
=============================================================================
