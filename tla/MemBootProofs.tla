--------------------------- MODULE MemBootProofs ---------------------------
(***************************************************************************)
(* Memory while the kernel starts, for every number of pages, of pages of  *)
(* the area and of frames: through the tests of the allocator and test_swap *)
(* the free list stays exact and keeps the promise of PageSpec, and the    *)
(* pager works with the very pages that test_swap gave it.                 *)
(*                                                                         *)
(* The allocator is proved about separately (BestFitProofs), the pager in  *)
(* the first part of this module; what is left is that they agree on the   *)
(* free frames, and that is because best fit takes pages from a single gap *)
(* in order.                                                               *)
(***************************************************************************)
EXTENDS MemBoot, FiniteSetTheorems, SequenceTheorems, TLAPS

-----------------------------------------------------------------------------
(* The pager by itself: its own Spec and assumption, and nothing of the    *)
(* allocator.  The kernel's own accesses, as test_swap makes them, for     *)
(* every number of pages and frames: no frame is lost or shared, no ASSERT *)
(* of swap_out, swap_in or fifo_swap_out_page fails, and the program       *)
(* cannot tell that its pages are moved.                                   *)

\* What FramesExact needs to be inductive: every entry of the FIFO, not only the
\* entries of the pages in use, leads back to the pte that swap_out must clear;
\* no frame is in the FIFO twice; and the page whose fault waits for swap_out is
\* not mapped meanwhile.  A page on the disk has a content there.
FifoExact ==
  /\ \A i \in 1 .. Len(pra) : /\ pra_addr[pra[i]] \in VA
                              /\ frame[pra_addr[pra[i]]] = pra[i]
  /\ \A i, j \in 1 .. Len(pra) : pra[i] = pra[j] => i = j

PagingInv ==
  /\ FramesExact
  /\ FifoExact
  /\ IsFiniteSet(Mapped)
  /\ \A v \in swapped : disk[v] \in Values
  /\ handling # NULL => frame[handling] = NULL

\* Nothing is mapped before the test of swapping begins.
LEMMA PagingInit == ASSUME ~UserMode, Init PROVE PagingInv
<1>1. Mapped = {}
  BY PagingAssumption DEF Init, Mapped
<1>2. pra = <<>> /\ Len(pra) = 0
  BY DEF Init
<1>a. <<>> \in Seq(Frames)
  OBVIOUS
<1>3. TypeOK
  BY <1>a, PagingAssumption, Zenon DEF Init, TypeOK
<1>4. \A v \in VA : frame[v] = NULL
  BY <1>1 DEF Mapped
<1>5. free = Frames \ { frame[v] : v \in Mapped }
  BY <1>1, <1>4, PagingAssumption DEF Init
<1>6. FramesExact
  BY <1>1, <1>2, <1>3, <1>5, FS_EmptySet DEF FramesExact, Init
<1>7. FifoExact
  BY <1>2 DEF FifoExact
<1> QED
  BY <1>1, <1>6, <1>7, FS_EmptySet DEF PagingInv, Init

\* An access that is let through changes no table.
LEMMA AccessKeeps == ASSUME ~UserMode, PagingInv, NEW v \in VA,
                            Read(v) \/ \E x \in Values : Write(v, x)
                     PROVE  PagingInv'
<1>1. /\ frame' = frame /\ swapped' = swapped /\ user' = user /\ disk' = disk
      /\ free' = free /\ pra' = pra /\ pra_addr' = pra_addr /\ handling' = handling
      /\ panic' = panic /\ retry' = NULL
  BY DEF Read, Write, table
<1>2. content' \in [Frames -> Values]
  BY DEF Read, Write, PagingInv, FramesExact, TypeOK
<1>3. Mapped' = Mapped
  BY <1>1 DEF Mapped
<1>4. FramesExact'
  BY <1>1, <1>2, <1>3 DEF PagingInv, FramesExact, TypeOK
<1>5. FifoExact'
  BY <1>1 DEF PagingInv, FifoExact
<1> QED
  BY <1>1, <1>3, <1>4, <1>5 DEF PagingInv

\* What swap_out finds: the oldest entry of a FIFO that is not empty, with the
\* pte of its page valid.
LEMMA VictimFound == ASSUME ~UserMode, PagingInv, free = {}
                     PROVE  /\ pra # <<>> /\ Len(pra) \in Nat /\ Len(pra) > 0
                            /\ Victim \in Frames /\ pra_addr[Victim] \in Mapped
                            /\ frame[pra_addr[Victim]] = Victim
<1>1. pra \in Seq(Frames) /\ Len(pra) \in Nat
  BY DEF PagingInv, FramesExact, TypeOK
<1>2. PICK f \in Frames : TRUE
  BY PagingAssumption
<1>3. PICK v \in Mapped : f = frame[v]
  BY <1>2 DEF PagingInv, FramesExact
<1>4. PICK i \in 1 .. Len(pra) : pra[i] = f
  BY <1>3 DEF PagingInv, FramesExact
<1>5. Len(pra) > 0 /\ Len(pra) \in 1 .. Len(pra)
  BY <1>1, <1>4
<1>6. Victim \in Frames
  BY <1>1, <1>5 DEF Victim
<1>7. pra_addr[Victim] \in VA /\ frame[pra_addr[Victim]] = Victim
  BY <1>5 DEF PagingInv, FifoExact, Victim
<1>8. Victim # NULL
  BY <1>6, PagingAssumption
<1> QED
  BY <1>1, <1>5, <1>6, <1>7, <1>8 DEF Mapped

\* The page that swap_out takes the frame from: afterwards it is on the disk, the
\* frame is free, and the fault goes on with it.
LEMMA SwapOutKeeps == ASSUME ~UserMode, PagingInv, NEW v \in VA, SwapOut(v)
                      PROVE  PagingInv'
<1> DEFINE a == pra_addr[Victim]
           n == Len(pra)
<1>1. free = {} /\ frame[v] = NULL
  BY DEF SwapOut, Accessible
<1>2. /\ pra # <<>> /\ n \in Nat /\ n > 0
      /\ Victim \in Frames /\ a \in Mapped /\ frame[a] = Victim
  BY <1>1, VictimFound
<1>3. a \in VA /\ a # v /\ frame[a] # NULL /\ v # NULL
  BY <1>1, <1>2, PagingAssumption DEF Mapped
<1>4. panic' = FALSE
  BY <1>2, <1>3 DEF SwapOut
<1>5. /\ frame' = [w \in VA |-> IF w = a THEN NULL ELSE frame[w]]
      /\ swapped' = swapped \cup {a} /\ user' = user \ {a}
      /\ disk' = [disk EXCEPT ![a] = content[Victim]]
      /\ free' = {Victim} /\ pra' = SubSeq(pra, 1, n - 1) /\ handling' = v
      /\ content' = content /\ pra_addr' = pra_addr /\ retry' = retry
  BY <1>4 DEF SwapOut, Evicted, DiskAfter
<1>6. pra[n] = Victim
  BY DEF Victim
<1>t. TypeOK
  BY DEF PagingInv, FramesExact
<1> HIDE DEF a, n
<1>7. Mapped' = Mapped \ {a}
  BY <1>3, <1>5 DEF Mapped
<1>8. /\ pra' \in Seq(Frames) /\ Len(pra') = n - 1
      /\ \A i \in 1 .. n - 1 : pra'[i] = pra[i]
  <2>1. pra \in Seq(Frames)
    BY <1>t DEF TypeOK
  <2>2. 1 \in Int /\ n - 1 \in Int /\ n - 1 <= Len(pra)
    BY <1>2 DEF n
  <2> QED
    BY <1>2, <1>5, <2>1, <2>2, SubSeqProperties
<1>9. TypeOK'
  BY <1>t, <1>2, <1>3, <1>4, <1>5, <1>8, PagingAssumption DEF TypeOK
<1>10. free' = Frames \ { frame'[w] : w \in Mapped' }
  <2>1. \A w \in Mapped : frame[w] = Victim => w = a
    BY <1>2 DEF PagingInv, FramesExact
  <2>2. \A f \in Frames : \E w \in Mapped : f = frame[w]
    BY <1>1 DEF PagingInv, FramesExact
  <2>3. \A w \in Mapped' : frame'[w] = frame[w]
    BY <1>5, <1>7 DEF Mapped
  <2>4. \A f \in Frames : f # Victim => \E w \in Mapped' : f = frame'[w]
    BY <1>2, <1>7, <2>2, <2>3
  <2>5. \A w \in Mapped' : frame'[w] # Victim
    BY <1>7, <2>1, <2>3
  <2> QED
    BY <1>2, <1>5, <2>4, <2>5
<1>11. \A w, x \in Mapped' : frame'[w] = frame'[x] => w = x
  BY <1>5, <1>7 DEF PagingInv, FramesExact, Mapped
<1>12. Mapped' \cap swapped' = {}
  BY <1>5, <1>7 DEF PagingInv, FramesExact
<1>13. IsFiniteSet(Mapped') /\ Len(pra') = Cardinality(Mapped')
  <2>1. n = Cardinality(Mapped) /\ IsFiniteSet(Mapped)
    BY DEF PagingInv, FramesExact, n
  <2> QED
    BY <1>2, <1>7, <1>8, <2>1, FS_RemoveElement
<1>14. \A w \in Mapped' : /\ pra_addr'[frame'[w]] = w
                          /\ \E i \in 1 .. Len(pra') : pra'[i] = frame'[w]
  <2> SUFFICES ASSUME NEW w \in Mapped, w # a
               PROVE  /\ pra_addr[frame[w]] = w
                      /\ \E i \in 1 .. n - 1 : pra[i] = frame[w]
    BY <1>5, <1>7, <1>8 DEF Mapped
  <2>1. PICK i \in 1 .. n : pra[i] = frame[w]
    BY DEF PagingInv, FramesExact, n
  <2>2. frame[w] # Victim
    BY <1>2 DEF PagingInv, FramesExact
  <2>3. i \in 1 .. n - 1
    BY <1>2, <1>6, <2>1, <2>2
  <2> QED
    BY <2>1, <2>3 DEF PagingInv, FramesExact
<1>15. FifoExact'
  <2>1. \A i, j \in 1 .. n : pra[i] = pra[j] => i = j
    BY DEF PagingInv, FifoExact, n
  <2>2. \A i \in 1 .. n : pra_addr[pra[i]] \in VA /\ frame[pra_addr[pra[i]]] = pra[i]
    BY DEF PagingInv, FifoExact, n
  <2>3. \A i \in 1 .. n - 1 : i \in 1 .. n /\ pra[i] # Victim
    BY <1>2, <1>6, <2>1
  <2>4. \A i \in 1 .. n - 1 : pra_addr[pra[i]] # a
    BY <1>2, <2>2, <2>3
  <2> QED
    BY <1>5, <1>8, <2>1, <2>2, <2>3, <2>4 DEF FifoExact
<1>16. \A w \in swapped' : disk'[w] \in Values
  BY <1>2, <1>3, <1>5, <1>t DEF PagingInv, TypeOK
<1>17. handling' # NULL => frame'[handling'] = NULL
  BY <1>1, <1>3, <1>5
<1>18. FramesExact'
  BY <1>4, <1>9, <1>10, <1>11, <1>12, <1>13, <1>14 DEF FramesExact
<1> QED
  BY <1>13, <1>15, <1>16, <1>17, <1>18 DEF PagingInv

\* A fault of an unmapped page takes a free frame, which no page has, and puts it
\* at the front of the FIFO.
LEMMA FaultKeeps == ASSUME ~UserMode, PagingInv, NEW v \in VA, PageFault(v)
                    PROVE  PagingInv'
<1>1. frame[v] = NULL /\ v # NULL
  BY PagingAssumption DEF PageFault, Accessible, PagingInv
<1>2. PICK f \in free :
        /\ panic' = FALSE
        /\ frame' = [frame EXCEPT ![v] = f] /\ swapped' = swapped \ {v}
        /\ content' = [content EXCEPT ![f] = IF v \in swapped THEN disk[v] ELSE @]
        /\ free' = free \ {f} /\ pra' = <<f>> \o pra
        /\ pra_addr' = [pra_addr EXCEPT ![f] = v]
        /\ handling' = NULL /\ retry' = v /\ user' = user /\ disk' = disk
  BY <1>1 DEF PageFault
<1>t. TypeOK
  BY DEF PagingInv, FramesExact
<1>3. f \in Frames /\ f # NULL /\ \A w \in VA : frame[w] # f
  <2>1. f \in Frames
    BY <1>t DEF TypeOK
  <2>2. f # NULL
    BY <2>1, PagingAssumption
  <2> QED
    BY <2>1, <2>2 DEF PagingInv, FramesExact, Mapped
<1> DEFINE n == Len(pra)
<1>4. /\ n \in Nat /\ pra' \in Seq(Frames) /\ Len(pra') = n + 1 /\ pra'[1] = f
      /\ \A i \in 2 .. n + 1 : pra'[i] = pra[i - 1]
  <2>1. pra \in Seq(Frames) /\ <<f>> \in Seq(Frames) /\ Len(<<f>>) = 1 /\ <<f>>[1] = f
    BY <1>t, <1>3 DEF TypeOK
  <2> QED
    BY <1>2, <2>1
<1>5. \A i \in 1 .. n : i + 1 \in 2 .. n + 1 /\ pra'[i + 1] = pra[i]
  BY <1>4
<1> HIDE DEF n
<1>6. Mapped' = Mapped \cup {v} /\ v \notin Mapped
  BY <1>1, <1>2, <1>3, <1>t DEF Mapped, TypeOK
<1>7. \A w \in VA : frame'[w] = IF w = v THEN f ELSE frame[w]
  BY <1>2, <1>t DEF TypeOK
<1>8. TypeOK'
  <2>1. v \in swapped => disk[v] \in Values
    BY DEF PagingInv
  <2>2. content' \in [Frames -> Values]
    BY <1>2, <1>3, <1>t, <2>1 DEF TypeOK
  <2> QED
    BY <1>2, <1>3, <1>4, <1>t, <2>2 DEF TypeOK
<1>9. free' = Frames \ { frame'[w] : w \in Mapped' }
  <2>1. free = Frames \ { frame[w] : w \in Mapped }
    BY DEF PagingInv, FramesExact
  <2>2. { frame'[w] : w \in Mapped' } = { frame[w] : w \in Mapped } \cup {f}
    BY <1>6, <1>7 DEF Mapped
  <2> QED
    BY <1>2, <2>1, <2>2
<1>10. \A w, x \in Mapped' : frame'[w] = frame'[x] => w = x
  BY <1>3, <1>6, <1>7 DEF PagingInv, FramesExact, Mapped
<1>11. Mapped' \cap swapped' = {}
  BY <1>2, <1>6 DEF PagingInv, FramesExact
<1>12. IsFiniteSet(Mapped') /\ Len(pra') = Cardinality(Mapped')
  <2>1. n = Cardinality(Mapped) /\ IsFiniteSet(Mapped)
    BY DEF PagingInv, FramesExact, n
  <2> QED
    BY <1>4, <1>6, <2>1, FS_AddElement
<1>13. \A g \in Frames : pra_addr'[g] = IF g = f THEN v ELSE pra_addr[g]
  BY <1>2, <1>t DEF TypeOK
<1>14. \A w \in Mapped' : /\ pra_addr'[frame'[w]] = w
                          /\ \E i \in 1 .. Len(pra') : pra'[i] = frame'[w]
  <2> TAKE w \in Mapped'
  <2>1. CASE w = v
    <3>1. frame'[w] = f /\ 1 \in 1 .. Len(pra')
      BY <1>4, <1>7, <2>1
    <3> QED
      BY <1>3, <1>4, <1>13, <2>1, <3>1
  <2>2. CASE w # v
    <3>1. w \in Mapped /\ w \in VA /\ frame'[w] = frame[w] /\ frame[w] \in Frames
      BY <1>6, <1>7, <1>t, <2>2 DEF Mapped, TypeOK
    <3>2. PICK i \in 1 .. n : pra[i] = frame[w]
      BY <3>1 DEF PagingInv, FramesExact, n
    <3>3. i + 1 \in 1 .. Len(pra') /\ pra'[i + 1] = frame'[w]
      BY <1>4, <1>5, <3>1, <3>2
    <3>4. pra_addr'[frame'[w]] = w
      BY <1>3, <1>13, <3>1 DEF PagingInv, FramesExact
    <3> QED
      BY <3>3, <3>4
  <2> QED
    BY <2>1, <2>2
<1>15. FifoExact'
  <2>1. \A i \in 1 .. n : /\ pra[i] \in Frames /\ pra_addr[pra[i]] \in VA
                          /\ frame[pra_addr[pra[i]]] = pra[i]
    BY <1>t DEF PagingInv, FifoExact, n, TypeOK
  <2>2. \A i \in 1 .. n : pra[i] # f /\ pra_addr[pra[i]] # v
    BY <1>1, <1>3, <2>1, PagingAssumption
  <2>3. \A i, j \in 1 .. n : pra[i] = pra[j] => i = j
    BY DEF PagingInv, FifoExact, n
  <2>4. \A i \in 1 .. n + 1 : i = 1 \/ (i - 1 \in 1 .. n /\ pra'[i] = pra[i - 1])
    BY <1>4
  <2>5. \A i \in 1 .. n + 1 : /\ pra_addr'[pra'[i]] \in VA
                              /\ frame'[pra_addr'[pra'[i]]] = pra'[i]
    BY <1>3, <1>4, <1>7, <1>13, <2>1, <2>2, <2>4
  <2>6. \A i, j \in 1 .. n + 1 : pra'[i] = pra'[j] => i = j
    BY <1>4, <2>2, <2>3, <2>4
  <2> QED
    BY <1>4, <2>5, <2>6 DEF FifoExact
<1>16. FramesExact'
  BY <1>2, <1>8, <1>9, <1>10, <1>11, <1>12, <1>14 DEF FramesExact
<1> QED
  BY <1>2, <1>12, <1>15, <1>16 DEF PagingInv

\* Every step of a fault and every access keeps the invariant.
LEMMA PagingStep == ASSUME ~UserMode, PagingInv, [Next]_vars PROVE PagingInv'
<1>1. CASE Next
  <2>1. PICK v \in VA : \/ Read(v) \/ SwapOut(v) \/ PageFault(v)
                        \/ \E x \in Values : Write(v, x)
    BY <1>1 DEF Next
  <2> QED
    BY <2>1, AccessKeeps, SwapOutKeeps, FaultKeeps
<1>2. CASE UNCHANGED vars
  <2>1. Mapped' = Mapped
    BY <1>2 DEF vars, table, Mapped
  <2>2. FramesExact' /\ FifoExact'
    BY <1>2, <2>1 DEF vars, table, PagingInv, FramesExact, FifoExact, TypeOK
  <2> QED
    BY <1>2, <2>1, <2>2 DEF vars, table, PagingInv
<1> QED
  BY <1>1, <1>2

\* swap_out, swap_in and fifo_swap_out_page, with handle_page_fault around them,
\* neither lose nor share a frame, and none of their ASSERTs fails, whatever the
\* kernel accesses and in whatever order.
THEOREM FramesExactHolds == ASSUME ~UserMode PROVE Spec => []FramesExact
<1>1. Init => PagingInv
  BY PagingInit
<1>2. PagingInv /\ [Next]_vars => PagingInv'
  BY PagingStep
<1>3. PagingInv => FramesExact
  BY DEF PagingInv
<1> QED
  BY <1>1, <1>2, <1>3, PTL DEF Spec

-----------------------------------------------------------------------------
\* What the program sees in each page of the area: the mapping of Memory.
Seen == [v \in VA |-> IF frame[v] # NULL THEN content[frame[v]]
                      ELSE IF v \in swapped THEN disk[v] ELSE NULL]

\* A write to a mapped page changes that page and no other: no frame is shared.
LEMMA WriteRefines == ASSUME ~UserMode, PagingInv, NEW v \in VA, NEW x \in Values, Write(v, x)
                      PROVE  Seen[v] # NULL /\ Seen' = [Seen EXCEPT ![v] = x]
<1>t. TypeOK /\ \A w \in VA : w \in Mapped <=> frame[w] # NULL
  BY DEF PagingInv, FramesExact, Mapped
<1>1. /\ frame[v] # NULL /\ frame' = frame /\ swapped' = swapped /\ disk' = disk
      /\ content' = [content EXCEPT ![frame[v]] = x]
  BY DEF Write, Accessible, table
<1>2. \A w \in VA : frame[w] # NULL => frame[w] \in Frames
  BY <1>t DEF TypeOK
<1>3. Seen[v] = content[frame[v]] /\ content[frame[v]] \in Values
  BY <1>1, <1>2, <1>t DEF Seen, TypeOK
<1>4. \A w \in VA : w # v => frame[w] # frame[v]
  BY <1>1, <1>t DEF PagingInv, FramesExact
<1>5. \A w \in VA : Seen'[w] = IF w = v THEN x ELSE Seen[w]
  BY <1>1, <1>2, <1>4, <1>t DEF Seen, TypeOK
<1> QED
  BY <1>3, <1>5, PagingAssumption DEF Seen

\* swap_out moves a page to the disk and no content changes.
LEMMA SwapOutRefines == ASSUME ~UserMode, PagingInv, NEW v \in VA, SwapOut(v)
                        PROVE  Seen' = Seen
<1> DEFINE a == pra_addr[Victim]
<1>1. free = {}
  BY DEF SwapOut
<1>2. /\ pra # <<>> /\ Victim \in Frames /\ a \in Mapped /\ frame[a] = Victim
  BY <1>1, VictimFound
<1>3. a \in VA /\ frame[a] # NULL
  BY <1>2 DEF Mapped
<1>4. panic' = FALSE
  BY <1>2, <1>3 DEF SwapOut
<1>5. /\ frame' = [w \in VA |-> IF w = a THEN NULL ELSE frame[w]]
      /\ swapped' = swapped \cup {a} /\ disk' = [disk EXCEPT ![a] = content[Victim]]
      /\ content' = content
  BY <1>4 DEF SwapOut, Evicted, DiskAfter
<1>6. disk \in [VA -> Values \cup {NULL}]
  BY DEF PagingInv, FramesExact, TypeOK
<1> HIDE DEF a
<1>7. \A w \in VA : Seen'[w] = Seen[w]
  BY <1>2, <1>3, <1>5, <1>6 DEF Seen
<1> QED
  BY <1>7 DEF Seen

\* A fault brings back what the page held, or, if it never held anything, gives it
\* a page that has not been cleared.
LEMMA FaultRefines == ASSUME ~UserMode, PagingInv, NEW v \in VA, PageFault(v)
                      PROVE  \/ Seen' = Seen
                             \/ Seen[v] = NULL /\ \E x \in Values : Seen' = [Seen EXCEPT ![v] = x]
<1>t. TypeOK
  BY DEF PagingInv, FramesExact
<1>1. frame[v] = NULL
  BY PagingAssumption DEF PageFault, Accessible, PagingInv
<1>2. PICK f \in free :
        /\ frame' = [frame EXCEPT ![v] = f] /\ swapped' = swapped \ {v} /\ disk' = disk
        /\ content' = [content EXCEPT ![f] = IF v \in swapped THEN disk[v] ELSE @]
  BY <1>1 DEF PageFault
<1>3. f \in Frames /\ f # NULL /\ \A w \in VA : frame[w] # f
  <2>1. f \in Frames
    BY <1>t DEF TypeOK
  <2>2. f # NULL
    BY <2>1, PagingAssumption
  <2> QED
    BY <2>1, <2>2 DEF PagingInv, FramesExact, Mapped
<1>4. \A w \in VA : frame[w] # NULL => frame[w] \in Frames
  BY <1>t DEF TypeOK
<1>5. \A w \in VA : w # v => Seen'[w] = Seen[w]
  BY <1>2, <1>3, <1>4, <1>t DEF Seen, TypeOK
<1>6. Seen'[v] = IF v \in swapped THEN disk[v] ELSE content[f]
  BY <1>2, <1>3, <1>t DEF Seen, TypeOK
<1>7. content[f] \in Values
  BY <1>3, <1>t DEF TypeOK
<1>8. Seen[v] = IF v \in swapped THEN disk[v] ELSE NULL
  BY <1>1 DEF Seen
<1>9. CASE v \in swapped
  <2>1. \A w \in VA : Seen'[w] = Seen[w]
    BY <1>5, <1>6, <1>8, <1>9
  <2> QED
    BY <2>1 DEF Seen
<1>10. CASE v \notin swapped
  <2>1. \A w \in VA : Seen'[w] = IF w = v THEN content[f] ELSE Seen[w]
    BY <1>5, <1>6, <1>10
  <2>2. Seen' = [Seen EXCEPT ![v] = content[f]]
    BY <2>1 DEF Seen
  <2> QED
    BY <1>7, <1>8, <1>10, <2>2
<1> QED
  BY <1>9, <1>10

\* Every step of the pager is a step of the memory that MemSpec promises, or
\* cannot be seen at all.
LEMMA StepRefines == ASSUME ~UserMode, PagingInv, [Next]_vars PROVE [Memory!Next]_Seen
<1>1. CASE UNCHANGED vars
  BY <1>1 DEF vars, table, Seen
<1>2. ASSUME NEW v \in VA, Read(v) PROVE Seen' = Seen
  BY <1>2 DEF Read, table, Seen
<1>3. CASE Next
  <2>1. PICK v \in VA : \/ Read(v) \/ SwapOut(v) \/ PageFault(v)
                        \/ \E x \in Values : Write(v, x)
    BY <1>3 DEF Next
  <2>2. CASE Read(v) \/ SwapOut(v)
    BY <1>2, <2>2, SwapOutRefines
  <2>3. CASE PageFault(v)
    BY <2>3, FaultRefines DEF Memory!Next, Memory!Touch, Seen
  <2>4. CASE \E x \in Values : Write(v, x)
    BY <2>4, WriteRefines DEF Memory!Next, Memory!Write, Seen
  <2> QED
    BY <2>1, <2>2, <2>3, <2>4
<1> QED
  BY <1>1, <1>3

\* Swapping cannot be seen: with fewer frames than pages, the area of test_swap is
\* a memory that keeps what was last written to each page (swap_out and swap_in
\* write and read the same slot, and add_page maps no frame that is in use).
THEOREM KeepsMemSpecHolds == ASSUME ~UserMode PROVE Spec => KeepsMemSpec
<1>1. Init => PagingInv
  BY PagingInit
<1>2. PagingInv /\ [Next]_vars => PagingInv'
  BY PagingStep
<1>3. Init => Memory!Init
  BY PagingAssumption DEF Init, Memory!Init
<1>4. PagingInv /\ [Next]_vars => [Memory!Next]_Seen
  BY StepRefines
<1> QED
  BY <1>1, <1>2, <1>3, <1>4, PTL DEF Spec, KeepsMemSpec, Memory!Spec, Seen

-----------------------------------------------------------------------------
(* The start: allocator and pager together.                                *)

PmmP == INSTANCE BestFitProofs

\* The invariant.  While test_swap takes its pages the free ones are a single gap;
\* while it gives pages to the pager the list holds the first so many of them.
BInv ==
  /\ PagingInv /\ PmmP!PmmInv
  /\ phase \in {"boot", "take", "give", "swap", "end", "done"}
  /\ held \in Seq(Nat) /\ Len(held) <= NumEnv + NumTest
  /\ \A i \in 1 .. Len(held) : held[i] = i - 1
  /\ phase = "boot" => held = <<>> /\ lost = {}
  /\ phase \in {"boot", "take", "give"} => free = Frames
  /\ phase = "take" => PmmP!Covered(list) = Len(held) .. NumPages - 1
  /\ phase \notin {"boot", "take"} => Len(held) = NumEnv + NumTest
  /\ phase = "give" => /\ num_free <= NumTest
                       /\ PmmP!Covered(list) = NumEnv .. NumEnv + num_free - 1
  /\ phase = "swap" => free = PmmP!Covered(list)


-----------------------------------------------------------------------------
(* The module BestFit as MemBoot uses it and as BestFitProofs has it.      *)

\* Both count with the same operator.
LEMMA SameCardinality == \A S : Pmm!Cardinality(S) = PmmP!Cardinality(S) /\ Cardinality(S) = PmmP!Cardinality(S)
BY DEF Pmm!Cardinality, PmmP!Cardinality, Cardinality

\* alloc_pages, where it finds a block.
LEMMA SameAlloc == \A n : Pmm!AllocPages(n) <=> PmmP!AllocPages(n)
BY DEF Pmm!AllocPages, PmmP!AllocPages, Pmm!Best, PmmP!Best, Pmm!Splice, PmmP!Splice,
       Pmm!Fits, PmmP!Fits, Pmm!CanAlloc, PmmP!CanAlloc, Pmm!Run, PmmP!Run, Pmm!Pages, PmmP!Pages

\* alloc_pages, where it finds none.
LEMMA SameFails == \A n : Pmm!AllocFails(n) <=> PmmP!AllocFails(n)
BY DEF Pmm!AllocFails, PmmP!AllocFails, Pmm!CanAlloc, PmmP!CanAlloc, Pmm!Fits, PmmP!Fits,
       Pmm!area, PmmP!area

\* free_pages.
LEMMA SameFree == \A b, n : Pmm!FreePages(b, n) <=> PmmP!FreePages(b, n)
BY DEF Pmm!Place, PmmP!Place, Pmm!FreePages, PmmP!FreePages, Pmm!JoinsPrev, PmmP!JoinsPrev,
       Pmm!JoinsNext, PmmP!JoinsNext, Pmm!Splice, PmmP!Splice, Pmm!Run, PmmP!Run,
       Pmm!Pages, PmmP!Pages

\* The pages of a list.
LEMMA SameCovered == \A l : Pmm!Covered(l) = PmmP!Covered(l)
BY DEF Pmm!Covered, PmmP!Covered, Pmm!Run, PmmP!Run, Pmm!Blocks, PmmP!Blocks

\* The list is put aside and back.
LEMMA SameArea == /\ Pmm!SaveArea <=> PmmP!SaveArea
                  /\ Pmm!RestoreArea <=> PmmP!RestoreArea
                  /\ Pmm!TestsRestore <=> PmmP!TestsRestore
BY SameCovered DEF Pmm!SaveArea, PmmP!SaveArea, Pmm!RestoreArea, PmmP!RestoreArea,
       Pmm!TestsRestore, PmmP!TestsRestore

\* The state init_page leaves.
LEMMA SameInit == Pmm!Init <=> PmmP!Init
BY DEF Pmm!Init, PmmP!Init, Pmm!Pages, PmmP!Pages

\* The calls of the tests of best_fit_pmm.c.
LEMMA SameNext == Pmm!Next <=> PmmP!Next
BY SameAlloc, SameFails, SameFree, SameArea DEF Pmm!Next, PmmP!Next, Pmm!Pages, PmmP!Pages

\* The pages of the list that is put aside.
LEMMA SameAside == Pmm!Aside = PmmP!Aside
BY SameCovered DEF Pmm!Aside, PmmP!Aside

\* What is said of the list.
LEMMA SameListExact == Pmm!ListExact <=> PmmP!ListExact
BY SameCardinality, SameCovered, SameAside
   DEF Pmm!ListExact, PmmP!ListExact, Pmm!TypeOK, PmmP!TypeOK, Pmm!Merged, PmmP!Merged,
       Pmm!Blocks, PmmP!Blocks, Pmm!Pages, PmmP!Pages

\* What PageSpec allows.
LEMMA SamePromise == /\ Pmm!Promise!Init <=> PmmP!Promise!Init
                     /\ [Pmm!Promise!Next]_(Pmm!Promise!vars) <=> [PmmP!Promise!Next]_(PmmP!Promise!vars)
<1>1. Pmm!Covered(list) = PmmP!Covered(list) /\ Pmm!Aside = PmmP!Aside
  BY SameCovered, SameAside
<1>2. Pmm!Covered(list)' = PmmP!Covered(list)' /\ Pmm!Aside' = PmmP!Aside'
  BY DEF Pmm!Covered, PmmP!Covered, Pmm!Run, PmmP!Run, Pmm!Blocks, PmmP!Blocks,
         Pmm!Aside, PmmP!Aside
<1>3. Pmm!Promise!Init <=> PmmP!Promise!Init
  BY <1>1 DEF Pmm!Promise!Init, PmmP!Promise!Init
<1>4. Pmm!Promise!vars' = Pmm!Promise!vars <=> PmmP!Promise!vars' = PmmP!Promise!vars
  BY <1>1, <1>2 DEF Pmm!Promise!vars, PmmP!Promise!vars
<1>g. \A n : Pmm!Promise!Gaps(n) = PmmP!Promise!Gaps(n)
  BY <1>1 DEF Pmm!Promise!Gaps, PmmP!Promise!Gaps, Pmm!Promise!Run, PmmP!Promise!Run
<1>a. \A n : Pmm!Promise!Alloc(n) <=> PmmP!Promise!Alloc(n)
  BY <1>1, <1>2, <1>g DEF Pmm!Promise!Alloc, PmmP!Promise!Alloc, Pmm!Promise!Run, PmmP!Promise!Run
<1>r. \A n : Pmm!Promise!Refuse(n) <=> PmmP!Promise!Refuse(n)
  BY <1>1, <1>2, <1>g DEF Pmm!Promise!Refuse, PmmP!Promise!Refuse
<1>f. \A b, n : Pmm!Promise!Free(b, n) <=> PmmP!Promise!Free(b, n)
  BY <1>1, <1>2 DEF Pmm!Promise!Free, PmmP!Promise!Free, Pmm!Promise!Run, PmmP!Promise!Run
<1>5. Pmm!Promise!Next <=> PmmP!Promise!Next
  BY <1>1, <1>2, <1>a, <1>r, <1>f DEF Pmm!Promise!Next, PmmP!Promise!Next,
     Pmm!Promise!PutAside, PmmP!Promise!PutAside, Pmm!Promise!PutBack, PmmP!Promise!PutBack
<1> QED
  BY <1>3, <1>4, <1>5


-----------------------------------------------------------------------------
\* What the constants of the start are.
LEMMA BootConstants ==
  /\ ~UserMode /\ PmmP!PmmConstants /\ Sizes \subseteq Nat \ {0} /\ 1 \in Sizes
  /\ NumPages \in Nat /\ NumEnv \in Nat /\ NumTables \in 0 .. NumEnv /\ NumTest \in Nat
  /\ NumEnv + NumTest <= NumPages /\ Frames = NumEnv .. NumEnv + NumTest - 1
<1>1. NumTest \in Nat
  BY PagingAssumption, FS_CardinalityType DEF NumTest
<1>2. PmmP!PmmConstants
  BY MemBootAssumption DEF PmmP!PmmConstants, PmmP!Pages
<1> QED
  BY <1>1, <1>2, MemBootAssumption

\* One page taken with alloc_page, as a step of PageSpec.
LEMMA TakeOne ==
  ASSUME PmmP!PmmInv, Pmm!AllocPages(1)
  PROVE  /\ PmmP!PmmInv' /\ PmmP!Call
         /\ result' \in PmmP!Covered(list) /\ result' - 1 \notin PmmP!Covered(list)
         /\ PmmP!Covered(list)' = PmmP!Covered(list) \ {result'}
         /\ saved' = saved /\ lost' = lost
<1>1. PmmP!AllocPages(1)
  BY SameAlloc
<1>2. PmmP!PmmInv' /\ PmmP!Promise!Alloc(1)
  <2>1. 1 \in Nat \ {0}
    OBVIOUS
  <2> QED
    BY <1>1, <2>1, BootConstants, PmmP!AllocRefines
<1>3. PICK k, b : /\ b \in PmmP!Promise!Gaps(k)
                  /\ PmmP!Covered(list)' = PmmP!Covered(list) \ PmmP!Promise!Run(b, 1)
                  /\ result' = b
  BY <1>2 DEF PmmP!Promise!Alloc
<1>4. b \in PmmP!Covered(list) /\ b - 1 \notin PmmP!Covered(list)
  BY <1>3 DEF PmmP!Promise!Gaps
<1>5. b \in Int
  <2>1. PmmP!Covered(list) \subseteq PmmP!Pages
    BY BootConstants, PmmP!PmmFacts DEF PmmP!ListFacts
  <2> QED
    BY <1>4, <2>1 DEF PmmP!Pages
<1>6. PmmP!Promise!Run(b, 1) = {b}
  BY <1>5 DEF PmmP!Promise!Run
<1>7. PmmP!Call
  BY <1>1, BootConstants DEF PmmP!Call
<1>8. saved' = saved /\ lost' = lost
  BY <1>1 DEF PmmP!AllocPages
<1> QED
  BY <1>2, <1>3, <1>4, <1>6, <1>7, <1>8

\* One page given back by free_page, as a step of PageSpec.
LEMMA GiveOne ==
  ASSUME PmmP!PmmInv, NEW b \in Int, Pmm!FreePages(b, 1)
  PROVE  /\ PmmP!PmmInv' /\ PmmP!Call
         /\ PmmP!Covered(list)' = PmmP!Covered(list) \cup {b}
         /\ num_free' = num_free + 1 /\ saved' = saved /\ lost' = lost
<1>1. PmmP!FreePages(b, 1)
  BY SameFree
<1>2. PmmP!PmmInv' /\ PmmP!Promise!Free(b, 1)
  <2>1. 1 \in Nat \ {0}
    OBVIOUS
  <2> QED
    BY <1>1, <2>1, BootConstants, PmmP!FreeRefines
<1>3. PmmP!Covered(list)' = PmmP!Covered(list) \cup {b}
  <2>1. PmmP!Promise!Run(b, 1) = {b}
    BY DEF PmmP!Promise!Run
  <2> QED
    BY <1>2, <2>1 DEF PmmP!Promise!Free
<1>4. PmmP!Call
  BY <1>1 DEF PmmP!Call
<1>5. num_free' = num_free + 1 /\ saved' = saved /\ lost' = lost
  BY <1>1 DEF PmmP!FreePages
<1> QED
  BY <1>2, <1>3, <1>4, <1>5


-----------------------------------------------------------------------------
(* The steps of the start: each is a step of the pager or none, a call of  *)
(* the allocator or none, and keeps the invariant.                         *)
Good == BInv' /\ [Next]_vars /\ (PmmP!Call \/ UNCHANGED pmm)

\* The pager rests.
LEMMA PagerRests == ASSUME BInv, UNCHANGED vars PROVE PagingInv' /\ [Next]_vars /\ free' = free
BY BootConstants, PagingStep DEF BInv, vars

\* The allocator rests.
LEMMA PmmRests == ASSUME BInv, UNCHANGED pmm
                  PROVE  /\ PmmP!PmmInv' /\ PmmP!Covered(list)' = PmmP!Covered(list)
                         /\ num_free' = num_free /\ lost' = lost
BY PmmP!AreaKept DEF BInv, pmm

\* The tests of the allocator.
LEMMA TestPmmStep == ASSUME BInv, TestPmm PROVE Good
<1>1. PagingInv' /\ [Next]_vars /\ free' = free
  BY PagerRests DEF TestPmm
<1>2. PmmP!Next /\ phase = "boot" /\ phase' = phase /\ held' = held
  BY SameNext DEF TestPmm
<1>3. PmmP!Call /\ PmmP!PmmInv'
  BY <1>2, BootConstants, PmmP!NextIsCall, PmmP!CallRefines DEF BInv
<1>4. lost' = {}
  <2>1. lost = {} /\ PmmP!PmmInv
    BY <1>2 DEF BInv
  <2>2. CASE PmmP!TestsRestore
    <3>1. num_free = 0 /\ lost' = lost \cup PmmP!Covered(list)
      BY <2>2 DEF PmmP!TestsRestore, PmmP!RestoreArea
    <3>2. num_free = Cardinality(PmmP!Covered(list)) /\ PmmP!Covered(list) \subseteq PmmP!Pages
      BY <2>1, BootConstants, PmmP!PmmFacts, SameCardinality DEF PmmP!ListFacts
    <3>3. IsFiniteSet(PmmP!Covered(list))
      <4>1. IsFiniteSet(PmmP!Pages)
        BY BootConstants, FS_Interval DEF PmmP!Pages
      <4> QED
        BY <3>2, <4>1, FS_Subset
    <3>4. PmmP!Covered(list) = {}
      BY <3>1, <3>2, <3>3, FS_EmptySet
    <3> QED
      BY <2>1, <3>1, <3>4
  <2>3. CASE ~PmmP!TestsRestore
    <3>1. lost' = lost
      BY <1>2, <2>3 DEF PmmP!Next, PmmP!AllocPages, PmmP!AllocFails, PmmP!FreePages, PmmP!SaveArea
    <3> QED
      BY <2>1, <3>1
  <2> QED
    BY <2>2, <2>3
<1>5. BInv'
  BY <1>1, <1>2, <1>3, <1>4 DEF BInv
<1> QED
  BY <1>1, <1>3, <1>5 DEF Good

\* When test_swap begins, everything is one gap again.
LEMMA BeginTestStep == ASSUME BInv, BeginTest PROVE Good
<1>1. PagingInv' /\ [Next]_vars /\ free' = free
  BY PagerRests DEF BeginTest
<1>2. /\ PmmP!PmmInv' /\ PmmP!Covered(list)' = PmmP!Covered(list) /\ UNCHANGED pmm
  BY PmmRests DEF BeginTest
<1>3. /\ phase = "boot" /\ used = {} /\ saved = NULL /\ phase' = "take" /\ held' = held
      /\ held = <<>> /\ lost = {} /\ PmmP!PmmInv /\ free = Frames
  BY DEF BeginTest, BInv
<1>4. PmmP!Covered(list) = 0 .. NumPages - 1
  <2>1. PmmP!Covered(list) \cup PmmP!Aside = (PmmP!Pages \ lost) \ used
    BY <1>3, BootConstants, PmmP!PmmFacts
  <2>2. PmmP!Aside = {}
    BY <1>3 DEF PmmP!Aside
  <2> QED
    BY <1>3, <2>1, <2>2 DEF PmmP!Pages
<1>5. Len(held') = 0 /\ held' \in Seq(Nat)
  BY <1>3
<1>6. BInv'
  BY <1>1, <1>2, <1>3, <1>4, <1>5, BootConstants DEF BInv
<1> QED
  BY <1>1, <1>2, <1>6 DEF Good

\* test_swap takes the first page of the gap.
LEMMA TakePageStep == ASSUME BInv, TakePage PROVE Good
<1>1. PagingInv' /\ [Next]_vars /\ free' = free
  BY PagerRests DEF TakePage
<1>2. /\ phase = "take" /\ Len(held) < NumEnv + NumTest /\ held' = Append(held, result')
      /\ phase' = phase /\ held \in Seq(Nat) /\ free = Frames
      /\ \A i \in 1 .. Len(held) : held[i] = i - 1
      /\ PmmP!Covered(list) = Len(held) .. NumPages - 1
  BY DEF TakePage, BInv
<1>3. /\ PmmP!PmmInv' /\ PmmP!Call
      /\ result' \in PmmP!Covered(list) /\ result' - 1 \notin PmmP!Covered(list)
      /\ PmmP!Covered(list)' = PmmP!Covered(list) \ {result'}
  BY TakeOne DEF TakePage, BInv
<1>4. Len(held) \in Nat /\ NumPages \in Nat
  BY <1>2, BootConstants
<1>5. result' = Len(held)
  BY <1>2, <1>3, <1>4
<1>6. held' \in Seq(Nat) /\ Len(held') = Len(held) + 1
  BY <1>2, <1>4, <1>5
<1>7. \A i \in 1 .. Len(held') : held'[i] = i - 1
  BY <1>2, <1>4, <1>5, <1>6
<1>8. PmmP!Covered(list)' = Len(held') .. NumPages - 1
  BY <1>2, <1>3, <1>4, <1>5, <1>6
<1>9. BInv'
  <2>1. Len(held') <= NumEnv + NumTest
    BY <1>2, <1>4, <1>6, BootConstants
  <2> QED
    BY <1>1, <1>2, <1>3, <1>6, <1>7, <1>8, <2>1 DEF BInv
<1> QED
  BY <1>1, <1>3, <1>9 DEF Good

\* It puts the rest aside.
LEMMA EmptyAreaStep == ASSUME BInv, EmptyArea PROVE Good
<1>1. PagingInv' /\ [Next]_vars /\ free' = free
  BY PagerRests DEF EmptyArea
<1>2. /\ phase = "take" /\ Len(held) = NumEnv + NumTest /\ phase' = "give" /\ held' = held
      /\ PmmP!SaveArea /\ free = Frames /\ PmmP!PmmInv
  BY SameArea DEF EmptyArea, BInv
<1>3. PmmP!PmmInv' /\ PmmP!Covered(list)' = {} /\ num_free' = 0 /\ PmmP!Call
  BY <1>2, BootConstants, PmmP!SaveKeeps DEF PmmP!SaveArea, PmmP!Call
<1>4. NumEnv .. NumEnv + 0 - 1 = {}
  BY BootConstants
<1>5. BInv'
  BY <1>1, <1>2, <1>3, <1>4, BootConstants DEF BInv
<1> QED
  BY <1>1, <1>3, <1>5 DEF Good


\* The pages of the test are the frames of the pager, in order.
LEMMA TestPagesAre ==
  ASSUME held \in Seq(Nat), Len(held) = NumEnv + NumTest,
         \A i \in 1 .. Len(held) : held[i] = i - 1
  PROVE  /\ TestPages \in Seq(Nat) /\ Len(TestPages) = NumTest
         /\ \A i \in 1 .. NumTest : TestPages[i] = NumEnv + i - 1
         /\ ToSet(TestPages) = Frames
         /\ GivenBack \in Seq(Nat)
<1>c. NumEnv \in Nat /\ NumTest \in Nat /\ NumTables \in 0 .. NumEnv
      /\ Frames = NumEnv .. NumEnv + NumTest - 1
  BY BootConstants
<1>1. /\ TestPages \in Seq(Nat) /\ Len(TestPages) = NumTest
      /\ \A i \in 1 .. NumTest : TestPages[i] = held[NumEnv + i]
  <2>1. PICK m \in Int, n \in Int : m = NumEnv + 1 /\ n = NumEnv + NumTest
    BY <1>c
  <2>2. \A i \in m .. n : held[i] \in Nat
    BY <1>c, <2>1
  <2>3. /\ SubSeq(held, m, n) \in Seq(Nat)
        /\ Len(SubSeq(held, m, n)) = IF m <= n THEN n - m + 1 ELSE 0
        /\ \A i \in 1 .. n - m + 1 : SubSeq(held, m, n)[i] = held[m + i - 1]
    BY <2>2, SubSeqProperties
  <2>4. TestPages = SubSeq(held, m, n)
    BY <2>1 DEF TestPages
  <2>5. n - m + 1 = NumTest /\ \A i \in 1 .. NumTest : m + i - 1 = NumEnv + i
    BY <1>c, <2>1
  <2>6. /\ TestPages \in Seq(Nat)
        /\ Len(TestPages) = IF m <= n THEN n - m + 1 ELSE 0
        /\ \A i \in 1 .. n - m + 1 : TestPages[i] = held[m + i - 1]
    BY <2>3, <2>4, Zenon
  <2>7. Len(TestPages) = NumTest
    BY <1>c, <2>1, <2>5, <2>6
  <2>8. ASSUME NEW i \in 1 .. NumTest PROVE TestPages[i] = held[NumEnv + i]
    <3>1. i \in 1 .. n - m + 1 /\ m + i - 1 = NumEnv + i
      BY <2>5
    <3> QED
      BY <2>6, <3>1, Zenon
  <2> QED
    BY <2>6, <2>7, <2>8
<1>2. \A i \in 1 .. NumTest : NumEnv + i \in 1 .. Len(held) /\ held[NumEnv + i] = NumEnv + i - 1
  BY <1>c
<1>3. \A i \in 1 .. NumTest : TestPages[i] = NumEnv + i - 1
  BY <1>1, <1>2
<1>4. ToSet(TestPages) = Frames
  <2>1. ToSet(TestPages) = { TestPages[i] : i \in 1 .. NumTest }
    <3>1. DOMAIN TestPages = 1 .. NumTest
      BY <1>1
    <3> QED
      BY <3>1 DEF ToSet
  <2>2. ASSUME NEW f \in Frames PROVE f \in { TestPages[i] : i \in 1 .. NumTest }
    <3>1. f - NumEnv + 1 \in 1 .. NumTest /\ f = NumEnv + (f - NumEnv + 1) - 1
      BY <1>c
    <3> QED
      BY <1>3, <3>1
  <2>3. \A i \in 1 .. NumTest : TestPages[i] \in Frames
    BY <1>3, <1>c
  <2> QED
    BY <2>1, <2>2, <2>3
<1>5. GivenBack \in Seq(Nat)
  <2> DEFINE s == SubSeq(held, 1, NumEnv - NumTables)
  <2>0. 1 \in Int /\ NumEnv - NumTables \in Int /\ \A i \in 1 .. NumEnv - NumTables : held[i] \in Nat
    BY <1>c
  <2>1. s \in Seq(Nat)
    BY <2>0, SubSeqProperties
  <2>2. Reverse(s) \in Seq(Nat)
    <3> HIDE DEF s
    <3>1. Len(s) \in Nat /\ \A i \in 1 .. Len(s) : Len(s) - i + 1 \in 1 .. Len(s)
      BY <2>1
    <3>2. \A i \in 1 .. Len(s) : s[Len(s) - i + 1] \in Nat
      BY <2>1, <3>1
    <3> QED
      BY <3>1, <3>2 DEF Reverse
  <2> QED
    BY <1>1, <2>2, ConcatProperties DEF GivenBack
<1> QED
  BY <1>1, <1>3, <1>4, <1>5

\* Its pages become free again, in the order of their addresses.
LEMMA GivePageStep == ASSUME BInv, GivePage PROVE Good
<1>1. PagingInv' /\ [Next]_vars /\ free' = free
  BY PagerRests DEF GivePage
<1>2. /\ phase = "give" /\ num_free < NumTest /\ phase' = phase /\ held' = held
      /\ held \in Seq(Nat) /\ Len(held) = NumEnv + NumTest
      /\ \A i \in 1 .. Len(held) : held[i] = i - 1
      /\ free = Frames /\ PmmP!PmmInv
      /\ PmmP!Covered(list) = NumEnv .. NumEnv + num_free - 1
      /\ Pmm!FreePages(TestPages[num_free + 1], 1)
  BY DEF GivePage, BInv
<1>3. num_free \in Nat
  BY <1>2, BootConstants DEF PmmP!PmmInv, PmmP!ListExact, PmmP!TypeOK
<1>4. TestPages[num_free + 1] = NumEnv + num_free
  <2>1. num_free + 1 \in 1 .. NumTest
    BY <1>2, <1>3, BootConstants
  <2> QED
    BY <1>2, <1>3, <2>1, TestPagesAre, BootConstants
<1>5. /\ PmmP!PmmInv' /\ PmmP!Call /\ num_free' = num_free + 1
      /\ PmmP!Covered(list)' = PmmP!Covered(list) \cup {NumEnv + num_free}
  <2>1. NumEnv + num_free \in Int
    BY <1>3, BootConstants
  <2> QED
    BY <1>2, <1>4, <2>1, GiveOne
<1>6. PmmP!Covered(list)' = NumEnv .. NumEnv + num_free' - 1 /\ num_free' <= NumTest
  <2> DEFINE E == NumEnv
  <2>1. E \in Nat /\ NumTest \in Nat
    BY BootConstants
  <2>2. (E .. E + num_free - 1) \cup {E + num_free} = E .. E + (num_free + 1) - 1
    BY <1>3, <2>1
  <2> QED
    BY <1>2, <1>3, <1>5, <2>1, <2>2
<1>7. BInv'
  BY <1>1, <1>2, <1>5, <1>6 DEF BInv
<1> QED
  BY <1>1, <1>5, <1>7 DEF Good

\* From here on the pager and the allocator have the same free frames.
LEMMA BeginSwapStep == ASSUME BInv, BeginSwap PROVE Good
<1>1. PagingInv' /\ [Next]_vars /\ free' = free
  BY PagerRests DEF BeginSwap
<1>2. PmmP!PmmInv' /\ PmmP!Covered(list)' = PmmP!Covered(list) /\ UNCHANGED pmm
  BY PmmRests DEF BeginSwap
<1>3. /\ phase = "give" /\ num_free = NumTest /\ phase' = "swap" /\ held' = held
      /\ PmmP!Covered(list) = NumEnv .. NumEnv + num_free - 1 /\ free = Frames
  BY DEF BeginSwap, BInv
<1>4. free' = PmmP!Covered(list)'
  BY <1>1, <1>2, <1>3, BootConstants
<1>5. BInv'
  BY <1>1, <1>2, <1>3, <1>4 DEF BInv
<1> QED
  BY <1>1, <1>2, <1>5 DEF Good


\* The accesses of the test move no frame.
LEMMA AccessStep == ASSUME BInv, NEW v \in VA, Access(v) PROVE Good
<1>1. /\ phase = "swap" /\ phase' = phase /\ held' = held /\ UNCHANGED pmm
      /\ Read(v) \/ \E x \in Values : Write(v, x)
      /\ PagingInv /\ free = PmmP!Covered(list)
  BY DEF Access, BInv
<1>2. PagingInv' /\ Next
  BY <1>1, BootConstants, AccessKeeps DEF Next
<1>3. PmmP!PmmInv' /\ PmmP!Covered(list)' = PmmP!Covered(list)
  BY <1>1, PmmRests
<1>4. free' = free
  BY <1>1 DEF Read, Write
<1>5. BInv'
  BY <1>1, <1>2, <1>3, <1>4 DEF BInv
<1> QED
  BY <1>1, <1>2, <1>5 DEF Good

\* swap_out gives the allocator the frame that the pager has become free of.
LEMMA EvictStep == ASSUME BInv, NEW v \in VA, Evict(v) PROVE Good
<1>1. /\ phase = "swap" /\ phase' = phase /\ held' = held
      /\ SwapOut(v) /\ Pmm!FreePages(Victim, 1)
      /\ PagingInv /\ PmmP!PmmInv /\ free = PmmP!Covered(list)
  BY DEF Evict, BInv
<1>2. PagingInv' /\ Next
  BY <1>1, BootConstants, SwapOutKeeps DEF Next
<1>3. free = {} /\ Victim \in Frames
  BY <1>1, BootConstants, VictimFound DEF SwapOut
<1>4. ~panic'
  BY <1>2 DEF PagingInv, FramesExact
<1>5. free' = {Victim}
  BY <1>1, <1>4 DEF SwapOut
<1>6. Victim \in Int
  BY <1>3, BootConstants
<1>7. PmmP!PmmInv' /\ PmmP!Call /\ PmmP!Covered(list)' = PmmP!Covered(list) \cup {Victim}
  BY <1>1, <1>6, GiveOne
<1>8. BInv'
  BY <1>1, <1>2, <1>3, <1>5, <1>7 DEF BInv
<1> QED
  BY <1>2, <1>7, <1>8 DEF Good

\* handle_page_fault maps the frame that alloc_page returns.
LEMMA FaultStep == ASSUME BInv, NEW v \in VA, Fault(v) PROVE Good
<1>1. /\ phase = "swap" /\ phase' = phase /\ held' = held
      /\ PageFault(v) /\ Pmm!AllocPages(1) /\ frame'[v] = result'
      /\ PagingInv /\ PmmP!PmmInv /\ free = PmmP!Covered(list)
  BY DEF Fault, BInv
<1>2. PagingInv' /\ Next
  BY <1>1, BootConstants, FaultKeeps DEF Next
<1>3. PmmP!PmmInv' /\ PmmP!Call /\ PmmP!Covered(list)' = PmmP!Covered(list) \ {result'}
  BY <1>1, TakeOne
<1>4. ~panic' /\ frame \in [VA -> Frames \cup {NULL}]
  BY <1>1, <1>2 DEF PagingInv, FramesExact, TypeOK
<1>5. free' = free \ {result'}
  <2>1. PICK f \in free : /\ panic' = (frame[v] # NULL)
                          /\ frame' = [frame EXCEPT ![v] = IF panic' THEN @ ELSE f]
                          /\ free' = free \ {f}
    BY <1>1 DEF PageFault
  <2>2. frame'[v] = f
    BY <1>4, <2>1
  <2> QED
    BY <1>1, <2>1, <2>2
<1>6. BInv'
  BY <1>1, <1>2, <1>3, <1>5 DEF BInv
<1> QED
  BY <1>2, <1>3, <1>6 DEF Good

\* The test of swapping ends; nothing moves.
LEMMA EndSwapStep == ASSUME BInv, EndSwap PROVE Good
<1>1. PagingInv' /\ [Next]_vars /\ free' = free
  BY PagerRests DEF EndSwap
<1>2. PmmP!PmmInv' /\ UNCHANGED pmm
  BY PmmRests DEF EndSwap
<1>3. phase = "swap" /\ phase' = "end" /\ held' = held
  BY DEF EndSwap
<1>4. BInv'
  BY <1>1, <1>2, <1>3 DEF BInv
<1> QED
  BY <1>1, <1>2, <1>4 DEF Good

\* The pages that test_swap gives back at its end.
LEMMA GiveBackStep == ASSUME BInv, GiveBack PROVE Good
<1>1. PagingInv' /\ [Next]_vars /\ free' = free
  BY PagerRests DEF GiveBack
<1>2. /\ phase = "end" /\ phase' = phase /\ held' = held /\ num_free < Len(GivenBack)
      /\ Pmm!FreePages(GivenBack[num_free + 1], 1)
      /\ held \in Seq(Nat) /\ Len(held) = NumEnv + NumTest
      /\ \A i \in 1 .. Len(held) : held[i] = i - 1
      /\ PmmP!PmmInv
  BY DEF GiveBack, BInv
<1>3. num_free \in Nat
  BY <1>2, BootConstants DEF PmmP!PmmInv, PmmP!ListExact, PmmP!TypeOK
<1>4. GivenBack[num_free + 1] \in Int
  <2>1. GivenBack \in Seq(Nat)
    BY <1>2, TestPagesAre
  <2>2. num_free + 1 \in 1 .. Len(GivenBack)
    BY <1>2, <1>3, <2>1
  <2> QED
    BY <2>1, <2>2
<1>5. PmmP!PmmInv' /\ PmmP!Call
  BY <1>2, <1>4, GiveOne
<1>6. BInv'
  BY <1>1, <1>2, <1>5 DEF BInv
<1> QED
  BY <1>1, <1>5, <1>6 DEF Good

\* test_swap puts the list back that it had put aside.
LEMMA EndTestStep == ASSUME BInv, EndTest PROVE Good
<1>1. PagingInv' /\ [Next]_vars /\ free' = free
  BY PagerRests DEF EndTest
<1>2. phase = "end" /\ phase' = "done" /\ held' = held /\ PmmP!RestoreArea /\ PmmP!PmmInv
  BY SameArea DEF EndTest, BInv
<1>3. PmmP!PmmInv' /\ PmmP!Call
  BY <1>2, BootConstants, PmmP!RestoreKeeps DEF PmmP!Call
<1>4. BInv'
  BY <1>1, <1>2, <1>3 DEF BInv
<1> QED
  BY <1>1, <1>3, <1>4 DEF Good

\* The running kernel.
LEMMA KernelRunsStep == ASSUME BInv, KernelRuns PROVE Good
<1>1. PagingInv' /\ [Next]_vars /\ free' = free
  BY PagerRests DEF KernelRuns
<1>2. phase = "done" /\ phase' = phase /\ held' = held /\ PmmP!PmmInv
  BY DEF KernelRuns, BInv
<1>3. PmmP!Call
  BY SameAlloc, SameFree, BootConstants DEF KernelRuns, PmmP!Call, Pmm!Pages
<1>4. PmmP!PmmInv'
  BY <1>2, <1>3, BootConstants, PmmP!CallRefines
<1>5. BInv'
  BY <1>1, <1>2, <1>4 DEF BInv
<1> QED
  BY <1>1, <1>3, <1>5 DEF Good


-----------------------------------------------------------------------------
(* The theorems.                                                           *)

\* The invariant holds when init_page is done.
LEMMA BootInit == ASSUME BInit PROVE BInv
<1>1. PagingInv
  BY BootConstants, PagingInit DEF BInit
<1>2. PmmP!PmmInv
  BY BootConstants, SameInit, PmmP!PmmInit DEF BInit
<1>3. phase = "boot" /\ held = <<>> /\ lost = {} /\ free = Frames
  <2>1. free = Frames \ { frame[v] : v \in VA }
    BY DEF BInit, Init
  <2>2. \A v \in VA : frame[v] = NULL
    BY BootConstants, PagingAssumption DEF BInit, Init
  <2>3. NULL \notin Frames
    BY PagingAssumption
  <2>4. free = Frames
    BY <2>1, <2>2, <2>3
  <2> QED
    BY <2>4 DEF BInit, Pmm!Init
<1>4. held \in Seq(Nat) /\ Len(held) = 0 /\ 0 <= NumEnv + NumTest
  BY <1>3, BootConstants
<1> QED
  BY <1>1, <1>2, <1>3, <1>4 DEF BInv

\* Every step of the start keeps the invariant.
LEMMA BootStep == ASSUME BInv, [BNext]_bvars PROVE Good
<1>1. CASE BNext
  BY <1>1, TestPmmStep, BeginTestStep, TakePageStep, EmptyAreaStep, GivePageStep, BeginSwapStep,
     AccessStep, EvictStep, FaultStep, EndSwapStep, GiveBackStep, EndTestStep, KernelRunsStep
     DEF BNext
<1>2. CASE UNCHANGED bvars
  <2>1. UNCHANGED vars /\ UNCHANGED pmm /\ phase' = phase /\ held' = held
    BY <1>2 DEF bvars
  <2>2. PagingInv' /\ [Next]_vars /\ free' = free
    BY <2>1, PagerRests
  <2>3. PmmP!PmmInv' /\ PmmP!Covered(list)' = PmmP!Covered(list) /\ num_free' = num_free /\ lost' = lost
    BY <2>1, PmmRests
  <2>4. BInv'
    BY <2>1, <2>2, <2>3 DEF BInv
  <2> QED
    BY <2>1, <2>2, <2>4 DEF Good
<1> QED
  BY <1>1, <1>2

\* Whatever the tests of best_fit_pmm.c, test_swap and the kernel after them ask for
\* and give back, the free list of best_fit_pmm.c and the flags and lengths of the
\* pages are exact.
THEOREM BootListExact == BSpec => []ListExact
<1>1. BInit => BInv
  BY BootInit
<1>2. BInv /\ [BNext]_bvars => BInv'
  BY BootStep DEF Good
<1>3. BInv => ListExact
  BY SameListExact DEF BInv, PmmP!PmmInv, ListExact
<1> QED
  BY <1>1, <1>2, <1>3, PTL DEF BSpec

\* The frames of the pager are the pages that test_swap has given it, its free
\* frames are what the allocator has in the list, none is lost or shared, and no
\* ASSERT of swap.c and fifo_swap.c fails.
THEOREM BootPagerExact == BSpec => []PagerExact
<1>1. BInit => BInv
  BY BootInit
<1>2. BInv /\ [BNext]_bvars => BInv'
  BY BootStep DEF Good
<1>3. BInv => PagerExact
  <2> SUFFICES ASSUME BInv PROVE PagerExact
    OBVIOUS
  <2>1. phase \in {"swap", "end"} => ToSet(TestPages) = Frames
    BY TestPagesAre DEF BInv
  <2>2. phase = "swap" => free = Pmm!Covered(list)
    BY SameCovered DEF BInv
  <2> QED
    BY <2>1, <2>2 DEF BInv, PagingInv, PagerExact
<1> QED
  BY <1>1, <1>2, <1>3, PTL DEF BSpec

\* Through all of it alloc_pages and free_pages keep the promise of PageSpec.
THEOREM BootKeepsPageSpec == BSpec => KeepsPageSpec
<1>1. BInit => BInv
  BY BootInit
<1>2. BInv /\ [BNext]_bvars => BInv'
  BY BootStep DEF Good
<1>3. BInit => Pmm!Promise!Init
  <2> SUFFICES ASSUME BInit PROVE Pmm!Promise!Init
    OBVIOUS
  <2>1. PmmP!Init
    BY SameInit DEF BInit
  <2>2. PmmP!Covered(list) = PmmP!Pages /\ PmmP!Aside = {}
    BY <2>1, BootConstants, PmmP!PmmInit
  <2>3. PmmP!Promise!Init
    BY <2>1, <2>2 DEF PmmP!Promise!Init, PmmP!Init, PmmP!Pages
  <2> QED
    BY <2>3, SamePromise
<1>4. BInv /\ [BNext]_bvars => [Pmm!Promise!Next]_(Pmm!Promise!vars)
  <2> SUFFICES ASSUME BInv, [BNext]_bvars PROVE [Pmm!Promise!Next]_(Pmm!Promise!vars)
    OBVIOUS
  <2>1. PmmP!Call \/ UNCHANGED pmm
    BY BootStep DEF Good
  <2>2. CASE PmmP!Call
    BY <2>2, BootConstants, PmmP!CallRefines, SamePromise DEF BInv
  <2>3. CASE UNCHANGED pmm
    <3>1. UNCHANGED PmmP!vars
      BY <2>3 DEF pmm, PmmP!vars, PmmP!area
    <3>2. UNCHANGED PmmP!Promise!vars
      BY <3>1, PmmP!PmmStutters DEF BInv
    <3> QED
      BY <3>2, SamePromise
  <2> QED
    BY <2>1, <2>2, <2>3
<1> QED
  BY <1>1, <1>2, <1>3, <1>4, PTL DEF BSpec, KeepsPageSpec, Pmm!KeepsPageSpec, Pmm!Promise!Spec

\* And swapping cannot be seen: with the frames that the allocator hands out, each
\* page of the area keeps what was last written to it.
THEOREM BootKeepsMemSpec == BSpec => KeepsMemSpec
<1>1. BInit => BInv
  BY BootInit
<1>2. BInv /\ [BNext]_bvars => BInv' /\ [Next]_vars
  BY BootStep DEF Good
<1>3. BInit => Memory!Init
  BY BootConstants, PagingAssumption DEF BInit, Init, Memory!Init
<1>4. BInv /\ [Next]_vars => [Memory!Next]_Seen
  BY BootConstants, StepRefines DEF BInv
<1> QED
  BY <1>1, <1>2, <1>3, <1>4, PTL DEF BSpec, KeepsMemSpec, Memory!Spec, Seen
=============================================================================
