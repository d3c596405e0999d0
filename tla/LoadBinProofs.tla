--------------------------- MODULE LoadBinProofs ---------------------------
(***************************************************************************)
(* The loader and the areas of a program, for every page size, every user  *)
(* space and all programs whose headers are in order: load_bin writes only *)
(* into the page it has just allocated and leaves exactly the image of the *)
(* file; check_vmm and the copy for a child agree with the areas.          *)
(***************************************************************************)
EXTENDS LoadBin, FiniteSetTheorems, SequenceTheorems, TLAPS

-----------------------------------------------------------------------------
(* Arithmetic of pages.                                                    *)

LEMMA Quotient == ASSUME NEW a \in Nat, NEW b \in Nat \ {0}, NEW q \in Nat, NEW r \in 0 .. b - 1,
                         a = b * q + r
                  PROVE  a \div b = q /\ a % b = r
<1>1. a \div b \in Nat /\ b * (a \div b) <= a /\ a < b * (a \div b) + b
  OBVIOUS
<1>2. a \div b = q
  <2> DEFINE d == a \div b
  <2>0. d \in Nat /\ b * d <= a /\ a < b * d + b
    BY <1>1
  <2> HIDE DEF d
  <2>1. ASSUME d < q PROVE FALSE
    <3>1. b * q >= b * (d + 1) /\ b * (d + 1) = b * d + b
      BY <2>0, <2>1
    <3> QED
      BY <2>0, <3>1
  <2>2. ASSUME d > q PROVE FALSE
    <3>1. b * d >= b * (q + 1) /\ b * (q + 1) = b * q + b
      BY <2>0, <2>2
    <3> QED
      BY <2>0, <3>1
  <2>3. d = q
    BY <2>0, <2>1, <2>2
  <2> QED
    BY <2>3 DEF d
<1>3. a % b = r
  OBVIOUS
<1> QED
  BY <1>2, <1>3

LEMMA Division == ASSUME NEW a \in Nat, NEW b \in Nat \ {0}
                  PROVE  a \div b \in Nat /\ a % b \in 0 .. b - 1 /\ a = b * (a \div b) + (a % b)
<1>1. a \div b \in Nat /\ b * (a \div b) <= a /\ a < b * (a \div b) + b
  OBVIOUS
<1> DEFINE q == a \div b
           r == a - b * q
<1> HIDE DEF q
<1>2. q \in Nat /\ b * q \in Nat /\ r \in 0 .. b - 1 /\ a = b * q + r
  BY <1>1 DEF q
<1> HIDE DEF r
<1>3. a \div b = q /\ a % b = r
  BY <1>2, Quotient, Zenon
<1> QED
  BY <1>2, <1>3

\* A set of numbers has a least one.
LEMMA Least == ASSUME NEW S, S \subseteq Nat, S # {}
               PROVE  \E z \in S : \A k \in S : z <= k
<1> DEFINE R == StrictSubsetOrdering(Nat)
           T == { 0 .. k : k \in S }
<1>1. IsWellFoundedOn(R, FiniteSubsetsOf(Nat))
  BY FS_StrictSubsetOrderingWellFounded, Zenon
<1>2. T \subseteq FiniteSubsetsOf(Nat)
  <2>1. \A k \in S : IsFiniteSet(0 .. k) /\ 0 .. k \subseteq Nat
    BY FS_Interval
  <2> QED
    BY <2>1, Zenon DEF FiniteSubsetsOf
<1>3. T # {}
  OBVIOUS
<1>4. PICK x \in T : \A y \in T : ~(<<y, x>> \in R)
  <2> HIDE DEF R, T
  <2> QED
    BY <1>1, <1>2, <1>3, WFMin, Zenon
<1>5. PICK z \in S : x = 0 .. z
  OBVIOUS
<1>6. ASSUME NEW k \in S, k < z PROVE FALSE
  <2>0. k \in Nat /\ z \in Nat
    OBVIOUS
  <2>1. 0 .. k \subseteq 0 .. z /\ z \in 0 .. z /\ z \notin 0 .. k
    BY <1>6, <2>0
  <2>2. <<0 .. k, 0 .. z>> \in R
    <3>1. 0 .. k \in SUBSET Nat /\ 0 .. z \in SUBSET Nat /\ 0 .. k # 0 .. z
      BY <2>0, <2>1
    <3> QED
      BY <2>1, <3>1, Zenon DEF StrictSubsetOrdering
  <2> QED
    BY <1>4, <1>5, <2>2
<1>7. \A k \in S : k \in Nat
  OBVIOUS
<1> QED
  BY <1>6, <1>7

LEMMA Upward == ASSUME NEW N \in Nat, NEW S \in SUBSET (0 .. N), 0 \in S,
                       \A i \in S : i < N => i + 1 \in S
                PROVE  N \in S
<1> DEFINE B == (0 .. N) \ S
<1>1. SUFFICES ASSUME B # {} PROVE FALSE
  OBVIOUS
<1>2. PICK k \in B : \A j \in B : k <= j
  <2>1. B \subseteq Nat
    OBVIOUS
  <2> HIDE DEF B
  <2> QED
    BY <1>1, <2>1, Least, Zenon
<1>3. k \in 0 .. N /\ k \notin S /\ k # 0
  BY <1>2
<1>4. k - 1 \in 0 .. N /\ k - 1 < N /\ k - 1 + 1 = k /\ ~(k <= k - 1)
  BY <1>3
<1>5. k - 1 \in S
  BY <1>2, <1>4
<1> QED
  BY <1>3, <1>4, <1>5

Aligned(a) == a \in Nat /\ a % PAGE_SIZE = 0

LEMMA Multiple == ASSUME NEW a \in Nat
                  PROVE  Aligned(a) <=> \E q \in Nat : a = PAGE_SIZE * q
<1>0. PAGE_SIZE \in Nat \ {0}
  BY VmasAssumption
<1>1. ASSUME Aligned(a) PROVE \E q \in Nat : a = PAGE_SIZE * q
  <2>1. a \div PAGE_SIZE \in Nat /\ a = PAGE_SIZE * (a \div PAGE_SIZE) + (a % PAGE_SIZE)
    BY <1>0, Division
  <2>2. PAGE_SIZE * (a \div PAGE_SIZE) \in Nat /\ a % PAGE_SIZE = 0
    BY <1>0, <1>1, <2>1 DEF Aligned
  <2> QED
    BY <2>1, <2>2
<1>2. ASSUME NEW q \in Nat, a = PAGE_SIZE * q PROVE Aligned(a)
  <2>1. a = PAGE_SIZE * q + 0 /\ 0 \in 0 .. PAGE_SIZE - 1
    BY <1>0, <1>2
  <2>2. a % PAGE_SIZE = 0
    BY <1>0, <2>1, Quotient
  <2> QED
    BY <2>2 DEF Aligned
<1> QED
  BY <1>1, <1>2

\* Pages follow each other without overlap.
LEMMA Pages ==
  /\ PAGE_SIZE \in Nat \ {0}
  /\ \A a, b : Aligned(a) /\ Aligned(b) /\ a < b => a + PAGE_SIZE <= b
  /\ \A a : Aligned(a) => a \in Nat /\ Aligned(a + PAGE_SIZE)
<1>0. PAGE_SIZE \in Nat \ {0}
  BY VmasAssumption
<1>1. ASSUME NEW a, NEW b, Aligned(a), Aligned(b), a < b PROVE a + PAGE_SIZE <= b
  <2>0. a \in Nat /\ b \in Nat
    BY <1>1 DEF Aligned
  <2>1. PICK q \in Nat : a = PAGE_SIZE * q
    BY <1>1, <2>0, Multiple
  <2>2. PICK r \in Nat : b = PAGE_SIZE * r
    BY <1>1, <2>0, Multiple
  <2>3. ASSUME r <= q PROVE FALSE
    <3>1. PAGE_SIZE * r <= PAGE_SIZE * q
      BY <1>0, <2>3
    <3> QED
      BY <1>1, <2>0, <2>1, <2>2, <3>1
  <2>4. PAGE_SIZE * r >= PAGE_SIZE * (q + 1) /\ PAGE_SIZE * (q + 1) = PAGE_SIZE * q + PAGE_SIZE
    BY <1>0, <2>3
  <2> QED
    BY <2>0, <2>1, <2>2, <2>4, <1>0
<1>2. ASSUME NEW a, Aligned(a) PROVE a \in Nat /\ Aligned(a + PAGE_SIZE)
  <2>0. a \in Nat
    BY <1>2 DEF Aligned
  <2>1. PICK q \in Nat : a = PAGE_SIZE * q
    BY <1>2, <2>0, Multiple
  <2>2. a + PAGE_SIZE = PAGE_SIZE * (q + 1) /\ q + 1 \in Nat /\ a + PAGE_SIZE \in Nat
    BY <1>0, <2>1
  <2>3. Aligned(a + PAGE_SIZE)
    BY <2>2, Multiple
  <2> QED
    BY <2>0, <2>3
<1> QED
  BY <1>0, <1>1, <1>2

\* The page of an address.
LEMMA Down ==
  ASSUME NEW a \in Nat
  PROVE  /\ Aligned(rounddown(a)) /\ rounddown(a) \in Nat
         /\ rounddown(a) <= a /\ a < rounddown(a) + PAGE_SIZE
         /\ \A m : Aligned(m) /\ m <= a /\ a < m + PAGE_SIZE => rounddown(a) = m
<1>0. PAGE_SIZE \in Nat \ {0}
  BY Pages
<1>1. /\ a \div PAGE_SIZE \in Nat /\ a % PAGE_SIZE \in 0 .. PAGE_SIZE - 1
      /\ a = PAGE_SIZE * (a \div PAGE_SIZE) + (a % PAGE_SIZE)
  BY <1>0, Division
<1>2. PAGE_SIZE * (a \div PAGE_SIZE) \in Nat
  BY <1>0, <1>1
<1>3. rounddown(a) = PAGE_SIZE * (a \div PAGE_SIZE)
  BY <1>1, <1>2 DEF rounddown
<1>4. Aligned(rounddown(a))
  BY <1>1, <1>2, <1>3, Multiple
<1>5. rounddown(a) \in Nat /\ rounddown(a) <= a /\ a < rounddown(a) + PAGE_SIZE
  BY <1>0, <1>1, <1>2 DEF rounddown
<1>6. ASSUME NEW m, Aligned(m), m <= a, a < m + PAGE_SIZE PROVE rounddown(a) = m
  <2>1. m \in Nat
    BY <1>6, Pages
  <2>2. ~(m < rounddown(a)) /\ ~(rounddown(a) < m)
    BY <1>0, <1>4, <1>5, <1>6, <2>1, Pages
  <2> QED
    BY <1>5, <2>1, <2>2
<1> QED
  BY <1>4, <1>5, <1>6

LEMMA Up ==
  ASSUME NEW a \in Nat
  PROVE  /\ Aligned(roundup(a)) /\ roundup(a) \in Nat
         /\ a <= roundup(a) /\ roundup(a) < a + PAGE_SIZE
         /\ \A m : Aligned(m) /\ a <= m => roundup(a) <= m
<1>0. PAGE_SIZE \in Nat \ {0} /\ a + PAGE_SIZE - 1 \in Nat
  BY Pages
<1> DEFINE b == a + PAGE_SIZE - 1
<1>1. roundup(a) = rounddown(b)
  BY DEF roundup
<1>2. b \in Nat
  BY <1>0
<1>3. /\ Aligned(rounddown(b)) /\ rounddown(b) \in Nat
      /\ rounddown(b) <= b /\ b < rounddown(b) + PAGE_SIZE
  <2> HIDE DEF b
  <2> QED
    BY <1>2, Down
<1>4. a <= rounddown(b) /\ rounddown(b) < a + PAGE_SIZE
  BY <1>0, <1>3
<1>5. ASSUME NEW m, Aligned(m), a <= m PROVE rounddown(b) <= m
  <2>1. m \in Nat
    BY <1>5, Pages
  <2>2. m < rounddown(b) => m + PAGE_SIZE <= rounddown(b)
    BY <1>3, <1>5, Pages
  <2> QED
    BY <1>0, <1>3, <1>4, <1>5, <2>1, <2>2
<1> QED
  BY <1>1, <1>3, <1>4, <1>5

\* The bytes of a page.
LEMMA InPage ==
  ASSUME NEW a \in Nat, NEW b \in Nat
  PROVE  b \in PageOf(a) <=> rounddown(b) = rounddown(a)
<1>1. /\ Aligned(rounddown(a)) /\ rounddown(a) \in Nat
      /\ rounddown(b) <= b /\ b < rounddown(b) + PAGE_SIZE
      /\ \A m : Aligned(m) /\ m <= b /\ b < m + PAGE_SIZE => rounddown(b) = m
  BY Down
<1>2. PAGE_SIZE \in Nat
  BY Pages
<1> QED
  BY <1>1, <1>2 DEF PageOf

LEMMA Space == /\ Aligned(USER_BEGIN) /\ Aligned(USER_STACK_BEGIN) /\ Aligned(USER_END)
               /\ 0 < USER_BEGIN /\ USER_BEGIN < USER_STACK_BEGIN /\ USER_STACK_BEGIN < USER_END
BY VmasAssumption DEF Aligned

-----------------------------------------------------------------------------
(* The list of areas.                                                      *)

\* v belongs behind the first k areas.
Spot(l, v, k) == /\ k \in 0 .. Len(l)
                 /\ \A i \in 1 .. k : l[i].vm_start < v.vm_start
                 /\ k < Len(l) => ~(l[k + 1].vm_start < v.vm_start)

LEMMA AddAt ==
  ASSUME NEW l \in Seq(Areas), NEW v \in Areas, NEW k, Spot(l, v, k)
  PROVE  /\ add_vma(l, v).list = SubSeq(l, 1, k) \o <<v>> \o SubSeq(l, k + 1, Len(l))
         /\ add_vma(l, v).panic = (\/ v.vm_start >= v.vm_end
                                   \/ k > 0 /\ l[k].vm_end > v.vm_start
                                   \/ k < Len(l) /\ v.vm_end > l[k + 1].vm_start)
<1> DEFINE below == { i \in 1 .. Len(l) : \A j \in 1 .. i : l[j].vm_start < v.vm_start }
           c == CHOOSE i \in 0 .. Len(l) : below = 1 .. i
<1>0. /\ k \in 0 .. Len(l) /\ Len(l) \in Nat /\ \A i \in 1 .. k : l[i].vm_start < v.vm_start
      /\ k < Len(l) => ~(l[k + 1].vm_start < v.vm_start)
  BY DEF Spot
<1>1. below = 1 .. k
  <2>1. \A i \in 1 .. Len(l) : i <= k => \A j \in 1 .. i : l[j].vm_start < v.vm_start
    BY <1>0
  <2>2. ASSUME NEW i \in 1 .. Len(l), i > k, \A j \in 1 .. i : l[j].vm_start < v.vm_start PROVE FALSE
    <3>1. k + 1 \in 1 .. i /\ k < Len(l)
      BY <1>0, <2>2
    <3> QED
      BY <1>0, <2>2, <3>1
  <2>3. \A i \in 1 .. Len(l) : (\A j \in 1 .. i : l[j].vm_start < v.vm_start) <=> i <= k
    BY <1>0, <2>1, <2>2
  <2>4. below = { i \in 1 .. Len(l) : i <= k }
    BY <2>3
  <2>5. { i \in 1 .. Len(l) : i <= k } = 1 .. k
    BY <1>0
  <2> QED
    BY <2>4, <2>5
<1>2. \A i \in 0 .. Len(l) : 1 .. i = 1 .. k => i = k
  <2>1. ASSUME NEW i \in 0 .. Len(l), 1 .. i = 1 .. k PROVE i = k
    <3>1. CASE i < k
      BY <1>0, <2>1, <3>1
    <3>2. CASE i > k
      BY <1>0, <2>1, <3>2
    <3> QED
      BY <1>0, <3>1, <3>2
  <2> QED
    BY <2>1
<1> HIDE DEF below
<1>3. c \in 0 .. Len(l) /\ below = 1 .. c
  BY <1>0, <1>1
<1>4. c = k
  BY <1>1, <1>2, <1>3
<1>5. add_vma(l, v) = [list  |-> SubSeq(l, 1, c) \o <<v>> \o SubSeq(l, c + 1, Len(l)),
                       panic |-> \/ v.vm_start >= v.vm_end
                                 \/ c > 0 /\ l[c].vm_end > v.vm_start
                                 \/ c < Len(l) /\ v.vm_end > l[c + 1].vm_start]
  BY DEF add_vma, below
<1> HIDE DEF c
<1> DEFINE q == SubSeq(l, 1, k) \o <<v>> \o SubSeq(l, k + 1, Len(l))
           x == (\/ v.vm_start >= v.vm_end
                 \/ k > 0 /\ l[k].vm_end > v.vm_start
                 \/ k < Len(l) /\ v.vm_end > l[k + 1].vm_start)
<1>6. add_vma(l, v) = [list |-> q, panic |-> x]
  BY <1>4, <1>5, Zenon
<1> HIDE DEF q, x
<1>7. add_vma(l, v).list = q /\ add_vma(l, v).panic = x
  BY <1>6
<1> QED
  BY <1>7 DEF q, x

\* The areas lie in user space one behind the other.
Ordered(l) ==
  /\ l \in Seq(Areas)
  /\ \A i \in 1 .. Len(l) : /\ USER_BEGIN <= l[i].vm_start /\ l[i].vm_start < l[i].vm_end
                            /\ l[i].vm_end <= USER_END
  /\ \A i, j \in 1 .. Len(l) : i < j => l[i].vm_end <= l[j].vm_start

\* An area that begins above all others, and one that does not.
LEMMA Appends ==
  ASSUME NEW l, Ordered(l), NEW v \in Areas, \A i \in 1 .. Len(l) : l[i].vm_start < v.vm_start
  PROVE  /\ add_vma(l, v).list = Append(l, v)
         /\ add_vma(l, v).panic = (\/ v.vm_start >= v.vm_end
                                   \/ \E i \in 1 .. Len(l) : l[i].vm_end > v.vm_start)
<1>0. l \in Seq(Areas) /\ Len(l) \in Nat
  BY DEF Ordered
<1>1. Spot(l, v, Len(l))
  BY <1>0 DEF Spot
<1>2. /\ add_vma(l, v).list = SubSeq(l, 1, Len(l)) \o <<v>> \o SubSeq(l, Len(l) + 1, Len(l))
      /\ add_vma(l, v).panic = (\/ v.vm_start >= v.vm_end
                                \/ Len(l) > 0 /\ l[Len(l)].vm_end > v.vm_start
                                \/ Len(l) < Len(l) /\ v.vm_end > l[Len(l) + 1].vm_start)
  BY <1>0, <1>1, AddAt
<1>3. SubSeq(l, 1, Len(l)) \o <<v>> \o SubSeq(l, Len(l) + 1, Len(l)) = Append(l, v)
  <2>1. SubSeq(l, 1, Len(l)) = l
    BY <1>0, SubSeqFull
  <2>2. SubSeq(l, Len(l) + 1, Len(l)) = << >>
    BY <1>0, SubSeqEmpty
  <2>3. l \o <<v>> = Append(l, v) /\ Append(l, v) \in Seq(Areas)
    BY <1>0
  <2> QED
    BY <2>1, <2>2, <2>3, ConcatEmptySeq
<1>4. (Len(l) > 0 /\ l[Len(l)].vm_end > v.vm_start) <=> \E i \in 1 .. Len(l) : l[i].vm_end > v.vm_start
  <2>1. ASSUME NEW i \in 1 .. Len(l), l[i].vm_end > v.vm_start
        PROVE  Len(l) > 0 /\ l[Len(l)].vm_end > v.vm_start
    <3>1. Len(l) \in 1 .. Len(l) /\ Len(l) > 0
      BY <1>0
    <3>2. l[i] \in Areas /\ l[Len(l)] \in Areas
      BY <1>0, <3>1
    <3>3. CASE i = Len(l)
      BY <2>1, <3>1, <3>3
    <3>4. CASE i < Len(l)
      <4>1. l[i].vm_end <= l[Len(l)].vm_start /\ l[Len(l)].vm_start < l[Len(l)].vm_end
        BY <3>1, <3>4 DEF Ordered
      <4> QED
        BY <2>1, <3>1, <3>2, <4>1 DEF Areas
    <3> QED
      BY <1>0, <3>3, <3>4
  <2> QED
    BY <1>0, <2>1
<1>5. ~(Len(l) < Len(l))
  BY <1>0
<1> DEFINE A == v.vm_start >= v.vm_end
           B == Len(l) > 0 /\ l[Len(l)].vm_end > v.vm_start
           C == Len(l) < Len(l) /\ v.vm_end > l[Len(l) + 1].vm_start
           D == \E i \in 1 .. Len(l) : l[i].vm_end > v.vm_start
<1>6. (A \/ B \/ C) = (A \/ D)
  <2>1. A \in BOOLEAN /\ B \in BOOLEAN /\ C \in BOOLEAN /\ D \in BOOLEAN /\ (B <=> D) /\ ~C
    BY <1>4, <1>5
  <2> HIDE DEF A, B, C, D
  <2> QED
    BY <2>1
<1> QED
  BY <1>2, <1>3, <1>6, Zenon

LEMMA Overlaps ==
  ASSUME NEW l, Ordered(l), NEW v \in Areas, NEW i \in 1 .. Len(l), ~(l[i].vm_start < v.vm_start),
         \A j \in 1 .. Len(l) : v.vm_end > l[j].vm_start
  PROVE  add_vma(l, v).panic
<1>0. l \in Seq(Areas) /\ Len(l) \in Nat
  BY DEF Ordered
<1> DEFINE S == { j \in 1 .. Len(l) : ~(l[j].vm_start < v.vm_start) }
<1>1. PICK z \in S : \A j \in S : z <= j
  <2>1. S \subseteq Nat /\ S # {}
    OBVIOUS
  <2> HIDE DEF S
  <2> QED
    BY <2>1, Least, Zenon
<1>2. z \in 1 .. Len(l) /\ \A j \in 1 .. Len(l) : j < z => l[j].vm_start < v.vm_start
  BY <1>0, <1>1
<1>3. Spot(l, v, z - 1)
  BY <1>0, <1>1, <1>2 DEF Spot
<1> DEFINE k == z - 1
<1>4. k < Len(l) /\ k + 1 \in 1 .. Len(l) /\ Spot(l, v, k)
  BY <1>0, <1>2, <1>3
<1> HIDE DEF k
<1>5. k < Len(l) /\ v.vm_end > l[k + 1].vm_start => add_vma(l, v).panic
  BY <1>0, <1>4, AddAt
<1> QED
  BY <1>4, <1>5

LEMMA Prepends ==
  ASSUME NEW l, Ordered(l), NEW v \in Areas, v.vm_start < v.vm_end,
         \A i \in 1 .. Len(l) : v.vm_end <= l[i].vm_start
  PROVE  add_vma(l, v).list = <<v>> \o l /\ ~add_vma(l, v).panic
<1>0. l \in Seq(Areas) /\ Len(l) \in Nat /\ v.vm_start \in Nat /\ v.vm_end \in Nat
  BY DEF Ordered, Areas
<1>1. \A i \in 1 .. Len(l) : l[i].vm_start \in Nat
  <2>1. \A i \in 1 .. Len(l) : l[i] \in Areas
    BY <1>0
  <2> QED
    BY <2>1 DEF Areas
<1>2. Spot(l, v, 0)
  BY <1>0, <1>1 DEF Spot
<1>3. /\ add_vma(l, v).list = SubSeq(l, 1, 0) \o <<v>> \o SubSeq(l, 0 + 1, Len(l))
      /\ add_vma(l, v).panic = (\/ v.vm_start >= v.vm_end
                                \/ 0 > 0 /\ l[0].vm_end > v.vm_start
                                \/ 0 < Len(l) /\ v.vm_end > l[0 + 1].vm_start)
  BY <1>0, <1>2, AddAt
<1>4. SubSeq(l, 1, 0) \o <<v>> \o SubSeq(l, 0 + 1, Len(l)) = <<v>> \o l
  BY <1>0
<1>5. 0 < Len(l) => ~(v.vm_end > l[0 + 1].vm_start)
  <2>1. 0 < Len(l) => 0 + 1 \in 1 .. Len(l) /\ v.vm_end <= l[0 + 1].vm_start
    BY <1>0
  <2> QED
    BY <1>0, <1>1, <2>1
<1> QED
  BY <1>0, <1>3, <1>4, <1>5

\* vma_curr is NULL or an area of the list.
Cached(l, c) == c = NULL \/ \E i \in 1 .. Len(l) : c = l[i]

\* find_vma finds the area of an address, whatever vma_curr holds.
LEMMA FindIs ==
  ASSUME NEW l, Ordered(l), NEW c, Cached(l, c), NEW a \in Nat
  PROVE  LET v == find_vma(l, c, a)
         IN /\ v = NULL => \A i \in 1 .. Len(l) : ~Has(l[i], a)
            /\ v # NULL => /\ \E i \in 1 .. Len(l) : v = l[i]
                           /\ Has(v, a)
                           /\ \A i \in 1 .. Len(l) : Has(l[i], a) => l[i] = v
            /\ Cached(l, v) /\ Cached(l, Cache(l, c, a))
<1> DEFINE v == find_vma(l, c, a)
<1>0. l \in Seq(Areas) /\ Len(l) \in Nat /\ \A i \in 1 .. Len(l) : l[i] \in Areas
  BY DEF Ordered
<1>1. \A i \in 1 .. Len(l) : l[i] # NULL
  BY <1>0, VmasAssumption
<1>2. ASSUME NEW i \in 1 .. Len(l), NEW j \in 1 .. Len(l), Has(l[i], a), Has(l[j], a) PROVE i = j
  <2>1. /\ l[i].vm_start \in Nat /\ l[i].vm_end \in Nat
        /\ l[j].vm_start \in Nat /\ l[j].vm_end \in Nat
    BY <1>0 DEF Areas
  <2>2. ~(i < j) /\ ~(j < i)
    BY <1>2, <2>1 DEF Ordered, Has
  <2> QED
    BY <1>0, <2>2
<1>3. CASE CacheHits(c, a)
  <2>1. v = c /\ c # NULL /\ Has(c, a)
    BY <1>3 DEF find_vma, CacheHits
  <2>2. PICK i \in 1 .. Len(l) : c = l[i]
    BY <2>1 DEF Cached
  <2>3. Cached(l, v) /\ Cached(l, Cache(l, c, a))
    BY <2>1 DEF Cached, Cache
  <2> HIDE DEF v
  <2> QED
    BY <1>2, <2>1, <2>2, <2>3 DEF v
<1>4. CASE ~CacheHits(c, a) /\ ~ \E i \in 1 .. Len(l) : Has(l[i], a)
  <2>1. v = NULL
    BY <1>4 DEF find_vma
  <2>2. Cached(l, v) /\ Cached(l, Cache(l, c, a))
    BY <2>1 DEF Cached, Cache
  <2> HIDE DEF v
  <2> QED
    BY <1>4, <2>1, <2>2 DEF v
<1>5. CASE ~CacheHits(c, a) /\ \E i \in 1 .. Len(l) : Has(l[i], a)
  <2> DEFINE F(i) == Has(l[i], a) /\ \A j \in 1 .. i - 1 : ~Has(l[j], a)
             k == CHOOSE i \in 1 .. Len(l) : F(i)
  <2>1. PICK i \in 1 .. Len(l) : Has(l[i], a)
    BY <1>5
  <2>2. F(i)
    <3>1. \A j \in 1 .. i - 1 : j \in 1 .. Len(l) /\ j # i
      BY <1>0
    <3> QED
      BY <1>2, <2>1, <3>1
  <2>3. v = l[k]
    BY <1>5 DEF find_vma
  <2> HIDE DEF F
  <2>4. k \in 1 .. Len(l) /\ F(k)
    BY <2>2
  <2> HIDE DEF k, v
  <2>5. Has(l[k], a)
    BY <2>4 DEF F
  <2>6. v # NULL /\ Cached(l, v)
    BY <1>1, <2>3, <2>4 DEF Cached
  <2>7. Cached(l, Cache(l, c, a))
    BY <2>6 DEF Cache, v
  <2> QED
    BY <1>2, <2>3, <2>4, <2>5, <2>6, <2>7 DEF v
<1> QED
  BY <1>3, <1>4, <1>5

\* A turn of check_vmm's loop, and of dup_vmm's.
CheckTurn(t, l, e, w) ==
  LET v == find_vma(l, t.curr, t.begin)
  IN IF ~t.ok \/ t.begin >= e THEN t
     ELSE IF ~Allowed(v, t.begin, w) THEN [t EXCEPT !.ok = FALSE, !.curr = Cache(l, t.curr, t.begin)]
     ELSE [t EXCEPT !.begin = v.vm_end, !.curr = v]

DupTurn(t, l, i) ==
  LET a == add_vma(t.list, l[Len(l) - i + 1]) IN [list |-> a.list, panic |-> a.panic \/ t.panic]

Turn(j, t, i, l, e, w) == IF j = 1 THEN CheckTurn(t, l, e, w) ELSE DupTurn(t, l, i)

\* T holds what such a loop has come to after each turn.
Turns(N, T, j, z, l, e, w) ==
  T = [i \in 0 .. N |-> IF i = 0 THEN z ELSE Turn(j, T[i - 1], i, l, e, w)]

LEMMA TurnsAt ==
  ASSUME NEW N \in Nat, NEW T, NEW j, NEW z, NEW l, NEW e, NEW w, Turns(N, T, j, z, l, e, w)
  PROVE  /\ T = [i \in 0 .. N |-> T[i]] /\ T[0] = z
         /\ \A i \in 0 .. N - 1 : T[i + 1] = Turn(j, T[i], i + 1, l, e, w)
<1>1. \A i \in 0 .. N : T[i] = IF i = 0 THEN z ELSE Turn(j, T[i - 1], i, l, e, w)
  BY DEF Turns
<1>2. ASSUME NEW i \in 0 .. N - 1 PROVE T[i + 1] = Turn(j, T[i], i + 1, l, e, w)
  <2>1. i + 1 \in 0 .. N /\ i + 1 # 0 /\ i + 1 - 1 = i
    OBVIOUS
  <2> QED
    BY <1>1, <2>1
<1>3. T = [i \in 0 .. N |-> T[i]]
  BY DEF Turns
<1>4. T[0] = z
  BY <1>1
<1> QED
  BY <1>2, <1>3, <1>4

LEMMA TurnsExist == ASSUME NEW N \in Nat, NEW j, NEW z, NEW l, NEW e, NEW w
                    PROVE  \E T : Turns(N, T, j, z, l, e, w)
<1> DEFINE K == { k \in 0 .. N : \E T : Turns(k, T, j, z, l, e, w) }
<1>1. 0 \in K
  <2> DEFINE T == [i \in 0 .. 0 |-> z]
  <2>1. T = [i \in 0 .. 0 |-> IF i = 0 THEN z ELSE Turn(j, T[i - 1], i, l, e, w)]
    OBVIOUS
  <2>2. Turns(0, T, j, z, l, e, w)
    BY <2>1 DEF Turns
  <2> QED
    BY <2>2
<1>2. ASSUME NEW k \in K, k < N PROVE k + 1 \in K
  <2>1. PICK C : Turns(k, C, j, z, l, e, w)
    OBVIOUS
  <2>2. k \in Nat /\ k + 1 \in 0 .. N
    BY <1>2
  <2> HIDE DEF K
  <2>3. C[0] = z /\ \A i \in 0 .. k - 1 : C[i + 1] = Turn(j, C[i], i + 1, l, e, w)
    BY <2>1, <2>2, TurnsAt
  <2> DEFINE T == [i \in 0 .. k + 1 |-> IF i = k + 1 THEN Turn(j, C[k], i, l, e, w) ELSE C[i]]
  <2>4. ASSUME NEW i \in 0 .. k + 1
        PROVE  T[i] = IF i = 0 THEN z ELSE Turn(j, T[i - 1], i, l, e, w)
    <3>1. CASE i = 0
      BY <2>2, <2>3, <3>1
    <3>2. CASE i = k + 1
      <4>1. i - 1 = k /\ i - 1 \in 0 .. k + 1 /\ i - 1 # k + 1 /\ i # 0
        BY <2>2, <3>2
      <4> QED
        BY <3>2, <4>1
    <3>3. CASE i # 0 /\ i # k + 1
      <4>1. /\ i - 1 \in 0 .. k - 1 /\ i - 1 \in 0 .. k + 1 /\ i - 1 # k + 1
            /\ i - 1 + 1 = i
        BY <2>2, <3>3
      <4>2. C[i] = Turn(j, C[i - 1], i, l, e, w)
        BY <2>3, <4>1
      <4> QED
        BY <3>3, <4>1, <4>2
    <3> QED
      BY <3>1, <3>2, <3>3
  <2>5. T = [i \in 0 .. k + 1 |-> T[i]]
    OBVIOUS
  <2>6. Turns(k + 1, T, j, z, l, e, w)
    <3> HIDE DEF T
    <3> QED
      BY <2>4, <2>5 DEF Turns
  <2> QED
    BY <2>2, <2>6 DEF K
<1>3. K \in SUBSET (0 .. N)
  OBVIOUS
<1>4. N \in K
  <2> HIDE DEF K
  <2> QED
    BY <1>1, <1>2, <1>3, Upward
<1> QED
  BY <1>4

LEMMA DupTurns ==
  ASSUME NEW l, Len(l) \in Nat
  PROVE  \E T : /\ Turns(Len(l), T, 2, [list |-> <<>>, panic |-> FALSE], l, 0, 0)
                /\ dup_vmm(l) = T[Len(l)]
<1> DEFINE L(T) == T = [i \in 0 .. Len(l) |->
                          IF i = 0 THEN [list |-> <<>>, panic |-> FALSE]
                          ELSE LET a == add_vma(T[i - 1].list, l[Len(l) - i + 1])
                               IN [list |-> a.list, panic |-> a.panic \/ T[i - 1].panic]]
<1>1. dup_vmm(l) = (CHOOSE T : L(T))[Len(l)]
  BY DEF dup_vmm
<1>2. ASSUME NEW T PROVE L(T) <=> Turns(Len(l), T, 2, [list |-> <<>>, panic |-> FALSE], l, 0, 0)
  BY DEF Turns, Turn, DupTurn
<1> HIDE DEF L
<1>3. \E T : L(T)
  BY <1>2, TurnsExist
<1>4. L(CHOOSE T : L(T))
  BY <1>3
<1> QED
  BY <1>1, <1>2, <1>4

LEMMA CheckTurns ==
  ASSUME NEW l, NEW c, NEW begin, NEW end, NEW w, end - begin \in Nat
  PROVE  \E T : /\ Turns(end - begin, T, 1, [begin |-> begin, curr |-> c, ok |-> TRUE], l, end, w)
                /\ check_loop(l, c, begin, end, w)
                     = [ok |-> T[end - begin].ok, curr |-> T[end - begin].curr]
<1> DEFINE z == [begin |-> begin, curr |-> c, ok |-> TRUE]
           L(T) == T = [i \in 0 .. end - begin |->
                          IF i = 0 THEN z
                          ELSE LET t == T[i - 1]
                                   v == find_vma(l, t.curr, t.begin)
                               IN IF ~t.ok \/ t.begin >= end THEN t
                                  ELSE IF ~Allowed(v, t.begin, w)
                                  THEN [t EXCEPT !.ok = FALSE, !.curr = Cache(l, t.curr, t.begin)]
                                  ELSE [t EXCEPT !.begin = v.vm_end, !.curr = v]]
<1>1. check_loop(l, c, begin, end, w)
        = [ok |-> (CHOOSE T : L(T))[end - begin].ok, curr |-> (CHOOSE T : L(T))[end - begin].curr]
  BY DEF check_loop
<1>2. ASSUME NEW T PROVE L(T) <=> Turns(end - begin, T, 1, z, l, end, w)
  BY DEF Turns, Turn, CheckTurn
<1> HIDE DEF L, z
<1>3. \E T : L(T)
  BY <1>2, TurnsExist
<1>4. L(CHOOSE T : L(T))
  BY <1>3
<1> QED
  BY <1>1, <1>2, <1>4 DEF z

\* dup_vmm copies the areas in their order, and none of add_vma's ASSERTs fails.
LEMMA DupIs == ASSUME NEW l, Ordered(l)
               PROVE  dup_vmm(l).list = l /\ dup_vmm(l).panic = FALSE
<1>0. l \in Seq(Areas) /\ Len(l) \in Nat /\ \A i \in 1 .. Len(l) : l[i] \in Areas
  BY DEF Ordered
<1> DEFINE z == [list |-> <<>>, panic |-> FALSE]
           Rest(i) == SubSeq(l, Len(l) - i + 1, Len(l))
<1>1. PICK T : Turns(Len(l), T, 2, z, l, 0, 0) /\ dup_vmm(l) = T[Len(l)]
  BY <1>0, DupTurns
<1>2. T[0] = z /\ \A i \in 0 .. Len(l) - 1 : T[i + 1] = DupTurn(T[i], l, i + 1)
  <2> HIDE DEF z
  <2>1. T[0] = z /\ \A i \in 0 .. Len(l) - 1 : T[i + 1] = Turn(2, T[i], i + 1, l, 0, 0)
    BY <1>0, <1>1, TurnsAt
  <2> QED
    BY <2>1 DEF Turn
<1> DEFINE S == { i \in 0 .. Len(l) : T[i].list = Rest(i) /\ T[i].panic = FALSE }
<1>3. 0 \in S
  <2>1. Rest(0) = << >>
    BY <1>0
  <2> QED
    <3>1. T[0].list = <<>> /\ T[0].panic = FALSE /\ 0 \in 0 .. Len(l)
      BY <1>0, <1>2
    <3> HIDE DEF Rest
    <3> QED
      BY <2>1, <3>1
<1>4. ASSUME NEW i \in S, i < Len(l) PROVE i + 1 \in S
  <2> DEFINE v == l[Len(l) - i]
  <2>0. i \in 0 .. Len(l) /\ T[i].list = Rest(i) /\ T[i].panic = FALSE /\ i \in 0 .. Len(l) - 1
    BY <1>0, <1>4
  <2>1. /\ Rest(i) \in Seq(Areas) /\ Len(Rest(i)) = i
        /\ \A j \in 1 .. i : Rest(i)[j] = l[Len(l) - i + j] /\ Len(l) - i + j \in 1 .. Len(l)
    BY <1>0, <2>0
  <2>2. Ordered(Rest(i))
    <3> DEFINE r == Rest(i)
    <3>1. ASSUME NEW j \in 1 .. i
          PROVE  /\ USER_BEGIN <= r[j].vm_start /\ r[j].vm_start < r[j].vm_end
                 /\ r[j].vm_end <= USER_END
      BY <2>1 DEF Ordered
    <3>2. ASSUME NEW j \in 1 .. i, NEW k \in 1 .. i, j < k
          PROVE  r[j].vm_end <= r[k].vm_start
      <4>1. Len(l) - i + j < Len(l) - i + k
        BY <1>0, <2>0, <3>2
      <4> QED
        BY <2>1, <4>1 DEF Ordered
    <3> HIDE DEF r
    <3> QED
      BY <2>1, <3>1, <3>2 DEF Ordered, r
  <2>3. v \in Areas /\ v.vm_start < v.vm_end /\ Len(l) - i \in 1 .. Len(l)
    BY <1>0, <2>0 DEF Ordered
  <2>4. \A j \in 1 .. Len(Rest(i)) : v.vm_end <= Rest(i)[j].vm_start
    <3>1. \A j \in 1 .. i : Len(l) - i < Len(l) - i + j
      BY <1>0, <2>0
    <3> QED
      BY <2>1, <2>3, <3>1 DEF Ordered
  <2>5. add_vma(Rest(i), v).list = <<v>> \o Rest(i) /\ ~add_vma(Rest(i), v).panic
    <3> HIDE DEF v
    <3> DEFINE r == Rest(i)
    <3>1. Ordered(r) /\ \A j \in 1 .. Len(r) : v.vm_end <= r[j].vm_start
      BY <2>2, <2>4
    <3> HIDE DEF r
    <3>2. add_vma(r, v).list = <<v>> \o r /\ ~add_vma(r, v).panic
      BY <2>3, <3>1, Prepends
    <3> QED
      BY <3>2 DEF r
  <2>6. <<v>> \o Rest(i) = Rest(i + 1)
    BY <1>0, <2>0, <2>1
  <2>7. T[i + 1] = DupTurn(T[i], l, i + 1) /\ Len(l) - (i + 1) + 1 = Len(l) - i
    BY <1>0, <1>2, <2>0
  <2> DEFINE x == add_vma(Rest(i), v)
  <2>8. T[i + 1] = [list |-> x.list, panic |-> x.panic \/ FALSE]
    BY <2>0, <2>7, Zenon DEF DupTurn
  <2>9. T[i + 1].list = Rest(i + 1) /\ T[i + 1].panic = FALSE
    <3> DEFINE p == x.panic \/ FALSE
               q == x.list
    <3>1. T[i + 1] = [list |-> q, panic |-> p]
      BY <2>8
    <3>2. p = FALSE /\ q = Rest(i + 1)
      BY <2>5, <2>6
    <3> HIDE DEF p, q, x
    <3> QED
      BY <3>1, <3>2
  <2> QED
    BY <1>0, <2>0, <2>9
<1>5. Len(l) \in S
  <2>1. S \in SUBSET (0 .. Len(l))
    OBVIOUS
  <2> HIDE DEF S
  <2> QED
    BY <1>0, <1>3, <1>4, <2>1, Upward
<1>6. Rest(Len(l)) = l
  BY <1>0
<1> QED
  BY <1>1, <1>5, <1>6

\* A byte that check_vmm lets through.
Fine(v, b, w) == /\ Has(v, b)
                 /\ (IF w THEN "W" ELSE "R") \in v.vm_flags
                 /\ w /\ "STACK" \in v.vm_flags => b >= v.vm_start + PAGE_SIZE

Good(l, b, w) == \E i \in 1 .. Len(l) : Fine(l[i], b, w)

\* What check_vmm has found out after i turns.
Checked(t, i, l, a, e, w) ==
  /\ Cached(l, t.curr) /\ t.begin \in Nat /\ t.begin >= a
  /\ t.ok = TRUE => /\ \A b \in a .. t.begin - 1 : Good(l, b, w)
                    /\ t.begin >= e \/ t.begin >= a + i
  /\ t.ok # TRUE => t.ok = FALSE /\ \E b \in a .. e - 1 : ~Good(l, b, w)

LEMMA CheckStep ==
  ASSUME NEW l, Ordered(l), NEW a \in Nat, NEW e \in Nat, NEW w \in BOOLEAN,
         NEW i \in Nat, NEW t, t = [begin |-> t.begin, curr |-> t.curr, ok |-> t.ok],
         Checked(t, i, l, a, e, w)
  PROVE  LET u == CheckTurn(t, l, e, w)
         IN /\ u = [begin |-> u.begin, curr |-> u.curr, ok |-> u.ok]
            /\ Checked(u, i + 1, l, a, e, w)
<1> DEFINE u == CheckTurn(t, l, e, w)
           v == find_vma(l, t.curr, t.begin)
<1>0. Cached(l, t.curr) /\ t.begin \in Nat /\ t.begin >= a
  BY DEF Checked
<1>1. CASE t.ok # TRUE
  <2>1. t.ok = FALSE
    BY <1>1 DEF Checked
  <2>2. u = t
    BY <2>1 DEF CheckTurn
  <2> QED
    BY <1>1, <2>2 DEF Checked
<1>2. CASE t.ok = TRUE /\ t.begin >= e
  <2>1. u = t
    BY <1>2 DEF CheckTurn
  <2> QED
    BY <1>2, <2>1 DEF Checked
<1>3. CASE t.ok = TRUE /\ t.begin < e
  <2>0. /\ v = NULL => \A j \in 1 .. Len(l) : ~Has(l[j], t.begin)
        /\ v # NULL => /\ \E j \in 1 .. Len(l) : v = l[j]
                       /\ Has(v, t.begin)
                       /\ \A j \in 1 .. Len(l) : Has(l[j], t.begin) => l[j] = v
        /\ Cached(l, v) /\ Cached(l, Cache(l, t.curr, t.begin))
    BY <1>0, FindIs
  <2>1. CASE ~Allowed(v, t.begin, w)
    <3>1. u = [t EXCEPT !.ok = FALSE, !.curr = Cache(l, t.curr, t.begin)]
      BY <1>0, <1>3, <2>1 DEF CheckTurn
    <3>2. u.ok = FALSE /\ u.curr = Cache(l, t.curr, t.begin) /\ u.begin = t.begin
          /\ u = [begin |-> u.begin, curr |-> u.curr, ok |-> u.ok]
      <4> DEFINE x == Cache(l, t.curr, t.begin)
      <4> HIDE DEF x, u
      <4> QED
        BY <3>1 DEF x
    <3>3. ~Good(l, t.begin, w) /\ t.begin \in a .. e - 1
      <4>1. ASSUME NEW j \in 1 .. Len(l), Fine(l[j], t.begin, w) PROVE FALSE
        <5>1. v # NULL /\ l[j] = v
          BY <2>0, <4>1 DEF Fine
        <5>2. Allowed(v, t.begin, w)
          BY <4>1, <5>1 DEF Fine, Allowed
        <5> QED
          BY <2>1, <5>2
      <4> QED
        BY <1>0, <1>3, <4>1 DEF Good
    <3> HIDE DEF u
    <3> QED
      BY <1>0, <2>0, <3>2, <3>3 DEF Checked, u
  <2>2. CASE Allowed(v, t.begin, w)
    <3>0. v # NULL
      BY <2>2 DEF Allowed
    <3>1. PICK j \in 1 .. Len(l) : v = l[j]
      BY <2>0, <3>0
    <3>2. v \in Areas /\ v.vm_start \in Nat /\ v.vm_end \in Nat
      <4>1. l[j] \in Areas
        BY DEF Ordered
      <4> HIDE DEF v
      <4> QED
        BY <3>1, <4>1 DEF Areas
    <3>3. Has(v, t.begin) /\ t.begin < v.vm_end
      BY <2>0, <3>0 DEF Has
    <3>4. u = [t EXCEPT !.begin = v.vm_end, !.curr = v]
      BY <1>0, <1>3, <2>2 DEF CheckTurn
    <3>5. u.ok = TRUE /\ u.curr = v /\ u.begin = v.vm_end
          /\ u = [begin |-> u.begin, curr |-> u.curr, ok |-> u.ok]
      <4> HIDE DEF u, v
      <4> QED
        BY <1>3, <3>4
    <3>6. ASSUME NEW b \in a .. v.vm_end - 1 PROVE Good(l, b, w)
      <4>1. CASE b < t.begin
        <5>1. b \in a .. t.begin - 1
          BY <1>0, <3>6, <4>1
        <5> QED
          BY <1>3, <5>1 DEF Checked
      <4>2. CASE b >= t.begin
        <5>1. Fine(v, b, w)
          <6>0. PAGE_SIZE \in Nat /\ b \in Nat
            BY <3>6, Pages
          <6> HIDE DEF v
          <6>1. Has(v, b)
            BY <1>0, <3>2, <3>3, <3>6, <4>2, <6>0 DEF Has
          <6>2. w /\ "STACK" \in v.vm_flags => b >= v.vm_start + PAGE_SIZE
            BY <1>0, <2>2, <3>2, <4>2, <6>0 DEF Allowed
          <6> QED
            BY <2>2, <6>1, <6>2 DEF Allowed, Fine
        <5> QED
          BY <3>1, <5>1 DEF Good
      <4> QED
        BY <1>0, <3>2, <4>1, <4>2
    <3>7. t.begin >= e \/ t.begin >= a + i
      BY <1>3 DEF Checked
    <3>8. v.vm_end >= a + (i + 1) /\ v.vm_end >= a
      BY <1>0, <1>3, <3>2, <3>3, <3>7
    <3> HIDE DEF u, v
    <3> QED
      BY <2>0, <3>2, <3>5, <3>6, <3>8 DEF Checked, u
  <2> QED
    BY <2>1, <2>2
<1>4. t.begin >= e \/ t.begin < e
  BY <1>0
<1> HIDE DEF u
<1> QED
  BY <1>1, <1>2, <1>3, <1>4 DEF u

\* check_vmm says yes exactly if every byte may be used.
LEMMA CheckIs ==
  ASSUME NEW l, Ordered(l), NEW c, Cached(l, c), NEW a \in Nat, NEW len \in Nat \ {0},
         NEW w \in BOOLEAN
  PROVE  LET r == check_vmm(l, c, a, len, w)
         IN /\ r.ok <=> \A b \in a .. a + len - 1 : Good(l, b, w)
            /\ Cached(l, r.curr)
<1>0. l \in Seq(Areas) /\ Len(l) \in Nat /\ \A i \in 1 .. Len(l) : l[i] \in Areas
  BY DEF Ordered
<1>u. USER_BEGIN \in Nat /\ USER_END \in Nat
  BY VmasAssumption
<1> DEFINE e == a + len
           r == check_vmm(l, c, a, len, w)
<1>1. CASE ~user_access(a, e)
  <2>1. r = [ok |-> FALSE, curr |-> c]
    BY <1>1 DEF check_vmm
  <2>2. a < USER_BEGIN \/ e > USER_END
    BY <1>1, <1>u DEF user_access
  <2>3. ASSUME NEW b \in Nat, b < USER_BEGIN \/ b >= USER_END, Good(l, b, w) PROVE FALSE
    <3>1. PICK i \in 1 .. Len(l) : Has(l[i], b)
      BY <2>3 DEF Good, Fine
    <3>2. l[i].vm_start \in Nat /\ l[i].vm_end \in Nat
      BY <1>0 DEF Areas
    <3>3. USER_BEGIN <= l[i].vm_start /\ l[i].vm_end <= USER_END
      BY DEF Ordered
    <3> QED
      BY <1>u, <2>3, <3>1, <3>2, <3>3 DEF Has
  <2>4. ~ \A b \in a .. a + len - 1 : Good(l, b, w)
    <3>1. CASE a < USER_BEGIN
      <4>1. a \in a .. a + len - 1
        OBVIOUS
      <4> QED
        BY <2>3, <3>1, <4>1
    <3>2. CASE e > USER_END
      <4>1. e - 1 \in a .. a + len - 1 /\ e - 1 \in Nat /\ e - 1 >= USER_END
        BY <1>u, <3>2
      <4> QED
        BY <2>3, <4>1
    <3> QED
      BY <2>2, <3>1, <3>2
  <2> HIDE DEF r
  <2> QED
    BY <2>1, <2>4 DEF r
<1>2. CASE user_access(a, e)
  <2> DEFINE N == e - a
             z == [begin |-> a, curr |-> c, ok |-> TRUE]
  <2>0. e \in Nat /\ N \in Nat /\ N = len /\ a + N = e /\ e - 1 = a + len - 1
    OBVIOUS
  <2>1. r = check_loop(l, c, a, e, w)
    BY <1>2 DEF check_vmm
  <2>2. PICK T : Turns(N, T, 1, z, l, e, w) /\ r = [ok |-> T[N].ok, curr |-> T[N].curr]
    <3> HIDE DEF e, r
    <3> QED
      BY <2>0, <2>1, CheckTurns
  <2> HIDE DEF N, e
  <2>3. T[0] = z /\ \A i \in 0 .. N - 1 : T[i + 1] = CheckTurn(T[i], l, e, w)
    <3> HIDE DEF z
    <3>1. T[0] = z /\ \A i \in 0 .. N - 1 : T[i + 1] = Turn(1, T[i], i + 1, l, e, w)
      BY <2>0, <2>2, TurnsAt
    <3> QED
      BY <3>1 DEF Turn
  <2> DEFINE OK(i) == /\ T[i] = [begin |-> T[i].begin, curr |-> T[i].curr, ok |-> T[i].ok]
                      /\ Checked(T[i], i, l, a, e, w)
             S == { i \in 0 .. N : OK(i) }
  <2>4. 0 \in S
    <3>1. T[0].begin = a /\ T[0].curr = c /\ T[0].ok = TRUE
      BY <2>3
    <3>2. T[0] = [begin |-> T[0].begin, curr |-> T[0].curr, ok |-> T[0].ok]
      BY <2>3
    <3>3. Checked(T[0], 0, l, a, e, w)
      <4>1. a .. a - 1 = {}
        OBVIOUS
      <4> DEFINE t == T[0]
      <4>2. /\ t.begin = a /\ t.curr = c /\ t.ok = TRUE /\ t.begin >= a + 0
        BY <3>1
      <4> HIDE DEF t
      <4>3. Checked(t, 0, l, a, e, w)
        <5>1. Cached(l, t.curr) /\ t.begin \in Nat /\ t.begin >= a
          BY <4>2
        <5>2. \A b \in a .. t.begin - 1 : Good(l, b, w)
          BY <4>1, <4>2
        <5> QED
          BY <4>2, <5>1, <5>2, Zenon DEF Checked
      <4> QED
        BY <4>3 DEF t
    <3> QED
      BY <2>0, <3>2, <3>3
  <2>5. ASSUME NEW i \in S, i < N PROVE i + 1 \in S
    <3>1. i \in 0 .. N - 1 /\ i \in Nat /\ OK(i) /\ i + 1 \in 0 .. N
      BY <2>0, <2>5
    <3>2. T[i + 1] = CheckTurn(T[i], l, e, w)
      BY <2>3, <3>1
    <3> DEFINE t == T[i]
    <3>3. t = [begin |-> t.begin, curr |-> t.curr, ok |-> t.ok] /\ Checked(t, i, l, a, e, w)
      BY <3>1
    <3> HIDE DEF t
    <3>4. LET u == CheckTurn(t, l, e, w)
          IN /\ u = [begin |-> u.begin, curr |-> u.curr, ok |-> u.ok]
             /\ Checked(u, i + 1, l, a, e, w)
      BY <2>0, <3>1, <3>3, CheckStep
    <3>5. OK(i + 1)
      BY <3>2, <3>4, Zenon DEF t
    <3> HIDE DEF OK
    <3> QED
      BY <3>1, <3>5
  <2>6. OK(N)
    <3>1. S \in SUBSET (0 .. N)
      OBVIOUS
    <3>2. N \in S
      <4> HIDE DEF S
      <4> QED
        BY <2>0, <2>4, <2>5, <3>1, Upward
    <3> QED
      BY <3>2
  <2> DEFINE k == T[N].ok
             q == T[N].curr
             y == T[N].begin
  <2>7. /\ Cached(l, q) /\ y \in Nat
        /\ k = TRUE => /\ \A b \in a .. y - 1 : Good(l, b, w)
                       /\ y >= e \/ y >= a + N
        /\ k # TRUE => k = FALSE /\ \E b \in a .. e - 1 : ~Good(l, b, w)
    BY <2>6 DEF Checked
  <2>8. r = [ok |-> k, curr |-> q]
    BY <2>2
  <2> HIDE DEF k, q, y, r
  <2>9. r.ok = k /\ r.curr = q
    BY <2>8
  <2>10. k = TRUE => \A b \in a .. e - 1 : Good(l, b, w)
    BY <2>0, <2>7
  <2> QED
    BY <2>0, <2>7, <2>9, <2>10 DEF r
<1> QED
  BY <1>1, <1>2

-----------------------------------------------------------------------------
(* The invariant of load_bin: what is loaded of the segments so far.       *)

Start(h) == rounddown(h.p_va)
End(h)   == roundup(h.p_va + h.p_mem_size)

\* The sizes of a header are right, and its pages lie in user space.
Sized(h) == h.p_file_size <= h.p_mem_size /\ user_access(Start(h), End(h))

Within(h, a) == Start(h) <= a /\ a < End(h)

\* The end of the pages that h gets: none, if it has no bytes.
PagesEnd(h) == IF h.p_mem_size = 0 THEN Start(h) ELSE End(h)

\* Byte a, when the pages of h are there up to p and its bytes up to t.
ByteAt(h, t, p, a) ==
  IF ~(Start(h) <= a /\ a < p) THEN Unmapped
  ELSE IF ~(h.p_va <= a /\ a < t) THEN Junk
  ELSE IF a < h.p_va + h.p_file_size THEN h.p_offset + a - h.p_va ELSE Zero

\* Memory m and page table pm then.
Part(m, pm, h, t, p) ==
  \A a \in Addr : Within(h, a) =>
    /\ m[a] = ByteAt(h, t, p, a)
    /\ a < p => rounddown(a) \in DOMAIN pm /\ h.p_flags \subseteq pm[rounddown(a)]

Whole(m, pm, h) == Part(m, pm, h, h.p_va + h.p_mem_size, PagesEnd(h))

\* The first k headers of b that are loaded.
Loaded(b, k) == { i \in 1 .. k : b[i].p_type = "LOAD" }

\* No other pages than those and the ones in S.
Others(m, b, k, S) ==
  \A a \in Addr : (\A i \in Loaded(b, k) : ~Within(b[i], a)) =>
    m[a] = IF rounddown(a) \in S THEN Junk ELSE Unmapped

AreaOf(v, h) == v.vm_start = Start(h) /\ v.vm_end = End(h)

\* The areas l are those of the first k headers.
Laid(b, k, l) ==
  /\ \A i \in Loaded(b, k) : Sized(b[i]) /\ \E j \in 1 .. Len(l) : AreaOf(l[j], b[i])
  /\ \A j \in 1 .. Len(l) : \E i \in Loaded(b, k) : AreaOf(l[j], b[i])
  /\ \A i, j \in Loaded(b, k) : i < j => End(b[i]) <= Start(b[j])

AllWhole(m, pm, b, k) == \A i \in Loaded(b, k) : Whole(m, pm, b[i])

\* Before the first page of h, and behind a page in which bytes of h were put.
Fresh(h) == p_va = Start(h) /\ to_begin = h.p_va
Going(h) == /\ Aligned(p_va) /\ Aligned(page) /\ page + PAGE_SIZE = p_va
            /\ Start(h) <= page /\ page < to_begin /\ to_begin <= p_va
            /\ h.p_va < to_begin /\ p_va <= End(h)
            /\ pc # "bss" => to_begin = p_va \/ to_begin = to_end

FileEnd(h) == h.p_va + h.p_file_size

\* How far the segment of h is.
Progress(h) ==
  /\ to_end = IF pc = "text" THEN FileEnd(h) ELSE h.p_va + h.p_mem_size
  /\ h.p_va <= to_begin /\ to_begin <= to_end
  /\ pc = "text" => from_begin = h.p_offset + to_begin - h.p_va
  /\ pc = "bss" => to_begin = FileEnd(h)
  /\ pc = "zero" => FileEnd(h) <= to_begin
  /\ Fresh(h) \/ Going(h)
  /\ h.p_flags \subseteq pte_flags

InSegment == pc \in {"text", "bss", "zero"}

LoadInv ==
  /\ TypeOK /\ vma_list \in Seq(Areas)
  /\ pc # "stopped" => panic = FALSE
  /\ pc # "done" => vma_curr = NULL /\ copy = NULL
  /\ pc \notin {"done", "stopped"} => vm_flags \subseteq {"R", "W", "X"}
  /\ pc \in {"header", "text", "bss", "zero", "done"} => Ordered(vma_list)
  /\ pc = "header" => /\ Laid(bin, n - 1, vma_list) /\ AllWhole(mem, perm, bin, n - 1)
                      /\ Others(mem, bin, n - 1, {})
  /\ InSegment => /\ n \in Loaded(bin, Len(bin)) /\ Laid(bin, n, vma_list)
                  /\ AllWhole(mem, perm, bin, n - 1) /\ Others(mem, bin, n, {})
                  /\ Part(mem, perm, prog, to_begin, p_va) /\ Progress(prog)
  /\ pc = "done" => /\ \A i \in Loaded(bin, Len(bin)) : Sized(bin[i]) /\ End(bin[i]) <= USER_STACK_BEGIN
                    /\ AllWhole(mem, perm, bin, Len(bin)) /\ Others(mem, bin, Len(bin), StackPages)
                    /\ copy # NULL => copy = vma_list

LEMMA HeaderIs ==
  ASSUME NEW h \in Headers
  PROVE  /\ h.p_va \in Nat /\ h.p_file_size \in Nat /\ h.p_mem_size \in Nat /\ h.p_offset \in Nat
         /\ h.p_flags \subseteq {"R", "W", "X"}
         /\ Aligned(Start(h)) /\ Start(h) \in Nat
         /\ Start(h) <= h.p_va /\ h.p_va < Start(h) + PAGE_SIZE
         /\ Aligned(End(h)) /\ End(h) \in Nat
         /\ h.p_va + h.p_mem_size <= End(h) /\ End(h) < h.p_va + h.p_mem_size + PAGE_SIZE
         /\ \A m : Aligned(m) /\ h.p_va + h.p_mem_size <= m => End(h) <= m
<1>1. /\ h.p_va \in Nat /\ h.p_file_size \in Nat /\ h.p_mem_size \in Nat /\ h.p_offset \in Nat
      /\ h.p_flags \subseteq {"R", "W", "X"}
  BY DEF Headers
<1>2. /\ Aligned(Start(h)) /\ Start(h) \in Nat
      /\ Start(h) <= h.p_va /\ h.p_va < Start(h) + PAGE_SIZE
  BY <1>1, Down DEF Start
<1> DEFINE e == h.p_va + h.p_mem_size
<1>3. e \in Nat /\ End(h) = roundup(e)
  BY <1>1 DEF End
<1> HIDE DEF e
<1>4. /\ Aligned(End(h)) /\ End(h) \in Nat
      /\ e <= End(h) /\ End(h) < e + PAGE_SIZE
      /\ \A m : Aligned(m) /\ e <= m => End(h) <= m
  BY <1>3, Up
<1> QED
  BY <1>1, <1>2, <1>4 DEF e

LEMMA SizedIs ==
  ASSUME NEW h, Sized(h)
  PROVE  /\ h.p_file_size <= h.p_mem_size /\ USER_BEGIN <= Start(h) /\ Start(h) < End(h)
         /\ End(h) <= USER_END
BY DEF Sized, user_access

LEMMA AddrIs == /\ Addr \subseteq Nat /\ USER_END \in Nat /\ USER_STACK_BEGIN \in Nat
                /\ \A a \in Nat : a <= USER_END => a \in Addr
BY VmasAssumption DEF Addr

LEMMA BinIs == ASSUME bin \in Programs
               PROVE  /\ Len(bin) \in Nat /\ bin \in Seq(Headers)
                      /\ \A i \in 1 .. Len(bin) : bin[i] \in Headers
                      /\ \A i, j \in 1 .. Len(bin) : i < j => bin[i].p_va <= bin[j].p_va
<1>1. bin \in Seq(Headers)
  BY LoadBinAssumption
<1> QED
  BY <1>1, LoadBinAssumption

\* A list to which an area is added.
LEMMA Adds == ASSUME NEW l \in Seq(Areas), NEW v \in Areas
              PROVE  add_vma(l, v).list \in Seq(Areas) /\ add_vma(l, v).panic \in BOOLEAN
<1>0. Len(l) \in Nat
  OBVIOUS
<1>1. \E k \in 0 .. Len(l) : Spot(l, v, k)
  <2> DEFINE S == { j \in 1 .. Len(l) : ~(l[j].vm_start < v.vm_start) }
  <2>1. CASE S = {}
    <3>1. Spot(l, v, Len(l))
      BY <1>0, <2>1 DEF Spot
    <3> QED
      BY <1>0, <3>1
  <2>2. CASE S # {}
    <3>1. PICK z \in S : \A j \in S : z <= j
      <4>1. S \subseteq Nat
        OBVIOUS
      <4> HIDE DEF S
      <4> QED
        BY <2>2, <4>1, Least, Zenon
    <3>2. z \in 1 .. Len(l) /\ \A j \in 1 .. Len(l) : j < z => l[j].vm_start < v.vm_start
      BY <1>0, <3>1
    <3>3. Spot(l, v, z - 1)
      BY <1>0, <3>1, <3>2 DEF Spot
    <3> QED
      BY <1>0, <3>2, <3>3
  <2> QED
    BY <2>1, <2>2
<1>2. PICK k \in 0 .. Len(l) : Spot(l, v, k)
  BY <1>1
<1>3. add_vma(l, v).list = SubSeq(l, 1, k) \o <<v>> \o SubSeq(l, k + 1, Len(l))
  BY <1>2, AddAt
<1>4. SubSeq(l, 1, k) \in Seq(Areas) /\ SubSeq(l, k + 1, Len(l)) \in Seq(Areas) /\ <<v>> \in Seq(Areas)
  BY <1>0, <1>2
<1>5. add_vma(l, v).list \in Seq(Areas)
  BY <1>3, <1>4
<1>6. add_vma(l, v).panic = (\/ v.vm_start >= v.vm_end
                             \/ k > 0 /\ l[k].vm_end > v.vm_start
                             \/ k < Len(l) /\ v.vm_end > l[k + 1].vm_start)
  BY <1>2, AddAt
<1>7. add_vma(l, v).panic \in BOOLEAN
  BY <1>6, Zenon
<1> QED
  BY <1>5, <1>7

\* vm_map of an area that begins above the others.
NewArea(s, e, f) == [vm_start |-> s, vm_end |-> e, vm_flags |-> f]

LEMMA MapAbove ==
  ASSUME NEW l, Ordered(l), NEW s \in Nat, NEW e \in Nat,
         NEW f \in SUBSET {"R", "W", "X", "STACK"},
         \A i \in 1 .. Len(l) : l[i].vm_start <= s, ~MapRefuses(l, NULL, s, e)
  PROVE  /\ \A i \in 1 .. Len(l) : l[i].vm_end <= s
         /\ vm_map(l, s, e, f).list = Append(l, NewArea(s, e, f)) /\ vm_map(l, s, e, f).panic = FALSE
         /\ Ordered(Append(l, NewArea(s, e, f)))
<1> DEFINE v == NewArea(s, e, f)
           x == find_vma(l, NULL, s)
<1>0. l \in Seq(Areas) /\ Len(l) \in Nat /\ \A i \in 1 .. Len(l) : l[i] \in Areas
  BY DEF Ordered
<1>1. v \in Areas /\ v.vm_start = s /\ v.vm_end = e
  BY DEF Areas, NewArea
<1>2. USER_BEGIN <= s /\ s < e /\ e <= USER_END
  BY DEF MapRefuses, user_access
<1>3. x = NULL
  <2>1. ASSUME x # NULL PROVE FALSE
    <3>1. /\ \E i \in 1 .. Len(l) : x = l[i]
          /\ Has(x, s)
      BY <2>1, FindIs DEF Cached
    <3>2. x.vm_start \in Nat /\ x.vm_start <= s
      <4>1. PICK i \in 1 .. Len(l) : x = l[i]
        BY <3>1
      <4>2. l[i].vm_start \in Nat
        BY <1>0 DEF Areas
      <4> HIDE DEF x
      <4> QED
        BY <4>1, <4>2
    <3>3. e > x.vm_start
      <4> HIDE DEF x
      <4> QED
        BY <1>2, <3>2
    <3> QED
      BY <2>1, <3>3 DEF MapRefuses
  <2> QED
    BY <2>1
<1>4. \A i \in 1 .. Len(l) : ~Has(l[i], s)
  BY <1>3, FindIs DEF Cached
<1>5. ASSUME NEW i \in 1 .. Len(l) PROVE l[i].vm_end <= s /\ l[i].vm_start < s
  <2>1. l[i].vm_start \in Nat /\ l[i].vm_end \in Nat
    BY <1>0 DEF Areas
  <2>2. l[i].vm_start < l[i].vm_end /\ l[i].vm_start <= s
    BY DEF Ordered
  <2>3. ~Has(l[i], s)
    BY <1>4
  <2> QED
    BY <2>1, <2>2, <2>3 DEF Has
<1>6. vm_map(l, s, e, f) = add_vma(l, v)
  BY DEF vm_map, NewArea
<1> HIDE DEF v
<1>7. /\ add_vma(l, v).list = Append(l, v)
      /\ add_vma(l, v).panic = (\/ v.vm_start >= v.vm_end
                                \/ \E i \in 1 .. Len(l) : l[i].vm_end > v.vm_start)
  <2>1. \A i \in 1 .. Len(l) : l[i].vm_start < v.vm_start
    BY <1>1, <1>5
  <2> QED
    BY <1>1, <2>1, Appends
<1>8. add_vma(l, v).panic = FALSE
  <2>1. ~(v.vm_start >= v.vm_end)
    BY <1>1, <1>2
  <2>2. ASSUME NEW i \in 1 .. Len(l) PROVE ~(l[i].vm_end > v.vm_start)
    <3>1. l[i].vm_end \in Nat /\ l[i].vm_end <= s
      BY <1>0, <1>5 DEF Areas
    <3> QED
      BY <1>1, <3>1
  <2> QED
    BY <1>7, <2>1, <2>2
<1>9. Ordered(Append(l, v))
  <2> DEFINE q == Append(l, v)
  <2>1. /\ q \in Seq(Areas) /\ Len(q) = Len(l) + 1 /\ q[Len(l) + 1] = v
        /\ \A i \in 1 .. Len(l) : q[i] = l[i]
    BY <1>0, <1>1
  <2>2. \A i \in 1 .. Len(q) : i \in 1 .. Len(l) \/ i = Len(l) + 1
    BY <1>0, <2>1
  <2> HIDE DEF q
  <2>3. ASSUME NEW i \in 1 .. Len(q)
        PROVE  /\ USER_BEGIN <= q[i].vm_start /\ q[i].vm_start < q[i].vm_end
               /\ q[i].vm_end <= USER_END
    <3>1. CASE i \in 1 .. Len(l)
      BY <2>1, <3>1 DEF Ordered
    <3>2. CASE i = Len(l) + 1
      BY <1>1, <1>2, <2>1, <3>2
    <3> QED
      BY <2>2, <3>1, <3>2
  <2>4. ASSUME NEW i \in 1 .. Len(q), NEW j \in 1 .. Len(q), i < j PROVE q[i].vm_end <= q[j].vm_start
    <3>1. i \in 1 .. Len(l)
      BY <1>0, <2>1, <2>4
    <3>2. CASE j \in 1 .. Len(l)
      BY <2>1, <2>4, <3>1, <3>2 DEF Ordered
    <3>3. CASE j = Len(l) + 1
      BY <1>1, <1>5, <2>1, <3>1, <3>3
    <3> QED
      BY <2>2, <3>2, <3>3
  <2>5. Ordered(q)
    BY <2>1, <2>3, <2>4 DEF Ordered
  <2> QED
    BY <2>5 DEF q
<1> QED
  BY <1>5, <1>6, <1>7, <1>8, <1>9 DEF v

\* What a turn that fills the page at p from t on puts there.
LEMMA Takes ==
  ASSUME NEW h \in Headers, NEW p \in Nat, NEW t \in Nat, NEW e \in Nat, NEW s,
         Aligned(p), p <= t, t < p + PAGE_SIZE, t < e, e <= h.p_va + h.p_mem_size,
         s = PAGE_SIZE - (t - p) - (IF e < p + PAGE_SIZE THEN p + PAGE_SIZE - e ELSE 0)
  PROVE  /\ s \in Nat /\ t < t + s /\ t + s <= e /\ p < t + s /\ t + s <= p + PAGE_SIZE
         /\ t + s = p + PAGE_SIZE \/ t + s = e
         /\ p + PAGE_SIZE <= End(h) /\ Aligned(p + PAGE_SIZE) /\ p + PAGE_SIZE \in Nat
<1>0. PAGE_SIZE \in Nat \ {0}
  BY Pages
<1>1. /\ s \in Nat /\ t < t + s /\ t + s <= e /\ p < t + s /\ t + s <= p + PAGE_SIZE
      /\ t + s = p + PAGE_SIZE \/ t + s = e
  <2>1. CASE e < p + PAGE_SIZE
    BY <1>0, <2>1
  <2>2. CASE ~(e < p + PAGE_SIZE)
    BY <1>0, <2>2
  <2> QED
    BY <2>1, <2>2
<1>2. /\ h.p_va \in Nat /\ h.p_mem_size \in Nat /\ End(h) \in Nat /\ Aligned(End(h))
      /\ h.p_va + h.p_mem_size <= End(h)
  BY HeaderIs
<1>3. p < End(h)
  BY <1>2
<1>4. p + PAGE_SIZE <= End(h) /\ Aligned(p + PAGE_SIZE)
  BY <1>2, <1>3, Pages
<1> QED
  BY <1>0, <1>1, <1>4

\* Memory and page table change at most at page p.
Only(m, m2, pm, pm2, p) ==
  /\ \A a \in Addr : ~(p <= a /\ a < p + PAGE_SIZE) => m2[a] = m[a]
  /\ \A q \in DOMAIN pm : q # p => q \in DOMAIN pm2 /\ pm2[q] = pm[q]

LEMMA PageNotOf == ASSUME NEW a \in Nat, NEW p \in Nat, ~(p <= a /\ a < p + PAGE_SIZE)
                   PROVE  rounddown(a) # p
BY Down, Pages

LEMMA Elsewhere ==
  ASSUME NEW h \in Headers, NEW p \in Nat, NEW m, NEW m2, NEW pm, NEW pm2, NEW t, NEW x,
         Only(m, m2, pm, pm2, p), Part(m, pm, h, t, x),
         p + PAGE_SIZE <= Start(h) \/ End(h) <= p
  PROVE  Part(m2, pm2, h, t, x)
<1>0. Start(h) \in Nat /\ End(h) \in Nat /\ PAGE_SIZE \in Nat /\ Addr \subseteq Nat
  BY HeaderIs, Pages, AddrIs
<1>1. ASSUME NEW a \in Addr, Within(h, a)
      PROVE  /\ m2[a] = ByteAt(h, t, x, a)
             /\ a < x => rounddown(a) \in DOMAIN pm2 /\ h.p_flags \subseteq pm2[rounddown(a)]
  <2>1. ~(p <= a /\ a < p + PAGE_SIZE)
    BY <1>0, <1>1 DEF Within
  <2>2. a \in Nat /\ rounddown(a) # p
    BY <1>0, <2>1, PageNotOf
  <2>3. /\ m[a] = ByteAt(h, t, x, a)
        /\ a < x => rounddown(a) \in DOMAIN pm /\ h.p_flags \subseteq pm[rounddown(a)]
    BY <1>1 DEF Part
  <2>4. m2[a] = m[a]
    BY <2>1 DEF Only
  <2>5. rounddown(a) \in DOMAIN pm => rounddown(a) \in DOMAIN pm2 /\ pm2[rounddown(a)] = pm[rounddown(a)]
    BY <2>2 DEF Only
  <2> QED
    BY <2>3, <2>4, <2>5
<1> QED
  BY <1>1 DEF Part

LEMMA OthersStay ==
  ASSUME NEW b, NEW k, NEW i \in Loaded(b, k), b[i] \in Headers, NEW p \in Nat,
         NEW m, NEW m2, NEW pm, NEW pm2, NEW S,
         Only(m, m2, pm, pm2, p), Others(m, b, k, S),
         Start(b[i]) <= p, p + PAGE_SIZE <= End(b[i])
  PROVE  Others(m2, b, k, S)
<1>0. Start(b[i]) \in Nat /\ End(b[i]) \in Nat /\ PAGE_SIZE \in Nat /\ Addr \subseteq Nat
  BY HeaderIs, Pages, AddrIs
<1>1. ASSUME NEW a \in Addr, \A j \in Loaded(b, k) : ~Within(b[j], a)
      PROVE  m2[a] = IF rounddown(a) \in S THEN Junk ELSE Unmapped
  <2>1. ~Within(b[i], a)
    BY <1>1
  <2>2. ~(p <= a /\ a < p + PAGE_SIZE)
    BY <1>0, <2>1 DEF Within
  <2>3. m2[a] = m[a]
    BY <2>2 DEF Only
  <2>4. m[a] = IF rounddown(a) \in S THEN Junk ELSE Unmapped
    BY <1>1 DEF Others
  <2> QED
    BY <2>3, <2>4
<1> QED
  BY <1>1 DEF Others

\* The page at p has the bytes of h from t to x.
Filled(m, h, p, t, x) ==
  \A a \in Addr : p <= a /\ a < p + PAGE_SIZE =>
    m[a] = IF t <= a /\ a < x THEN IF a < FileEnd(h) THEN h.p_offset + a - h.p_va ELSE Zero
           ELSE Junk

LEMMA PartGrows ==
  ASSUME NEW h \in Headers, NEW p \in Nat, NEW t \in Nat, NEW x \in Nat,
         NEW m, NEW m2, NEW pm, NEW pm2, Aligned(p),
         Part(m, pm, h, t, p), Only(m, m2, pm, pm2, p), Filled(m2, h, p, t, x),
         Start(h) <= p, p <= t, t <= x, x <= p + PAGE_SIZE, h.p_va <= t,
         t = p \/ t = h.p_va, p \in DOMAIN pm2, h.p_flags \subseteq pm2[p]
  PROVE  Part(m2, pm2, h, x, p + PAGE_SIZE)
<1>0. /\ Start(h) \in Nat /\ End(h) \in Nat /\ PAGE_SIZE \in Nat /\ Addr \subseteq Nat
      /\ h.p_va \in Nat /\ h.p_file_size \in Nat /\ h.p_offset \in Nat
  BY HeaderIs, Pages, AddrIs
<1>1. ASSUME NEW a \in Addr, Within(h, a)
      PROVE  /\ m2[a] = ByteAt(h, x, p + PAGE_SIZE, a)
             /\ a < p + PAGE_SIZE => rounddown(a) \in DOMAIN pm2 /\ h.p_flags \subseteq pm2[rounddown(a)]
  <2>0. a \in Nat /\ Start(h) <= a /\ a < End(h)
    BY <1>0, <1>1 DEF Within
  <2>1. /\ m[a] = ByteAt(h, t, p, a)
        /\ a < p => rounddown(a) \in DOMAIN pm /\ h.p_flags \subseteq pm[rounddown(a)]
    BY <1>1 DEF Part
  <2>2. CASE a < p
    <3>1. rounddown(a) # p
      BY <1>0, <2>0, <2>2, PageNotOf
    <3>2. m2[a] = m[a]
      BY <1>0, <2>0, <2>2 DEF Only
    <3>3. rounddown(a) \in DOMAIN pm2 /\ pm2[rounddown(a)] = pm[rounddown(a)]
      BY <2>1, <2>2, <3>1 DEF Only
    <3>4. ByteAt(h, x, p + PAGE_SIZE, a) = ByteAt(h, t, p, a)
      <4>1. a < p + PAGE_SIZE /\ a < x /\ a < t
        BY <1>0, <2>0, <2>2
      <4> QED
        BY <2>0, <2>2, <4>1 DEF ByteAt
    <3> QED
      BY <2>1, <2>2, <3>2, <3>3, <3>4
  <2>3. CASE p <= a /\ a < p + PAGE_SIZE
    <3>1. rounddown(a) = p
      BY <2>0, <2>3, Down
    <3>2. m2[a] = IF t <= a /\ a < x THEN IF a < FileEnd(h) THEN h.p_offset + a - h.p_va ELSE Zero
                  ELSE Junk
      BY <2>3 DEF Filled
    <3>3. (t <= a /\ a < x) <=> (h.p_va <= a /\ a < x)
      BY <1>0, <2>0, <2>3
    <3>4. ByteAt(h, x, p + PAGE_SIZE, a) = m2[a]
      BY <2>0, <2>3, <3>2, <3>3 DEF ByteAt, FileEnd
    <3> QED
      BY <3>1, <3>4
  <2>4. CASE a >= p + PAGE_SIZE
    <3>1. ~(a < p + PAGE_SIZE) /\ ~(a < p) /\ ~(p <= a /\ a < p + PAGE_SIZE)
      BY <1>0, <2>0, <2>4
    <3>2. m2[a] = m[a]
      BY <3>1 DEF Only
    <3>3. ByteAt(h, x, p + PAGE_SIZE, a) = Unmapped /\ ByteAt(h, t, p, a) = Unmapped
      BY <3>1 DEF ByteAt
    <3> QED
      BY <2>1, <3>1, <3>2, <3>3
  <2> QED
    BY <1>0, <2>0, <2>2, <2>3, <2>4
<1> QED
  BY <1>1 DEF Part

\* The bytes from t to x are cleared.
Cleared(m, m2, t, x) ==
  \A a \in Addr : m2[a] = IF t <= a /\ a < x THEN Zero ELSE m[a]

LEMMA PartClears ==
  ASSUME NEW h \in Headers, NEW p \in Nat, NEW t \in Nat, NEW x \in Nat, NEW m, NEW m2, NEW pm,
         Part(m, pm, h, t, p), Cleared(m, m2, t, x),
         Start(h) <= t, t <= x, x <= p, h.p_va <= t, FileEnd(h) <= t
  PROVE  Part(m2, pm, h, x, p)
<1>0. /\ Start(h) \in Nat /\ End(h) \in Nat /\ Addr \subseteq Nat
      /\ h.p_va \in Nat /\ h.p_file_size \in Nat /\ FileEnd(h) \in Nat
      /\ FileEnd(h) = h.p_va + h.p_file_size
  BY HeaderIs, AddrIs DEF FileEnd
<1>1. ASSUME NEW a \in Addr, Within(h, a)
      PROVE  /\ m2[a] = ByteAt(h, x, p, a)
             /\ a < p => rounddown(a) \in DOMAIN pm /\ h.p_flags \subseteq pm[rounddown(a)]
  <2>0. a \in Nat /\ Start(h) <= a /\ a < End(h)
    BY <1>0, <1>1 DEF Within
  <2>1. /\ m[a] = ByteAt(h, t, p, a)
        /\ a < p => rounddown(a) \in DOMAIN pm /\ h.p_flags \subseteq pm[rounddown(a)]
    BY <1>1 DEF Part
  <2>2. m2[a] = IF t <= a /\ a < x THEN Zero ELSE m[a]
    BY DEF Cleared
  <2>3. CASE t <= a /\ a < x
    <3>1. a < p /\ h.p_va <= a /\ ~(a < h.p_va + h.p_file_size)
      BY <1>0, <2>0, <2>3
    <3>2. ByteAt(h, x, p, a) = Zero
      BY <2>0, <2>3, <3>1 DEF ByteAt
    <3> QED
      BY <2>1, <2>2, <2>3, <3>2
  <2>4. CASE ~(t <= a /\ a < x)
    <3>1. (a < x) <=> (a < t)
      BY <2>0, <2>4
    <3>2. ByteAt(h, x, p, a) = ByteAt(h, t, p, a)
      BY <3>1 DEF ByteAt
    <3> QED
      BY <2>1, <2>2, <2>4, <3>2
  <2> QED
    BY <2>3, <2>4
<1> QED
  BY <1>1 DEF Part

-----------------------------------------------------------------------------
(* The steps of load_bin.                                                  *)

LEMMA LoadInit == Init => LoadInv
<1> SUFFICES ASSUME Init PROVE LoadInv
  OBVIOUS
<1> USE DEF Init
<1>0. Len(bin) \in Nat /\ Addr \subseteq Nat /\ 0 \in Addr /\ Len(vma_list) = 0
  BY BinIs, AddrIs
<1>1. TypeOK
  <2>1. DOMAIN perm = {}
    OBVIOUS
  <2>2. DOMAIN mem = Addr /\ \A a \in Addr : mem[a] \in Int
    BY DEF Unmapped
  <2>3. n \in 1 .. Len(bin) + 1 /\ \A i \in 1 .. Len(vma_list) : FALSE
    BY <1>0
  <2> QED
    BY <1>0, <2>1, <2>2, <2>3 DEF TypeOK
<1>2. Ordered(vma_list) /\ vma_list \in Seq(Areas)
  BY <1>0 DEF Ordered
<1>3. Loaded(bin, n - 1) = {}
  BY DEF Loaded
<1>4. Laid(bin, n - 1, vma_list) /\ AllWhole(mem, perm, bin, n - 1) /\ Others(mem, bin, n - 1, {})
  BY <1>0, <1>3 DEF Laid, AllWhole, Others
<1> QED
  BY <1>1, <1>2, <1>4 DEF LoadInv, InSegment

LEMMA GivesUp == ASSUME LoadInv, pc = "header", GiveUp PROVE LoadInv'
<1>0. TypeOK /\ copy = NULL /\ panic = FALSE /\ vm_flags \subseteq {"R", "W", "X"}
  BY DEF LoadInv
<1>1. TypeOK'
  <2>1. DOMAIN perm' = {} /\ Len(vma_list') = 0
    BY DEF GiveUp
  <2>2. DOMAIN mem' = Addr /\ \A a \in Addr : mem'[a] \in Int
    BY DEF GiveUp, Unmapped
  <2> QED
    BY <1>0, <2>1, <2>2 DEF TypeOK, GiveUp, local
<1>2. (vma_list \in Seq(Areas))'
  BY DEF GiveUp
<1> QED
  BY <1>0, <1>1, <1>2 DEF LoadInv, GiveUp, InSegment

\* Which headers are loaded does not change at one that is not for loading.
LEMMA SkipIs == ASSUME NEW b, NEW k \in Nat \ {0}, b[k].p_type # "LOAD"
                PROVE  Loaded(b, k) = Loaded(b, k - 1)
<1>1. \A i \in 1 .. k : i \in 1 .. k - 1 \/ i = k
  OBVIOUS
<1>2. 1 .. k - 1 \subseteq 1 .. k
  OBVIOUS
<1> QED
  BY <1>1, <1>2 DEF Loaded

LEMMA SkipStep == ASSUME LoadInv, SkipHeader PROVE LoadInv'
<1>0. /\ TypeOK /\ bin \in Programs /\ n \in 1 .. Len(bin) + 1 /\ n <= Len(bin) /\ Len(bin) \in Nat
      /\ pc = "header" /\ pc' = "header" /\ n' = n + 1 /\ bin[n].p_type # "LOAD"
  <2>1. TypeOK /\ bin \in Programs /\ n \in 1 .. Len(bin) + 1
    BY DEF LoadInv, TypeOK
  <2> QED
    BY <2>1, BinIs DEF SkipHeader, prog
<1>1. n \in Nat \ {0} /\ n' - 1 = n /\ n' \in 1 .. Len(bin) + 1
  BY <1>0
<1>2. Loaded(bin, n) = Loaded(bin, n - 1)
  BY <1>0, <1>1, SkipIs
<1>3. Laid(bin, n - 1, vma_list) /\ AllWhole(mem, perm, bin, n - 1) /\ Others(mem, bin, n - 1, {})
  BY <1>0 DEF LoadInv
<1>4. Laid(bin, n, vma_list) /\ AllWhole(mem, perm, bin, n) /\ Others(mem, bin, n, {})
  BY <1>2, <1>3 DEF Laid, AllWhole, Others
<1>u. /\ bin' = bin /\ vm_flags' = vm_flags /\ pte_flags' = pte_flags /\ vma_list' = vma_list
      /\ vma_curr' = vma_curr /\ mem' = mem /\ perm' = perm /\ copy' = copy /\ panic' = panic
      /\ from_begin' = from_begin /\ to_begin' = to_begin /\ to_end' = to_end /\ p_va' = p_va
      /\ page' = page
  BY DEF SkipHeader, local
<1>5. TypeOK'
  BY <1>0, <1>1, <1>u DEF TypeOK
<1>6. /\ (Laid(bin, n - 1, vma_list))' /\ (AllWhole(mem, perm, bin, n - 1))'
      /\ (Others(mem, bin, n - 1, {}))'
  BY <1>1, <1>4, <1>u
<1> QED
  BY <1>0, <1>5, <1>6, <1>u DEF LoadInv, InSegment

LEMMA FaultStep == ASSUME LoadInv, NEW a \in Addr, Fault(a) PROVE LoadInv'
<1>0. TypeOK /\ pc = "done" /\ Ordered(vma_list) /\ Cached(vma_list, vma_curr) /\ a \in Nat
  BY AddrIs DEF LoadInv, TypeOK, Fault, Cached
<1>1. Cached(vma_list, Cache(vma_list, vma_curr, a))
  BY <1>0, FindIs
<1>u. /\ bin' = bin /\ vm_flags' = vm_flags /\ pte_flags' = pte_flags /\ vma_list' = vma_list
      /\ n' = n /\ mem' = mem /\ perm' = perm /\ copy' = copy /\ panic' = panic /\ pc' = pc
      /\ from_begin' = from_begin /\ to_begin' = to_begin /\ to_end' = to_end /\ p_va' = p_va
      /\ page' = page /\ vma_curr' = Cache(vma_list, vma_curr, a)
  BY DEF Fault, local
<1>2. Cached(vma_list, vma_curr)'
  BY <1>1, <1>u
<1>3. TypeOK'
  BY <1>0, <1>2, <1>u DEF TypeOK, Cached
<1> QED
  BY <1>0, <1>3, <1>u DEF LoadInv, InSegment

LEMMA CheckStepOf == ASSUME LoadInv, NEW a \in Addr, NEW len \in 1 .. MaxLen, NEW w \in BOOLEAN,
                            Check(a, len, w)
                     PROVE  LoadInv'
<1>0. TypeOK /\ pc = "done" /\ Ordered(vma_list) /\ Cached(vma_list, vma_curr) /\ a \in Nat
      /\ len \in Nat \ {0}
  <2>1. len \in Nat \ {0}
    BY LoadBinAssumption
  <2>2. pc = "done"
    BY DEF Check
  <2>3. TypeOK /\ Ordered(vma_list)
    BY <2>2 DEF LoadInv
  <2> QED
    BY <2>1, <2>2, <2>3, AddrIs DEF TypeOK, Cached
<1>1. Cached(vma_list, check_vmm(vma_list, vma_curr, a, len, w).curr)
  BY <1>0, CheckIs
<1>u. /\ bin' = bin /\ vm_flags' = vm_flags /\ pte_flags' = pte_flags /\ vma_list' = vma_list
      /\ n' = n /\ mem' = mem /\ perm' = perm /\ copy' = copy /\ panic' = panic /\ pc' = pc
      /\ from_begin' = from_begin /\ to_begin' = to_begin /\ to_end' = to_end /\ p_va' = p_va
      /\ page' = page /\ vma_curr' = check_vmm(vma_list, vma_curr, a, len, w).curr
  BY DEF Check, local
<1>2. Cached(vma_list, vma_curr)'
  BY <1>1, <1>u
<1>3. TypeOK'
  BY <1>0, <1>2, <1>u DEF TypeOK, Cached
<1> QED
  BY <1>0, <1>3, <1>u DEF LoadInv, InSegment

LEMMA ForkStep == ASSUME LoadInv, Fork PROVE LoadInv'
<1>0. TypeOK /\ pc = "done" /\ Ordered(vma_list) /\ panic = FALSE
  BY DEF LoadInv, Fork
<1>1. dup_vmm(vma_list).list = vma_list /\ dup_vmm(vma_list).panic = FALSE
  BY <1>0, DupIs
<1>u. /\ bin' = bin /\ vm_flags' = vm_flags /\ pte_flags' = pte_flags /\ vma_list' = vma_list
      /\ n' = n /\ mem' = mem /\ perm' = perm /\ copy' = vma_list /\ panic' = FALSE /\ pc' = pc
      /\ from_begin' = from_begin /\ to_begin' = to_begin /\ to_end' = to_end /\ p_va' = p_va
      /\ page' = page /\ vma_curr' = vma_curr
  BY <1>1 DEF Fork, local
<1>2. TypeOK'
  BY <1>0, <1>u DEF TypeOK
<1> QED
  BY <1>0, <1>2, <1>u DEF LoadInv, InSegment

\* Headers in order begin on pages in order.
LEMMA StartsInOrder == ASSUME NEW g \in Headers, NEW h \in Headers, g.p_va <= h.p_va
                       PROVE  Start(g) <= Start(h)
<1>1. /\ g.p_va \in Nat /\ h.p_va \in Nat /\ Aligned(Start(g)) /\ Aligned(Start(h))
      /\ Start(g) \in Nat /\ Start(h) \in Nat /\ Start(g) <= g.p_va /\ h.p_va < Start(h) + PAGE_SIZE
  BY HeaderIs
<1>2. PAGE_SIZE \in Nat /\ (Start(h) < Start(g) => Start(h) + PAGE_SIZE <= Start(g))
  BY <1>1, Pages
<1> QED
  BY <1>1, <1>2

LEMMA LoadedGrows ==
  ASSUME NEW b, NEW k \in Nat \ {0}, b[k].p_type = "LOAD"
  PROVE  /\ Loaded(b, k) = Loaded(b, k - 1) \cup {k}
         /\ \A i \in Loaded(b, k - 1) : i \in Loaded(b, k) /\ i < k /\ i # k
<1>1. \A i \in 1 .. k : i \in 1 .. k - 1 \/ i = k
  OBVIOUS
<1>2. k \in 1 .. k /\ \A i \in 1 .. k - 1 : i \in 1 .. k /\ i < k
  OBVIOUS
<1> QED
  BY <1>1, <1>2 DEF Loaded

LEMMA AtHeader ==
  ASSUME LoadInv, pc = "header"
  PROVE  /\ bin \in Programs /\ Len(bin) \in Nat /\ n \in Nat \ {0} /\ n <= Len(bin) + 1
         /\ vma_curr = NULL /\ copy = NULL /\ panic = FALSE /\ Ordered(vma_list)
         /\ vma_list \in Seq(Areas) /\ Len(vma_list) \in Nat
         /\ vm_flags \subseteq {"R", "W", "X"}
         /\ Laid(bin, n - 1, vma_list) /\ AllWhole(mem, perm, bin, n - 1)
         /\ Others(mem, bin, n - 1, {})
         /\ \A i \in Loaded(bin, n - 1) : i \in 1 .. Len(bin) /\ i < n /\ bin[i] \in Headers
<1>1. TypeOK /\ vma_list \in Seq(Areas)
  BY DEF LoadInv
<1>2. bin \in Programs /\ n \in 1 .. Len(bin) + 1
  BY <1>1 DEF TypeOK
<1>3. Len(bin) \in Nat /\ \A i \in 1 .. Len(bin) : bin[i] \in Headers
  BY <1>2, BinIs
<1>4. n \in Nat \ {0} /\ n <= Len(bin) + 1 /\ \A i \in 1 .. n - 1 : i \in 1 .. Len(bin) /\ i < n
  BY <1>2, <1>3
<1>5. \A i \in Loaded(bin, n - 1) : i \in 1 .. n - 1
  BY DEF Loaded
<1>6. /\ vma_curr = NULL /\ copy = NULL /\ panic = FALSE /\ Ordered(vma_list)
      /\ vm_flags \subseteq {"R", "W", "X"}
      /\ Laid(bin, n - 1, vma_list) /\ AllWhole(mem, perm, bin, n - 1)
      /\ Others(mem, bin, n - 1, {})
  BY DEF LoadInv
<1> QED
  BY <1>1, <1>2, <1>3, <1>4, <1>5, <1>6

LEMMA MapsSegment ==
  ASSUME LoadInv, MapSegment, ~MapRefuses(vma_list, vma_curr, Start(prog), End(prog)) PROVE LoadInv'
<1> DEFINE h == prog
           f == SegmentFlags
           v == NewArea(Start(h), End(h), f)
<1>0. /\ pc = "header" /\ n <= Len(bin) /\ h.p_type = "LOAD" /\ ~BadSizes
  BY DEF MapSegment
<1>1. /\ bin \in Programs /\ Len(bin) \in Nat /\ n \in Nat \ {0} /\ n <= Len(bin) + 1
      /\ vma_curr = NULL /\ copy = NULL /\ panic = FALSE /\ Ordered(vma_list)
      /\ vma_list \in Seq(Areas) /\ Len(vma_list) \in Nat
      /\ vm_flags \subseteq {"R", "W", "X"}
      /\ Laid(bin, n - 1, vma_list) /\ AllWhole(mem, perm, bin, n - 1)
      /\ Others(mem, bin, n - 1, {})
      /\ \A i \in Loaded(bin, n - 1) : i \in 1 .. Len(bin) /\ i < n /\ bin[i] \in Headers
  BY <1>0, AtHeader
<1>2. n \in 1 .. Len(bin) /\ h \in Headers /\ h = bin[n]
  BY <1>0, <1>1, BinIs DEF prog
<1>3. /\ vma_list' = vm_map(vma_list, Start(h), End(h), f).list
      /\ panic' = vm_map(vma_list, Start(h), End(h), f).panic
      /\ vm_flags' = f
      /\ pte_flags' = f \cup (IF "W" \in f THEN {"R"} ELSE {})
      /\ from_begin' = h.p_offset
      /\ to_begin' = h.p_va
      /\ to_end' = h.p_va + h.p_file_size
      /\ p_va' = Start(h)
      /\ pc' = IF panic' THEN "stopped" ELSE "text"
      /\ UNCHANGED <<bin, n, vma_curr, page, mem, perm, copy>>
  BY DEF MapSegment, Start, End
<1> HIDE DEF h, f
<1>4. /\ h.p_va \in Nat /\ h.p_file_size \in Nat /\ h.p_mem_size \in Nat /\ h.p_offset \in Nat
      /\ h.p_flags \subseteq {"R", "W", "X"}
      /\ Start(h) \in Nat /\ Start(h) <= h.p_va
      /\ End(h) \in Nat /\ h.p_va + h.p_mem_size <= End(h)
  BY <1>2, HeaderIs
<1>5. f \subseteq {"R", "W", "X"} /\ h.p_flags \subseteq f
  BY <1>1, <1>4 DEF f, SegmentFlags, h
<1>6. \A j \in 1 .. Len(vma_list) : vma_list[j].vm_start <= Start(h)
  <2> SUFFICES ASSUME NEW j \in 1 .. Len(vma_list) PROVE vma_list[j].vm_start <= Start(h)
    OBVIOUS
  <2>1. PICK i \in Loaded(bin, n - 1) : AreaOf(vma_list[j], bin[i])
    BY <1>1 DEF Laid
  <2>2. bin[i].p_va <= h.p_va
    BY <1>1, <1>2, <2>1, BinIs
  <2> QED
    BY <1>1, <1>2, <2>1, <2>2, StartsInOrder DEF AreaOf
<1>7. /\ \A j \in 1 .. Len(vma_list) : vma_list[j].vm_end <= Start(h)
      /\ vma_list' = Append(vma_list, v) /\ panic' = FALSE /\ Ordered(Append(vma_list, v))
  <2>1. ~MapRefuses(vma_list, NULL, Start(h), End(h))
    BY <1>1 DEF h
  <2>2. f \in SUBSET {"R", "W", "X", "STACK"}
    BY <1>5
  <2>3. LET r == vm_map(vma_list, Start(h), End(h), f)
        IN /\ \A j \in 1 .. Len(vma_list) : vma_list[j].vm_end <= Start(h)
           /\ r.list = Append(vma_list, v) /\ r.panic = FALSE /\ Ordered(Append(vma_list, v))
    BY <1>1, <1>4, <1>6, <2>1, <2>2, MapAbove
  <2> QED
    BY <1>3, <2>3
<1>8. pc' = "text"
  BY <1>3, <1>7
<1>9. Sized(h) /\ End(h) <= USER_END /\ Start(h) < End(h)
  <2>1. ~(h.p_file_size > h.p_mem_size)
    BY <1>0 DEF BadSizes, h
  <2>2. user_access(Start(h), End(h))
    BY DEF MapRefuses, h
  <2> QED
    BY <1>4, <2>1, <2>2 DEF Sized, user_access
<1>10. /\ Loaded(bin, n) = Loaded(bin, n - 1) \cup {n}
       /\ \A i \in Loaded(bin, n - 1) : i \in Loaded(bin, n) /\ i < n /\ i # n
  BY <1>0, <1>1, <1>2, LoadedGrows
<1>11. \A i \in Loaded(bin, n - 1) : End(bin[i]) <= Start(h)
  <2> SUFFICES ASSUME NEW i \in Loaded(bin, n - 1) PROVE End(bin[i]) <= Start(h)
    OBVIOUS
  <2>1. PICK j \in 1 .. Len(vma_list) : AreaOf(vma_list[j], bin[i])
    BY <1>1 DEF Laid
  <2> QED
    BY <1>7, <2>1 DEF AreaOf
<1>12. v \in Areas /\ AreaOf(v, h)
  BY <1>4, <1>5 DEF v, NewArea, Areas, AreaOf
<1> HIDE DEF v
<1>13. Laid(bin, n, Append(vma_list, v))
  <2> DEFINE q == Append(vma_list, v)
  <2>1. /\ Len(q) = Len(vma_list) + 1 /\ q[Len(vma_list) + 1] = v
        /\ \A j \in 1 .. Len(vma_list) : q[j] = vma_list[j]
    BY <1>1, <1>12
  <2>2. /\ \A j \in 1 .. Len(q) : j \in 1 .. Len(vma_list) \/ j = Len(vma_list) + 1
        /\ \A j \in 1 .. Len(vma_list) : j \in 1 .. Len(q)
        /\ Len(vma_list) + 1 \in 1 .. Len(q)
    BY <1>1, <2>1
  <2> HIDE DEF q
  <2>3. ASSUME NEW i \in Loaded(bin, n)
        PROVE  Sized(bin[i]) /\ \E j \in 1 .. Len(q) : AreaOf(q[j], bin[i])
    <3>1. CASE i = n
      BY <1>2, <1>9, <1>12, <2>1, <2>2, <3>1
    <3>2. CASE i \in Loaded(bin, n - 1)
      <4>1. Sized(bin[i]) /\ \E j \in 1 .. Len(vma_list) : AreaOf(vma_list[j], bin[i])
        BY <1>1, <3>2 DEF Laid
      <4> QED
        BY <2>1, <2>2, <4>1
    <3> QED
      BY <1>10, <3>1, <3>2
  <2>4. ASSUME NEW j \in 1 .. Len(q) PROVE \E i \in Loaded(bin, n) : AreaOf(q[j], bin[i])
    <3>1. CASE j = Len(vma_list) + 1
      BY <1>2, <1>10, <1>12, <2>1, <3>1
    <3>2. CASE j \in 1 .. Len(vma_list)
      <4>1. \E i \in Loaded(bin, n - 1) : AreaOf(vma_list[j], bin[i])
        BY <1>1, <3>2 DEF Laid
      <4> QED
        BY <1>10, <2>1, <3>2, <4>1
    <3> QED
      BY <2>2, <3>1, <3>2
  <2>5. ASSUME NEW i \in Loaded(bin, n), NEW j \in Loaded(bin, n), i < j
        PROVE  End(bin[i]) <= Start(bin[j])
    <3>1. i \in Nat /\ j \in Nat /\ i # j
      BY <2>5 DEF Loaded
    <3>2. CASE j = n
      BY <1>2, <1>10, <1>11, <2>5, <3>1, <3>2
    <3>3. CASE j # n
      <4>1. j \in Loaded(bin, n - 1) /\ j < n
        BY <1>10, <3>3
      <4>2. i # n
        BY <1>1, <2>5, <3>1, <4>1
      <4>3. i \in Loaded(bin, n - 1)
        BY <1>10, <4>2
      <4> QED
        BY <1>1, <2>5, <4>1, <4>3 DEF Laid
    <3> QED
      BY <3>2, <3>3
  <2>6. Laid(bin, n, q)
    BY <2>3, <2>4, <2>5 DEF Laid
  <2> QED
    BY <2>6 DEF q
<1>14. Others(mem, bin, n, {})
  BY <1>1, <1>10 DEF Others
<1>15. Part(mem, perm, h, h.p_va, Start(h))
  <2>1. ASSUME NEW a \in Addr, Within(h, a)
        PROVE  mem[a] = ByteAt(h, h.p_va, Start(h), a) /\ ~(a < Start(h))
    <3>1. a \in Nat /\ Start(h) <= a
      BY <2>1, AddrIs DEF Within
    <3>2. ASSUME NEW i \in Loaded(bin, n - 1) PROVE ~Within(bin[i], a)
      <4>1. End(bin[i]) <= Start(h) /\ End(bin[i]) \in Nat
        BY <1>1, <1>11, HeaderIs
      <4> QED
        BY <1>4, <3>1, <4>1 DEF Within
    <3>3. mem[a] = Unmapped
      BY <1>1, <3>2 DEF Others
    <3>4. ~(a < Start(h))
      BY <1>4, <3>1
    <3> QED
      BY <3>3, <3>4 DEF ByteAt
  <2> QED
    BY <2>1 DEF Part
<1>u. /\ bin' = bin /\ n' = n /\ vma_curr' = NULL /\ page' = page /\ mem' = mem /\ perm' = perm
      /\ copy' = NULL /\ prog' = h
  BY <1>1, <1>3 DEF prog, h
<1>16. Append(vma_list, v) \in Seq(Areas)
  BY <1>1, <1>12
<1>17. TypeOK'
  <2>1. TypeOK
    BY DEF LoadInv
  <2>2. to_begin' \in Addr /\ to_end' \in Addr /\ p_va' \in Addr /\ from_begin' \in Nat
    <3>1. h.p_file_size <= h.p_mem_size /\ USER_END \in Nat
      BY <1>9, AddrIs DEF Sized
    <3>2. /\ h.p_va <= USER_END /\ h.p_va + h.p_file_size <= USER_END /\ Start(h) <= USER_END
          /\ h.p_va + h.p_file_size \in Nat
      BY <1>4, <1>9, <3>1
    <3> QED
      BY <1>3, <1>4, <3>2, AddrIs
  <2>3. pte_flags' \subseteq {"R", "W", "X"} /\ vm_flags' \subseteq {"R", "W", "X", "STACK"}
    BY <1>3, <1>5
  <2>4. ASSUME NEW j \in 1 .. Len(vma_list') PROVE vma_list'[j].vm_flags \subseteq {"R", "W", "X", "STACK"}
    <3>1. vma_list' \in Seq(Areas)
      BY <1>7, <1>16
    <3>2. vma_list'[j] \in Areas
      BY <3>1
    <3> QED
      BY <3>2 DEF Areas
  <2> QED
    BY <1>7, <1>8, <1>u, <2>1, <2>2, <2>3, <2>4 DEF TypeOK
<1>18. Progress(prog)'
  BY <1>u, <1>8, <1>3, <1>4, <1>5 DEF Progress, FileEnd, Fresh
<1>19. n \in Loaded(bin, Len(bin))
  BY <1>0, <1>2 DEF Loaded
<1>20. /\ (n \in Loaded(bin, Len(bin)))' /\ (Laid(bin, n, vma_list))'
       /\ (AllWhole(mem, perm, bin, n - 1))' /\ (Others(mem, bin, n, {}))'
       /\ (Part(mem, perm, prog, to_begin, p_va))'
  BY <1>1, <1>3, <1>7, <1>13, <1>14, <1>15, <1>19, <1>u
<1>21. Ordered(vma_list)' /\ (vma_list \in Seq(Areas))' /\ vm_flags' \subseteq {"R", "W", "X"}
  BY <1>3, <1>5, <1>7, <1>16
<1> QED
  BY <1>7, <1>8, <1>17, <1>18, <1>20, <1>21, <1>u DEF LoadInv, InSegment

LEMMA MapStep == ASSUME LoadInv, MapSegment PROVE LoadInv'
<1> DEFINE r == MapRefuses(vma_list, vma_curr, Start(prog), End(prog))
<1>1. pc = "header" /\ ((r /\ GiveUp) \/ ~r)
  BY DEF MapSegment, Start, End
<1>2. CASE GiveUp
  BY <1>1, <1>2, GivesUp
<1>3. CASE ~r
  BY <1>3, MapsSegment
<1> QED
  BY <1>1, <1>2, <1>3

LEMMA RefuseStep == ASSUME LoadInv, RefuseHeader PROVE LoadInv'
BY GivesUp DEF RefuseHeader

\* What holds while a segment is loaded.
LEMMA AtSegment ==
  ASSUME LoadInv, InSegment
  PROVE  /\ TypeOK /\ bin \in Programs /\ Len(bin) \in Nat /\ n \in Nat \ {0} /\ n \in 1 .. Len(bin)
         /\ vma_curr = NULL /\ copy = NULL /\ panic = FALSE /\ Ordered(vma_list)
         /\ vma_list \in Seq(Areas) /\ vm_flags \subseteq {"R", "W", "X"}
         /\ prog = bin[n] /\ prog \in Headers /\ prog.p_type = "LOAD" /\ Sized(prog)
         /\ n \in Loaded(bin, Len(bin)) /\ n \in Loaded(bin, n) /\ Laid(bin, n, vma_list)
         /\ AllWhole(mem, perm, bin, n - 1) /\ Others(mem, bin, n, {})
         /\ Part(mem, perm, prog, to_begin, p_va) /\ Progress(prog)
         /\ from_begin \in Nat /\ to_begin \in Nat /\ to_end \in Nat /\ p_va \in Nat /\ page \in Nat
         /\ Loaded(bin, n) = Loaded(bin, n - 1) \cup {n}
         /\ \A i \in Loaded(bin, n - 1) :
              i \in Loaded(bin, n) /\ i < n /\ bin[i] \in Headers /\ End(bin[i]) <= Start(prog)
<1>1. /\ TypeOK /\ vma_list \in Seq(Areas) /\ n \in Loaded(bin, Len(bin)) /\ Laid(bin, n, vma_list)
      /\ AllWhole(mem, perm, bin, n - 1) /\ Others(mem, bin, n, {})
      /\ Part(mem, perm, prog, to_begin, p_va) /\ Progress(prog)
      /\ vma_curr = NULL /\ copy = NULL /\ panic = FALSE /\ Ordered(vma_list)
      /\ vm_flags \subseteq {"R", "W", "X"}
  BY DEF LoadInv, InSegment
<1>2. bin \in Programs
  BY <1>1 DEF TypeOK
<1>3. Len(bin) \in Nat /\ \A i \in 1 .. Len(bin) : bin[i] \in Headers
  BY <1>2, BinIs
<1>4. n \in 1 .. Len(bin) /\ bin[n].p_type = "LOAD"
  BY <1>1 DEF Loaded
<1>5. n \in Nat \ {0} /\ \A i \in 1 .. n - 1 : i \in 1 .. Len(bin)
  BY <1>3, <1>4
<1>6. /\ Loaded(bin, n) = Loaded(bin, n - 1) \cup {n}
      /\ \A i \in Loaded(bin, n - 1) : i \in Loaded(bin, n) /\ i < n /\ i # n
  BY <1>4, <1>5, LoadedGrows
<1>7. from_begin \in Nat /\ to_begin \in Nat /\ to_end \in Nat /\ p_va \in Nat /\ page \in Nat
  BY <1>1, AddrIs DEF TypeOK
<1>8. prog = bin[n] /\ prog \in Headers /\ prog.p_type = "LOAD"
  BY <1>3, <1>4 DEF prog
<1>9. \A i \in Loaded(bin, n - 1) : End(bin[i]) <= Start(prog)
  BY <1>1, <1>6, <1>8 DEF Laid
<1>10. n \in Loaded(bin, n) /\ \A i \in Loaded(bin, n - 1) : i \in 1 .. n - 1
  BY <1>6 DEF Loaded
<1>11. Sized(prog)
  BY <1>1, <1>8, <1>10 DEF Laid
<1> QED
  BY <1>1, <1>2, <1>3, <1>4, <1>5, <1>6, <1>7, <1>8, <1>9, <1>10, <1>11

\* The page that a turn of the loops fills, from to_begin on, comes next.
LEMMA NextPage ==
  ASSUME LoadInv, pc \in {"text", "zero"}, to_begin < to_end
  PROVE  /\ InSegment /\ Aligned(p_va) /\ Start(prog) <= p_va /\ p_va <= to_begin
         /\ to_begin < p_va + PAGE_SIZE /\ prog.p_va <= to_begin
         /\ to_begin = p_va \/ to_begin = prog.p_va
         /\ to_end <= prog.p_va + prog.p_mem_size
<1>0. InSegment
  BY DEF InSegment
<1>1. /\ prog \in Headers /\ Sized(prog) /\ Progress(prog) /\ to_begin \in Nat /\ to_end \in Nat
      /\ p_va \in Nat /\ page \in Nat
  BY <1>0, AtSegment
<1>2. /\ Aligned(Start(prog)) /\ Start(prog) \in Nat /\ prog.p_va \in Nat /\ prog.p_file_size \in Nat
      /\ prog.p_mem_size \in Nat /\ Start(prog) <= prog.p_va /\ prog.p_va < Start(prog) + PAGE_SIZE
      /\ PAGE_SIZE \in Nat \ {0} /\ prog.p_file_size <= prog.p_mem_size
  BY <1>1, HeaderIs, Pages, SizedIs
<1>3. prog.p_va <= to_begin /\ to_end <= prog.p_va + prog.p_mem_size
  BY <1>1, <1>2 DEF Progress, FileEnd
<1>4. CASE Fresh(prog)
  BY <1>0, <1>1, <1>2, <1>3, <1>4 DEF Fresh
<1>5. CASE Going(prog)
  <2>1. /\ Aligned(p_va) /\ page + PAGE_SIZE = p_va /\ Start(prog) <= page
        /\ to_begin = p_va \/ to_begin = to_end
    BY <1>5 DEF Going
  <2>2. to_begin = p_va
    BY <1>1, <2>1
  <2> QED
    BY <1>0, <1>1, <1>2, <1>3, <2>1, <2>2
<1> QED
  BY <1>1, <1>4, <1>5 DEF Progress

\* Memory after a turn.
LEMMA TurnMem ==
  ASSUME LoadInv, InSegment, NEW m2, NEW pm2, NEW x \in Nat, NEW t \in Nat, NEW p \in Nat,
         t = to_begin, p = p_va,
         Aligned(p), Start(prog) <= p, p <= t, t <= x, x <= p + PAGE_SIZE, prog.p_va <= t,
         t = p \/ t = prog.p_va, p + PAGE_SIZE <= End(prog),
         Only(mem, m2, perm, pm2, p), Filled(m2, prog, p, t, x),
         p \in DOMAIN pm2, prog.p_flags \subseteq pm2[p]
  PROVE  /\ Part(m2, pm2, prog, x, p + PAGE_SIZE)
         /\ AllWhole(m2, pm2, bin, n - 1) /\ Others(m2, bin, n, {})
<1>0. /\ prog = bin[n] /\ prog \in Headers /\ n \in Loaded(bin, n)
      /\ AllWhole(mem, perm, bin, n - 1) /\ Others(mem, bin, n, {})
      /\ Part(mem, perm, prog, t, p)
      /\ \A i \in Loaded(bin, n - 1) : bin[i] \in Headers /\ End(bin[i]) <= Start(prog)
  BY AtSegment
<1>1. Part(m2, pm2, prog, x, p + PAGE_SIZE)
  BY <1>0, PartGrows
<1>2. Others(m2, bin, n, {})
  BY <1>0, OthersStay
<1>3. ASSUME NEW i \in Loaded(bin, n - 1) PROVE Whole(m2, pm2, bin[i])
  <2>1. bin[i] \in Headers /\ End(bin[i]) <= Start(prog) /\ Whole(mem, perm, bin[i])
    BY <1>0 DEF AllWhole
  <2>2. End(bin[i]) <= p
    <3>1. End(bin[i]) \in Nat /\ Start(prog) \in Nat
      BY <1>0, <2>1, HeaderIs
    <3> QED
      BY <2>1, <3>1
  <2> DEFINE g == bin[i]
             y == g.p_va + g.p_mem_size
             e == PagesEnd(g)
  <2>3. g \in Headers /\ End(g) <= p /\ Part(mem, perm, g, y, e)
    BY <2>1, <2>2 DEF Whole
  <2> HIDE DEF g, y, e
  <2>4. Part(m2, pm2, g, y, e)
    BY <2>3, Elsewhere
  <2> QED
    BY <2>4 DEF g, y, e, Whole
<1>4. AllWhole(m2, pm2, bin, n - 1)
  BY <1>3 DEF AllWhole
<1> QED
  BY <1>1, <1>2, <1>4

LEMMA PageIs == ASSUME NEW p, Aligned(p)
                PROVE  p \in Nat /\ rounddown(p) = p /\ PageOf(p) = p .. p + PAGE_SIZE - 1
<1>1. p \in Nat /\ PAGE_SIZE \in Nat \ {0}
  BY Pages
<1>2. rounddown(p) = p
  BY <1>1, Down
<1> QED
  BY <1>1, <1>2 DEF PageOf

\* What a turn puts at byte a.
Puts(a) == IF pc = "text" THEN from_begin + a - to_begin ELSE Zero

\* A turn that maps the page at p_va and sets s bytes from to_begin on.
FillsPage(s) ==
  /\ page' = p_va
  /\ p_va' = p_va + PAGE_SIZE
  /\ perm' = Grant(p_va)
  /\ to_begin' = to_begin + s
  /\ from_begin' = IF pc = "text" THEN from_begin + s ELSE from_begin
  /\ DOMAIN mem' = Addr
  /\ \A a \in Addr : mem'[a] = IF to_begin <= a /\ a < to_begin + s THEN Puts(a)
                               ELSE IF a \in PageOf(p_va) THEN Junk ELSE mem[a]
  /\ UNCHANGED <<bin, n, pc, vm_flags, pte_flags, vma_list, vma_curr, to_end, copy, panic>>

LEMMA TurnStep ==
  ASSUME LoadInv, pc \in {"text", "zero"}, to_begin < to_end, NEW s,
         s = Chunk(to_begin - p_va, p_va + PAGE_SIZE), FillsPage(s)
  PROVE  LoadInv' /\ \A a \in Addr : mem'[a] # mem[a] => a \in PageOf(page')
<1> DEFINE p == p_va
           t == to_begin
           e == to_end
           x == to_begin + s
           h == prog
<1>1. /\ InSegment /\ Aligned(p) /\ Start(h) <= p /\ p <= t
      /\ t < p + PAGE_SIZE /\ h.p_va <= t
      /\ t = p \/ t = h.p_va
      /\ e <= h.p_va + h.p_mem_size
  BY NextPage
<1>2. /\ TypeOK /\ bin \in Programs /\ n \in 1 .. Len(bin)
      /\ vma_curr = NULL /\ copy = NULL /\ panic = FALSE /\ Ordered(vma_list)
      /\ vma_list \in Seq(Areas) /\ vm_flags \subseteq {"R", "W", "X"}
      /\ h \in Headers /\ Sized(h)
      /\ n \in Loaded(bin, Len(bin)) /\ Laid(bin, n, vma_list) /\ Progress(h)
      /\ from_begin \in Nat /\ t \in Nat /\ e \in Nat /\ p \in Nat
  BY <1>1, AtSegment
<1>3. PAGE_SIZE \in Nat \ {0} /\ Addr \subseteq Nat /\ USER_END \in Nat
  BY Pages, AddrIs
<1>4. s = PAGE_SIZE - (t - p) - (IF e < p + PAGE_SIZE THEN p + PAGE_SIZE - e ELSE 0)
  BY <1>2, <1>3 DEF Chunk
<1>5. /\ s \in Nat /\ t < t + s /\ t + s <= e /\ p < t + s /\ t + s <= p + PAGE_SIZE
      /\ t + s = p + PAGE_SIZE \/ t + s = e
      /\ p + PAGE_SIZE <= End(h) /\ Aligned(p + PAGE_SIZE) /\ p + PAGE_SIZE \in Nat
  <2> HIDE DEF p, t, e, h
  <2>1. t < e
    BY DEF t, e
  <2> QED
    BY <1>1, <1>2, <1>4, <2>1, Takes
<1>6. x \in Nat /\ t <= x /\ x <= p + PAGE_SIZE /\ x <= e /\ p < x /\ t < x
  BY <1>2, <1>5
<1>7. PageOf(p) = p .. p + PAGE_SIZE - 1
  BY <1>1, PageIs
<1>8. /\ h.p_va \in Nat /\ h.p_file_size \in Nat /\ h.p_mem_size \in Nat /\ h.p_offset \in Nat
      /\ Start(h) \in Nat /\ End(h) \in Nat /\ End(h) <= USER_END /\ h.p_flags \subseteq pte_flags
      /\ pte_flags \subseteq {"R", "W", "X"}
  BY <1>2, HeaderIs, SizedIs DEF Progress, TypeOK
<1>u. /\ bin' = bin /\ n' = n /\ pc' = pc /\ vm_flags' = vm_flags /\ pte_flags' = pte_flags
      /\ vma_list' = vma_list /\ vma_curr' = vma_curr /\ to_end' = e /\ copy' = copy /\ panic' = panic
      /\ page' = p /\ p_va' = p + PAGE_SIZE /\ to_begin' = x /\ perm' = Grant(p)
      /\ from_begin' = IF pc = "text" THEN from_begin + s ELSE from_begin
      /\ prog' = h
  BY DEF FillsPage, prog
<1>m. /\ DOMAIN mem' = Addr
      /\ \A a \in Addr : mem'[a] = IF t <= a /\ a < x THEN Puts(a)
                                   ELSE IF a \in PageOf(p) THEN Junk ELSE mem[a]
  BY DEF FillsPage
<1>9. DOMAIN perm' = DOMAIN perm \cup {p} /\ perm'[p] = pte_flags
      /\ \A q \in DOMAIN perm : q # p => perm'[q] = perm[q]
  BY <1>u DEF Grant
<1>10. \A a \in Addr : ~(p <= a /\ a < p + PAGE_SIZE) => mem'[a] = mem[a]
  <2> SUFFICES ASSUME NEW a \in Addr, ~(p <= a /\ a < p + PAGE_SIZE) PROVE mem'[a] = mem[a]
    OBVIOUS
  <2>1. ~(t <= a /\ a < x) /\ a \notin PageOf(p)
    BY <1>1, <1>2, <1>3, <1>6, <1>7
  <2> QED
    BY <1>m, <2>1
<1>11. Only(mem, mem', perm, perm', p)
  BY <1>9, <1>10 DEF Only
<1>12. Filled(mem', h, p, t, x)
  <2> SUFFICES ASSUME NEW a \in Addr, p <= a, a < p + PAGE_SIZE
               PROVE  mem'[a] = IF t <= a /\ a < x
                                THEN IF a < FileEnd(h) THEN h.p_offset + a - h.p_va ELSE Zero
                                ELSE Junk
    BY DEF Filled
  <2>0. a \in Nat /\ a \in PageOf(p)
    BY <1>2, <1>3, <1>7
  <2>1. CASE ~(t <= a /\ a < x)
    BY <1>m, <2>0, <2>1
  <2>2. CASE t <= a /\ a < x /\ pc = "text"
    <3>1. mem'[a] = from_begin + a - t
      BY <1>m, <2>2 DEF Puts
    <3>2. e = FileEnd(h) /\ from_begin = h.p_offset + t - h.p_va
      BY <1>2, <2>2 DEF Progress
    <3>3. a < FileEnd(h) /\ from_begin + a - t = h.p_offset + a - h.p_va
      <4>1. x <= e /\ a < x /\ t \in Nat /\ x \in Nat /\ e \in Nat
        BY <1>2, <1>6, <2>2
      <4>2. h.p_va \in Nat /\ h.p_offset \in Nat /\ from_begin \in Nat
        BY <1>2, <1>8
      <4> HIDE DEF x, e, t, h
      <4> QED
        BY <2>0, <3>2, <4>1, <4>2
    <3> QED
      BY <2>2, <3>1, <3>3
  <2>3. CASE t <= a /\ a < x /\ pc = "zero"
    <3>1. mem'[a] = Zero
      BY <1>m, <2>3 DEF Puts
    <3>2. FileEnd(h) <= t /\ FileEnd(h) \in Nat
      BY <1>2, <1>8, <2>3 DEF Progress, FileEnd
    <3>3. ~(a < FileEnd(h))
      BY <1>2, <2>0, <2>3, <3>2
    <3> QED
      BY <2>3, <3>1, <3>3
  <2> QED
    BY <2>1, <2>2, <2>3
<1>13. /\ Part(mem', perm', h, x, p + PAGE_SIZE)
       /\ AllWhole(mem', perm', bin, n - 1) /\ Others(mem', bin, n, {})
  <2>1. p \in DOMAIN perm' /\ h.p_flags \subseteq perm'[p]
    BY <1>8, <1>9
  <2>2. t = to_begin /\ p = p_va
    OBVIOUS
  <2> HIDE DEF p, t, x
  <2> QED
    BY <1>1, <1>2, <1>5, <1>6, <1>11, <1>12, <2>1, <2>2, TurnMem
<1>14. Progress(prog)'
  <2>1. to_end' = IF pc' = "text" THEN FileEnd(h) ELSE h.p_va + h.p_mem_size
    BY <1>2, <1>u DEF Progress
  <2>2. pc' = "text" => from_begin' = h.p_offset + to_begin' - h.p_va
    <3>1. pc = "text" => from_begin = h.p_offset + t - h.p_va
      BY <1>2 DEF Progress
    <3>2. pc' = pc /\ to_begin' = t + s /\ (pc = "text" => from_begin' = from_begin + s)
      BY <1>u
    <3>3. t \in Nat /\ s \in Nat /\ h.p_va \in Nat /\ h.p_offset \in Nat /\ from_begin \in Nat
      BY <1>2, <1>5, <1>8
    <3> HIDE DEF t, h
    <3> QED
      BY <3>1, <3>2, <3>3
  <2>3. pc' = "zero" => FileEnd(h) <= to_begin'
    <3>1. FileEnd(h) \in Nat /\ (pc = "zero" => FileEnd(h) <= t)
      BY <1>2, <1>8 DEF Progress, FileEnd
    <3> QED
      BY <1>2, <1>6, <1>u, <3>1
  <2>4. h.p_va < to_begin' /\ h.p_va <= to_begin' /\ to_begin' <= to_end'
    BY <1>1, <1>2, <1>6, <1>8, <1>u
  <2>5. Going(prog)'
    <3>1. /\ Aligned(p_va)' /\ Aligned(page)' /\ page' + PAGE_SIZE = p_va'
          /\ Start(h) <= page' /\ page' < to_begin' /\ to_begin' <= p_va'
          /\ h.p_va < to_begin' /\ p_va' <= End(h)
          /\ to_begin' = p_va' \/ to_begin' = to_end'
      BY <1>1, <1>5, <1>6, <1>u, <2>4
    <3> QED
      BY <1>u, <3>1 DEF Going
  <2>6. h.p_flags \subseteq pte_flags' /\ pc' # "bss"
    BY <1>8, <1>u
  <2> QED
    BY <1>u, <2>1, <2>2, <2>3, <2>4, <2>5, <2>6 DEF Progress
<1>15. TypeOK'
  <2>1. to_begin' \in Addr /\ p_va' \in Addr /\ page' \in Addr /\ from_begin' \in Nat
    <3>1. x <= USER_END /\ p + PAGE_SIZE <= USER_END /\ p <= USER_END
      <4>1. /\ x <= p + PAGE_SIZE /\ p + PAGE_SIZE <= End(h) /\ End(h) <= USER_END
            /\ p \in Nat /\ x \in Nat /\ p + PAGE_SIZE \in Nat /\ End(h) \in Nat /\ USER_END \in Nat
            /\ PAGE_SIZE \in Nat
        BY <1>2, <1>3, <1>5, <1>6, <1>8
      <4> HIDE DEF x, p, h
      <4> QED
        BY <4>1
    <3>2. from_begin' \in Nat
      BY <1>2, <1>5, <1>u
    <3>3. x \in Addr /\ p + PAGE_SIZE \in Addr /\ p \in Addr
      <4>1. x \in Nat /\ p + PAGE_SIZE \in Nat /\ p \in Nat
        BY <1>2, <1>5, <1>6
      <4> HIDE DEF x, p
      <4> QED
        BY <3>1, <4>1, AddrIs
    <3> QED
      BY <1>u, <3>2, <3>3
  <2>2. \A a \in Addr : mem'[a] \in Int
    <3> SUFFICES ASSUME NEW a \in Addr PROVE mem'[a] \in Int
      OBVIOUS
    <3>1. mem[a] \in Int /\ a \in Nat
      BY <1>2, <1>3 DEF TypeOK
    <3>2. Puts(a) \in Int /\ Junk \in Int
      BY <1>2, <3>1 DEF Puts, Zero, Junk
    <3> QED
      BY <1>m, <3>1, <3>2
  <2>3. DOMAIN perm' \subseteq Addr /\ \A q \in DOMAIN perm' : perm'[q] \subseteq {"R", "W", "X"}
    <3>1. p \in Addr
      BY <1>u, <2>1
    <3> QED
      BY <1>2, <1>8, <1>9, <3>1 DEF TypeOK
  <2> QED
    BY <1>2, <1>m, <1>u, <2>1, <2>2, <2>3 DEF TypeOK
<1>16. \A a \in Addr : mem'[a] # mem[a] => a \in PageOf(page')
  <2> SUFFICES ASSUME NEW a \in Addr, mem'[a] # mem[a] PROVE a \in PageOf(p)
    BY <1>u
  <2>1. a \in Nat /\ p <= a /\ a < p + PAGE_SIZE
    BY <1>3, <1>10
  <2>2. p \in Nat /\ PAGE_SIZE \in Nat
    BY <1>2, <1>3
  <2> HIDE DEF p
  <2> QED
    BY <1>7, <2>1, <2>2
<1>17. /\ (n \in Loaded(bin, Len(bin)))' /\ (Laid(bin, n, vma_list))'
       /\ (AllWhole(mem, perm, bin, n - 1))' /\ (Others(mem, bin, n, {}))'
       /\ (Part(mem, perm, prog, to_begin, p_va))'
  BY <1>2, <1>13, <1>u
<1>18. Ordered(vma_list)' /\ (vma_list \in Seq(Areas))'
  BY <1>2, <1>u
<1>19. LoadInv'
  BY <1>2, <1>14, <1>15, <1>17, <1>18, <1>u DEF LoadInv, InSegment
<1> QED
  BY <1>16, <1>19

LEMMA CopyStep == ASSUME LoadInv, CopyText
                  PROVE  LoadInv' /\ \A a \in Addr : mem'[a] # mem[a] => a \in PageOf(page')
<1> DEFINE s == Chunk(to_begin - p_va, p_va + PAGE_SIZE)
<1>0. pc = "text" /\ to_begin < to_end
  BY DEF CopyText
<1>1. to_begin \in Nat /\ p_va \in Nat /\ p_va + (to_begin - p_va) = to_begin
  <2>1. to_begin \in Nat /\ p_va \in Nat
    BY <1>0, AtSegment DEF InSegment
  <2> QED
    BY <2>1
<1>2. mem' = memcpy(WithPage(mem, p_va), to_begin, from_begin, s)
  BY <1>1 DEF CopyText
<1> HIDE DEF s
<1>3. /\ DOMAIN mem' = Addr
      /\ \A a \in Addr : mem'[a] = IF to_begin <= a /\ a < to_begin + s THEN Puts(a)
                                   ELSE IF a \in PageOf(p_va) THEN Junk ELSE mem[a]
  BY <1>0, <1>2 DEF memcpy, WithPage, Puts
<1>4. FillsPage(s)
  BY <1>0, <1>3 DEF FillsPage, CopyText, s
<1>5. s = Chunk(to_begin - p_va, p_va + PAGE_SIZE)
  BY DEF s
<1> QED
  BY <1>0, <1>4, <1>5, TurnStep

LEMMA ZerosStep == ASSUME LoadInv, AddZeros
                   PROVE  LoadInv' /\ \A a \in Addr : mem'[a] # mem[a] => a \in PageOf(page')
<1> DEFINE s == Chunk(to_begin - p_va, p_va + PAGE_SIZE)
<1>0. pc = "zero" /\ to_begin < to_end
  BY DEF AddZeros, MoreZeros
<1>1. to_begin \in Nat /\ p_va \in Nat /\ p_va + (to_begin - p_va) = to_begin
  <2>1. to_begin \in Nat /\ p_va \in Nat
    BY <1>0, AtSegment DEF InSegment
  <2> QED
    BY <2>1
<1>2. mem' = memset(WithPage(mem, p_va), to_begin, s)
  BY <1>1 DEF AddZeros
<1> HIDE DEF s
<1>3. /\ DOMAIN mem' = Addr
      /\ \A a \in Addr : mem'[a] = IF to_begin <= a /\ a < to_begin + s THEN Puts(a)
                                   ELSE IF a \in PageOf(p_va) THEN Junk ELSE mem[a]
  BY <1>0, <1>2 DEF memset, WithPage, Puts
<1>4. FillsPage(s)
  BY <1>0, <1>3 DEF FillsPage, AddZeros, s
<1>5. s = Chunk(to_begin - p_va, p_va + PAGE_SIZE)
  BY DEF s
<1> QED
  BY <1>0, <1>4, <1>5, TurnStep

LEMMA TextDoneStep == ASSUME LoadInv, TextDone PROVE LoadInv'
<1> DEFINE h == prog
<1>0. pc = "text" /\ to_begin >= to_end /\ to_end' = h.p_va + h.p_mem_size /\ pc' = "bss" /\ InSegment
  BY DEF TextDone, MemEnd, InSegment
<1>1. /\ TypeOK /\ vma_curr = NULL /\ copy = NULL /\ panic = FALSE /\ Ordered(vma_list)
      /\ vma_list \in Seq(Areas) /\ vm_flags \subseteq {"R", "W", "X"}
      /\ h \in Headers /\ Sized(h)
      /\ n \in Loaded(bin, Len(bin)) /\ Laid(bin, n, vma_list)
      /\ AllWhole(mem, perm, bin, n - 1) /\ Others(mem, bin, n, {})
      /\ Part(mem, perm, h, to_begin, p_va) /\ Progress(h)
      /\ to_begin \in Nat /\ to_end \in Nat /\ p_va \in Nat /\ page \in Nat
  BY <1>0, AtSegment
<1>2. /\ h.p_va \in Nat /\ h.p_file_size \in Nat /\ h.p_mem_size \in Nat
      /\ End(h) \in Nat /\ End(h) <= USER_END /\ USER_END \in Nat
      /\ h.p_va + h.p_mem_size <= End(h) /\ h.p_file_size <= h.p_mem_size
  BY <1>1, HeaderIs, SizedIs, AddrIs
<1>u. /\ bin' = bin /\ n' = n /\ vm_flags' = vm_flags /\ pte_flags' = pte_flags
      /\ vma_list' = vma_list /\ vma_curr' = vma_curr /\ copy' = copy /\ panic' = panic
      /\ page' = page /\ p_va' = p_va /\ to_begin' = to_begin /\ perm' = perm /\ mem' = mem
      /\ from_begin' = from_begin /\ prog' = h
  BY DEF TextDone, prog
<1>3. to_begin = FileEnd(h) /\ FileEnd(h) = h.p_va + h.p_file_size /\ h.p_va <= to_begin
  BY <1>0, <1>1 DEF Progress, FileEnd
<1>4. to_begin' <= to_end' /\ to_end' \in Addr
  <2>1. h.p_va + h.p_mem_size \in Nat /\ h.p_va + h.p_mem_size <= USER_END
    BY <1>2
  <2>2. h.p_va + h.p_mem_size \in Addr
    BY <2>1, AddrIs
  <2> QED
    BY <1>0, <1>2, <1>3, <1>u, <2>2
<1>5. (Fresh(prog) \/ Going(prog))'
  <2>1. CASE Fresh(h)
    BY <1>u, <2>1 DEF Fresh
  <2>2. CASE Going(h)
    BY <1>0, <1>u, <2>2 DEF Going
  <2> QED
    BY <1>1, <2>1, <2>2 DEF Progress
<1>6. Progress(prog)'
  BY <1>0, <1>1, <1>3, <1>4, <1>5, <1>u DEF Progress
<1>7. TypeOK'
  BY <1>0, <1>1, <1>4, <1>u DEF TypeOK
<1> QED
  BY <1>0, <1>1, <1>6, <1>7, <1>u DEF LoadInv, InSegment

LEMMA ClearStep == ASSUME LoadInv, ClearBss
                   PROVE  LoadInv' /\ \A a \in Addr : mem'[a] # mem[a] => a \in PageOf(page')
<1> DEFINE h == prog
           t == to_begin
           p == p_va
           e == to_end
           s == Chunk(BssOffset, p_va)
           x == to_begin + s
<1>0. pc = "bss" /\ t < p /\ t # e /\ InSegment
  BY DEF ClearBss, InSegment
<1>1. /\ TypeOK /\ vma_curr = NULL /\ copy = NULL /\ panic = FALSE /\ Ordered(vma_list)
      /\ vma_list \in Seq(Areas) /\ vm_flags \subseteq {"R", "W", "X"}
      /\ h \in Headers /\ Sized(h) /\ h = bin[n] /\ n \in Loaded(bin, n)
      /\ n \in Loaded(bin, Len(bin)) /\ Laid(bin, n, vma_list)
      /\ AllWhole(mem, perm, bin, n - 1) /\ Others(mem, bin, n, {})
      /\ Part(mem, perm, h, t, p) /\ Progress(h)
      /\ t \in Nat /\ e \in Nat /\ p \in Nat /\ page \in Nat
      /\ \A i \in Loaded(bin, n - 1) : bin[i] \in Headers /\ End(bin[i]) <= Start(h)
  BY <1>0, AtSegment
<1>2. /\ h.p_va \in Nat /\ h.p_file_size \in Nat /\ h.p_mem_size \in Nat
      /\ End(h) \in Nat /\ End(h) <= USER_END /\ USER_END \in Nat /\ Start(h) \in Nat
      /\ h.p_va + h.p_mem_size <= End(h) /\ h.p_file_size <= h.p_mem_size /\ Start(h) <= h.p_va
      /\ PAGE_SIZE \in Nat \ {0} /\ Addr \subseteq Nat
  BY <1>1, HeaderIs, SizedIs, AddrIs, Pages
<1>3. t = FileEnd(h) /\ h.p_va <= t /\ t <= e /\ e = h.p_va + h.p_mem_size
  BY <1>0, <1>1 DEF Progress
<1>4. Going(h)
  <2>1. ~Fresh(h)
    BY <1>0, <1>1, <1>2 DEF Fresh
  <2> QED
    BY <1>1, <2>1 DEF Progress
<1>5. /\ Aligned(p) /\ Aligned(page) /\ page + PAGE_SIZE = p /\ Start(h) <= page /\ page < t
      /\ h.p_va < t /\ p <= End(h)
  BY <1>4 DEF Going
<1>6. s = PAGE_SIZE - (t + PAGE_SIZE - p) - (IF e < p THEN p - e ELSE 0)
  BY <1>1, <1>2 DEF Chunk, BssOffset
<1> HIDE DEF s
<1>7. /\ s \in Nat /\ x \in Nat /\ t < x /\ x <= p /\ x <= e /\ (x = p \/ x = e)
      /\ (e < p => x = e) /\ (e >= p => x = p)
  <2> HIDE DEF t, p, e
  <2>x. x = t + s
    BY DEF t
  <2> HIDE DEF x
  <2>0. t \in Nat /\ e \in Nat /\ p \in Nat /\ PAGE_SIZE \in Nat /\ t < p /\ t # e /\ t <= e
    BY <1>0, <1>1, <1>2, <1>3
  <2>1. CASE e < p
    <3>1. s = PAGE_SIZE - (t + PAGE_SIZE - p) - (p - e)
      BY <1>6, <2>1
    <3>2. s = e - t
      BY <2>0, <3>1
    <3> QED
      BY <2>0, <2>1, <2>x, <3>2
  <2>2. CASE ~(e < p)
    <3>1. s = PAGE_SIZE - (t + PAGE_SIZE - p) - 0
      BY <1>6, <2>2
    <3>2. s = p - t
      BY <2>0, <3>1
    <3> QED
      BY <2>0, <2>2, <2>x, <3>2
  <2> QED
    BY <2>1, <2>2
<1>8. page + BssOffset = t
  BY <1>1, <1>2, <1>5 DEF BssOffset
<1>9. mem' = memset(mem, t, s) /\ to_begin' = x
  BY <1>8 DEF ClearBss, s
<1>10. panic' = FALSE /\ pc' = "zero"
  <2>1. panic' = ~(\/ e < p /\ x = e
                   \/ e >= p /\ x = p)
    BY DEF ClearBss, s
  <2>2. pc' = IF panic' THEN "stopped" ELSE "zero"
    BY DEF ClearBss
  <2>3. e < p \/ e >= p
    BY <1>1
  <2>4. panic' = FALSE
    <3> HIDE DEF e, p, x
    <3> QED
      BY <1>7, <2>1, <2>3
  <2> QED
    BY <2>2, <2>4
<1>u. /\ bin' = bin /\ n' = n /\ vm_flags' = vm_flags /\ pte_flags' = pte_flags
      /\ vma_list' = vma_list /\ vma_curr' = vma_curr /\ copy' = copy
      /\ page' = page /\ p_va' = p /\ to_end' = e /\ perm' = perm
      /\ from_begin' = from_begin /\ prog' = h
  BY DEF ClearBss, prog
<1>11. DOMAIN mem' = Addr /\ Cleared(mem, mem', t, x)
  BY <1>9 DEF memset, Cleared
<1>12. Only(mem, mem', perm, perm', page)
  <2>1. ASSUME NEW a \in Addr, ~(page <= a /\ a < page + PAGE_SIZE) PROVE mem'[a] = mem[a]
    <3>1. a \in Nat
      BY <1>2
    <3>2. ~(t <= a /\ a < x)
      <4> HIDE DEF t, x, p
      <4> QED
        BY <1>1, <1>2, <1>5, <1>7, <2>1, <3>1
    <3> QED
      BY <1>11, <3>2 DEF Cleared
  <2> QED
    BY <1>u, <2>1 DEF Only
<1>13. \A a \in Addr : mem'[a] # mem[a] => a \in PageOf(page')
  <2> SUFFICES ASSUME NEW a \in Addr, mem'[a] # mem[a] PROVE a \in PageOf(page)
    BY <1>u
  <2>1. a \in Nat /\ page <= a /\ a < page + PAGE_SIZE
    BY <1>2, <1>12 DEF Only
  <2>2. PageOf(page) = page .. page + PAGE_SIZE - 1
    BY <1>5, PageIs
  <2> QED
    BY <1>1, <1>2, <2>1, <2>2
<1>14. Part(mem', perm', h, x, p)
  <2>1. Start(h) <= t
    BY <1>1, <1>2, <1>3
  <2>2. FileEnd(h) <= t /\ t <= x
    BY <1>1, <1>3, <1>7
  <2> HIDE DEF t, x, p, h
  <2> QED
    BY <1>1, <1>3, <1>7, <1>11, <1>u, <2>1, <2>2, PartClears
<1>15. Others(mem', bin, n, {})
  <2>1. Start(bin[n]) <= page /\ page + PAGE_SIZE <= End(bin[n]) /\ bin[n] \in Headers
    BY <1>1, <1>5
  <2> QED
    BY <1>1, <1>12, <2>1, OthersStay
<1>16. AllWhole(mem', perm', bin, n - 1)
  <2>1. ASSUME NEW i \in Loaded(bin, n - 1) PROVE Whole(mem', perm', bin[i])
    <3> DEFINE g == bin[i]
               y == g.p_va + g.p_mem_size
               z == PagesEnd(g)
    <3>1. g \in Headers /\ Part(mem, perm, g, y, z)
      BY <1>1 DEF AllWhole, Whole
    <3>2. End(g) <= page
      <4>1. End(g) \in Nat /\ End(g) <= Start(h)
        BY <1>1, HeaderIs
      <4> QED
        BY <1>1, <1>2, <1>5, <4>1
    <3> HIDE DEF g, y, z
    <3>3. Part(mem', perm', g, y, z)
      BY <1>1, <1>12, <3>1, <3>2, Elsewhere
    <3> QED
      BY <3>3 DEF g, y, z, Whole
  <2> QED
    BY <2>1 DEF AllWhole
<1>17. Progress(prog)'
  <2>1. Going(prog)'
    <3>1. /\ Aligned(p_va)' /\ Aligned(page)' /\ page' + PAGE_SIZE = p_va'
          /\ Start(h) <= page' /\ page' < to_begin' /\ to_begin' <= p_va'
          /\ h.p_va < to_begin' /\ p_va' <= End(h)
          /\ to_begin' = p_va' \/ to_begin' = to_end'
      <4>1. page < x /\ h.p_va < x
        BY <1>1, <1>2, <1>5, <1>7
      <4> QED
        BY <1>5, <1>7, <1>9, <1>u, <4>1
    <3> QED
      BY <1>u, <3>1 DEF Going
  <2>2. h.p_va <= to_begin' /\ to_begin' <= to_end' /\ FileEnd(h) <= to_begin'
    <3>1. FileEnd(h) \in Nat /\ FileEnd(h) <= t /\ t \in Nat /\ h.p_va \in Nat /\ h.p_va <= t
      BY <1>1, <1>2, <1>3
    <3>2. x \in Nat /\ t < x /\ x <= e /\ to_begin' = x /\ to_end' = e
      BY <1>7, <1>9, <1>u
    <3> HIDE DEF h, t, p, e, x
    <3> QED
      BY <3>1, <3>2
  <2>3. h.p_flags \subseteq pte_flags'
    BY <1>1, <1>u DEF Progress
  <2> QED
    BY <1>3, <1>10, <1>u, <2>1, <2>2, <2>3 DEF Progress
<1>18. TypeOK'
  <2>1. to_begin' \in Addr
    <3>1. x <= USER_END
      BY <1>2, <1>3, <1>7
    <3> QED
      BY <1>7, <1>9, <3>1, AddrIs
  <2>2. \A a \in Addr : mem'[a] \in Int
    BY <1>1, <1>11 DEF TypeOK, Cleared, Zero
  <2> QED
    BY <1>1, <1>10, <1>11, <1>u, <2>1, <2>2 DEF TypeOK
<1>19. /\ (n \in Loaded(bin, Len(bin)))' /\ (Laid(bin, n, vma_list))'
       /\ (AllWhole(mem, perm, bin, n - 1))' /\ (Others(mem, bin, n, {}))'
       /\ (Part(mem, perm, prog, to_begin, p_va))'
       /\ Ordered(vma_list)' /\ (vma_list \in Seq(Areas))'
  BY <1>1, <1>9, <1>14, <1>15, <1>16, <1>u
<1>20. LoadInv'
  BY <1>1, <1>10, <1>17, <1>18, <1>19, <1>u DEF LoadInv, InSegment
<1> QED
  BY <1>13, <1>20

LEMMA FullStep == ASSUME LoadInv, PageFull PROVE LoadInv'
<1> DEFINE h == prog
<1>0. pc = "bss" /\ to_begin >= p_va /\ pc' = "zero" /\ InSegment
  BY DEF PageFull, InSegment
<1>1. /\ TypeOK /\ vma_curr = NULL /\ copy = NULL /\ panic = FALSE /\ Ordered(vma_list)
      /\ vma_list \in Seq(Areas) /\ vm_flags \subseteq {"R", "W", "X"} /\ h \in Headers
      /\ n \in Loaded(bin, Len(bin)) /\ Laid(bin, n, vma_list)
      /\ AllWhole(mem, perm, bin, n - 1) /\ Others(mem, bin, n, {})
      /\ Part(mem, perm, h, to_begin, p_va) /\ Progress(h)
      /\ to_begin \in Nat /\ to_end \in Nat /\ p_va \in Nat /\ page \in Nat
  BY <1>0, AtSegment
<1>u. /\ bin' = bin /\ n' = n /\ vm_flags' = vm_flags /\ pte_flags' = pte_flags
      /\ vma_list' = vma_list /\ vma_curr' = vma_curr /\ copy' = copy /\ panic' = panic
      /\ page' = page /\ p_va' = p_va /\ to_begin' = to_begin /\ perm' = perm /\ mem' = mem
      /\ from_begin' = from_begin /\ to_end' = to_end /\ prog' = h
  BY DEF PageFull, prog, local
<1>2. (Fresh(prog) \/ Going(prog))'
  <2>1. CASE Fresh(h)
    BY <1>u, <2>1 DEF Fresh
  <2>2. CASE Going(h)
    <3>1. to_begin = p_va
      BY <1>0, <1>1, <2>2 DEF Going
    <3> QED
      BY <1>0, <1>u, <2>2, <3>1 DEF Going
  <2> QED
    BY <1>1, <2>1, <2>2 DEF Progress
<1>3. FileEnd(h) <= to_begin
  BY <1>0, <1>1 DEF Progress
<1>4. Progress(prog)'
  BY <1>0, <1>1, <1>2, <1>3, <1>u DEF Progress
<1>5. TypeOK'
  BY <1>0, <1>1, <1>u DEF TypeOK
<1> QED
  BY <1>0, <1>1, <1>4, <1>5, <1>u DEF LoadInv, InSegment

\* A segment of which all is there.
LEMMA Leaves ==
  ASSUME LoadInv, pc \in {"bss", "zero"}, to_begin = prog.p_va + prog.p_mem_size,
         pc' = "header", n' = n + 1,
         UNCHANGED <<bin, vm_flags, pte_flags, vma_list, vma_curr, local, mem, perm, copy, panic>>
  PROVE  LoadInv'
<1> DEFINE h == prog
<1>0. InSegment
  BY DEF InSegment
<1>1. /\ TypeOK /\ vma_curr = NULL /\ copy = NULL /\ panic = FALSE /\ Ordered(vma_list)
      /\ vma_list \in Seq(Areas) /\ vm_flags \subseteq {"R", "W", "X"} /\ h \in Headers
      /\ Laid(bin, n, vma_list) /\ h = bin[n] /\ Len(bin) \in Nat /\ n \in 1 .. Len(bin)
      /\ AllWhole(mem, perm, bin, n - 1) /\ Others(mem, bin, n, {})
      /\ Part(mem, perm, h, to_begin, p_va) /\ Progress(h)
      /\ to_begin \in Nat /\ to_end \in Nat /\ p_va \in Nat /\ page \in Nat
      /\ Loaded(bin, n) = Loaded(bin, n - 1) \cup {n}
  BY <1>0, AtSegment
<1>2. /\ h.p_va \in Nat /\ h.p_mem_size \in Nat /\ Aligned(End(h)) /\ End(h) \in Nat
      /\ h.p_va + h.p_mem_size <= End(h) /\ PAGE_SIZE \in Nat \ {0}
      /\ \A m : Aligned(m) /\ h.p_va + h.p_mem_size <= m => End(h) <= m
  BY <1>1, HeaderIs, Pages
<1>3. p_va = PagesEnd(h)
  <2>1. CASE Fresh(h)
    <3>1. h.p_mem_size = 0 /\ p_va = Start(h)
      BY <1>2, <2>1 DEF Fresh
    <3> QED
      BY <3>1 DEF PagesEnd
  <2>2. CASE Going(h)
    <3>1. Aligned(p_va) /\ to_begin <= p_va /\ h.p_va < to_begin /\ p_va <= End(h)
      BY <2>2 DEF Going
    <3>2. End(h) <= p_va
      BY <1>2, <3>1
    <3>3. h.p_mem_size # 0 /\ p_va = End(h)
      BY <1>1, <1>2, <3>1, <3>2
    <3> QED
      BY <3>3 DEF PagesEnd
  <2> QED
    BY <1>1, <2>1, <2>2 DEF Progress
<1>4. AllWhole(mem, perm, bin, n)
  <2>1. Whole(mem, perm, bin[n])
    BY <1>1, <1>3 DEF Whole
  <2> QED
    BY <1>1, <2>1 DEF AllWhole
<1>u. /\ bin' = bin /\ n' - 1 = n /\ vm_flags' = vm_flags /\ pte_flags' = pte_flags
      /\ vma_list' = vma_list /\ vma_curr' = vma_curr /\ copy' = copy /\ panic' = panic
      /\ page' = page /\ p_va' = p_va /\ to_begin' = to_begin /\ perm' = perm /\ mem' = mem
      /\ from_begin' = from_begin /\ to_end' = to_end /\ n' \in 1 .. Len(bin) + 1
  BY <1>1 DEF local
<1>5. TypeOK'
  BY <1>1, <1>u DEF TypeOK
<1>6. /\ (Laid(bin, n - 1, vma_list))' /\ (AllWhole(mem, perm, bin, n - 1))'
      /\ (Others(mem, bin, n - 1, {}))' /\ Ordered(vma_list)' /\ (vma_list \in Seq(Areas))'
  BY <1>1, <1>4, <1>u
<1> QED
  BY <1>1, <1>5, <1>6, <1>u DEF LoadInv, InSegment

LEMMA NoBssStep == ASSUME LoadInv, NoBss PROVE LoadInv'
<1>1. pc = "bss" /\ to_begin = to_end /\ InSegment
  BY DEF NoBss, InSegment
<1>2. Progress(prog)
  BY <1>1, AtSegment
<1>3. to_begin = prog.p_va + prog.p_mem_size
  BY <1>1, <1>2 DEF Progress
<1> QED
  BY <1>1, <1>3, Leaves DEF NoBss

LEMMA DoneStep == ASSUME LoadInv, SegmentDone PROVE LoadInv'
<1>1. pc = "zero" /\ ~(to_begin < to_end) /\ InSegment
  BY DEF SegmentDone, MoreZeros, InSegment
<1>2. Progress(prog) /\ to_begin \in Nat /\ to_end \in Nat
  BY <1>1, AtSegment
<1>3. to_begin = prog.p_va + prog.p_mem_size
  BY <1>1, <1>2 DEF Progress
<1> QED
  BY <1>1, <1>3, Leaves DEF SegmentDone

LEMMA StackIs == \A q \in StackPages : q \in Nat /\ USER_STACK_BEGIN <= q /\ q <= USER_END
<1> SUFFICES ASSUME NEW k \in 1 .. STACK_PAGES
             PROVE  LET q == USER_END - k * PAGE_SIZE
                    IN q \in Nat /\ USER_STACK_BEGIN <= q /\ q <= USER_END
  BY DEF StackPages
<1>1. /\ STACK_PAGES \in Nat /\ PAGE_SIZE \in Nat /\ USER_STACK_BEGIN \in Nat /\ USER_END \in Nat
      /\ USER_STACK_BEGIN + STACK_PAGES * PAGE_SIZE <= USER_END
  BY LoadBinAssumption, VmasAssumption
<1>2. k \in Nat /\ k <= STACK_PAGES
  BY <1>1
<1>3. k * PAGE_SIZE \in Nat /\ STACK_PAGES * PAGE_SIZE \in Nat /\ k * PAGE_SIZE <= STACK_PAGES * PAGE_SIZE
  BY <1>1, <1>2
<1> QED
  BY <1>1, <1>3

\* The stack is mapped, unless an area begins inside it: add_vma's ASSERT then
\* stops the kernel.
LEMMA MapsStack ==
  ASSUME LoadInv, MapStack, ~MapRefuses(vma_list, vma_curr, USER_STACK_BEGIN, USER_END)
  PROVE  LoadInv'
<1> DEFINE f == {"R", "W", "STACK"}
           v == NewArea(USER_STACK_BEGIN, USER_END, f)
<1>0. pc = "header" /\ n > Len(bin)
  BY DEF MapStack
<1>1. /\ bin \in Programs /\ Len(bin) \in Nat /\ n \in Nat \ {0} /\ n <= Len(bin) + 1
      /\ vma_curr = NULL /\ copy = NULL /\ panic = FALSE /\ Ordered(vma_list)
      /\ vma_list \in Seq(Areas) /\ Len(vma_list) \in Nat
      /\ Laid(bin, n - 1, vma_list) /\ AllWhole(mem, perm, bin, n - 1)
      /\ Others(mem, bin, n - 1, {})
      /\ \A i \in Loaded(bin, n - 1) : bin[i] \in Headers
  BY <1>0, AtHeader
<1>2. n - 1 = Len(bin)
  BY <1>0, <1>1
<1>3. TypeOK
  BY DEF LoadInv
<1>4. /\ USER_STACK_BEGIN \in Nat /\ USER_END \in Nat /\ USER_STACK_BEGIN < USER_END
      /\ Addr \subseteq Nat
  BY VmasAssumption, AddrIs
<1>5. /\ vm_flags' = f
      /\ vma_list' = vm_map(vma_list, USER_STACK_BEGIN, USER_END, f).list
      /\ panic' = vm_map(vma_list, USER_STACK_BEGIN, USER_END, f).panic
      /\ mem' = [a \in Addr |-> IF rounddown(a) \in StackPages THEN Junk ELSE mem[a]]
      /\ perm' = [a \in DOMAIN perm \cup StackPages |->
                    IF a \in StackPages THEN {"R", "W", "X"} ELSE perm[a]]
      /\ pc' = IF panic' THEN "stopped" ELSE "done"
      /\ UNCHANGED <<bin, n, pte_flags, vma_curr, local, copy>>
  <2>1. vm_flags' = f
    BY DEF MapStack, GiveUp
  <2> QED
    BY <2>1 DEF MapStack
<1>u. /\ bin' = bin /\ n' = n /\ pte_flags' = pte_flags /\ vma_curr' = NULL /\ copy' = NULL
      /\ page' = page /\ p_va' = p_va /\ to_begin' = to_begin /\ from_begin' = from_begin
      /\ to_end' = to_end
  BY <1>1, <1>5 DEF local
<1>6. v \in Areas /\ v.vm_start = USER_STACK_BEGIN /\ v.vm_end = USER_END
  BY <1>4 DEF NewArea, Areas
<1>7. vm_map(vma_list, USER_STACK_BEGIN, USER_END, f) = add_vma(vma_list, v)
  BY DEF vm_map, NewArea
<1>8. vma_list' \in Seq(Areas) /\ panic' \in BOOLEAN
  <2> HIDE DEF v
  <2> QED
    BY <1>1, <1>5, <1>6, <1>7, Adds
<1>9. TypeOK'
  <2>1. DOMAIN mem' = Addr /\ \A a \in Addr : mem'[a] \in Int
    BY <1>3, <1>5 DEF TypeOK, Junk
  <2>2. StackPages \subseteq Addr
    BY StackIs, AddrIs
  <2>3. DOMAIN perm' \subseteq Addr /\ \A q \in DOMAIN perm' : perm'[q] \subseteq {"R", "W", "X"}
    BY <1>3, <1>5, <2>2 DEF TypeOK
  <2>4. ASSUME NEW j \in 1 .. Len(vma_list') PROVE vma_list'[j].vm_flags \subseteq {"R", "W", "X", "STACK"}
    <3>1. vma_list'[j] \in Areas
      BY <1>8
    <3> QED
      BY <3>1 DEF Areas
  <2>5. pc' \in {"done", "stopped"}
    BY <1>5
  <2> QED
    BY <1>3, <1>5, <1>8, <1>u, <2>1, <2>3, <2>4, <2>5 DEF TypeOK
<1>10. CASE pc' = "stopped"
  BY <1>8, <1>9, <1>10, <1>u DEF LoadInv, InSegment
<1>11. CASE pc' # "stopped"
  <2>0. pc' = "done" /\ panic' = FALSE
    BY <1>5, <1>8, <1>11
  <2>1. \A j \in 1 .. Len(vma_list) : vma_list[j].vm_start <= USER_STACK_BEGIN
    <3> SUFFICES ASSUME NEW j \in 1 .. Len(vma_list), ~(vma_list[j].vm_start <= USER_STACK_BEGIN)
                 PROVE  FALSE
      OBVIOUS
    <3>1. \A k \in 1 .. Len(vma_list) : vma_list[k].vm_start \in Nat /\ vma_list[k].vm_end \in Nat
      <4>1. \A k \in 1 .. Len(vma_list) : vma_list[k] \in Areas
        BY <1>1
      <4> QED
        BY <4>1 DEF Areas
    <3>2. ~(vma_list[j].vm_start < v.vm_start)
      BY <1>4, <1>6, <3>1
    <3>3. \A k \in 1 .. Len(vma_list) : v.vm_end > vma_list[k].vm_start
      <4>1. \A k \in 1 .. Len(vma_list) : /\ vma_list[k].vm_start < vma_list[k].vm_end
                                          /\ vma_list[k].vm_end <= USER_END
        BY <1>1 DEF Ordered
      <4> HIDE DEF v
      <4> QED
        BY <1>4, <1>6, <3>1, <4>1
    <3> HIDE DEF v
    <3>4. add_vma(vma_list, v).panic
      BY <1>1, <1>6, <3>2, <3>3, Overlaps
    <3> QED
      BY <1>5, <1>7, <2>0, <3>4
  <2>2. /\ \A j \in 1 .. Len(vma_list) : vma_list[j].vm_end <= USER_STACK_BEGIN
        /\ Ordered(vma_list')
    <3> DEFINE r == vm_map(vma_list, USER_STACK_BEGIN, USER_END, f)
    <3>1. ~MapRefuses(vma_list, NULL, USER_STACK_BEGIN, USER_END)
      BY <1>1
    <3>2. f \in SUBSET {"R", "W", "X", "STACK"}
      OBVIOUS
    <3> HIDE DEF f
    <3>3. /\ \A j \in 1 .. Len(vma_list) : vma_list[j].vm_end <= USER_STACK_BEGIN
          /\ r.list = Append(vma_list, v) /\ Ordered(Append(vma_list, v))
      <4> DEFINE b == USER_STACK_BEGIN
                 e == USER_END
      <4>1. /\ b \in Nat /\ e \in Nat /\ \A j \in 1 .. Len(vma_list) : vma_list[j].vm_start <= b
            /\ ~MapRefuses(vma_list, NULL, b, e)
        BY <1>4, <2>1, <3>1
      <4> HIDE DEF b, e
      <4>2. LET x == vm_map(vma_list, b, e, f)
                y == NewArea(b, e, f)
            IN /\ \A j \in 1 .. Len(vma_list) : vma_list[j].vm_end <= b
               /\ x.list = Append(vma_list, y) /\ x.panic = FALSE /\ Ordered(Append(vma_list, y))
        <5>1. Ordered(vma_list)
          BY <1>1
        <5> DEFINE l == vma_list
        <5>2. /\ Ordered(l) /\ \A j \in 1 .. Len(l) : l[j].vm_start <= b
              /\ ~MapRefuses(l, NULL, b, e)
          BY <4>1, <5>1
        <5> HIDE DEF l
        <5>3. /\ \A j \in 1 .. Len(l) : l[j].vm_end <= b
              /\ vm_map(l, b, e, f).list = Append(l, NewArea(b, e, f))
              /\ vm_map(l, b, e, f).panic = FALSE /\ Ordered(Append(l, NewArea(b, e, f)))
          BY <3>2, <4>1, <5>2, MapAbove
        <5> QED
          BY <5>3 DEF l
      <4> QED
        BY <4>2, Zenon DEF b, e
    <3> HIDE DEF v, r
    <3> QED
      BY <1>5, <3>3 DEF r
  <2>3. ASSUME NEW i \in Loaded(bin, Len(bin)) PROVE Sized(bin[i]) /\ End(bin[i]) <= USER_STACK_BEGIN
    <3>1. Sized(bin[i]) /\ \E j \in 1 .. Len(vma_list) : AreaOf(vma_list[j], bin[i])
      BY <1>1, <1>2 DEF Laid
    <3>2. PICK j \in 1 .. Len(vma_list) : AreaOf(vma_list[j], bin[i])
      BY <3>1
    <3> QED
      BY <2>2, <3>1, <3>2 DEF AreaOf
  <2>4. ASSUME NEW a \in Addr, a < USER_STACK_BEGIN PROVE rounddown(a) \notin StackPages
    <3>1. a \in Nat /\ rounddown(a) \in Nat /\ rounddown(a) <= a
      BY <1>4, Down
    <3> QED
      BY <1>4, <2>4, <3>1, StackIs
  <2>5. AllWhole(mem', perm', bin, Len(bin))
    <3>1. ASSUME NEW i \in Loaded(bin, Len(bin)) PROVE Whole(mem', perm', bin[i])
      <4> DEFINE g == bin[i]
                 y == g.p_va + g.p_mem_size
                 z == PagesEnd(g)
      <4>1. Part(mem, perm, g, y, z)
        BY <1>1, <1>2 DEF AllWhole, Whole
      <4>2. End(g) \in Nat /\ End(g) <= USER_STACK_BEGIN
        BY <1>1, <1>2, <2>3, HeaderIs
      <4> HIDE DEF g, y, z
      <4>3. ASSUME NEW a \in Addr, Within(g, a)
            PROVE  /\ mem'[a] = ByteAt(g, y, z, a)
                   /\ a < z => rounddown(a) \in DOMAIN perm' /\ g.p_flags \subseteq perm'[rounddown(a)]
        <5>1. a \in Nat /\ a < USER_STACK_BEGIN
          BY <1>4, <4>2, <4>3 DEF Within
        <5>2. rounddown(a) \notin StackPages
          BY <2>4, <5>1
        <5>3. /\ mem[a] = ByteAt(g, y, z, a)
              /\ a < z => rounddown(a) \in DOMAIN perm /\ g.p_flags \subseteq perm[rounddown(a)]
          BY <4>1, <4>3 DEF Part
        <5>4. mem'[a] = mem[a]
          BY <1>5, <5>2
        <5>5. rounddown(a) \in DOMAIN perm => /\ rounddown(a) \in DOMAIN perm'
                                               /\ perm'[rounddown(a)] = perm[rounddown(a)]
          BY <1>5, <5>2
        <5> QED
          BY <5>3, <5>4, <5>5
      <4>4. Part(mem', perm', g, y, z)
        BY <4>3 DEF Part
      <4> QED
        BY <4>4 DEF g, y, z, Whole
    <3> QED
      BY <3>1 DEF AllWhole
  <2>6. Others(mem', bin, Len(bin), StackPages)
    <3>1. ASSUME NEW a \in Addr, \A i \in Loaded(bin, Len(bin)) : ~Within(bin[i], a)
          PROVE  mem'[a] = IF rounddown(a) \in StackPages THEN Junk ELSE Unmapped
      <4>1. mem[a] = Unmapped
        BY <1>1, <1>2, <3>1 DEF Others
      <4>2. mem'[a] = IF rounddown(a) \in StackPages THEN Junk ELSE mem[a]
        BY <1>5
      <4> QED
        BY <4>1, <4>2
    <3> QED
      BY <3>1 DEF Others
  <2>7. /\ Ordered(vma_list)' /\ (AllWhole(mem, perm, bin, Len(bin)))'
        /\ (Others(mem, bin, Len(bin), StackPages))'
        /\ (\A i \in Loaded(bin, Len(bin)) : Sized(bin[i]) /\ End(bin[i]) <= USER_STACK_BEGIN)'
    BY <1>u, <2>2, <2>3, <2>5, <2>6
  <2> QED
    BY <1>8, <1>9, <1>u, <2>0, <2>7 DEF LoadInv, InSegment
<1> QED
  BY <1>10, <1>11

LEMMA StackStep == ASSUME LoadInv, MapStack PROVE LoadInv'
<1> DEFINE r == MapRefuses(vma_list, vma_curr, USER_STACK_BEGIN, USER_END)
<1>1. pc = "header" /\ ((r /\ GiveUp) \/ ~r)
  BY DEF MapStack
<1>2. CASE GiveUp
  BY <1>1, <1>2, GivesUp
<1>3. CASE ~r
  BY <1>3, MapsStack
<1> QED
  BY <1>1, <1>2, <1>3

LEMMA LoadStays == LoadInv /\ UNCHANGED vars => LoadInv'
<1> SUFFICES ASSUME LoadInv, UNCHANGED vars PROVE LoadInv'
  OBVIOUS
<1>u. /\ bin' = bin /\ vm_flags' = vm_flags /\ pte_flags' = pte_flags /\ vma_list' = vma_list
      /\ n' = n /\ mem' = mem /\ perm' = perm /\ copy' = copy /\ panic' = panic /\ pc' = pc
      /\ from_begin' = from_begin /\ to_begin' = to_begin /\ to_end' = to_end /\ p_va' = p_va
      /\ page' = page /\ vma_curr' = vma_curr
  BY DEF vars, local
<1>1. TypeOK'
  BY <1>u DEF LoadInv, TypeOK
<1>2. InSegment' = InSegment /\ prog' = prog /\ Progress(prog)' = Progress(prog)
  BY <1>u DEF InSegment, prog, Progress, Fresh, Going
<1> QED
  BY <1>1, <1>2, <1>u DEF LoadInv

LEMMA LoadNext == LoadInv /\ [Next]_vars => LoadInv'
<1> SUFFICES ASSUME LoadInv, [Next]_vars PROVE LoadInv'
  OBVIOUS
<1>1. CASE SkipHeader BY <1>1, SkipStep
<1>2. CASE RefuseHeader BY <1>2, RefuseStep
<1>3. CASE MapSegment BY <1>3, MapStep
<1>4. CASE CopyText BY <1>4, CopyStep
<1>5. CASE TextDone BY <1>5, TextDoneStep
<1>6. CASE ClearBss BY <1>6, ClearStep
<1>7. CASE NoBss BY <1>7, NoBssStep
<1>8. CASE PageFull BY <1>8, FullStep
<1>9. CASE AddZeros BY <1>9, ZerosStep
<1>10. CASE SegmentDone BY <1>10, DoneStep
<1>11. CASE MapStack BY <1>11, StackStep
<1>12. ASSUME NEW a \in Addr, Fault(a) PROVE LoadInv'
  BY <1>12, FaultStep
<1>13. ASSUME NEW a \in Addr, NEW len \in 1 .. MaxLen, NEW w \in BOOLEAN, Check(a, len, w) PROVE LoadInv'
  BY <1>13, CheckStepOf
<1>14. CASE Fork BY <1>14, ForkStep
<1>15. CASE UNCHANGED vars BY <1>15, LoadStays
<1> QED
  BY <1>1, <1>2, <1>3, <1>4, <1>5, <1>6, <1>7, <1>8, <1>9, <1>10, <1>11, <1>12, <1>13, <1>14, <1>15
     DEF Next, Loading

-----------------------------------------------------------------------------
(* The theorems.                                                           *)

LEMMA LoadAlways == Spec => []LoadInv
BY LoadInit, LoadNext, PTL DEF Spec

LEMMA WritesStep ==
  ASSUME LoadInv, Next
  PROVE  pc \in {"text", "bss", "zero"} => \A a \in Addr : mem'[a] # mem[a] => a \in PageOf(page')
<1> DEFINE W == \A a \in Addr : mem'[a] # mem[a] => a \in PageOf(page')
<1> SUFFICES ASSUME pc \in {"text", "bss", "zero"} PROVE W
  OBVIOUS
<1>1. CASE CopyText BY <1>1, CopyStep
<1>2. CASE ClearBss BY <1>2, ClearStep
<1>3. CASE AddZeros BY <1>3, ZerosStep
<1>4. CASE TextDone \/ NoBss \/ PageFull \/ SegmentDone
  BY <1>4 DEF TextDone, NoBss, PageFull, SegmentDone
<1>5. ~SkipHeader /\ ~RefuseHeader /\ ~MapSegment /\ ~MapStack /\ ~Fork
  BY DEF SkipHeader, RefuseHeader, MapSegment, MapStack, Fork
<1>6. /\ \A a \in Addr : ~Fault(a)
      /\ \A a \in Addr, len \in 1 .. MaxLen, w \in BOOLEAN : ~Check(a, len, w)
  BY DEF Fault, Check
<1> HIDE DEF W
<1> QED
  BY <1>1, <1>2, <1>3, <1>4, <1>5, <1>6 DEF Next, Loading

\* load_bin writes only into the page that alloc_page_gpte gave it last, whatever
\* the addresses and sizes in the headers are.
THEOREM WritesInPageHolds == Spec => WritesInPage
<1>1. LoadInv /\ [Next]_vars =>
        [(pc \in {"text", "bss", "zero"} => \A a \in Addr : mem'[a] # mem[a] => a \in PageOf(page'))]_vars
  BY WritesStep
<1> QED
  BY <1>1, LoadAlways, PTL DEF Spec, WritesInPage

LEMMA CheckIsExact == LoadInv => CheckExact
<1> SUFFICES ASSUME LoadInv, pc = "done" PROVE CheckExact
  BY DEF CheckExact
<1>1. /\ Ordered(vma_list) /\ Cached(vma_list, vma_curr) /\ panic = FALSE
      /\ copy # NULL => copy = vma_list
  BY DEF LoadInv, TypeOK, Cached
<1>2. ASSUME NEW a \in Addr, NEW len \in 1 .. MaxLen, NEW w \in BOOLEAN
      PROVE  check_vmm(vma_list, vma_curr, a, len, w).ok <=>
               \A b \in a .. a + len - 1 : Good(vma_list, b, w)
  <2>1. a \in Nat
    BY AddrIs
  <2>2. len \in Nat \ {0}
    BY LoadBinAssumption
  <2> QED
    BY <1>1, <2>1, <2>2, CheckIs
<1> QED
  BY <1>1, <1>2 DEF CheckExact, Good, Fine

\* check_vmm says yes to exactly the buffers whose bytes all lie in areas with the
\* permission, whatever vma_curr holds, and dup_vmm copies the areas in order
\* without tripping an ASSERT of add_vma.
THEOREM CheckExactHolds == Spec => []CheckExact
BY LoadAlways, CheckIsExact, PTL

\* A byte of a page of h that has bytes of h, and the other way round.
LEMMA PageHasByte ==
  ASSUME NEW h \in Headers, h.p_mem_size # 0, NEW a \in Addr, Within(h, a)
  PROVE  \E b \in PageOf(a) : h.p_va <= b /\ b < h.p_va + h.p_mem_size
<1>0. /\ h.p_va \in Nat /\ h.p_mem_size \in Nat /\ Aligned(Start(h)) /\ Start(h) \in Nat
      /\ Start(h) <= h.p_va /\ h.p_va < Start(h) + PAGE_SIZE /\ End(h) \in Nat
      /\ \A m : Aligned(m) /\ h.p_va + h.p_mem_size <= m => End(h) <= m
  BY HeaderIs
<1>1. a \in Nat /\ Start(h) <= a /\ a < End(h) /\ PAGE_SIZE \in Nat \ {0}
  BY AddrIs, Pages DEF Within
<1> DEFINE r == rounddown(a)
<1>2. Aligned(r) /\ r \in Nat /\ r <= a /\ a < r + PAGE_SIZE
  BY <1>1, Down
<1>3. PageOf(a) = r .. r + PAGE_SIZE - 1
  BY DEF PageOf
<1> HIDE DEF r
<1>4. r < h.p_va + h.p_mem_size
  <2>1. h.p_va + h.p_mem_size <= r => End(h) <= r
    BY <1>0, <1>2
  <2> QED
    BY <1>0, <1>1, <1>2, <2>1
<1>5. Start(h) <= r
  <2>1. r < Start(h) => r + PAGE_SIZE <= Start(h)
    BY <1>0, <1>2, Pages
  <2> QED
    BY <1>0, <1>1, <1>2, <2>1
<1>6. CASE h.p_va <= r
  <2>1. r \in PageOf(a)
    BY <1>1, <1>2, <1>3
  <2> QED
    BY <1>4, <1>6, <2>1
<1>7. CASE r < h.p_va
  <2>1. h.p_va \in PageOf(a)
    BY <1>0, <1>1, <1>2, <1>3, <1>5, <1>7
  <2>2. h.p_va < h.p_va + h.p_mem_size
    BY <1>0
  <2> QED
    BY <1>0, <2>1, <2>2
<1> QED
  BY <1>0, <1>2, <1>6, <1>7

LEMMA ByteInPage ==
  ASSUME NEW h \in Headers, NEW a \in Addr, NEW b \in PageOf(a),
         h.p_va <= b, b < h.p_va + h.p_mem_size
  PROVE  Within(h, a) /\ h.p_mem_size # 0
<1>0. /\ h.p_va \in Nat /\ h.p_mem_size \in Nat /\ Aligned(Start(h)) /\ Start(h) \in Nat
      /\ Start(h) <= h.p_va /\ End(h) \in Nat /\ Aligned(End(h)) /\ h.p_va + h.p_mem_size <= End(h)
  BY HeaderIs
<1>1. a \in Nat /\ PAGE_SIZE \in Nat \ {0}
  BY AddrIs, Pages
<1> DEFINE r == rounddown(a)
<1>2. Aligned(r) /\ r \in Nat /\ r <= a /\ a < r + PAGE_SIZE
  BY <1>1, Down
<1>3. b \in Nat /\ r <= b /\ b < r + PAGE_SIZE
  BY <1>1, <1>2 DEF PageOf
<1> HIDE DEF r
<1>4. Start(h) <= r
  <2>1. r < Start(h) => r + PAGE_SIZE <= Start(h)
    BY <1>0, <1>2, Pages
  <2> QED
    BY <1>0, <1>1, <1>2, <1>3, <2>1
<1>5. r + PAGE_SIZE <= End(h)
  <2>1. r < End(h)
    BY <1>0, <1>2, <1>3
  <2> QED
    BY <1>0, <1>2, <2>1, Pages
<1> QED
  BY <1>0, <1>1, <1>2, <1>3, <1>4, <1>5 DEF Within

LEMMA ImageIsExact == LoadInv => ImageExact
<1> SUFFICES ASSUME LoadInv PROVE ImageExact
  OBVIOUS
<1>0. TypeOK
  BY DEF LoadInv
<1> DEFINE Byte(a) == IF \E h \in Loads : InFile(h, a)
                      THEN \E h \in Loads : InFile(h, a) /\ mem[a] = h.p_offset + a - h.p_va
                      ELSE IF \E h \in Loads : InBss(h, a) THEN mem[a] = Zero
                      ELSE IF \/ rounddown(a) \in StackPages
                              \/ \E h \in Loads, b \in PageOf(a) : InFile(h, b) \/ InBss(h, b)
                      THEN mem[a] = Junk
                      ELSE mem[a] = Unmapped
<1>1. ASSUME pc = "done" PROVE /\ \A a \in Addr : Byte(a)
                               /\ \A h \in Loads, a \in Addr :
                                    InFile(h, a) \/ InBss(h, a) => h.p_flags \subseteq perm[rounddown(a)]
  <2>0. /\ \A i \in Loaded(bin, Len(bin)) : Sized(bin[i]) /\ End(bin[i]) <= USER_STACK_BEGIN
        /\ AllWhole(mem, perm, bin, Len(bin)) /\ Others(mem, bin, Len(bin), StackPages)
    BY <1>1 DEF LoadInv
  <2>1. bin \in Programs /\ \A i \in 1 .. Len(bin) : bin[i] \in Headers
    BY <1>0, BinIs DEF TypeOK
  <2>2. Loads = { bin[i] : i \in Loaded(bin, Len(bin)) } /\ Loaded(bin, Len(bin)) \subseteq 1 .. Len(bin)
    BY DEF Loads, Loaded
  <2>3. ASSUME NEW h \in Loads
        PROVE  /\ h \in Headers /\ Sized(h) /\ End(h) <= USER_STACK_BEGIN /\ Whole(mem, perm, h)
               /\ h.p_va \in Nat /\ h.p_file_size \in Nat /\ h.p_mem_size \in Nat
               /\ Start(h) \in Nat /\ End(h) \in Nat /\ Start(h) <= h.p_va
               /\ h.p_va + h.p_mem_size <= End(h) /\ h.p_file_size <= h.p_mem_size
    <3>1. PICK i \in Loaded(bin, Len(bin)) : h = bin[i]
      BY <2>2
    <3>2. h \in Headers /\ Sized(h) /\ End(h) <= USER_STACK_BEGIN /\ Whole(mem, perm, h)
      BY <2>0, <2>1, <2>2, <3>1 DEF AllWhole
    <3> QED
      BY <3>2, HeaderIs, SizedIs
  <2>4. Addr \subseteq Nat /\ USER_STACK_BEGIN \in Nat
    BY AddrIs
  <2>5. ASSUME NEW h \in Loads, NEW a \in Nat, InFile(h, a) \/ InBss(h, a)
        PROVE  /\ h.p_va <= a /\ a < h.p_va + h.p_mem_size /\ Within(h, a) /\ h.p_mem_size # 0
               /\ PagesEnd(h) = End(h)
    <3>1. h.p_va <= a /\ a < h.p_va + h.p_mem_size
      BY <2>3, <2>5 DEF InFile, InBss
    <3>2. Within(h, a) /\ h.p_mem_size # 0
      BY <2>3, <3>1 DEF Within
    <3> QED
      BY <3>1, <3>2 DEF PagesEnd
  <2>6. ASSUME NEW h \in Loads, NEW a \in Addr, Within(h, a)
        PROVE  /\ mem[a] = ByteAt(h, h.p_va + h.p_mem_size, PagesEnd(h), a)
               /\ a < PagesEnd(h) => h.p_flags \subseteq perm[rounddown(a)]
               /\ a \in Nat /\ Start(h) <= a /\ a < End(h) /\ rounddown(a) \notin StackPages
    <3>1. Whole(mem, perm, h)
      BY <2>3
    <3>2. a \in Nat /\ Start(h) <= a /\ a < End(h)
      BY <2>4, <2>6 DEF Within
    <3>3. rounddown(a) \in Nat /\ rounddown(a) <= a
      BY <3>2, Down
    <3>4. rounddown(a) \notin StackPages
      <4>1. End(h) \in Nat /\ End(h) <= USER_STACK_BEGIN
        BY <2>3
      <4> QED
        BY <2>4, <3>2, <3>3, <4>1, StackIs
    <3> QED
      BY <2>6, <3>1, <3>2, <3>4 DEF Whole, Part
  <2>7. ASSUME NEW a \in Addr PROVE Byte(a)
    <3>0. a \in Nat
      BY <2>4
    <3>1. CASE \E h \in Loads : InFile(h, a)
      <4>1. PICK h \in Loads : InFile(h, a)
        BY <3>1
      <4>2. /\ h.p_va <= a /\ Within(h, a) /\ PagesEnd(h) = End(h)
            /\ a < h.p_va + h.p_mem_size /\ a < h.p_va + h.p_file_size
        BY <2>5, <3>0, <4>1 DEF InFile
      <4>3. mem[a] = ByteAt(h, h.p_va + h.p_mem_size, PagesEnd(h), a) /\ Start(h) <= a /\ a < End(h)
        BY <2>6, <4>2
      <4>4. mem[a] = h.p_offset + a - h.p_va
        BY <4>2, <4>3 DEF ByteAt
      <4> QED
        BY <3>1, <4>1, <4>4
    <3>2. CASE ~(\E h \in Loads : InFile(h, a)) /\ \E h \in Loads : InBss(h, a)
      <4>1. PICK h \in Loads : InBss(h, a)
        BY <3>2
      <4>2. /\ h.p_va <= a /\ Within(h, a) /\ PagesEnd(h) = End(h)
            /\ a < h.p_va + h.p_mem_size /\ ~(a < h.p_va + h.p_file_size)
        <5>1. ~(a < h.p_va + h.p_file_size)
          BY <2>3, <3>0, <4>1 DEF InBss
        <5> QED
          BY <2>5, <3>0, <4>1, <5>1
      <4>3. mem[a] = ByteAt(h, h.p_va + h.p_mem_size, PagesEnd(h), a) /\ Start(h) <= a /\ a < End(h)
        BY <2>6, <4>2
      <4>4. mem[a] = Zero
        BY <4>2, <4>3 DEF ByteAt
      <4> QED
        BY <3>2, <4>4
    <3>3. CASE \A h \in Loads : ~InFile(h, a) /\ ~InBss(h, a)
      <4>0. \A h \in Loads : ~(h.p_va <= a /\ a < h.p_va + h.p_mem_size)
        BY <2>3, <3>0, <3>3 DEF InFile, InBss
      <4>1. CASE \E h \in Loads, b \in PageOf(a) : InFile(h, b) \/ InBss(h, b)
        <5>1. PICK h \in Loads, b \in PageOf(a) : InFile(h, b) \/ InBss(h, b)
          BY <4>1
        <5>2. b \in Nat
          <6>1. rounddown(a) \in Nat /\ PAGE_SIZE \in Nat
            BY <3>0, Down, Pages
          <6> QED
            BY <6>1 DEF PageOf
        <5>3. h.p_va <= b /\ b < h.p_va + h.p_mem_size
          BY <2>5, <5>1, <5>2
        <5>4. Within(h, a) /\ h.p_mem_size # 0
          BY <2>3, <5>1, <5>3, ByteInPage
        <5>5. /\ mem[a] = ByteAt(h, h.p_va + h.p_mem_size, End(h), a)
              /\ Start(h) <= a /\ a < End(h)
          BY <2>6, <5>4 DEF PagesEnd
        <5>6. mem[a] = Junk
          BY <4>0, <5>5 DEF ByteAt
        <5> QED
          BY <3>3, <4>1, <5>6
      <4>2. CASE ~ \E h \in Loads, b \in PageOf(a) : InFile(h, b) \/ InBss(h, b)
        <5>1. CASE \E h \in Loads : Within(h, a)
          <6>1. PICK h \in Loads : Within(h, a)
            BY <5>1
          <6>2. h.p_mem_size = 0
            <7>1. ASSUME h.p_mem_size # 0 PROVE FALSE
              <8>1. PICK b \in PageOf(a) : h.p_va <= b /\ b < h.p_va + h.p_mem_size
                BY <2>3, <6>1, <7>1, PageHasByte
              <8>2. b \in Nat
                <9>1. rounddown(a) \in Nat /\ PAGE_SIZE \in Nat
                  BY <3>0, Down, Pages
                <9> QED
                  BY <9>1 DEF PageOf
              <8>3. InFile(h, b) \/ InBss(h, b)
                BY <2>3, <8>1, <8>2 DEF InFile, InBss
              <8> QED
                BY <4>2, <8>3
            <7> QED
              BY <7>1
          <6>3. /\ mem[a] = ByteAt(h, h.p_va + h.p_mem_size, Start(h), a)
                /\ Start(h) <= a /\ rounddown(a) \notin StackPages
            BY <2>6, <6>1, <6>2 DEF PagesEnd
          <6>4. ~(a < Start(h))
            BY <2>3, <3>0, <6>3
          <6>5. mem[a] = Unmapped
            BY <6>3, <6>4 DEF ByteAt
          <6> QED
            BY <3>3, <4>2, <6>3, <6>5
        <5>2. CASE \A h \in Loads : ~Within(h, a)
          <6>1. mem[a] = IF rounddown(a) \in StackPages THEN Junk ELSE Unmapped
            BY <2>0, <2>2, <5>2 DEF Others
          <6> QED
            BY <3>3, <4>2, <6>1
        <5> QED
          BY <5>1, <5>2
      <4> QED
        BY <4>1, <4>2
    <3> HIDE DEF Byte
    <3> QED
      BY <3>1, <3>2, <3>3
  <2>8. ASSUME NEW h \in Loads, NEW a \in Addr, InFile(h, a) \/ InBss(h, a)
        PROVE  h.p_flags \subseteq perm[rounddown(a)]
    <3>1. Within(h, a) /\ PagesEnd(h) = End(h)
      BY <2>4, <2>5, <2>8
    <3> QED
      BY <2>6, <3>1 DEF Within
  <2> QED
    BY <2>7, <2>8
<1> QED
  BY <1>0, <1>1 DEF ImageExact

\* When load_bin returns 0 the address space holds exactly the image of the file:
\* the bytes of the segments, zeros behind them, and no page beyond those and the
\* stack, each with at least the permissions its header asks for.
THEOREM ImageExactHolds == Spec => []ImageExact
BY LoadAlways, ImageIsExact, PTL
=============================================================================
