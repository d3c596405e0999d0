--------------------------- MODULE AddrSpaceProofs ---------------------------
(***************************************************************************)
(* The address spaces of AddrSpace.tla, for every size of the page tables, *)
(* any processes, programs and number of frames: no frame has two uses,    *)
(* what exits return, and that each process sees a memory of its own.      *)
(***************************************************************************)
EXTENDS AddrSpace, FiniteSetTheorems, TLAPS

-----------------------------------------------------------------------------
(* Addresses.                                                              *)

\* The number of the last-level table that v falls into.
Leaf(v) == v \div PT_SIZE

LEMMA Quotient == ASSUME NEW a \in Nat, NEW b \in Nat \ {0}, NEW q \in Nat, NEW r \in 0 .. b - 1,
                         a = b * q + r
                  PROVE  a \div b = q /\ a % b = r
<1>1. a \div b \in Nat /\ b * (a \div b) <= a /\ a < b * (a \div b) + b
  OBVIOUS
<1>2. a \div b = q
  <2> DEFINE d == a \div b
  <2>0. d \in Nat /\ b * d <= a /\ a < b * d + b
    BY <1>1
  <2> HIDE DEF d
  <2>1. ASSUME d < q PROVE FALSE
    <3>1. b * q >= b * (d + 1) /\ b * (d + 1) = b * d + b
      BY <2>0, <2>1
    <3> QED
      BY <2>0, <3>1
  <2>2. ASSUME d > q PROVE FALSE
    <3>1. b * d >= b * (q + 1) /\ b * (q + 1) = b * q + b
      BY <2>0, <2>2
    <3> QED
      BY <2>0, <3>1
  <2>3. d = q
    BY <2>0, <2>1, <2>2
  <2> QED
    BY <2>3 DEF d
<1>3. a % b = r
  OBVIOUS
<1> QED
  BY <1>2, <1>3

LEMMA Division == ASSUME NEW a \in Nat, NEW b \in Nat \ {0}
                  PROVE  a \div b \in Nat /\ a % b \in 0 .. b - 1 /\ a = b * (a \div b) + (a % b)
<1>1. a \div b \in Nat /\ b * (a \div b) <= a /\ a < b * (a \div b) + b
  OBVIOUS
<1> DEFINE q == a \div b
           r == a - b * q
<1> HIDE DEF q
<1>2. q \in Nat /\ b * q \in Nat /\ r \in 0 .. b - 1 /\ a = b * q + r
  BY <1>1 DEF q
<1> HIDE DEF r
<1>3. a \div b = q /\ a % b = r
  BY <1>2, Quotient, Zenon
<1> QED
  BY <1>2, <1>3

LEMMA Constants == /\ PT_SIZE \in Nat \ {0} /\ PT_SIZE * PT_SIZE \in Nat \ {0}
                   /\ NumPages \in Nat /\ NumPages = PT_SIZE * (PT_SIZE * PT_SIZE)
                   /\ NULL \notin Frames /\ NULL \notin Values
<1>1. PT_SIZE \in Nat \ {0} /\ NULL \notin Frames /\ NULL \notin Values
  BY SpaceAssumption
<1>2. PT_SIZE * PT_SIZE \in Nat \ {0}
  BY <1>1
<1> QED
  BY <1>1, <1>2 DEF NumPages

\* The address with given indices.
LEMMA Composed ==
  ASSUME NEW i \in Index, NEW j \in Index, NEW k \in Index, NEW v,
         v = PT_SIZE * (PT_SIZE * i + j) + k
  PROVE  /\ v \in VA /\ Leaf(v) = PT_SIZE * i + j
         /\ get_gptx(v) = i /\ get_mptx(v) = j /\ get_ptx(v) = k
<1> DEFINE P == PT_SIZE
           q == P * i + j
           s == P * j + k
<1>1. P \in Nat \ {0} /\ P * P \in Nat \ {0} /\ NumPages = P * (P * P) /\ NumPages \in Nat
  BY Constants
<1>2. i \in Nat /\ j \in Nat /\ k \in Nat /\ i < P /\ j < P /\ k < P
  BY <1>1 DEF Index
<1> HIDE DEF P
<1>3. q \in Nat /\ s \in Nat
  BY <1>1, <1>2
<1>4. s < P * P
  <2>1. P * j <= P * (P - 1)
    BY <1>1, <1>2
  <2>2. P * (P - 1) = P * P - P
    BY <1>1
  <2> QED
    BY <1>1, <1>2, <1>3, <2>1, <2>2
<1>5. q < P * P
  <2>1. P * i <= P * (P - 1)
    BY <1>1, <1>2
  <2>2. P * (P - 1) = P * P - P
    BY <1>1
  <2> QED
    BY <1>1, <1>2, <1>3, <2>1, <2>2
<1>6. v = P * q + k
  BY DEF P
<1>7. v = (P * P) * i + s
  <2>1. P * (P * i + j) = (P * P) * i + P * j
    BY <1>1, <1>2
  <2>2. (P * P) * i \in Nat /\ P * j \in Nat
    BY <1>1, <1>2
  <2> QED
    BY <1>2, <1>6, <2>1, <2>2
<1>8. v \in VA
  <2> HIDE DEF q
  <2>1. P * q \in Nat /\ v \in Nat
    BY <1>1, <1>2, <1>3, <1>6
  <2>2. P * q <= P * (P * P - 1)
    BY <1>1, <1>3, <1>5
  <2>3. P * (P * P - 1) = P * (P * P) - P
    BY <1>1
  <2>4. v < NumPages
    BY <1>1, <1>2, <1>6, <2>1, <2>2, <2>3
  <2> QED
    BY <1>1, <2>1, <2>4 DEF VA
<1>9. v \in Nat
  BY <1>8, <1>1 DEF VA
<1> HIDE DEF q, s
<1>k. k \in 0 .. P - 1 /\ j \in 0 .. P - 1
  BY <1>1, <1>2
<1>10. v \div P = q /\ v % P = k
  BY <1>1, <1>3, <1>6, <1>9, <1>k, Quotient, Zenon
<1>11. v \div (P * P) = i
  <2>1. s \in 0 .. P * P - 1
    BY <1>1, <1>3, <1>4
  <2> QED
    BY <1>1, <1>2, <1>7, <1>9, <2>1, Quotient
<1>12. q % P = j
  <2>1. q = P * i + j
    BY DEF q
  <2> QED
    BY <1>1, <1>2, <1>3, <1>k, <2>1, Quotient, Zenon
<1> QED
  BY <1>8, <1>10, <1>11, <1>12 DEF P, q, Leaf, get_gptx, get_mptx, get_ptx

\* Every address has its indices.
LEMMA Decomposed == ASSUME NEW v \in VA
                    PROVE  /\ get_gptx(v) \in Index /\ get_mptx(v) \in Index /\ get_ptx(v) \in Index
                           /\ Leaf(v) = PT_SIZE * get_gptx(v) + get_mptx(v)
                           /\ v = PT_SIZE * Leaf(v) + get_ptx(v)
<1> DEFINE P == PT_SIZE
           q == v \div P
           k == v % P
           i == q \div P
           j == q % P
<1>1. P \in Nat \ {0} /\ P * P \in Nat \ {0} /\ NumPages = P * (P * P) /\ v \in Nat /\ v < NumPages
  BY Constants DEF VA
<1> HIDE DEF P, i, j
<1>2. q \in Nat /\ k \in 0 .. P - 1 /\ v = P * q + k
  BY <1>1, Division
<1> HIDE DEF q, k
<1>3. i \in Nat /\ j \in 0 .. P - 1 /\ q = P * i + j
  BY <1>1, <1>2, Division DEF i, j
<1>4. i < P
  <2> SUFFICES ASSUME i >= P PROVE FALSE
    BY <1>1, <1>3
  <2>1. P * i >= P * P
    BY <1>1, <1>3
  <2>2. q >= P * P
    BY <1>1, <1>2, <1>3, <2>1
  <2>3. P * q >= P * (P * P)
    BY <1>1, <1>2, <2>2
  <2> QED
    BY <1>1, <1>2, <2>3
<1>5. i \in Index /\ j \in Index /\ k \in Index
  BY <1>1, <1>2, <1>3, <1>4 DEF P, Index
<1>6. v = PT_SIZE * (PT_SIZE * i + j) + k
  BY <1>2, <1>3 DEF P
<1>7. Leaf(v) = PT_SIZE * i + j /\ get_gptx(v) = i /\ get_mptx(v) = j /\ get_ptx(v) = k
  BY <1>5, <1>6, Composed
<1> QED
  BY <1>5, <1>6, <1>7

\* What the proofs need to know of addresses.
LEMMA Addresses ==
  /\ \A v \in VA : get_gptx(v) \in Index /\ get_mptx(v) \in Index /\ get_ptx(v) \in Index
  /\ \A v, w \in VA : Leaf(v) = Leaf(w) <=> get_gptx(v) = get_gptx(w) /\ get_mptx(v) = get_mptx(w)
  /\ \A v, w \in VA : v = w <=> Leaf(v) = Leaf(w) /\ get_ptx(v) = get_ptx(w)
  /\ \A i, j, k \in Index : \E v \in VA : get_gptx(v) = i /\ get_mptx(v) = j /\ get_ptx(v) = k
<1>1. ASSUME NEW v \in VA, NEW w \in VA, Leaf(v) = Leaf(w)
      PROVE  get_gptx(v) = get_gptx(w) /\ get_mptx(v) = get_mptx(w)
  <2> DEFINE P == PT_SIZE
             q == Leaf(v)
  <2>1. /\ P \in Nat \ {0} /\ get_gptx(v) \in Index /\ get_mptx(v) \in Index
        /\ get_gptx(w) \in Index /\ get_mptx(w) \in Index
        /\ q = P * get_gptx(v) + get_mptx(v) /\ q = P * get_gptx(w) + get_mptx(w)
    BY <1>1, Constants, Decomposed
  <2>2. /\ get_gptx(v) \in Nat /\ get_mptx(v) \in 0 .. P - 1
        /\ get_gptx(w) \in Nat /\ get_mptx(w) \in 0 .. P - 1
    BY <2>1 DEF Index
  <2> HIDE DEF P, q
  <2>3. q \in Nat
    BY <2>1, <2>2
  <2>4. q \div P = get_gptx(v) /\ q % P = get_mptx(v)
    BY <2>1, <2>2, <2>3, Quotient
  <2>5. q \div P = get_gptx(w) /\ q % P = get_mptx(w)
    BY <2>1, <2>2, <2>3, Quotient
  <2> QED
    BY <2>4, <2>5
<1>2. ASSUME NEW v \in VA, NEW w \in VA,
             get_gptx(v) = get_gptx(w), get_mptx(v) = get_mptx(w)
      PROVE  Leaf(v) = Leaf(w)
  BY <1>2, Decomposed
<1>3. ASSUME NEW v \in VA, NEW w \in VA, Leaf(v) = Leaf(w), get_ptx(v) = get_ptx(w)
      PROVE  v = w
  BY <1>3, Decomposed
<1>4. ASSUME NEW i \in Index, NEW j \in Index, NEW k \in Index
      PROVE  \E v \in VA : get_gptx(v) = i /\ get_mptx(v) = j /\ get_ptx(v) = k
  BY Composed
<1> QED
  BY <1>1, <1>2, <1>3, <1>4, Decomposed

-----------------------------------------------------------------------------
(* Memory and what its frames are used for.                                *)

Memory == [tab : [Frames -> [Index -> Frames \cup {NULL}]], data : [Frames -> Values],
           ref : [Frames -> Nat], free : SUBSET Frames, twice : BOOLEAN]

\* The table that the root g points to for v.
Mid(n, g, v) == n.tab[g][get_gptx(v)]

\* role says of a frame under which root, on which level and where it is used:
\* 0 a root, 1 below the root, 2 a page table of the last level, 3 a page.
Has(n, role, f, g, l, k) == f # NULL => f \in Frames /\ f \notin n.free /\ role[f] = <<g, l, k>>

\* What the walks from the roots R meet is as role says: hence nothing is met
\* in two places.
Shape(n, R, role) ==
  /\ n \in Memory
  /\ R \subseteq Frames
  /\ \A g \in R : g \notin n.free /\ role[g] = <<g, 0, 0>>
  /\ \A f \in n.free : n.ref[f] = 0
  /\ \A g \in R, v \in VA :
       /\ Has(n, role, Mid(n, g, v), g, 1, get_gptx(v))
       /\ Has(n, role, get_pte(n, g, v), g, 2, Leaf(v))
       /\ Has(n, role, va2pa_mmu(n, g, v), g, 3, v)
       /\ va2pa_mmu(n, g, v) # NULL => n.ref[va2pa_mmu(n, g, v)] = 1

LEMMA Frame == NULL \notin Frames /\ Frames \subseteq Nat /\ IsFiniteSet(Frames)
<1>1. NumFrames \in Nat /\ NULL \notin Frames
  BY SpaceAssumption
<1> QED
  BY <1>1, FS_Interval DEF Frames

\* The walks, one level after the other.
LEMMA Walk ==
  ASSUME NEW n, NEW g, NEW v
  PROVE  /\ get_pte(n, g, v) = IF Mid(n, g, v) = NULL THEN NULL
                               ELSE n.tab[Mid(n, g, v)][get_mptx(v)]
         /\ va2pa_mmu(n, g, v) = IF get_pte(n, g, v) = NULL THEN NULL
                                 ELSE n.tab[get_pte(n, g, v)][get_ptx(v)]
BY DEF get_pte, va2pa_mmu, Mid

\* The frames of a walk.
LEMMA Uses ==
  ASSUME NEW n, NEW R, NEW role, Shape(n, R, role), NEW g \in R, NEW v \in VA
  PROVE  /\ g \in Frames /\ g \notin n.free /\ role[g] = <<g, 0, 0>>
         /\ Mid(n, g, v) # NULL =>
              /\ Mid(n, g, v) \in Frames /\ Mid(n, g, v) \notin n.free
              /\ role[Mid(n, g, v)] = <<g, 1, get_gptx(v)>>
         /\ get_pte(n, g, v) # NULL =>
              /\ get_pte(n, g, v) \in Frames /\ get_pte(n, g, v) \notin n.free
              /\ role[get_pte(n, g, v)] = <<g, 2, Leaf(v)>>
              /\ Mid(n, g, v) # NULL
         /\ va2pa_mmu(n, g, v) # NULL =>
              /\ va2pa_mmu(n, g, v) \in Frames /\ va2pa_mmu(n, g, v) \notin n.free
              /\ role[va2pa_mmu(n, g, v)] = <<g, 3, v>>
              /\ n.ref[va2pa_mmu(n, g, v)] = 1
              /\ get_pte(n, g, v) # NULL
<1>1. get_pte(n, g, v) # NULL => Mid(n, g, v) # NULL
  BY Walk
<1>2. va2pa_mmu(n, g, v) # NULL => get_pte(n, g, v) # NULL
  BY Walk
<1> QED
  BY <1>1, <1>2 DEF Shape, Has

\* A new table below the root g is met for its addresses, and it is empty.
LEMMA MidSet ==
  ASSUME NEW n, NEW R, NEW role, Shape(n, R, role), NEW g \in R, NEW v \in VA, NEW f \in n.free,
         Mid(n, g, v) = NULL, NEW a,
         \A u \in Frames, k \in Index :
           a.tab[u][k] = IF u = g /\ k = get_gptx(v) THEN f
                         ELSE IF u = f THEN NULL ELSE n.tab[u][k],
         NEW h \in R, NEW w \in VA
  PROVE  /\ Mid(a, h, w) = IF h = g /\ get_gptx(w) = get_gptx(v) THEN f ELSE Mid(n, h, w)
         /\ get_pte(a, h, w) = get_pte(n, h, w)
         /\ va2pa_mmu(a, h, w) = va2pa_mmu(n, h, w)
<1>0. /\ get_gptx(v) \in Index /\ get_gptx(w) \in Index /\ get_mptx(w) \in Index
      /\ get_ptx(w) \in Index /\ f \in Frames /\ f # NULL
  BY Addresses, Frame DEF Shape, Memory
<1>1. g \in Frames /\ g \notin n.free /\ role[g] = <<g, 0, 0>>
  BY Uses
<1>2. h \in Frames /\ h \notin n.free
  BY Uses
<1>3. Mid(a, h, w) = IF h = g /\ get_gptx(w) = get_gptx(v) THEN f ELSE Mid(n, h, w)
  BY <1>0, <1>1, <1>2 DEF Mid
<1>4. get_pte(a, h, w) = get_pte(n, h, w)
  <2>1. CASE h = g /\ get_gptx(w) = get_gptx(v)
    <3>1. Mid(a, h, w) = f /\ Mid(n, h, w) = NULL
      BY <1>3, <2>1 DEF Mid
    <3>2. a.tab[f][get_mptx(w)] = NULL
      BY <1>0, <1>1
    <3> QED
      BY <1>0, <3>1, <3>2, Walk
  <2>2. CASE ~(h = g /\ get_gptx(w) = get_gptx(v)) /\ Mid(n, h, w) # NULL
    <3>1. Mid(a, h, w) = Mid(n, h, w)
      BY <1>3, <2>2
    <3>2. Mid(n, h, w) \in Frames /\ Mid(n, h, w) \notin n.free /\ Mid(n, h, w) # g
      BY <1>1, <2>2, Uses
    <3>3. a.tab[Mid(n, h, w)][get_mptx(w)] = n.tab[Mid(n, h, w)][get_mptx(w)]
      BY <1>0, <3>2
    <3> QED
      BY <3>1, <3>3, Walk
  <2>3. CASE ~(h = g /\ get_gptx(w) = get_gptx(v)) /\ Mid(n, h, w) = NULL
    BY <1>3, <2>3, Walk
  <2> QED
    BY <2>1, <2>2, <2>3
<1>5. va2pa_mmu(a, h, w) = va2pa_mmu(n, h, w)
  <2>1. CASE get_pte(n, h, w) # NULL
    <3>2. /\ get_pte(n, h, w) \in Frames /\ get_pte(n, h, w) \notin n.free
          /\ get_pte(n, h, w) # g
      BY <1>1, <2>1, Uses
    <3>3. a.tab[get_pte(n, h, w)][get_ptx(w)] = n.tab[get_pte(n, h, w)][get_ptx(w)]
      BY <1>0, <3>2
    <3> QED
      BY <1>4, <3>3, Walk
  <2> QED
    BY <1>4, <2>1, Walk
<1> QED
  BY <1>3, <1>4, <1>5

\* The same for a new page table of the last level.
LEMMA PteSet ==
  ASSUME NEW n, NEW R, NEW role, Shape(n, R, role), NEW g \in R, NEW v \in VA, NEW f \in n.free,
         Mid(n, g, v) # NULL, get_pte(n, g, v) = NULL, NEW a,
         \A u \in Frames, k \in Index :
           a.tab[u][k] = IF u = Mid(n, g, v) /\ k = get_mptx(v) THEN f
                         ELSE IF u = f THEN NULL ELSE n.tab[u][k],
         NEW h \in R, NEW w \in VA
  PROVE  /\ Mid(a, h, w) = Mid(n, h, w)
         /\ get_pte(a, h, w) = IF h = g /\ Leaf(w) = Leaf(v) THEN f ELSE get_pte(n, h, w)
         /\ va2pa_mmu(a, h, w) = va2pa_mmu(n, h, w)
<1> DEFINE t == Mid(n, g, v)
<1>0. /\ get_mptx(v) \in Index /\ get_gptx(w) \in Index /\ get_mptx(w) \in Index
      /\ get_ptx(w) \in Index /\ f \in Frames /\ f # NULL
  BY Addresses, Frame DEF Shape, Memory
<1>1. t \in Frames /\ t \notin n.free /\ role[t] = <<g, 1, get_gptx(v)>> /\ t # NULL
  BY Uses
<1>2. h \in Frames /\ h \notin n.free /\ h # t
  <2>1. h \in Frames /\ h \notin n.free /\ role[h] = <<h, 0, 0>>
    BY Uses
  <2> QED
    BY <1>1, <2>1
<1>p. \A u \in Frames, k \in Index :
        a.tab[u][k] = IF u = t /\ k = get_mptx(v) THEN f
                      ELSE IF u = f THEN NULL ELSE n.tab[u][k]
  OBVIOUS
<1>e. t = Mid(n, g, v)
  OBVIOUS
<1> HIDE DEF t
<1>3. Mid(a, h, w) = Mid(n, h, w)
  BY <1>0, <1>p, <1>1, <1>2 DEF Mid
<1>4. get_pte(a, h, w) = IF h = g /\ Leaf(w) = Leaf(v) THEN f ELSE get_pte(n, h, w)
  <2>1. CASE Mid(n, h, w) = NULL
    <3>1. ~(h = g /\ Leaf(w) = Leaf(v))
      BY <1>1, <1>e, <2>1, Addresses DEF Mid
    <3> QED
      BY <1>3, <2>1, <3>1, Walk
  <2>2. CASE Mid(n, h, w) # NULL
    <3>1. /\ Mid(n, h, w) \in Frames /\ Mid(n, h, w) \notin n.free
          /\ role[Mid(n, h, w)] = <<h, 1, get_gptx(w)>>
      BY <2>2, Uses
    <3>2. Mid(n, h, w) = t <=> h = g /\ get_gptx(w) = get_gptx(v)
      BY <1>1, <1>e, <3>1 DEF Mid
    <3>3. a.tab[Mid(n, h, w)][get_mptx(w)] =
            IF h = g /\ Leaf(w) = Leaf(v) THEN f ELSE n.tab[Mid(n, h, w)][get_mptx(w)]
      BY <1>0, <1>p, <3>1, <3>2, Addresses
    <3> QED
      BY <1>3, <2>2, <3>3, Walk
  <2> QED
    BY <2>1, <2>2
<1>5. va2pa_mmu(a, h, w) = va2pa_mmu(n, h, w)
  <2>1. CASE get_pte(n, h, w) # NULL
    <3>1. get_pte(a, h, w) = get_pte(n, h, w)
      <4>1. h = g /\ Leaf(w) = Leaf(v) => get_pte(n, h, w) = get_pte(n, g, v)
        BY Addresses DEF get_pte
      <4> QED
        BY <1>4, <2>1, <4>1
    <3>2. /\ get_pte(n, h, w) \in Frames /\ get_pte(n, h, w) \notin n.free
          /\ get_pte(n, h, w) # t
      BY <1>1, <2>1, Uses
    <3>3. a.tab[get_pte(n, h, w)][get_ptx(w)] = n.tab[get_pte(n, h, w)][get_ptx(w)]
      BY <1>0, <1>p, <3>2
    <3> QED
      BY <3>1, <3>3, Walk
  <2>2. CASE get_pte(n, h, w) = NULL /\ ~(h = g /\ Leaf(w) = Leaf(v))
    BY <1>4, <2>2, Walk
  <2>3. CASE get_pte(n, h, w) = NULL /\ h = g /\ Leaf(w) = Leaf(v)
    <3>1. a.tab[f][get_ptx(w)] = NULL
      BY <1>0, <1>p, <1>1
    <3> QED
      BY <1>0, <1>4, <2>3, <3>1, Walk
  <2> QED
    BY <2>1, <2>2, <2>3
<1> QED
  BY <1>3, <1>4, <1>5

\* An entry of the page table of v is changed.
LEMMA PageSet ==
  ASSUME NEW n, NEW R, NEW role, Shape(n, R, role), NEW g \in R, NEW v \in VA,
         NEW f \in Frames \cup {NULL},
         get_pte(n, g, v) # NULL, NEW a,
         \A u \in Frames, k \in Index :
           a.tab[u][k] = IF u = get_pte(n, g, v) /\ k = get_ptx(v) THEN f ELSE n.tab[u][k],
         NEW h \in R, NEW w \in VA
  PROVE  /\ Mid(a, h, w) = Mid(n, h, w)
         /\ get_pte(a, h, w) = get_pte(n, h, w)
         /\ va2pa_mmu(a, h, w) = IF h = g /\ w = v THEN f ELSE va2pa_mmu(n, h, w)
<1> DEFINE t == get_pte(n, g, v)
<1>0. /\ get_ptx(v) \in Index /\ get_gptx(w) \in Index /\ get_mptx(w) \in Index
      /\ get_ptx(w) \in Index
  BY Addresses
<1>1. t \in Frames /\ t \notin n.free /\ role[t] = <<g, 2, Leaf(v)>> /\ t # NULL
  BY Uses
<1>2. h \in Frames /\ h # t
  <2>1. h \in Frames /\ role[h] = <<h, 0, 0>>
    BY Uses
  <2> QED
    BY <1>1, <2>1
<1>p. \A u \in Frames, k \in Index :
        a.tab[u][k] = IF u = t /\ k = get_ptx(v) THEN f ELSE n.tab[u][k]
  OBVIOUS
<1>e. t = get_pte(n, g, v)
  OBVIOUS
<1> HIDE DEF t
<1>3. Mid(a, h, w) = Mid(n, h, w)
  BY <1>0, <1>p, <1>1, <1>2 DEF Mid
<1>4. get_pte(a, h, w) = get_pte(n, h, w)
  <2>1. CASE Mid(n, h, w) = NULL
    BY <1>3, <2>1, Walk
  <2>2. CASE Mid(n, h, w) # NULL
    <3>1. Mid(n, h, w) \in Frames /\ Mid(n, h, w) # t
      BY <1>1, <2>2, Uses
    <3>2. a.tab[Mid(n, h, w)][get_mptx(w)] = n.tab[Mid(n, h, w)][get_mptx(w)]
      BY <1>0, <1>p, <3>1
    <3> QED
      BY <1>3, <2>2, <3>2, Walk
  <2> QED
    BY <2>1, <2>2
<1>5. va2pa_mmu(a, h, w) = IF h = g /\ w = v THEN f ELSE va2pa_mmu(n, h, w)
  <2>1. CASE get_pte(n, h, w) = NULL
    <3>1. ~(h = g /\ w = v)
      BY <1>1, <1>e, <2>1
    <3> QED
      BY <1>4, <2>1, <3>1, Walk
  <2>2. CASE get_pte(n, h, w) # NULL
    <3>1. get_pte(n, h, w) \in Frames /\ role[get_pte(n, h, w)] = <<h, 2, Leaf(w)>>
      BY <2>2, Uses
    <3>2. get_pte(n, h, w) = t => h = g /\ Leaf(w) = Leaf(v)
      BY <1>1, <3>1
    <3>3. h = g /\ w = v => get_pte(n, h, w) = t
      BY <1>e
    <3>4. a.tab[get_pte(n, h, w)][get_ptx(w)] =
            IF h = g /\ w = v THEN f ELSE n.tab[get_pte(n, h, w)][get_ptx(w)]
      <4>1. get_pte(n, h, w) = t /\ get_ptx(w) = get_ptx(v) <=> h = g /\ w = v
        BY <3>2, <3>3, Addresses
      <4> QED
        BY <1>0, <1>p, <3>1, <4>1
    <3> QED
      BY <1>4, <2>2, <3>4, Walk
  <2> QED
    BY <2>1, <2>2
<1> QED
  BY <1>3, <1>4, <1>5

\* An entry of the root g is cleared.
LEMMA MidCleared ==
  ASSUME NEW n, NEW R, NEW role, Shape(n, R, role), NEW g \in R, NEW v \in VA, NEW a,
         \A u \in Frames, k \in Index :
           a.tab[u][k] = IF u = g /\ k = get_gptx(v) THEN NULL ELSE n.tab[u][k],
         NEW h \in R, NEW w \in VA
  PROVE  /\ h = g /\ get_gptx(w) = get_gptx(v) =>
              Mid(a, h, w) = NULL /\ get_pte(a, h, w) = NULL /\ va2pa_mmu(a, h, w) = NULL
         /\ ~(h = g /\ get_gptx(w) = get_gptx(v)) =>
              /\ Mid(a, h, w) = Mid(n, h, w) /\ get_pte(a, h, w) = get_pte(n, h, w)
              /\ va2pa_mmu(a, h, w) = va2pa_mmu(n, h, w)
<1>0. /\ get_gptx(v) \in Index /\ get_gptx(w) \in Index /\ get_mptx(w) \in Index
      /\ get_ptx(w) \in Index
  BY Addresses
<1>1. g \in Frames /\ role[g] = <<g, 0, 0>> /\ h \in Frames
  BY Uses
<1>2. CASE h = g /\ get_gptx(w) = get_gptx(v)
  <2>1. Mid(a, h, w) = NULL
    BY <1>0, <1>1, <1>2 DEF Mid
  <2> QED
    BY <1>2, <2>1, Walk
<1>3. CASE ~(h = g /\ get_gptx(w) = get_gptx(v))
  <2>1. Mid(a, h, w) = Mid(n, h, w)
    BY <1>0, <1>1, <1>3 DEF Mid
  <2>2. get_pte(a, h, w) = get_pte(n, h, w)
    <3>1. CASE Mid(n, h, w) = NULL
      BY <2>1, <3>1, Walk
    <3>2. CASE Mid(n, h, w) # NULL
      <4>1. Mid(n, h, w) \in Frames /\ Mid(n, h, w) # g
        BY <1>1, <3>2, Uses
      <4>2. a.tab[Mid(n, h, w)][get_mptx(w)] = n.tab[Mid(n, h, w)][get_mptx(w)]
        BY <1>0, <4>1
      <4> QED
        BY <2>1, <3>2, <4>2, Walk
    <3> QED
      BY <3>1, <3>2
  <2>3. va2pa_mmu(a, h, w) = va2pa_mmu(n, h, w)
    <3>1. CASE get_pte(n, h, w) = NULL
      BY <2>2, <3>1, Walk
    <3>2. CASE get_pte(n, h, w) # NULL
      <4>1. get_pte(n, h, w) \in Frames /\ get_pte(n, h, w) # g
        BY <1>1, <3>2, Uses
      <4>2. a.tab[get_pte(n, h, w)][get_ptx(w)] = n.tab[get_pte(n, h, w)][get_ptx(w)]
        BY <1>0, <4>1
      <4> QED
        BY <2>2, <3>2, <4>2, Walk
    <3> QED
      BY <3>1, <3>2
  <2> QED
    BY <1>3, <2>1, <2>2, <2>3
<1> QED
  BY <1>2, <1>3

-----------------------------------------------------------------------------
(* Taking frames.                                                          *)

\* A set of numbers has a least one.
LEMMA Least == ASSUME NEW S, S \subseteq Nat, S # {}
               PROVE  \E z \in S : \A k \in S : z <= k
<1> DEFINE R == StrictSubsetOrdering(Nat)
           T == { 0 .. k : k \in S }
<1>1. IsWellFoundedOn(R, FiniteSubsetsOf(Nat))
  BY FS_StrictSubsetOrderingWellFounded, Zenon
<1>2. T \subseteq FiniteSubsetsOf(Nat)
  <2>1. \A k \in S : IsFiniteSet(0 .. k) /\ 0 .. k \subseteq Nat
    BY FS_Interval
  <2> QED
    BY <2>1, Zenon DEF FiniteSubsetsOf
<1>3. T # {}
  OBVIOUS
<1>4. PICK x \in T : \A y \in T : ~(<<y, x>> \in R)
  <2> HIDE DEF R, T
  <2> QED
    BY <1>1, <1>2, <1>3, WFMin, Zenon
<1>5. PICK z \in S : x = 0 .. z
  OBVIOUS
<1>6. ASSUME NEW k \in S, k < z PROVE FALSE
  <2>0. k \in Nat /\ z \in Nat
    OBVIOUS
  <2>1. 0 .. k \subseteq 0 .. z /\ z \in 0 .. z /\ z \notin 0 .. k
    BY <1>6, <2>0
  <2>2. <<0 .. k, 0 .. z>> \in R
    <3>1. 0 .. k \in SUBSET Nat /\ 0 .. z \in SUBSET Nat /\ 0 .. k # 0 .. z
      BY <2>0, <2>1
    <3> QED
      BY <2>1, <3>1, Zenon DEF StrictSubsetOrdering
  <2> QED
    BY <1>4, <1>5, <2>2
<1>7. \A k \in S : k \in Nat
  OBVIOUS
<1> QED
  BY <1>6, <1>7

LEMMA NextFrameIs == ASSUME NEW n \in Memory, n.free # {}
                     PROVE  NextFrame(n) \in n.free /\ NextFrame(n) \in Frames
<1>1. n.free \subseteq Frames
  BY DEF Memory
<1>2. \E f \in n.free : \A g \in n.free : f <= g
  <2>1. n.free \subseteq Nat
    BY <1>1, Frame
  <2> QED
    BY <2>1, Least, Zenon
<1> QED
  BY <1>1, <1>2 DEF NextFrame

LEMMA MakeTableIs ==
  ASSUME NEW n \in Memory, NEW t \in Frames, t \notin n.free, NEW i \in Index,
         n.tab[t][i] = NULL, n.free # {}, NEW f, f = NextFrame(n), NEW a, a = MakeTable(n, t, i)
  PROVE  /\ a \in Memory /\ a.free = n.free \ {f} /\ a.ref = [n.ref EXCEPT ![f] = 1]
         /\ a.data = n.data /\ a.twice = n.twice
         /\ \A u \in Frames, k \in Index :
              a.tab[u][k] = IF u = t /\ k = i THEN f ELSE IF u = f THEN NULL ELSE n.tab[u][k]
<1>1. f \in n.free /\ f \in Frames /\ f # t
  BY NextFrameIs
<1> DEFINE T == [n.tab EXCEPT ![f] = NoEntries, ![t][i] = f]
<1>2. a = [n EXCEPT !.free = n.free \ {f}, !.ref = [n.ref EXCEPT ![f] = 1], !.tab = T]
  BY DEF MakeTable
<1>3. n.tab \in [Frames -> [Index -> Frames \cup {NULL}]]
  BY DEF Memory
<1>4. T \in [Frames -> [Index -> Frames \cup {NULL}]]
  BY <1>1, <1>3 DEF NoEntries
<1>5. \A u \in Frames, k \in Index :
        T[u][k] = IF u = t /\ k = i THEN f ELSE IF u = f THEN NULL ELSE n.tab[u][k]
  BY <1>1, <1>3 DEF NoEntries
<1> HIDE DEF T
<1>6. /\ a.free = n.free \ {f} /\ a.ref = [n.ref EXCEPT ![f] = 1] /\ a.tab = T
      /\ a.data = n.data /\ a.twice = n.twice
  BY <1>2 DEF Memory
<1>7. a \in Memory
  <2>1. [n.ref EXCEPT ![f] = 1] \in [Frames -> Nat] /\ n.free \ {f} \in SUBSET Frames
    BY DEF Memory
  <2> QED
    BY <1>2, <1>4, <2>1 DEF Memory
<1> QED
  BY <1>5, <1>6, <1>7

\* From n to a only free frames were taken; r is role, and says what for.
Kept(n, a, role, r) ==
  /\ a.free \subseteq n.free /\ a.twice = n.twice
  /\ \A f \in Frames : f \notin n.free => a.data[f] = n.data[f] /\ a.ref[f] = n.ref[f]
                                          /\ r[f] = role[f]

LEMMA MakesMid ==
  ASSUME NEW n, NEW R, NEW role, Shape(n, R, role), NEW g \in R, NEW v \in VA,
         Mid(n, g, v) = NULL, n.free # {}
  PROVE  \E r : LET a == MakeTable(n, g, get_gptx(v))
                IN /\ Shape(a, R, r) /\ Kept(n, a, role, r)
                   /\ Mid(a, g, v) \in n.free /\ a.free = n.free \ {Mid(a, g, v)}
                   /\ \A h \in R, w \in VA :
                        /\ Mid(a, h, w) = IF h = g /\ get_gptx(w) = get_gptx(v) THEN Mid(a, g, v)
                                          ELSE Mid(n, h, w)
                        /\ get_pte(a, h, w) = get_pte(n, h, w)
                        /\ va2pa_mmu(a, h, w) = va2pa_mmu(n, h, w)
<1> DEFINE a == MakeTable(n, g, get_gptx(v))
           f == NextFrame(n)
           r == [u \in Frames |-> IF u = f THEN <<g, 1, get_gptx(v)>> ELSE role[u]]
<1>1. n \in Memory /\ g \in Frames /\ g \notin n.free /\ get_gptx(v) \in Index
  BY Addresses DEF Shape
<1>2. f \in n.free /\ f \in Frames /\ f # NULL
  BY <1>1, NextFrameIs, Frame
<1>3. /\ a \in Memory /\ a.free = n.free \ {f} /\ a.ref = [n.ref EXCEPT ![f] = 1]
      /\ a.data = n.data /\ a.twice = n.twice
      /\ \A u \in Frames, k \in Index :
           a.tab[u][k] = IF u = g /\ k = get_gptx(v) THEN f ELSE IF u = f THEN NULL ELSE n.tab[u][k]
  BY <1>1, MakeTableIs DEF Mid
<1> HIDE DEF a, f
<1>4. \A h \in R, w \in VA :
        /\ Mid(a, h, w) = IF h = g /\ get_gptx(w) = get_gptx(v) THEN f ELSE Mid(n, h, w)
        /\ get_pte(a, h, w) = get_pte(n, h, w)
        /\ va2pa_mmu(a, h, w) = va2pa_mmu(n, h, w)
  BY <1>2, <1>3, MidSet
<1>5. /\ r[f] = <<g, 1, get_gptx(v)>> /\ \A u \in Frames : u # f => r[u] = role[u]
      /\ \A u \in Frames : u # f => a.ref[u] = n.ref[u]
  BY <1>1, <1>2, <1>3 DEF Memory
<1> HIDE DEF r
<1>6. Shape(a, R, r)
  <2>1. R \subseteq Frames /\ \A h \in R : h \notin a.free /\ r[h] = <<h, 0, 0>>
    BY <1>2, <1>3, <1>5 DEF Shape
  <2>2. \A u \in a.free : a.ref[u] = 0
    BY <1>3, <1>5 DEF Shape, Memory
  <2>3. ASSUME NEW h \in R, NEW w \in VA
        PROVE  /\ Has(a, r, Mid(a, h, w), h, 1, get_gptx(w))
               /\ Has(a, r, get_pte(a, h, w), h, 2, Leaf(w))
               /\ Has(a, r, va2pa_mmu(a, h, w), h, 3, w)
               /\ va2pa_mmu(a, h, w) # NULL => a.ref[va2pa_mmu(a, h, w)] = 1
    BY <1>2, <1>3, <1>4, <1>5, Uses DEF Has
  <2> QED
    BY <1>3, <2>1, <2>2, <2>3 DEF Shape
<1>7. Kept(n, a, role, r)
  BY <1>2, <1>3, <1>5 DEF Kept
<1>8. Mid(a, g, v) = f
  BY <1>4
<1> QED
  BY <1>2, <1>3, <1>4, <1>6, <1>7, <1>8 DEF a

LEMMA MakesPte ==
  ASSUME NEW n, NEW R, NEW role, Shape(n, R, role), NEW g \in R, NEW v \in VA,
         Mid(n, g, v) # NULL, get_pte(n, g, v) = NULL, n.free # {}
  PROVE  \E r : LET a == MakeTable(n, Mid(n, g, v), get_mptx(v))
                IN /\ Shape(a, R, r) /\ Kept(n, a, role, r)
                   /\ get_pte(a, g, v) \in n.free /\ a.free = n.free \ {get_pte(a, g, v)}
                   /\ \A h \in R, w \in VA :
                        /\ Mid(a, h, w) = Mid(n, h, w)
                        /\ get_pte(a, h, w) = IF h = g /\ Leaf(w) = Leaf(v) THEN get_pte(a, g, v)
                                              ELSE get_pte(n, h, w)
                        /\ va2pa_mmu(a, h, w) = va2pa_mmu(n, h, w)
<1> DEFINE t == Mid(n, g, v)
           a == MakeTable(n, t, get_mptx(v))
           f == NextFrame(n)
           r == [u \in Frames |-> IF u = f THEN <<g, 2, Leaf(v)>> ELSE role[u]]
<1>1. n \in Memory /\ t \in Frames /\ t \notin n.free /\ get_mptx(v) \in Index
  <2>1. n \in Memory
    BY DEF Shape
  <2> QED
    BY <2>1, Uses, Addresses
<1>2. f \in n.free /\ f \in Frames /\ f # NULL
  BY <1>1, NextFrameIs, Frame
<1>t. n.tab[t][get_mptx(v)] = NULL
  BY Walk
<1>3. /\ a \in Memory /\ a.free = n.free \ {f} /\ a.ref = [n.ref EXCEPT ![f] = 1]
      /\ a.data = n.data /\ a.twice = n.twice
      /\ \A u \in Frames, k \in Index :
           a.tab[u][k] = IF u = t /\ k = get_mptx(v) THEN f ELSE IF u = f THEN NULL ELSE n.tab[u][k]
  <2> HIDE DEF t
  <2> QED
    BY <1>1, <1>t, MakeTableIs
<1> HIDE DEF a, f
<1>4. \A h \in R, w \in VA :
        /\ Mid(a, h, w) = Mid(n, h, w)
        /\ get_pte(a, h, w) = IF h = g /\ Leaf(w) = Leaf(v) THEN f ELSE get_pte(n, h, w)
        /\ va2pa_mmu(a, h, w) = va2pa_mmu(n, h, w)
  BY <1>2, <1>3, PteSet
<1>5. /\ r[f] = <<g, 2, Leaf(v)>> /\ \A u \in Frames : u # f => r[u] = role[u]
      /\ \A u \in Frames : u # f => a.ref[u] = n.ref[u]
  BY <1>1, <1>2, <1>3 DEF Memory
<1> HIDE DEF r
<1>6. Shape(a, R, r)
  <2>1. R \subseteq Frames /\ \A h \in R : h \notin a.free /\ r[h] = <<h, 0, 0>>
    BY <1>2, <1>3, <1>5 DEF Shape
  <2>2. \A u \in a.free : a.ref[u] = 0
    BY <1>3, <1>5 DEF Shape, Memory
  <2>3. ASSUME NEW h \in R, NEW w \in VA
        PROVE  /\ Has(a, r, Mid(a, h, w), h, 1, get_gptx(w))
               /\ Has(a, r, get_pte(a, h, w), h, 2, Leaf(w))
               /\ Has(a, r, va2pa_mmu(a, h, w), h, 3, w)
               /\ va2pa_mmu(a, h, w) # NULL => a.ref[va2pa_mmu(a, h, w)] = 1
    BY <1>2, <1>3, <1>4, <1>5, Uses DEF Has
  <2> QED
    BY <1>3, <2>1, <2>2, <2>3 DEF Shape
<1>7. Kept(n, a, role, r)
  BY <1>2, <1>3, <1>5 DEF Kept
<1>8. get_pte(a, g, v) = f
  BY <1>4
<1> QED
  BY <1>2, <1>3, <1>4, <1>6, <1>7, <1>8 DEF a

LEMMA FreeSize == ASSUME NEW n \in Memory
                  PROVE  /\ IsFiniteSet(n.free) /\ Cardinality(n.free) \in Nat
                         /\ Cardinality(n.free) >= 1 => n.free # {}
                         /\ \A f \in n.free : Cardinality(n.free \ {f}) = Cardinality(n.free) - 1
<1>1. IsFiniteSet(n.free)
  BY Frame, FS_Subset DEF Memory
<1>2. Cardinality(n.free) \in Nat
  BY <1>1, FS_CardinalityType
<1>3. Cardinality({}) = 0
  BY FS_EmptySet
<1>4. \A f \in n.free : Cardinality(n.free \ {f}) = Cardinality(n.free) - 1
  BY <1>1, FS_RemoveElement
<1> QED
  BY <1>1, <1>2, <1>3, <1>4

\* How many tables are missing on the way to v.
NoMid(n, g, v) == IF Mid(n, g, v) = NULL THEN 1 ELSE 0
NoPte(n, g, v) == IF get_pte(n, g, v) = NULL THEN 1 ELSE 0

\* The tables on the way to v were made.
Tabled(n, a, R, role, r, g, v) ==
  /\ Shape(a, R, r) /\ Kept(n, a, role, r)
  /\ Cardinality(a.free) = Cardinality(n.free) - NoMid(n, g, v) - NoPte(n, g, v)
  /\ \A f \in n.free : f \in a.free \/ f = Mid(a, g, v) \/ f = get_pte(a, g, v)
  /\ Mid(a, g, v) # NULL /\ get_pte(a, g, v) # NULL
  /\ Mid(n, g, v) # NULL => Mid(a, g, v) = Mid(n, g, v)
  /\ get_pte(n, g, v) # NULL => get_pte(a, g, v) = get_pte(n, g, v)
  /\ \A h \in R, w \in VA :
       /\ Mid(a, h, w) = IF h = g /\ get_gptx(w) = get_gptx(v) THEN Mid(a, g, v) ELSE Mid(n, h, w)
       /\ get_pte(a, h, w) = IF h = g /\ Leaf(w) = Leaf(v) THEN get_pte(a, g, v)
                             ELSE get_pte(n, h, w)
       /\ va2pa_mmu(a, h, w) = va2pa_mmu(n, h, w)

LEMMA KeptTrans == ASSUME NEW n, NEW a, NEW b, NEW p, NEW q, NEW r, Kept(n, a, p, q), Kept(a, b, q, r)
                   PROVE  Kept(n, b, p, r)
BY DEF Kept

LEMMA Tables ==
  ASSUME NEW n, NEW R, NEW role, Shape(n, R, role), NEW g \in R, NEW v \in VA,
         Cardinality(n.free) >= NoMid(n, g, v) + NoPte(n, g, v)
  PROVE  \E r : Tabled(n, MakeTables(n, g, v), R, role, r, g, v)
<1> DEFINE a == MakeTable(n, g, get_gptx(v))
           b == MakeTable(a, Mid(a, g, v), get_mptx(v))
<1>0. /\ n \in Memory /\ Cardinality(n.free) \in Nat /\ NoMid(n, g, v) \in {0, 1}
      /\ NoPte(n, g, v) \in {0, 1}
  BY FreeSize DEF Shape, NoMid, NoPte
<1>1. PICK q : /\ Shape(a, R, q) /\ Kept(n, a, role, q)
               /\ Cardinality(a.free) = Cardinality(n.free) - NoMid(n, g, v)
               /\ \A f \in n.free : f \in a.free \/ f = Mid(a, g, v)
               /\ Mid(a, g, v) # NULL
               /\ Mid(n, g, v) # NULL => Mid(a, g, v) = Mid(n, g, v)
               /\ \A h \in R, w \in VA :
                    /\ Mid(a, h, w) = IF h = g /\ get_gptx(w) = get_gptx(v) THEN Mid(a, g, v)
                                      ELSE Mid(n, h, w)
                    /\ get_pte(a, h, w) = get_pte(n, h, w)
                    /\ va2pa_mmu(a, h, w) = va2pa_mmu(n, h, w)
  <2>1. CASE Mid(n, g, v) # NULL
    <3>1. a = n
      BY <2>1 DEF MakeTable, Mid
    <3>2. NoMid(n, g, v) = 0 /\ Kept(n, n, role, role)
      BY <2>1 DEF NoMid, Kept
    <3>3. \A w \in VA : get_gptx(w) = get_gptx(v) => Mid(n, g, w) = Mid(n, g, v)
      BY DEF Mid
    <3> HIDE DEF a
    <3> QED
      BY <1>0, <2>1, <3>1, <3>2, <3>3
  <2>2. CASE Mid(n, g, v) = NULL
    <3>1. NoMid(n, g, v) = 1 /\ n.free # {}
      BY <1>0, <2>2, FreeSize DEF NoMid
    <3>2. PICK r : /\ Shape(a, R, r) /\ Kept(n, a, role, r)
                   /\ Mid(a, g, v) \in n.free /\ a.free = n.free \ {Mid(a, g, v)}
                   /\ \A h \in R, w \in VA :
                        /\ Mid(a, h, w) = IF h = g /\ get_gptx(w) = get_gptx(v) THEN Mid(a, g, v)
                                          ELSE Mid(n, h, w)
                        /\ get_pte(a, h, w) = get_pte(n, h, w)
                        /\ va2pa_mmu(a, h, w) = va2pa_mmu(n, h, w)
      BY <2>2, <3>1, MakesMid
    <3> HIDE DEF a
    <3>3. Mid(a, g, v) # NULL
      BY <1>0, <3>2, Frame DEF Memory
    <3>4. Cardinality(a.free) = Cardinality(n.free) - NoMid(n, g, v)
      BY <1>0, <3>1, <3>2, FreeSize
    <3> QED
      BY <2>2, <3>2, <3>3, <3>4
  <2> QED
    BY <2>1, <2>2
<1> HIDE DEF a
<1>2. /\ a \in Memory /\ get_pte(a, g, v) = get_pte(n, g, v)
      /\ Cardinality(a.free) \in Nat /\ Cardinality(a.free) >= NoPte(n, g, v)
  BY <1>0, <1>1, FreeSize DEF Shape
<1>3. PICK r : /\ Shape(b, R, r) /\ Kept(a, b, q, r)
               /\ Cardinality(b.free) = Cardinality(a.free) - NoPte(n, g, v)
               /\ \A f \in a.free : f \in b.free \/ f = get_pte(b, g, v)
               /\ get_pte(b, g, v) # NULL
               /\ get_pte(n, g, v) # NULL => get_pte(b, g, v) = get_pte(n, g, v)
               /\ \A h \in R, w \in VA :
                    /\ Mid(b, h, w) = Mid(a, h, w)
                    /\ get_pte(b, h, w) = IF h = g /\ Leaf(w) = Leaf(v) THEN get_pte(b, g, v)
                                          ELSE get_pte(a, h, w)
                    /\ va2pa_mmu(b, h, w) = va2pa_mmu(a, h, w)
  <2>1. CASE get_pte(n, g, v) # NULL
    <3>1. b = a
      BY <1>1, <1>2, <2>1, Walk DEF MakeTable
    <3>2. NoPte(n, g, v) = 0 /\ Kept(a, a, q, q)
      BY <2>1 DEF NoPte, Kept
    <3>3. \A w \in VA : Leaf(w) = Leaf(v) => get_pte(a, g, w) = get_pte(a, g, v)
      BY Addresses DEF get_pte
    <3> HIDE DEF b
    <3> QED
      BY <1>1, <1>2, <2>1, <3>1, <3>2, <3>3
  <2>2. CASE get_pte(n, g, v) = NULL
    <3>1. NoPte(n, g, v) = 1 /\ a.free # {}
      BY <1>2, <2>2, FreeSize DEF NoPte
    <3>2. PICK r : /\ Shape(b, R, r) /\ Kept(a, b, q, r)
                   /\ get_pte(b, g, v) \in a.free /\ b.free = a.free \ {get_pte(b, g, v)}
                   /\ \A h \in R, w \in VA :
                        /\ Mid(b, h, w) = Mid(a, h, w)
                        /\ get_pte(b, h, w) = IF h = g /\ Leaf(w) = Leaf(v) THEN get_pte(b, g, v)
                                              ELSE get_pte(a, h, w)
                        /\ va2pa_mmu(b, h, w) = va2pa_mmu(a, h, w)
      BY <1>1, <1>2, <2>2, <3>1, MakesPte
    <3> HIDE DEF b
    <3>3. get_pte(b, g, v) # NULL
      BY <1>2, <3>2, Frame DEF Memory
    <3>4. Cardinality(b.free) = Cardinality(a.free) - NoPte(n, g, v)
      BY <1>2, <3>1, <3>2, FreeSize
    <3> QED
      BY <2>2, <3>2, <3>3, <3>4
  <2> QED
    BY <2>1, <2>2
<1>4. b = MakeTables(n, g, v)
  BY DEF a, MakeTables, Mid
<1> HIDE DEF b
<1>5. Kept(n, b, role, r)
  BY <1>1, <1>3, KeptTrans
<1>6. Tabled(n, b, R, role, r, g, v)
  BY <1>0, <1>1, <1>2, <1>3, <1>5 DEF Tabled
<1> QED
  BY <1>4, <1>6

LEMMA SameTab == ASSUME NEW n, NEW a, a.tab = n.tab, NEW g, NEW v
                 PROVE  /\ Mid(a, g, v) = Mid(n, g, v) /\ get_pte(a, g, v) = get_pte(n, g, v)
                        /\ va2pa_mmu(a, g, v) = va2pa_mmu(n, g, v)
BY DEF Mid, get_pte, va2pa_mmu

\* v was mapped to a new page with the content x, and the tables on the way made.
Grows(n, b, R, role, r, g, v, x) ==
  /\ Shape(b, R, r) /\ Kept(n, b, role, r)
  /\ Cardinality(b.free) = Cardinality(n.free) - 1 - NoMid(n, g, v) - NoPte(n, g, v)
  /\ \A f \in n.free : f \in b.free \/ f = Mid(b, g, v) \/ f = get_pte(b, g, v)
                                    \/ f = va2pa_mmu(b, g, v)
  /\ Mid(b, g, v) # NULL /\ get_pte(b, g, v) # NULL /\ va2pa_mmu(b, g, v) # NULL
  /\ b.data[va2pa_mmu(b, g, v)] = x
  /\ Mid(n, g, v) # NULL => Mid(b, g, v) = Mid(n, g, v)
  /\ get_pte(n, g, v) # NULL => get_pte(b, g, v) = get_pte(n, g, v)
  /\ \A h \in R, w \in VA :
       /\ Mid(b, h, w) = IF h = g /\ get_gptx(w) = get_gptx(v) THEN Mid(b, g, v) ELSE Mid(n, h, w)
       /\ get_pte(b, h, w) = IF h = g /\ Leaf(w) = Leaf(v) THEN get_pte(b, g, v)
                             ELSE get_pte(n, h, w)
       /\ va2pa_mmu(b, h, w) = IF h = g /\ w = v THEN va2pa_mmu(b, g, v) ELSE va2pa_mmu(n, h, w)

\* The frame f is taken, for a page with the content x, and entered for v.
Taken(n, f, x)     == [n EXCEPT !.free = @ \ {f}, !.data[f] = x]
Placed(b, g, v, f) == [b EXCEPT !.ref[f] = @ + 1, !.tab[get_pte(b, g, v)][get_ptx(v)] = f]

\* A frame taken, and not used yet: level 4.
Spares(n, a, R, role, r, f, x) ==
  /\ Shape(a, R, r) /\ Kept(n, a, role, r) /\ r[f] = <<f, 4, 0>>
  /\ a.free = n.free \ {f} /\ a.ref[f] = 0 /\ a.data[f] = x /\ a.tab = n.tab

LEMMA Spare ==
  ASSUME NEW n, NEW R, NEW role, Shape(n, R, role), NEW x \in Values, NEW f \in n.free
  PROVE  \E r : Spares(n, Taken(n, f, x), R, role, r, f, x)
<1> DEFINE a == Taken(n, f, x)
           r == [u \in Frames |-> IF u = f THEN <<f, 4, 0>> ELSE role[u]]
<1>1. n \in Memory
  BY DEF Shape
<1>2. f \in n.free /\ f \in Frames
  BY <1>1 DEF Memory
<1>3. /\ a.tab = n.tab /\ a.free = n.free \ {f} /\ a.data = [n.data EXCEPT ![f] = x]
      /\ a.ref = n.ref /\ a.twice = n.twice
  BY <1>1 DEF Memory, Taken
<1>4. a \in Memory
  <2>1. [n.data EXCEPT ![f] = x] \in [Frames -> Values] /\ n.free \ {f} \in SUBSET Frames
    BY <1>1 DEF Memory
  <2> QED
    BY <1>1, <2>1 DEF Memory, Taken
<1> HIDE DEF a
<1>5. /\ r[f] = <<f, 4, 0>> /\ \A u \in Frames : u # f => r[u] = role[u]
      /\ a.data[f] = x /\ \A u \in Frames : u # f => a.data[u] = n.data[u]
  BY <1>1, <1>2, <1>3 DEF Memory
<1> HIDE DEF r
<1>6. Shape(a, R, r)
  <2>1. R \subseteq Frames /\ \A h \in R : h \notin a.free /\ r[h] = <<h, 0, 0>>
    BY <1>2, <1>3, <1>5 DEF Shape
  <2>2. \A u \in a.free : a.ref[u] = 0
    BY <1>3 DEF Shape
  <2>3. ASSUME NEW h \in R, NEW w \in VA
        PROVE  /\ Has(a, r, Mid(a, h, w), h, 1, get_gptx(w))
               /\ Has(a, r, get_pte(a, h, w), h, 2, Leaf(w))
               /\ Has(a, r, va2pa_mmu(a, h, w), h, 3, w)
               /\ va2pa_mmu(a, h, w) # NULL => a.ref[va2pa_mmu(a, h, w)] = 1
    <3>1. /\ Mid(a, h, w) = Mid(n, h, w) /\ get_pte(a, h, w) = get_pte(n, h, w)
          /\ va2pa_mmu(a, h, w) = va2pa_mmu(n, h, w)
      BY <1>3, SameTab
    <3> QED
      BY <1>2, <1>3, <1>5, <3>1, Uses DEF Has
  <2> QED
    BY <1>4, <2>1, <2>2, <2>3 DEF Shape
<1>7. Kept(n, a, role, r) /\ a.ref[f] = 0
  BY <1>2, <1>3, <1>5 DEF Kept, Shape
<1> QED
  BY <1>3, <1>5, <1>6, <1>7 DEF a, Spares

\* add_page of such a frame, at an address that has none.
LEMMA SparePlaced ==
  ASSUME NEW a, NEW R, NEW role, Shape(a, R, role), NEW g \in R, NEW v \in VA,
         get_pte(a, g, v) # NULL, NEW f \in Frames,
         f \notin a.free, role[f] = <<f, 4, 0>>, a.ref[f] = 0
  PROVE  LET c == Placed(a, g, v, f)
         IN \E r : /\ Shape(c, R, r) /\ c.free = a.free /\ c.data = a.data /\ c.twice = a.twice
                   /\ \A u \in Frames : u # f => r[u] = role[u] /\ c.ref[u] = a.ref[u]
                   /\ \A h \in R, w \in VA :
                        /\ Mid(c, h, w) = Mid(a, h, w) /\ get_pte(c, h, w) = get_pte(a, h, w)
                        /\ va2pa_mmu(c, h, w) = IF h = g /\ w = v THEN f ELSE va2pa_mmu(a, h, w)
<1> DEFINE t == get_pte(a, g, v)
           c == Placed(a, g, v, f)
           r == [u \in Frames |-> IF u = f THEN <<g, 3, v>> ELSE role[u]]
<1>1. a \in Memory /\ get_ptx(v) \in Index
  BY Addresses DEF Shape
<1>2. t \in Frames
  BY Uses
<1>3. /\ c.tab = [a.tab EXCEPT ![t][get_ptx(v)] = f] /\ c.ref = [a.ref EXCEPT ![f] = @ + 1]
      /\ c.free = a.free /\ c.data = a.data /\ c.twice = a.twice
  BY <1>1 DEF Memory, Placed
<1>e. c = [a EXCEPT !.ref[f] = @ + 1, !.tab[t][get_ptx(v)] = f]
  BY DEF Placed
<1> HIDE DEF c
<1> HIDE DEF t
<1>4. c \in Memory
  <2>1. /\ [a.tab EXCEPT ![t][get_ptx(v)] = f] \in [Frames -> [Index -> Frames \cup {NULL}]]
        /\ [a.ref EXCEPT ![f] = @ + 1] \in [Frames -> Nat]
    BY <1>1, <1>2 DEF Memory
  <2> QED
    BY <1>1, <1>e, <2>1 DEF Memory
<1>5. \A u \in Frames, k \in Index :
        c.tab[u][k] = IF u = t /\ k = get_ptx(v) THEN f ELSE a.tab[u][k]
  BY <1>1, <1>2, <1>3 DEF Memory
<1>6. c.ref[f] = 1 /\ \A u \in Frames : u # f => c.ref[u] = a.ref[u]
  BY <1>1, <1>3 DEF Memory
<1>7. \A h \in R, w \in VA :
        /\ Mid(c, h, w) = Mid(a, h, w) /\ get_pte(c, h, w) = get_pte(a, h, w)
        /\ va2pa_mmu(c, h, w) = IF h = g /\ w = v THEN f ELSE va2pa_mmu(a, h, w)
  <2>1. \A u \in Frames, k \in Index :
          c.tab[u][k] = IF u = get_pte(a, g, v) /\ k = get_ptx(v) THEN f ELSE a.tab[u][k]
    BY <1>5 DEF t
  <2>2. f \in Frames \cup {NULL}
    OBVIOUS
  <2> QED
    BY <2>1, <2>2, PageSet
<1>8. r[f] = <<g, 3, v>> /\ \A u \in Frames : u # f => r[u] = role[u]
  OBVIOUS
<1> HIDE DEF r
<1>9. Shape(c, R, r)
  <2>1. R \subseteq Frames /\ \A h \in R : h \notin c.free /\ r[h] = <<h, 0, 0>>
    <3>1. \A h \in R : h \in Frames /\ role[h] = <<h, 0, 0>> /\ h \notin a.free
      BY DEF Shape
    <3>2. \A h \in R : h # f
      BY <3>1
    <3> QED
      BY <1>3, <1>8, <3>1, <3>2
  <2>2. \A u \in c.free : c.ref[u] = 0
    BY <1>1, <1>3, <1>6 DEF Shape, Memory
  <2>3. ASSUME NEW h \in R, NEW w \in VA
        PROVE  /\ Has(c, r, Mid(c, h, w), h, 1, get_gptx(w))
               /\ Has(c, r, get_pte(c, h, w), h, 2, Leaf(w))
               /\ Has(c, r, va2pa_mmu(c, h, w), h, 3, w)
               /\ va2pa_mmu(c, h, w) # NULL => c.ref[va2pa_mmu(c, h, w)] = 1
    BY <1>3, <1>6, <1>7, <1>8, Uses DEF Has
  <2> QED
    BY <1>4, <2>1, <2>2, <2>3 DEF Shape
<1> QED
  BY <1>3, <1>6, <1>7, <1>8, <1>9 DEF c, t

\* add_page where the page is missing.
LEMMA AddPageIs ==
  ASSUME NEW n, NEW R, NEW role, Shape(n, R, role), NEW g \in R, NEW v \in VA, NEW f \in Frames,
         NEW b, b = MakeTables(n, g, v), b \in Memory, va2pa_mmu(b, g, v) = NULL
  PROVE  add_page(n, g, f, v) = Placed(b, g, v, f)
<1> DEFINE a == [b EXCEPT !.ref[f] = @ + 1]
<1>1. a.tab = b.tab
  BY DEF Memory
<1>2. va2pa_mmu(a, g, v) = NULL /\ get_pte(a, g, v) = get_pte(b, g, v)
  <2> HIDE DEF a
  <2> QED
    BY <1>1, SameTab
<1>3. f # NULL
  BY Frame
<1>4. add_page(n, g, f, v) = [a EXCEPT !.tab[get_pte(a, g, v)][get_ptx(v)] = f]
  BY <1>2, <1>3, Zenon DEF add_page
<1>5. add_page(n, g, f, v) = [a EXCEPT !.tab[get_pte(b, g, v)][get_ptx(v)] = f]
  BY <1>2, <1>4
<1> QED
  BY <1>5 DEF Placed

LEMMA AllocGrows ==
  ASSUME NEW n, NEW R, NEW role, Shape(n, R, role), NEW g \in R, NEW v \in VA, NEW x \in Values,
         va2pa_mmu(n, g, v) = NULL, Cardinality(n.free) >= 1 + NoMid(n, g, v) + NoPte(n, g, v)
  PROVE  \E r : Grows(n, alloc_page_gpte(n, g, v, x), R, role, r, g, v, x)
<1> DEFINE f == NextFrame(n)
           a == Taken(n, f, x)
           b == MakeTables(a, g, v)
           c == Placed(b, g, v, f)
<1>0. /\ n \in Memory /\ Cardinality(n.free) \in Nat /\ NoMid(n, g, v) \in {0, 1}
      /\ NoPte(n, g, v) \in {0, 1} /\ n.free # {}
  <2>1. n \in Memory /\ NoMid(n, g, v) \in {0, 1} /\ NoPte(n, g, v) \in {0, 1}
    BY DEF Shape, NoMid, NoPte
  <2> QED
    BY <2>1, FreeSize
<1>f. f \in n.free /\ f \in Frames
  BY <1>0, NextFrameIs
<1> HIDE DEF f
<1>s. PICK p : Spares(n, a, R, role, p, f, x)
  BY <1>f, Spare
<1> HIDE DEF a
<1>1. /\ Shape(a, R, p) /\ Kept(n, a, role, p) /\ p[f] = <<f, 4, 0>>
      /\ a.free = n.free \ {f} /\ a.ref[f] = 0 /\ a.data[f] = x /\ a.tab = n.tab
  BY <1>s DEF Spares
<1>d. alloc_page_gpte(n, g, v, x) = add_page(a, g, f, v)
  BY DEF alloc_page_gpte, Taken, f, a
<1>2. \A h, w : /\ Mid(a, h, w) = Mid(n, h, w) /\ get_pte(a, h, w) = get_pte(n, h, w)
                /\ va2pa_mmu(a, h, w) = va2pa_mmu(n, h, w)
  BY <1>1, SameTab
<1>3. NoMid(a, g, v) = NoMid(n, g, v) /\ NoPte(a, g, v) = NoPte(n, g, v)
  BY <1>2 DEF NoMid, NoPte
<1>4. Cardinality(a.free) = Cardinality(n.free) - 1
  BY <1>0, <1>1, <1>f, FreeSize
<1>5. PICK q : Tabled(a, b, R, p, q, g, v)
  <2>1. Cardinality(a.free) >= NoMid(a, g, v) + NoPte(a, g, v)
    BY <1>0, <1>3, <1>4
  <2> QED
    BY <1>1, <1>f, <2>1, Tables
<1>6. /\ Shape(b, R, q) /\ Kept(a, b, p, q) /\ b \in Memory /\ get_pte(b, g, v) # NULL
      /\ va2pa_mmu(b, g, v) = NULL
  BY <1>2, <1>5 DEF Tabled, Shape
<1>7. c = add_page(a, g, f, v)
  BY <1>1, <1>f, <1>6, AddPageIs
<1> HIDE DEF b
<1>8. f \notin b.free /\ q[f] = <<f, 4, 0>> /\ b.ref[f] = 0 /\ b.data[f] = x
  BY <1>1, <1>f, <1>6 DEF Kept
<1>9. PICK r : /\ Shape(c, R, r) /\ c.free = b.free /\ c.data = b.data /\ c.twice = b.twice
               /\ \A u \in Frames : u # f => r[u] = q[u] /\ c.ref[u] = b.ref[u]
               /\ \A h \in R, w \in VA :
                    /\ Mid(c, h, w) = Mid(b, h, w) /\ get_pte(c, h, w) = get_pte(b, h, w)
                    /\ va2pa_mmu(c, h, w) = IF h = g /\ w = v THEN f ELSE va2pa_mmu(b, h, w)
  BY <1>1, <1>f, <1>6, <1>8, SparePlaced
<1> HIDE DEF c
<1>10. Kept(n, c, role, r)
  BY <1>1, <1>f, <1>6, <1>9 DEF Kept
<1>11. Cardinality(c.free) = Cardinality(n.free) - 1 - NoMid(n, g, v) - NoPte(n, g, v)
  BY <1>3, <1>4, <1>5, <1>9 DEF Tabled
<1>12. va2pa_mmu(c, g, v) = f /\ f # NULL /\ c.data[f] = x
  BY <1>1, <1>f, <1>8, <1>9, Frame
<1>13. /\ Mid(c, g, v) = Mid(b, g, v) /\ get_pte(c, g, v) = get_pte(b, g, v)
       /\ Mid(c, g, v) # NULL /\ get_pte(c, g, v) # NULL
  BY <1>5, <1>9 DEF Tabled
<1>14. \A u \in n.free : u \in c.free \/ u = Mid(c, g, v) \/ u = get_pte(c, g, v)
                                      \/ u = va2pa_mmu(c, g, v)
  BY <1>1, <1>f, <1>5, <1>9, <1>12, <1>13 DEF Tabled
<1>15. /\ Mid(n, g, v) # NULL => Mid(c, g, v) = Mid(n, g, v)
       /\ get_pte(n, g, v) # NULL => get_pte(c, g, v) = get_pte(n, g, v)
  BY <1>2, <1>5, <1>13 DEF Tabled
<1>16. \A h \in R, w \in VA :
       /\ Mid(c, h, w) = IF h = g /\ get_gptx(w) = get_gptx(v) THEN Mid(c, g, v) ELSE Mid(n, h, w)
       /\ get_pte(c, h, w) = IF h = g /\ Leaf(w) = Leaf(v) THEN get_pte(c, g, v)
                             ELSE get_pte(n, h, w)
       /\ va2pa_mmu(c, h, w) = IF h = g /\ w = v THEN va2pa_mmu(c, g, v) ELSE va2pa_mmu(n, h, w)
  BY <1>2, <1>5, <1>9, <1>12, <1>13 DEF Tabled
<1>17. Grows(n, c, R, role, r, g, v, x)
  BY <1>9, <1>10, <1>11, <1>12, <1>13, <1>14, <1>15, <1>16 DEF Grows
<1> QED
  BY <1>d, <1>7, <1>17

LEMMA CopyGrows ==
  ASSUME NEW n, NEW R, NEW role, Shape(n, R, role), NEW g \in R, NEW v \in VA, NEW f \in Frames,
         va2pa_mmu(n, g, v) = NULL, Cardinality(n.free) >= 1 + NoMid(n, g, v) + NoPte(n, g, v)
  PROVE  \E r : Grows(n, CopyPage(n, g, v, f), R, role, r, g, v, n.data[f])
<1> DEFINE b == MakeTables(n, g, v)
           c == alloc_page_gpte(b, g, v, n.data[f])
<1>0. /\ n \in Memory /\ Cardinality(n.free) \in Nat /\ NoMid(n, g, v) \in {0, 1}
      /\ NoPte(n, g, v) \in {0, 1} /\ n.data[f] \in Values
  <2>1. n \in Memory /\ NoMid(n, g, v) \in {0, 1} /\ NoPte(n, g, v) \in {0, 1}
    BY DEF Shape, NoMid, NoPte
  <2>2. n.data[f] \in Values
    BY <2>1 DEF Memory
  <2> QED
    BY <2>1, <2>2, FreeSize
<1>1. PICK q : Tabled(n, b, R, role, q, g, v)
  BY <1>0, Tables
<1> HIDE DEF b
<1>2. /\ Shape(b, R, q) /\ va2pa_mmu(b, g, v) = NULL /\ NoMid(b, g, v) = 0 /\ NoPte(b, g, v) = 0
      /\ Cardinality(b.free) = Cardinality(n.free) - NoMid(n, g, v) - NoPte(n, g, v)
  BY <1>1 DEF Tabled, NoMid, NoPte
<1>3. PICK r : Grows(b, c, R, q, r, g, v, n.data[f])
  BY <1>0, <1>2, AllocGrows
<1>4. c = CopyPage(n, g, v, f)
  BY DEF CopyPage, b
<1> HIDE DEF c
<1>5. Kept(n, c, role, r)
  BY <1>1, <1>3, KeptTrans DEF Tabled, Grows
<1>6. Cardinality(c.free) = Cardinality(n.free) - 1 - NoMid(n, g, v) - NoPte(n, g, v)
  BY <1>0, <1>2, <1>3 DEF Grows
<1>7. Mid(c, g, v) = Mid(b, g, v) /\ get_pte(c, g, v) = get_pte(b, g, v)
  BY <1>1, <1>3 DEF Tabled, Grows
<1>8. Grows(n, c, R, role, r, g, v, n.data[f])
  BY <1>1, <1>3, <1>5, <1>6, <1>7 DEF Tabled, Grows
<1> QED
  BY <1>4, <1>8

-----------------------------------------------------------------------------
(* A new address space is made, page after page.                           *)

\* alloc_gpt: a new root without entries.
RootMade(n, a, R, role, r, g) ==
  /\ g \in n.free /\ g \in Frames /\ g \notin R
  /\ Shape(a, R \cup {g}, r) /\ Kept(n, a, role, r)
  /\ a.free = n.free \ {g}
  /\ \A w \in VA : Mid(a, g, w) = NULL /\ get_pte(a, g, w) = NULL /\ va2pa_mmu(a, g, w) = NULL
  /\ \A h \in R, w \in VA :
       /\ Mid(a, h, w) = Mid(n, h, w) /\ get_pte(a, h, w) = get_pte(n, h, w)
       /\ va2pa_mmu(a, h, w) = va2pa_mmu(n, h, w)

LEMMA NewRoot ==
  ASSUME NEW n, NEW R, NEW role, Shape(n, R, role), n.free # {}
  PROVE  \E r : RootMade(n, alloc_gpt(n), R, role, r, NextFrame(n))
<1> DEFINE f == NextFrame(n)
           a == alloc_gpt(n)
           r == [u \in Frames |-> IF u = f THEN <<f, 0, 0>> ELSE role[u]]
<1>1. n \in Memory
  BY DEF Shape
<1>2. f \in n.free /\ f \in Frames /\ f \notin R
  <2>1. f \in n.free /\ f \in Frames
    BY <1>1, NextFrameIs
  <2> QED
    BY <2>1 DEF Shape
<1>3. /\ a.tab = [n.tab EXCEPT ![f] = NoEntries] /\ a.free = n.free \ {f}
      /\ a.data = n.data /\ a.ref = n.ref /\ a.twice = n.twice
  BY <1>1 DEF Memory, alloc_gpt
<1>e. a = [n EXCEPT !.free = @ \ {f}, !.tab[f] = NoEntries]
  BY DEF alloc_gpt
<1> HIDE DEF a, f
<1>4. a \in Memory
  <2>1. /\ [n.tab EXCEPT ![f] = NoEntries] \in [Frames -> [Index -> Frames \cup {NULL}]]
        /\ n.free \ {f} \in SUBSET Frames
    BY <1>1 DEF Memory, NoEntries
  <2> QED
    BY <1>1, <1>e, <2>1 DEF Memory
<1>5. \A u \in Frames, k \in Index : a.tab[u][k] = IF u = f THEN NULL ELSE n.tab[u][k]
  BY <1>1, <1>2, <1>3 DEF Memory, NoEntries
<1>6. r[f] = <<f, 0, 0>> /\ \A u \in Frames : u # f => r[u] = role[u]
  BY <1>2
<1> HIDE DEF r
<1>7. ASSUME NEW w \in VA
      PROVE  Mid(a, f, w) = NULL /\ get_pte(a, f, w) = NULL /\ va2pa_mmu(a, f, w) = NULL
  <2>1. Mid(a, f, w) = NULL
    BY <1>2, <1>5, Addresses DEF Mid
  <2> QED
    BY <2>1, Walk
<1>8. ASSUME NEW h \in R, NEW w \in VA
      PROVE  /\ Mid(a, h, w) = Mid(n, h, w) /\ get_pte(a, h, w) = get_pte(n, h, w)
             /\ va2pa_mmu(a, h, w) = va2pa_mmu(n, h, w)
  <2>0. get_gptx(w) \in Index /\ get_mptx(w) \in Index /\ get_ptx(w) \in Index
    BY Addresses
  <2>1. Mid(a, h, w) = Mid(n, h, w)
    BY <1>2, <1>5, <2>0, Uses DEF Mid
  <2>2. get_pte(a, h, w) = get_pte(n, h, w)
    <3>1. CASE Mid(n, h, w) = NULL
      BY <2>1, <3>1, Walk
    <3>2. CASE Mid(n, h, w) # NULL
      <4>1. a.tab[Mid(n, h, w)][get_mptx(w)] = n.tab[Mid(n, h, w)][get_mptx(w)]
        BY <1>2, <1>5, <2>0, <3>2, Uses
      <4> QED
        BY <2>1, <3>2, <4>1, Walk
    <3> QED
      BY <3>1, <3>2
  <2>3. va2pa_mmu(a, h, w) = va2pa_mmu(n, h, w)
    <3>1. CASE get_pte(n, h, w) = NULL
      BY <2>2, <3>1, Walk
    <3>2. CASE get_pte(n, h, w) # NULL
      <4>1. a.tab[get_pte(n, h, w)][get_ptx(w)] = n.tab[get_pte(n, h, w)][get_ptx(w)]
        BY <1>2, <1>5, <2>0, <3>2, Uses
      <4> QED
        BY <2>2, <3>2, <4>1, Walk
    <3> QED
      BY <3>1, <3>2
  <2> QED
    BY <2>1, <2>2, <2>3
<1>9. Shape(a, R \cup {f}, r)
  <2>1. /\ R \cup {f} \subseteq Frames
        /\ \A h \in R \cup {f} : h \notin a.free /\ r[h] = <<h, 0, 0>>
    BY <1>2, <1>3, <1>6 DEF Shape
  <2>2. \A u \in a.free : a.ref[u] = 0
    BY <1>3 DEF Shape
  <2>3. ASSUME NEW h \in R \cup {f}, NEW w \in VA
        PROVE  /\ Has(a, r, Mid(a, h, w), h, 1, get_gptx(w))
               /\ Has(a, r, get_pte(a, h, w), h, 2, Leaf(w))
               /\ Has(a, r, va2pa_mmu(a, h, w), h, 3, w)
               /\ va2pa_mmu(a, h, w) # NULL => a.ref[va2pa_mmu(a, h, w)] = 1
    <3>1. CASE h = f
      BY <1>7, <3>1 DEF Has
    <3>2. CASE h \in R
      BY <1>2, <1>3, <1>6, <1>8, <3>2, Uses DEF Has
    <3> QED
      BY <3>1, <3>2
  <2> QED
    BY <1>4, <2>1, <2>2, <2>3 DEF Shape
<1>10. Kept(n, a, role, r)
  BY <1>2, <1>3, <1>6 DEF Kept
<1>11. RootMade(n, a, R, role, r, f)
  BY <1>2, <1>3, <1>7, <1>8, <1>9, <1>10 DEF RootMade
<1> QED
  BY <1>11 DEF a, f

LEMMA LeafBound == ASSUME NEW v \in VA PROVE Leaf(v) \in VA
<1> DEFINE P == PT_SIZE
           q == Leaf(v)
<1>1. P \in Nat \ {0} /\ v \in Nat /\ NumPages \in Nat /\ v < NumPages
  BY Constants DEF VA
<1>2. q \in Nat /\ v % P \in Nat /\ v = P * q + (v % P)
  <2>1. q = v \div P
    BY DEF Leaf
  <2> HIDE DEF P, q
  <2>2. v \div P \in Nat /\ v % P \in 0 .. P - 1 /\ v = P * (v \div P) + (v % P)
    BY <1>1, Division
  <2>3. v % P \in Nat
    BY <1>1, <2>2
  <2> QED
    BY <2>1, <2>2, <2>3
<1> HIDE DEF P, q
<1>3. P * q >= q /\ P * q \in Nat
  BY <1>1, <1>2
<1>4. q <= v
  <2> DEFINE z == P * q
             k == v % P
  <2>1. z \in Nat /\ z >= q /\ k \in Nat /\ v = z + k
    BY <1>2, <1>3
  <2> HIDE DEF z, k
  <2> QED
    BY <1>1, <1>2, <2>1
<1>5. q \in VA
  BY <1>1, <1>2, <1>4 DEF VA
<1> QED
  BY <1>5 DEF q

\* The entries of the root, and the page tables, that pages S need.
Gptxs(S) == { get_gptx(u) : u \in S }
Leafs(S) == { Leaf(u) : u \in S }

LEMMA CostIs == ASSUME NEW S \in SUBSET VA
                PROVE  /\ Cost(S) = 1 + Cardinality(S) + Cardinality(Gptxs(S)) + Cardinality(Leafs(S))
                       /\ IsFiniteSet(S) /\ Cardinality(S) \in Nat
                       /\ IsFiniteSet(Gptxs(S)) /\ Cardinality(Gptxs(S)) \in Nat
                       /\ IsFiniteSet(Leafs(S)) /\ Cardinality(Leafs(S)) \in Nat
<1>1. IsFiniteSet(VA) /\ IsFiniteSet(Index)
  <2>1. NumPages - 1 \in Int /\ PT_SIZE - 1 \in Int /\ 0 \in Int
    BY Constants
  <2> QED
    BY <2>1, FS_Interval DEF VA, Index
<1>2. Gptxs(S) \subseteq Index /\ Leafs(S) \subseteq VA
  BY Addresses, LeafBound DEF Gptxs, Leafs
<1>3. IsFiniteSet(S) /\ IsFiniteSet(Gptxs(S)) /\ IsFiniteSet(Leafs(S))
  BY <1>1, <1>2, FS_Subset
<1>4. /\ Cardinality(S) \in Nat /\ Cardinality(Gptxs(S)) \in Nat
      /\ Cardinality(Leafs(S)) \in Nat
  BY <1>3, FS_CardinalityType
<1>5. Cost(S) = 1 + Cardinality(S) + Cardinality(Gptxs(S)) + Cardinality(Leafs(S))
  BY DEF Cost, Gptxs, Leafs, Leaf
<1> QED
  BY <1>3, <1>4, <1>5

LEMMA OneMore == ASSUME NEW A, IsFiniteSet(A), NEW x
                 PROVE  Cardinality(A \cup {x}) = Cardinality(A) + (IF x \in A THEN 0 ELSE 1)
<1>1. Cardinality(A) \in Nat
  BY FS_CardinalityType
<1>2. Cardinality(A \cup {x}) = IF x \in A THEN Cardinality(A) ELSE Cardinality(A) + 1
  BY FS_AddElement
<1>3. CASE x \in A
  BY <1>1, <1>2, <1>3
<1>4. CASE x \notin A
  BY <1>1, <1>2, <1>4
<1> QED
  BY <1>3, <1>4

\* What the pages S cost, and one more.
LEMMA Costs ==
  ASSUME NEW S \in SUBSET VA, NEW v \in VA, v \notin S
  PROVE  Cost(S \cup {v}) = Cost(S) + 1
           + (IF \E u \in S : get_gptx(u) = get_gptx(v) THEN 0 ELSE 1)
           + (IF \E u \in S : Leaf(u) = Leaf(v) THEN 0 ELSE 1)
<1> DEFINE A == Gptxs(S)
           B == Leafs(S)
<1>1. Gptxs(S \cup {v}) = A \cup {get_gptx(v)} /\ Leafs(S \cup {v}) = B \cup {Leaf(v)}
  BY DEF Gptxs, Leafs
<1>2. /\ get_gptx(v) \in A <=> \E u \in S : get_gptx(u) = get_gptx(v)
      /\ Leaf(v) \in B <=> \E u \in S : Leaf(u) = Leaf(v)
  BY DEF Gptxs, Leafs
<1>3. /\ Cost(S) = 1 + Cardinality(S) + Cardinality(A) + Cardinality(B)
      /\ IsFiniteSet(S) /\ IsFiniteSet(A) /\ IsFiniteSet(B) /\ Cardinality(S) \in Nat
      /\ Cardinality(A) \in Nat /\ Cardinality(B) \in Nat
  BY CostIs
<1>4. Cost(S \cup {v}) = 1 + Cardinality(S \cup {v}) + Cardinality(A \cup {get_gptx(v)})
                          + Cardinality(B \cup {Leaf(v)})
  <2>1. S \cup {v} \in SUBSET VA
    OBVIOUS
  <2> QED
    BY <1>1, <2>1, CostIs
<1> HIDE DEF A, B
<1>5. /\ Cardinality(S \cup {v}) = Cardinality(S) + 1
      /\ Cardinality(A \cup {get_gptx(v)}) = Cardinality(A) + (IF get_gptx(v) \in A THEN 0 ELSE 1)
      /\ Cardinality(B \cup {Leaf(v)}) = Cardinality(B) + (IF Leaf(v) \in B THEN 0 ELSE 1)
  BY <1>3, OneMore
<1> QED
  BY <1>2, <1>3, <1>4, <1>5

LEMMA CostGrows == ASSUME NEW T \in SUBSET VA, NEW S \in SUBSET T
                   PROVE  Cost(S) \in Nat /\ Cost(T) \in Nat /\ Cost(S) <= Cost(T)
<1>1. S \in SUBSET VA /\ Gptxs(S) \subseteq Gptxs(T) /\ Leafs(S) \subseteq Leafs(T)
  BY DEF Gptxs, Leafs
<1>2. /\ Cost(S) = 1 + Cardinality(S) + Cardinality(Gptxs(S)) + Cardinality(Leafs(S))
      /\ Cardinality(S) \in Nat /\ Cardinality(Gptxs(S)) \in Nat /\ Cardinality(Leafs(S)) \in Nat
  BY <1>1, CostIs
<1>3. /\ Cost(T) = 1 + Cardinality(T) + Cardinality(Gptxs(T)) + Cardinality(Leafs(T))
      /\ Cardinality(T) \in Nat /\ Cardinality(Gptxs(T)) \in Nat /\ Cardinality(Leafs(T)) \in Nat
      /\ IsFiniteSet(T) /\ IsFiniteSet(Gptxs(T)) /\ IsFiniteSet(Leafs(T))
  BY CostIs
<1>4. /\ Cardinality(S) <= Cardinality(T) /\ Cardinality(Gptxs(S)) <= Cardinality(Gptxs(T))
      /\ Cardinality(Leafs(S)) <= Cardinality(Leafs(T))
  BY <1>1, <1>3, FS_Subset
<1> QED
  BY <1>2, <1>3, <1>4

-----------------------------------------------------------------------------
(* The loops over the pages.                                               *)

LEMMA Upward == ASSUME NEW N \in Nat, NEW S \in SUBSET (0 .. N), 0 \in S,
                       \A i \in S : i < N => i + 1 \in S
                PROVE  N \in S
<1> DEFINE B == (0 .. N) \ S
<1>1. SUFFICES ASSUME B # {} PROVE FALSE
  OBVIOUS
<1>2. PICK k \in B : \A j \in B : k <= j
  <2>1. B \subseteq Nat
    OBVIOUS
  <2> HIDE DEF B
  <2> QED
    BY <1>1, <2>1, Least, Zenon
<1>3. k \in 0 .. N /\ k \notin S /\ k # 0
  BY <1>2
<1>4. k - 1 \in 0 .. N /\ k - 1 < N /\ k - 1 + 1 = k /\ ~(k <= k - 1)
  BY <1>3
<1>5. k - 1 \in S
  BY <1>2, <1>4
<1> QED
  BY <1>3, <1>4, <1>5

\* The bodies of dup_vmm, del_ranges, free_ranges and load_bin, for the address v.
Body(j, d, v, a, b, S, x) ==
  CASE j = 1 -> IF v \in S /\ va2pa_mmu(d, a, v) # NULL
                THEN CopyPage(d, b, v, va2pa_mmu(d, a, v)) ELSE d
    [] j = 2 -> IF v \in S THEN del_page(d, a, v) ELSE d
    [] j = 3 -> IF v \in S THEN FreeTable(d, a, v) ELSE d
    [] j = 4 -> IF v \in S THEN alloc_page_gpte(d, a, v, x) ELSE d

LEMMA BodyIs ==
  ASSUME NEW d, NEW v, NEW a, NEW b, NEW S, NEW x
  PROVE  /\ Body(1, d, v, a, b, S, x) = IF v \in S /\ va2pa_mmu(d, a, v) # NULL
                                        THEN CopyPage(d, b, v, va2pa_mmu(d, a, v)) ELSE d
         /\ Body(2, d, v, a, b, S, x) = IF v \in S THEN del_page(d, a, v) ELSE d
         /\ Body(3, d, v, a, b, S, x) = IF v \in S THEN FreeTable(d, a, v) ELSE d
         /\ Body(4, d, v, a, b, S, x) = IF v \in S THEN alloc_page_gpte(d, a, v, x) ELSE d
BY DEF Body

\* D holds the memory after each round of such a loop.
Rounds(N, D, j, n, a, b, S, x) ==
  D = [i \in 0 .. N |-> IF i = 0 THEN n ELSE Body(j, D[i - 1], i - 1, a, b, S, x)]

LEMMA RoundsAt ==
  ASSUME NEW N \in Nat, NEW D, NEW j, NEW n, NEW a, NEW b, NEW S, NEW x,
         Rounds(N, D, j, n, a, b, S, x)
  PROVE  /\ D = [i \in 0 .. N |-> D[i]] /\ D[0] = n
         /\ \A i \in 0 .. N - 1 : D[i + 1] = Body(j, D[i], i, a, b, S, x)
<1>1. \A i \in 0 .. N : D[i] = IF i = 0 THEN n ELSE Body(j, D[i - 1], i - 1, a, b, S, x)
  BY DEF Rounds
<1>2. ASSUME NEW i \in 0 .. N - 1 PROVE D[i + 1] = Body(j, D[i], i, a, b, S, x)
  <2>1. i + 1 \in 0 .. N /\ i + 1 # 0 /\ i + 1 - 1 = i
    OBVIOUS
  <2> QED
    BY <1>1, <2>1
<1>3. D = [i \in 0 .. N |-> D[i]]
  BY DEF Rounds
<1>4. D[0] = n
  BY <1>1
<1> QED
  BY <1>2, <1>3, <1>4

LEMMA RoundsExist == ASSUME NEW N \in Nat, NEW j, NEW n, NEW a, NEW b, NEW S, NEW x
                     PROVE  \E D : Rounds(N, D, j, n, a, b, S, x)
<1> DEFINE K == { k \in 0 .. N : \E D : Rounds(k, D, j, n, a, b, S, x) }
<1>1. 0 \in K
  <2> DEFINE D == [i \in 0 .. 0 |-> n]
  <2>1. D = [i \in 0 .. 0 |-> IF i = 0 THEN n ELSE Body(j, D[i - 1], i - 1, a, b, S, x)]
    OBVIOUS
  <2>2. Rounds(0, D, j, n, a, b, S, x)
    BY <2>1 DEF Rounds
  <2> QED
    BY <2>2
<1>2. ASSUME NEW k \in K, k < N PROVE k + 1 \in K
  <2>1. PICK C : Rounds(k, C, j, n, a, b, S, x)
    OBVIOUS
  <2>2. k \in Nat /\ k + 1 \in 0 .. N
    BY <1>2
  <2> HIDE DEF K
  <2>3. C[0] = n /\ \A i \in 0 .. k - 1 : C[i + 1] = Body(j, C[i], i, a, b, S, x)
    BY <2>1, <2>2, RoundsAt
  <2> DEFINE D == [i \in 0 .. k + 1 |-> IF i = k + 1 THEN Body(j, C[k], k, a, b, S, x) ELSE C[i]]
  <2>4. ASSUME NEW i \in 0 .. k + 1
        PROVE  D[i] = IF i = 0 THEN n ELSE Body(j, D[i - 1], i - 1, a, b, S, x)
    <3>1. CASE i = 0
      BY <2>2, <2>3, <3>1
    <3>2. CASE i = k + 1
      <4>1. i - 1 = k /\ i - 1 \in 0 .. k + 1 /\ i - 1 # k + 1 /\ i # 0
        BY <2>2, <3>2
      <4> QED
        BY <3>2, <4>1
    <3>3. CASE i # 0 /\ i # k + 1
      <4>1. /\ i - 1 \in 0 .. k - 1 /\ i - 1 \in 0 .. k + 1 /\ i - 1 # k + 1
            /\ i - 1 + 1 = i
        BY <2>2, <3>3
      <4>2. C[i] = Body(j, C[i - 1], i - 1, a, b, S, x)
        BY <2>3, <4>1
      <4> QED
        BY <3>3, <4>1, <4>2
    <3> QED
      BY <3>1, <3>2, <3>3
  <2>5. D = [i \in 0 .. k + 1 |-> D[i]]
    OBVIOUS
  <2>6. Rounds(k + 1, D, j, n, a, b, S, x)
    <3> HIDE DEF D
    <3> QED
      BY <2>4, <2>5 DEF Rounds
  <2> QED
    BY <2>2, <2>6 DEF K
<1>3. K \in SUBSET (0 .. N)
  OBVIOUS
<1>4. N \in K
  <2> HIDE DEF K
  <2> QED
    BY <1>1, <1>2, <1>3, Upward
<1> QED
  BY <1>4

\* Each loop as its rounds.
LEMMA DupRounds ==
  ASSUME NEW n, NEW from, NEW to, NEW s
  PROVE  \E D : /\ Rounds(NumPages, D, 1, n, from, to, PagesOf(s), NULL)
                /\ dup_vmm(n, from, to, s) = D[NumPages]
<1> DEFINE L(D) == D = [i \in 0 .. NumPages |->
                          IF i = 0 THEN n
                          ELSE LET d == D[i - 1]
                                   f == va2pa_mmu(d, from, i - 1)
                               IN IF i - 1 \in PagesOf(s) /\ f # NULL
                                  THEN CopyPage(d, to, i - 1, f) ELSE d]
<1>1. dup_vmm(n, from, to, s) = (CHOOSE D : L(D))[NumPages]
  BY DEF dup_vmm
<1>2. ASSUME NEW D PROVE L(D) <=> Rounds(NumPages, D, 1, n, from, to, PagesOf(s), NULL)
  BY DEF Rounds, Body
<1> HIDE DEF L
<1>3. \E D : L(D)
  BY <1>2, RoundsExist, Constants
<1>4. L(CHOOSE D : L(D))
  BY <1>3
<1> QED
  BY <1>1, <1>2, <1>4

LEMMA DelRounds ==
  ASSUME NEW n, NEW g, NEW s
  PROVE  \E D : /\ Rounds(NumPages, D, 2, n, g, NULL, PagesOf(s), NULL)
                /\ del_ranges(n, g, s) = D[NumPages]
<1> DEFINE L(D) == D = [i \in 0 .. NumPages |->
                          IF i = 0 THEN n
                          ELSE IF i - 1 \in PagesOf(s) THEN del_page(D[i - 1], g, i - 1) ELSE D[i - 1]]
<1>1. del_ranges(n, g, s) = (CHOOSE D : L(D))[NumPages]
  BY DEF del_ranges
<1>2. ASSUME NEW D PROVE L(D) <=> Rounds(NumPages, D, 2, n, g, NULL, PagesOf(s), NULL)
  BY DEF Rounds, Body
<1> HIDE DEF L
<1>3. \E D : L(D)
  BY <1>2, RoundsExist, Constants
<1>4. L(CHOOSE D : L(D))
  BY <1>3
<1> QED
  BY <1>1, <1>2, <1>4

LEMMA FreeRounds ==
  ASSUME NEW n, NEW g, NEW s
  PROVE  \E D : /\ Rounds(NumPages, D, 3, n, g, NULL, PagesOf(s), NULL)
                /\ free_ranges(n, g, s) = D[NumPages]
<1> DEFINE L(D) == D = [i \in 0 .. NumPages |->
                          IF i = 0 THEN n
                          ELSE IF i - 1 \in PagesOf(s) THEN FreeTable(D[i - 1], g, i - 1) ELSE D[i - 1]]
<1>1. free_ranges(n, g, s) = (CHOOSE D : L(D))[NumPages]
  BY DEF free_ranges
<1>2. ASSUME NEW D PROVE L(D) <=> Rounds(NumPages, D, 3, n, g, NULL, PagesOf(s), NULL)
  BY DEF Rounds, Body
<1> HIDE DEF L
<1>3. \E D : L(D)
  BY <1>2, RoundsExist, Constants
<1>4. L(CHOOSE D : L(D))
  BY <1>3
<1> QED
  BY <1>1, <1>2, <1>4

LEMMA LoadRounds ==
  ASSUME NEW n, NEW g, NEW pages, NEW x
  PROVE  \E D : /\ Rounds(NumPages, D, 4, n, g, NULL, pages, x)
                /\ load_bin(n, g, pages, x) = D[NumPages]
<1> DEFINE L(D) == D = [i \in 0 .. NumPages |->
                          IF i = 0 THEN n
                          ELSE IF i - 1 \in pages THEN alloc_page_gpte(D[i - 1], g, i - 1, x) ELSE D[i - 1]]
<1>1. load_bin(n, g, pages, x) = (CHOOSE D : L(D))[NumPages]
  BY DEF load_bin
<1>2. ASSUME NEW D PROVE L(D) <=> Rounds(NumPages, D, 4, n, g, NULL, pages, x)
  BY DEF Rounds, Body
<1> HIDE DEF L
<1>3. \E D : L(D)
  BY <1>2, RoundsExist, Constants
<1>4. L(CHOOSE D : L(D))
  BY <1>3
<1> QED
  BY <1>1, <1>2, <1>4

-----------------------------------------------------------------------------
(* What the loops that make an address space reach.                        *)

\* The frames that the root g uses.
Occ(n, g) == {g} \cup { f \in Frames : \E w \in VA : f = Mid(n, g, w) \/ f = get_pte(n, g, w)
                                                   \/ f = va2pa_mmu(n, g, w) }

\* From z to n the root g was made, with the pages S, of contents c; the address
\* spaces of the roots R are as they were.
Grown(z, n, R, role, r, g, S, c) ==
  /\ Shape(n, R \cup {g}, r) /\ Kept(z, n, role, r)
  /\ Cardinality(n.free) + Cost(S) = Cardinality(z.free)
  /\ \A f \in z.free : f \in n.free \/ f \in Occ(n, g)
  /\ \A h \in R, w \in VA :
       /\ Mid(n, h, w) = Mid(z, h, w) /\ get_pte(n, h, w) = get_pte(z, h, w)
       /\ va2pa_mmu(n, h, w) = va2pa_mmu(z, h, w)
  /\ \A w \in VA :
       /\ Mid(n, g, w) # NULL <=> \E u \in S : get_gptx(u) = get_gptx(w)
       /\ get_pte(n, g, w) # NULL <=> \E u \in S : Leaf(u) = Leaf(w)
       /\ va2pa_mmu(n, g, w) # NULL <=> w \in S
       /\ w \in S => n.data[va2pa_mmu(n, g, w)] = c[w]

LEMMA GrownStart ==
  ASSUME NEW z \in Memory, NEW n, NEW R, NEW role, NEW r, NEW g, RootMade(z, n, R, role, r, g), NEW c
  PROVE  Grown(z, n, R, role, r, g, {}, c)
<1>1. Cost({}) = 1
  <2>1. {} \in SUBSET VA /\ Gptxs({}) = {} /\ Leafs({}) = {} /\ Cardinality({}) = 0
    BY FS_EmptySet DEF Gptxs, Leafs
  <2>2. Cost({}) = 1 + Cardinality({}) + Cardinality(Gptxs({})) + Cardinality(Leafs({}))
    BY <2>1, CostIs, Zenon
  <2> QED
    BY <2>1, <2>2
<1>2. g \in z.free /\ n.free = z.free \ {g}
  BY DEF RootMade
<1>3. Cardinality(n.free) + 1 = Cardinality(z.free)
  <2>1. Cardinality(z.free) \in Nat /\ Cardinality(z.free \ {g}) = Cardinality(z.free) - 1
    BY <1>2, FreeSize
  <2> QED
    BY <1>2, <2>1
<1>4. \A f \in z.free : f \in n.free \/ f \in Occ(n, g)
  BY <1>2 DEF Occ
<1> QED
  BY <1>1, <1>3, <1>4 DEF Grown, RootMade

\* There are frames for the next page, and it is as it should be.
LEMMA GrownRoom ==
  ASSUME NEW z \in Memory, NEW n, NEW R, NEW role, NEW r, NEW g, NEW S \in SUBSET VA, NEW c,
         Grown(z, n, R, role, r, g, S, c), NEW T \in SUBSET VA, S \subseteq T,
         NEW v \in T, v \notin S, Cardinality(z.free) >= Cost(T)
  PROVE  /\ va2pa_mmu(n, g, v) = NULL
         /\ Cardinality(n.free) >= 1 + NoMid(n, g, v) + NoPte(n, g, v)
         /\ Cost(S \cup {v}) = Cost(S) + 1 + NoMid(n, g, v) + NoPte(n, g, v)
<1>1. /\ NoMid(n, g, v) = IF \E u \in S : get_gptx(u) = get_gptx(v) THEN 0 ELSE 1
      /\ NoPte(n, g, v) = IF \E u \in S : Leaf(u) = Leaf(v) THEN 0 ELSE 1
      /\ va2pa_mmu(n, g, v) = NULL
  BY DEF Grown, NoMid, NoPte
<1>2. Cost(S \cup {v}) = Cost(S) + 1 + NoMid(n, g, v) + NoPte(n, g, v)
  BY <1>1, Costs
<1>3. S \cup {v} \in SUBSET T
  OBVIOUS
<1>4. Cost(S \cup {v}) \in Nat /\ Cost(T) \in Nat /\ Cost(S \cup {v}) <= Cost(T)
  BY <1>3, CostGrows
<1>5. Cost(S) \in Nat
  BY CostGrows
<1>6. Cardinality(n.free) \in Nat /\ Cardinality(z.free) \in Nat
  BY FreeSize DEF Grown, Shape
<1>7. Cardinality(n.free) + Cost(S) = Cardinality(z.free)
  BY DEF Grown
<1>8. NoMid(n, g, v) \in Nat /\ NoPte(n, g, v) \in Nat
  BY DEF NoMid, NoPte
<1> QED
  BY <1>1, <1>2, <1>4, <1>5, <1>6, <1>7, <1>8

LEMMA GrownStep ==
  ASSUME NEW z \in Memory, NEW n, NEW R, NEW role, NEW r, NEW g, NEW S \in SUBSET VA, NEW c,
         Grown(z, n, R, role, r, g, S, c), g \notin R, NEW v \in VA, v \notin S, NEW b, NEW q,
         Cost(S \cup {v}) = Cost(S) + 1 + NoMid(n, g, v) + NoPte(n, g, v),
         Grows(n, b, R \cup {g}, r, q, g, v, c[v])
  PROVE  Grown(z, b, R, role, q, g, S \cup {v}, c)
<1>1. Shape(b, R \cup {g}, q) /\ Kept(z, b, role, q)
  BY KeptTrans DEF Grown, Grows
<1>2. Cardinality(b.free) + Cost(S \cup {v}) = Cardinality(z.free)
  <2>1. Cardinality(n.free) \in Nat /\ Cost(S) \in Nat
    BY FreeSize, CostGrows DEF Grown, Shape
  <2>2. NoMid(n, g, v) \in Nat /\ NoPte(n, g, v) \in Nat
    BY DEF NoMid, NoPte
  <2>3. /\ Cardinality(b.free) = Cardinality(n.free) - 1 - NoMid(n, g, v) - NoPte(n, g, v)
        /\ Cardinality(n.free) + Cost(S) = Cardinality(z.free)
    BY DEF Grown, Grows
  <2> QED
    BY <2>1, <2>2, <2>3
<1>3. \A h \in R, w \in VA :
       /\ Mid(b, h, w) = Mid(z, h, w) /\ get_pte(b, h, w) = get_pte(z, h, w)
       /\ va2pa_mmu(b, h, w) = va2pa_mmu(z, h, w)
  BY DEF Grown, Grows
<1>4. ASSUME NEW w \in VA
      PROVE  /\ Mid(b, g, w) # NULL <=> \E u \in S \cup {v} : get_gptx(u) = get_gptx(w)
             /\ get_pte(b, g, w) # NULL <=> \E u \in S \cup {v} : Leaf(u) = Leaf(w)
             /\ va2pa_mmu(b, g, w) # NULL <=> w \in S \cup {v}
             /\ w \in S \cup {v} => b.data[va2pa_mmu(b, g, w)] = c[w]
  <2>1. /\ Mid(b, g, w) = IF get_gptx(w) = get_gptx(v) THEN Mid(b, g, v) ELSE Mid(n, g, w)
        /\ get_pte(b, g, w) = IF Leaf(w) = Leaf(v) THEN get_pte(b, g, v) ELSE get_pte(n, g, w)
        /\ va2pa_mmu(b, g, w) = IF w = v THEN va2pa_mmu(b, g, v) ELSE va2pa_mmu(n, g, w)
        /\ Mid(b, g, v) # NULL /\ get_pte(b, g, v) # NULL /\ va2pa_mmu(b, g, v) # NULL
        /\ b.data[va2pa_mmu(b, g, v)] = c[v]
    BY DEF Grows
  <2>2. /\ Mid(n, g, w) # NULL <=> \E u \in S : get_gptx(u) = get_gptx(w)
        /\ get_pte(n, g, w) # NULL <=> \E u \in S : Leaf(u) = Leaf(w)
        /\ va2pa_mmu(n, g, w) # NULL <=> w \in S
        /\ w \in S => n.data[va2pa_mmu(n, g, w)] = c[w]
    BY DEF Grown
  <2>3. w \in S => b.data[va2pa_mmu(n, g, w)] = n.data[va2pa_mmu(n, g, w)]
    <3>1. Shape(n, R \cup {g}, r) /\ Kept(n, b, r, q)
      BY DEF Grown, Grows
    <3>2. w \in S => va2pa_mmu(n, g, w) \in Frames /\ va2pa_mmu(n, g, w) \notin n.free
      BY <2>2, <3>1, Uses
    <3> QED
      BY <3>1, <3>2 DEF Kept
  <2> QED
    BY <2>1, <2>2, <2>3
<1>5. ASSUME NEW f \in z.free, f \notin b.free PROVE f \in Occ(b, g)
  <2>1. f \in Frames
    BY DEF Memory
  <2>2. CASE f \in n.free
    BY <1>5, <2>1, <2>2 DEF Grows, Occ
  <2>3. CASE f \in Occ(n, g)
    <3>1. CASE f = g
      BY <3>1 DEF Occ
    <3>2. CASE f # g
      <4>1. PICK w \in VA : f = Mid(n, g, w) \/ f = get_pte(n, g, w) \/ f = va2pa_mmu(n, g, w)
        BY <2>3, <3>2 DEF Occ
      <4>2. f # NULL
        BY <2>1, Frame
      <4>3. /\ f = Mid(n, g, w) => f = Mid(b, g, w)
            /\ f = get_pte(n, g, w) => f = get_pte(b, g, w)
            /\ f = va2pa_mmu(n, g, w) => f = va2pa_mmu(b, g, w)
        <5>1. get_gptx(w) = get_gptx(v) => Mid(n, g, w) = Mid(n, g, v)
          BY DEF Mid
        <5>2. Leaf(w) = Leaf(v) => get_pte(n, g, w) = get_pte(n, g, v)
          BY Addresses DEF get_pte
        <5>3. va2pa_mmu(n, g, v) = NULL
          BY DEF Grown
        <5> QED
          BY <4>2, <5>1, <5>2, <5>3 DEF Grows
      <4> QED
        BY <2>1, <4>1, <4>3 DEF Occ
    <3> QED
      BY <3>1, <3>2
  <2> QED
    BY <2>2, <2>3 DEF Grown
<1> QED
  BY <1>1, <1>2, <1>3, <1>4, <1>5 DEF Grown

\* The pages of S below i.
Below(S, i) == { v \in S : v < i }

LEMMA BelowIs == ASSUME NEW S \in SUBSET VA
                 PROVE  /\ Below(S, 0) = {} /\ Below(S, NumPages) = S
                        /\ \A i \in 0 .. NumPages : Below(S, i) \in SUBSET VA /\ Below(S, i) \subseteq S
                        /\ \A i \in VA : /\ i \in 0 .. NumPages - 1 /\ i \notin Below(S, i)
                                         /\ i \in S => Below(S, i + 1) = Below(S, i) \cup {i}
                                         /\ i \notin S => Below(S, i + 1) = Below(S, i)
<1>1. NumPages \in Nat /\ \A v \in VA : v \in Nat /\ v < NumPages /\ v \in 0 .. NumPages - 1
  BY Constants DEF VA
<1>2. \A v \in S : v \in Nat /\ v < NumPages
  BY <1>1
<1>3. Below(S, 0) = {} /\ Below(S, NumPages) = S
  BY <1>1, <1>2 DEF Below
<1>4. ASSUME NEW i \in VA
      PROVE  /\ i \notin Below(S, i)
             /\ i \in S => Below(S, i + 1) = Below(S, i) \cup {i}
             /\ i \notin S => Below(S, i + 1) = Below(S, i)
  <2>1. \A v \in S : v < i + 1 <=> v < i \/ v = i
    BY <1>1, <1>2
  <2>2. ~(i < i)
    BY <1>1
  <2> QED
    BY <2>1, <2>2 DEF Below
<1> QED
  BY <1>1, <1>3, <1>4 DEF Below

LEMMA LoadGrown ==
  ASSUME NEW z, NEW R, NEW role, Shape(z, R, role), NEW S \in SUBSET VA, NEW x \in Values,
         Cardinality(z.free) >= Cost(S), NEW g, g = NextFrame(z), NEW c, c = [v \in VA |-> x]
  PROVE  \E r : /\ g \in z.free /\ g \notin R
                /\ Grown(z, load_bin(alloc_gpt(z), g, S, x), R, role, r, g, S, c)
<1>0. z \in Memory /\ z.free # {} /\ NumPages \in Nat /\ \A v \in VA : c[v] = x
  <2>1. z \in Memory
    BY DEF Shape
  <2>2. Cost(S) \in Nat /\ Cost(S) >= 1
    BY CostIs
  <2> QED
    BY <2>1, <2>2, FreeSize, Constants
<1>1. PICK q : RootMade(z, alloc_gpt(z), R, role, q, g)
  BY <1>0, NewRoot
<1>2. PICK D : /\ Rounds(NumPages, D, 4, alloc_gpt(z), g, NULL, S, x)
               /\ load_bin(alloc_gpt(z), g, S, x) = D[NumPages]
  BY LoadRounds
<1> DEFINE K == { i \in 0 .. NumPages : \E r : Grown(z, D[i], R, role, r, g, Below(S, i), c) }
<1>3. 0 \in K
  <2>1. D[0] = alloc_gpt(z) /\ Below(S, 0) = {} /\ 0 \in 0 .. NumPages
    BY <1>0, <1>2, RoundsAt, BelowIs
  <2>2. Grown(z, alloc_gpt(z), R, role, q, g, {}, c)
    BY <1>0, <1>1, GrownStart
  <2> QED
    BY <2>1, <2>2
<1>4. ASSUME NEW i \in K, i < NumPages PROVE i + 1 \in K
  <2>1. i \in VA /\ i \in 0 .. NumPages /\ i + 1 \in 0 .. NumPages /\ i \in 0 .. NumPages - 1
    BY <1>0, <1>4 DEF VA
  <2>2. PICK r : Grown(z, D[i], R, role, r, g, Below(S, i), c)
    OBVIOUS
  <2>3. D[i + 1] = Body(4, D[i], i, g, NULL, S, x)
    BY <1>0, <1>2, <2>1, RoundsAt
  <2>4. \E p : Grown(z, D[i + 1], R, role, p, g, Below(S, i + 1), c)
    <3>1. CASE i \notin S
      <4>1. D[i + 1] = D[i] /\ Below(S, i + 1) = Below(S, i)
        BY <2>1, <2>3, <3>1, BelowIs, BodyIs
      <4> QED
        BY <2>2, <4>1
    <3>2. CASE i \in S
      <4>0. D[i + 1] = alloc_page_gpte(D[i], g, i, x)
        BY <2>3, <3>2, BodyIs
      <4>1. /\ Below(S, i + 1) = Below(S, i) \cup {i} /\ i \notin Below(S, i)
            /\ Below(S, i) \in SUBSET VA /\ Below(S, i) \subseteq S
        BY <2>1, <3>2, BelowIs
      <4>2. /\ va2pa_mmu(D[i], g, i) = NULL
            /\ Cardinality(D[i].free) >= 1 + NoMid(D[i], g, i) + NoPte(D[i], g, i)
            /\ Cost(Below(S, i) \cup {i}) = Cost(Below(S, i)) + 1 + NoMid(D[i], g, i)
                                              + NoPte(D[i], g, i)
        BY <1>0, <2>2, <3>2, <4>1, GrownRoom
      <4>3. Shape(D[i], R \cup {g}, r) /\ g \in R \cup {g}
        BY <2>2 DEF Grown
      <4>4. PICK p : Grows(D[i], D[i + 1], R \cup {g}, r, p, g, i, x)
        BY <2>1, <4>0, <4>2, <4>3, AllocGrows
      <4>5. g \notin R /\ c[i] = x
        BY <1>0, <1>1, <2>1 DEF RootMade
      <4>6. Grown(z, D[i + 1], R, role, p, g, Below(S, i) \cup {i}, c)
        BY <1>0, <2>1, <2>2, <4>1, <4>2, <4>4, <4>5, GrownStep
      <4> QED
        BY <4>1, <4>6
    <3> QED
      BY <3>1, <3>2
  <2> QED
    BY <2>1, <2>4
<1>5. NumPages \in K
  <2>1. K \in SUBSET (0 .. NumPages)
    OBVIOUS
  <2> HIDE DEF K
  <2> QED
    BY <1>0, <1>3, <1>4, <2>1, Upward
<1>6. PICK r : Grown(z, D[NumPages], R, role, r, g, Below(S, NumPages), c)
  BY <1>5
<1>7. Below(S, NumPages) = S
  BY BelowIs
<1>8. g \in z.free /\ g \notin R
  BY <1>1 DEF RootMade
<1> QED
  BY <1>2, <1>6, <1>7, <1>8

\* The pages the root g maps, and what they hold.
MappedAt(n, g)  == { v \in VA : va2pa_mmu(n, g, v) # NULL }
ContentOf(n, g) == [v \in VA |-> n.data[va2pa_mmu(n, g, v)]]

LEMMA DupGrown ==
  ASSUME NEW z, NEW R, NEW role, Shape(z, R, role), NEW from \in R, NEW s,
         MappedAt(z, from) \subseteq PagesOf(s), Cardinality(z.free) >= Cost(MappedAt(z, from))
  PROVE  LET g == NextFrame(z)
         IN \E r : /\ g \in z.free /\ g \notin R
                   /\ Grown(z, dup_vmm(alloc_gpt(z), from, g, s), R, role, r, g,
                            MappedAt(z, from), ContentOf(z, from))
<1> DEFINE g == NextFrame(z)
           S == MappedAt(z, from)
           c == ContentOf(z, from)
<1>s. \A v \in VA : /\ v \in S <=> va2pa_mmu(z, from, v) # NULL
                    /\ c[v] = z.data[va2pa_mmu(z, from, v)]
  BY DEF MappedAt, ContentOf
<1>p. S \in SUBSET VA /\ S \subseteq PagesOf(s) /\ Cardinality(z.free) >= Cost(S)
  BY DEF MappedAt
<1> HIDE DEF S, c
<1>0. z \in Memory /\ z.free # {} /\ NumPages \in Nat /\ S \in SUBSET VA
  <2>1. z \in Memory /\ S \in SUBSET VA
    BY <1>p DEF Shape
  <2>2. Cost(S) \in Nat /\ Cost(S) >= 1
    BY <2>1, CostIs
  <2> QED
    BY <1>p, <2>1, <2>2, FreeSize, Constants
<1>1. PICK q : RootMade(z, alloc_gpt(z), R, role, q, g)
  BY <1>0, NewRoot
<1> HIDE DEF g
<1>2. PICK D : /\ Rounds(NumPages, D, 1, alloc_gpt(z), from, g, PagesOf(s), NULL)
               /\ dup_vmm(alloc_gpt(z), from, g, s) = D[NumPages]
  BY DupRounds
<1> DEFINE K == { i \in 0 .. NumPages : \E r : Grown(z, D[i], R, role, r, g, Below(S, i), c) }
<1>3. 0 \in K
  <2>1. D[0] = alloc_gpt(z) /\ Below(S, 0) = {} /\ 0 \in 0 .. NumPages
    BY <1>0, <1>2, RoundsAt, BelowIs
  <2>2. Grown(z, alloc_gpt(z), R, role, q, g, {}, c)
    BY <1>0, <1>1, GrownStart
  <2> QED
    BY <2>1, <2>2
<1>4. ASSUME NEW i \in K, i < NumPages PROVE i + 1 \in K
  <2>1. i \in VA /\ i \in 0 .. NumPages /\ i + 1 \in 0 .. NumPages /\ i \in 0 .. NumPages - 1
    BY <1>0, <1>4 DEF VA
  <2>2. PICK r : Grown(z, D[i], R, role, r, g, Below(S, i), c)
    OBVIOUS
  <2>3. D[i + 1] = Body(1, D[i], i, from, g, PagesOf(s), NULL)
    BY <1>0, <1>2, <2>1, RoundsAt
  <2>f. va2pa_mmu(D[i], from, i) = va2pa_mmu(z, from, i)
    BY <2>1, <2>2 DEF Grown
  <2>4. \E p : Grown(z, D[i + 1], R, role, p, g, Below(S, i + 1), c)
    <3>1. CASE i \notin S
      <4>1. va2pa_mmu(D[i], from, i) = NULL
        BY <1>s, <2>1, <2>f, <3>1
      <4>2. D[i + 1] = D[i]
        BY <2>3, <4>1, BodyIs
      <4>3. Below(S, i + 1) = Below(S, i)
        BY <1>0, <2>1, <3>1, BelowIs
      <4> QED
        BY <2>2, <4>2, <4>3
    <3>2. CASE i \in S
      <4>1. /\ Below(S, i + 1) = Below(S, i) \cup {i} /\ i \notin Below(S, i)
            /\ Below(S, i) \in SUBSET VA /\ Below(S, i) \subseteq S
        BY <1>0, <2>1, <3>2, BelowIs
      <4>2. /\ va2pa_mmu(D[i], g, i) = NULL
            /\ Cardinality(D[i].free) >= 1 + NoMid(D[i], g, i) + NoPte(D[i], g, i)
            /\ Cost(Below(S, i) \cup {i}) = Cost(Below(S, i)) + 1 + NoMid(D[i], g, i)
                                              + NoPte(D[i], g, i)
        <5>1. z \in Memory /\ S \in SUBSET VA /\ Cardinality(z.free) >= Cost(S) /\ i \in S
          BY <1>0, <1>p, <3>2
        <5> DEFINE T == Below(S, i)
                   n == D[i]
        <5>2. T \in SUBSET VA /\ T \subseteq S /\ i \notin T /\ Grown(z, n, R, role, r, g, T, c)
          BY <2>2, <4>1
        <5> HIDE DEF T, n, K
        <5>3. /\ va2pa_mmu(n, g, i) = NULL
              /\ Cardinality(n.free) >= 1 + NoMid(n, g, i) + NoPte(n, g, i)
              /\ Cost(T \cup {i}) = Cost(T) + 1 + NoMid(n, g, i) + NoPte(n, g, i)
          BY <5>1, <5>2, GrownRoom
        <5> QED
          BY <5>3 DEF T, n
      <4> DEFINE f == va2pa_mmu(z, from, i)
      <4>0. f # NULL /\ i \in PagesOf(s) /\ f \in Frames /\ f \notin z.free
        BY <1>s, <1>p, <2>1, <3>2, Uses
      <4>d. D[i + 1] = CopyPage(D[i], g, i, f)
        BY <2>3, <2>f, <4>0, BodyIs
      <4>3. Shape(D[i], R \cup {g}, r) /\ g \in R \cup {g}
        BY <2>2 DEF Grown
      <4>4. D[i].data[f] = c[i]
        <5>1. D[i].data[f] = z.data[f]
          BY <2>2, <4>0 DEF Grown, Kept
        <5>2. c[i] = z.data[f]
          BY <1>s, <2>1
        <5> QED
          BY <5>1, <5>2
      <4> HIDE DEF f
      <4>5. PICK p : Grows(D[i], D[i + 1], R \cup {g}, r, p, g, i, c[i])
        BY <2>1, <4>0, <4>d, <4>2, <4>3, <4>4, CopyGrows
      <4>6. g \notin R
        BY <1>1 DEF RootMade
      <4>7. Grown(z, D[i + 1], R, role, p, g, Below(S, i) \cup {i}, c)
        BY <1>0, <2>1, <2>2, <4>1, <4>2, <4>5, <4>6, GrownStep
      <4> QED
        BY <4>1, <4>7
    <3> QED
      BY <3>1, <3>2
  <2> QED
    BY <2>1, <2>4
<1>5. NumPages \in K
  <2>1. K \in SUBSET (0 .. NumPages)
    OBVIOUS
  <2> HIDE DEF K
  <2> QED
    BY <1>0, <1>3, <1>4, <2>1, Upward
<1>6. PICK r : Grown(z, D[NumPages], R, role, r, g, Below(S, NumPages), c)
  BY <1>5
<1>7. Below(S, NumPages) = S
  BY <1>0, BelowIs
<1>8. g \in z.free /\ g \notin R
  BY <1>1 DEF RootMade
<1> QED
  BY <1>2, <1>6, <1>7, <1>8 DEF g, S, c

-----------------------------------------------------------------------------
(* An address space is removed.                                            *)

\* From n to b nothing was taken and nothing written.
Released(n, b) == n.free \subseteq b.free /\ b.data = n.data /\ b.twice = n.twice

LEMMA FreePageIs ==
  ASSUME NEW n \in Memory, NEW f \in Frames, f \notin n.free
  PROVE  /\ free_page(n, f) \in Memory /\ free_page(n, f).free = n.free \cup {f}
         /\ free_page(n, f).ref = [n.ref EXCEPT ![f] = 0] /\ free_page(n, f).tab = n.tab
         /\ Released(n, free_page(n, f))
<1> DEFINE b == free_page(n, f)
<1>1. /\ b.free = n.free \cup {f} /\ b.ref = [n.ref EXCEPT ![f] = 0] /\ b.tab = n.tab
      /\ b.data = n.data /\ b.twice = n.twice
  BY DEF free_page, Memory
<1>2. b \in Memory
  <2> DEFINE y == n.twice \/ f \in n.free
  <2>1. /\ [n.ref EXCEPT ![f] = 0] \in [Frames -> Nat] /\ n.free \cup {f} \in SUBSET Frames
        /\ y \in BOOLEAN
    BY DEF Memory
  <2>2. b = [n EXCEPT !.free = n.free \cup {f}, !.ref = [n.ref EXCEPT ![f] = 0], !.twice = y]
    BY DEF free_page
  <2> HIDE DEF y
  <2> HIDE DEF b
  <2> QED
    BY <2>1, <2>2 DEF Memory
<1> HIDE DEF b
<1>3. Released(n, b)
  BY <1>1 DEF Released
<1> QED
  BY <1>1, <1>2, <1>3 DEF b

Deleted(n, b, R, role, g, v) ==
  /\ Shape(b, R, role) /\ Released(n, b)
  /\ va2pa_mmu(n, g, v) # NULL => va2pa_mmu(n, g, v) \in b.free
  /\ \A h \in R, w \in VA :
       /\ Mid(b, h, w) = Mid(n, h, w) /\ get_pte(b, h, w) = get_pte(n, h, w)
       /\ va2pa_mmu(b, h, w) = IF h = g /\ w = v THEN NULL ELSE va2pa_mmu(n, h, w)

LEMMA DelPage ==
  ASSUME NEW n, NEW R, NEW role, Shape(n, R, role), NEW g \in R, NEW v \in VA
  PROVE  Deleted(n, del_page(n, g, v), R, role, g, v)
<1> DEFINE f == va2pa_mmu(n, g, v)
           t == get_pte(n, g, v)
           d == [n EXCEPT !.ref[f] = @ - 1, !.tab[t][get_ptx(v)] = NULL]
           b == free_page(d, f)
<1>0. n \in Memory
  BY DEF Shape
<1>1. CASE f = NULL
  <2>1. del_page(n, g, v) = n
    BY <1>1 DEF del_page
  <2> QED
    BY <1>1, <2>1 DEF Deleted, Released
<1>2. CASE f # NULL
  <2>1. /\ f \in Frames /\ f \notin n.free /\ role[f] = <<g, 3, v>> /\ n.ref[f] = 1
        /\ t \in Frames /\ t # NULL
    BY <1>2, Uses
  <2>2. del_page(n, g, v) = b
    BY <1>2, <2>1 DEF del_page, Drops
  <2>3. get_ptx(v) \in Index
    BY Addresses
  <2>e. t = get_pte(n, g, v) /\ f = va2pa_mmu(n, g, v)
    OBVIOUS
  <2> HIDE DEF f, t
  <2>4. /\ d.tab = [n.tab EXCEPT ![t][get_ptx(v)] = NULL] /\ d.ref = [n.ref EXCEPT ![f] = 0]
        /\ d.free = n.free /\ d.data = n.data /\ d.twice = n.twice
    BY <1>0, <2>1 DEF Memory
  <2>5. d \in Memory
    <3>1. /\ [n.tab EXCEPT ![t][get_ptx(v)] = NULL] \in [Frames -> [Index -> Frames \cup {NULL}]]
          /\ [n.ref EXCEPT ![f] = @ - 1] \in [Frames -> Nat]
      BY <1>0, <2>1, <2>3 DEF Memory
    <3> QED
      BY <1>0, <3>1 DEF Memory
  <2> HIDE DEF d
  <2>6. /\ b \in Memory /\ b.free = n.free \cup {f} /\ b.ref = [d.ref EXCEPT ![f] = 0]
        /\ b.tab = d.tab /\ Released(d, b)
    BY <2>1, <2>4, <2>5, FreePageIs
  <2> HIDE DEF b
  <2>7. Released(n, b)
    BY <2>4, <2>6 DEF Released
  <2>8. b.ref[f] = 0 /\ \A u \in Frames : u # f => b.ref[u] = n.ref[u]
    BY <1>0, <2>1, <2>4, <2>6 DEF Memory
  <2>9. \A u \in Frames, k \in Index :
          b.tab[u][k] = IF u = get_pte(n, g, v) /\ k = get_ptx(v) THEN NULL ELSE n.tab[u][k]
    BY <1>0, <2>1, <2>3, <2>4, <2>6, <2>e DEF Memory
  <2>10. \A h \in R, w \in VA :
           /\ Mid(b, h, w) = Mid(n, h, w) /\ get_pte(b, h, w) = get_pte(n, h, w)
           /\ va2pa_mmu(b, h, w) = IF h = g /\ w = v THEN NULL ELSE va2pa_mmu(n, h, w)
    <3>1. get_pte(n, g, v) # NULL /\ NULL \in Frames \cup {NULL}
      BY <2>1, <2>e
    <3> QED
      BY <2>9, <3>1, PageSet
  <2>11. Shape(b, R, role)
    <3>1. R \subseteq Frames /\ \A h \in R : h \notin b.free /\ role[h] = <<h, 0, 0>>
      <4>1. \A h \in R : h \in Frames /\ role[h] = <<h, 0, 0>> /\ h \notin n.free
        BY DEF Shape
      <4>2. \A h \in R : h # f
        BY <2>1, <4>1
      <4> QED
        BY <2>6, <4>1, <4>2
    <3>2. \A u \in b.free : b.ref[u] = 0
      BY <1>0, <2>6, <2>8 DEF Shape, Memory
    <3>3. ASSUME NEW h \in R, NEW w \in VA
          PROVE  /\ Has(b, role, Mid(b, h, w), h, 1, get_gptx(w))
                 /\ Has(b, role, get_pte(b, h, w), h, 2, Leaf(w))
                 /\ Has(b, role, va2pa_mmu(b, h, w), h, 3, w)
                 /\ va2pa_mmu(b, h, w) # NULL => b.ref[va2pa_mmu(b, h, w)] = 1
      BY <2>1, <2>6, <2>8, <2>10, Uses DEF Has
    <3> QED
      BY <2>6, <3>1, <3>2, <3>3 DEF Shape
  <2> QED
    BY <2>2, <2>6, <2>7, <2>10, <2>11, <2>e DEF Deleted
<1> QED
  BY <1>1, <1>2

TableFreed(n, b, R, role, g, v) ==
  /\ Shape(b, R, role) /\ Released(n, b)
  /\ Mid(n, g, v) # NULL => Mid(n, g, v) \in b.free
  /\ \A w \in VA : Mid(b, g, w) = IF get_gptx(w) = get_gptx(v) THEN NULL ELSE Mid(n, g, w)
  /\ \A h \in R, w \in VA : h # g =>
       /\ Mid(b, h, w) = Mid(n, h, w) /\ get_pte(b, h, w) = get_pte(n, h, w)
       /\ va2pa_mmu(b, h, w) = va2pa_mmu(n, h, w)

LEMMA FreesTable ==
  ASSUME NEW n, NEW R, NEW role, Shape(n, R, role), NEW g \in R, NEW v \in VA
  PROVE  TableFreed(n, FreeTable(n, g, v), R, role, g, v)
<1> DEFINE t == Mid(n, g, v)
           d == [n EXCEPT !.tab[g][get_gptx(v)] = NULL]
           b == free_page(d, t)
<1>0. n \in Memory
  BY DEF Shape
<1>1. CASE t = NULL
  <2>1. FreeTable(n, g, v) = n
    BY <1>1 DEF FreeTable, Mid
  <2>2. \A w \in VA : get_gptx(w) = get_gptx(v) => Mid(n, g, w) = NULL
    BY <1>1 DEF Mid
  <2> QED
    BY <1>1, <2>1, <2>2 DEF TableFreed, Released
<1>2. CASE t # NULL
  <2>1. t \in Frames /\ t \notin n.free /\ role[t] = <<g, 1, get_gptx(v)>> /\ g \in Frames
    BY <1>2, Uses
  <2>2. FreeTable(n, g, v) = b
    BY <1>2 DEF FreeTable, Mid
  <2>3. get_gptx(v) \in Index
    BY Addresses
  <2>e. t = Mid(n, g, v)
    OBVIOUS
  <2> HIDE DEF t
  <2>4. /\ d.tab = [n.tab EXCEPT ![g][get_gptx(v)] = NULL] /\ d.ref = n.ref
        /\ d.free = n.free /\ d.data = n.data /\ d.twice = n.twice
    BY <1>0 DEF Memory
  <2>5. d \in Memory
    <3>1. [n.tab EXCEPT ![g][get_gptx(v)] = NULL] \in [Frames -> [Index -> Frames \cup {NULL}]]
      BY <1>0, <2>1, <2>3 DEF Memory
    <3> QED
      BY <1>0, <3>1 DEF Memory
  <2> HIDE DEF d
  <2>6. /\ b \in Memory /\ b.free = n.free \cup {t} /\ b.ref = [d.ref EXCEPT ![t] = 0]
        /\ b.tab = d.tab /\ Released(d, b)
    BY <2>1, <2>4, <2>5, FreePageIs
  <2> HIDE DEF b
  <2>7. Released(n, b)
    BY <2>4, <2>6 DEF Released
  <2>8. b.ref[t] = 0 /\ \A u \in Frames : u # t => b.ref[u] = n.ref[u]
    BY <1>0, <2>1, <2>4, <2>6 DEF Memory
  <2>9. \A u \in Frames, k \in Index :
          b.tab[u][k] = IF u = g /\ k = get_gptx(v) THEN NULL ELSE n.tab[u][k]
    BY <1>0, <2>1, <2>3, <2>4, <2>6 DEF Memory
  <2>10. \A h \in R, w \in VA :
           /\ h = g /\ get_gptx(w) = get_gptx(v) =>
                Mid(b, h, w) = NULL /\ get_pte(b, h, w) = NULL /\ va2pa_mmu(b, h, w) = NULL
           /\ ~(h = g /\ get_gptx(w) = get_gptx(v)) =>
                /\ Mid(b, h, w) = Mid(n, h, w) /\ get_pte(b, h, w) = get_pte(n, h, w)
                /\ va2pa_mmu(b, h, w) = va2pa_mmu(n, h, w)
    BY <2>9, MidCleared
  <2>11. Shape(b, R, role)
    <3>1. R \subseteq Frames /\ \A h \in R : h \notin b.free /\ role[h] = <<h, 0, 0>>
      <4>1. \A h \in R : h \in Frames /\ role[h] = <<h, 0, 0>> /\ h \notin n.free
        BY DEF Shape
      <4>2. \A h \in R : h # t
        BY <2>1, <4>1
      <4> QED
        BY <2>6, <4>1, <4>2
    <3>2. \A u \in b.free : b.ref[u] = 0
      BY <1>0, <2>6, <2>8 DEF Shape, Memory
    <3>3. ASSUME NEW h \in R, NEW w \in VA
          PROVE  /\ Has(b, role, Mid(b, h, w), h, 1, get_gptx(w))
                 /\ Has(b, role, get_pte(b, h, w), h, 2, Leaf(w))
                 /\ Has(b, role, va2pa_mmu(b, h, w), h, 3, w)
                 /\ va2pa_mmu(b, h, w) # NULL => b.ref[va2pa_mmu(b, h, w)] = 1
      <4>1. CASE h = g /\ get_gptx(w) = get_gptx(v)
        BY <2>10, <4>1 DEF Has
      <4>2. CASE ~(h = g /\ get_gptx(w) = get_gptx(v))
        <5>1. /\ Mid(b, h, w) = Mid(n, h, w) /\ get_pte(b, h, w) = get_pte(n, h, w)
              /\ va2pa_mmu(b, h, w) = va2pa_mmu(n, h, w)
          BY <2>10, <4>2
        <5> QED
          BY <2>1, <2>6, <2>8, <4>2, <5>1, Uses DEF Has
      <4> QED
        BY <4>1, <4>2
    <3> QED
      BY <2>6, <3>1, <3>2, <3>3 DEF Shape
  <2> QED
    BY <2>2, <2>6, <2>7, <2>10, <2>11, <2>e DEF TableFreed
<1> QED
  BY <1>1, <1>2

LEMMA ReleasedTrans == ASSUME NEW n, NEW a, NEW b, Released(n, a), Released(a, b)
                       PROVE  Released(n, b)
BY DEF Released

\* From z to n the pages S of the root g were removed.
Emptied(z, n, R, role, g, S) ==
  /\ Shape(n, R, role) /\ Released(z, n)
  /\ \A w \in S : va2pa_mmu(z, g, w) # NULL => va2pa_mmu(z, g, w) \in n.free
  /\ \A h \in R, w \in VA :
       /\ Mid(n, h, w) = Mid(z, h, w) /\ get_pte(n, h, w) = get_pte(z, h, w)
       /\ va2pa_mmu(n, h, w) = IF h = g /\ w \in S THEN NULL ELSE va2pa_mmu(z, h, w)

LEMMA DelRanges ==
  ASSUME NEW z, NEW R, NEW role, Shape(z, R, role), NEW g \in R, NEW s
  PROVE  Emptied(z, del_ranges(z, g, s), R, role, g, PagesOf(s))
<1> DEFINE S == PagesOf(s)
<1>0. NumPages \in Nat /\ S \in SUBSET VA
  BY Constants DEF PagesOf
<1>1. PICK D : /\ Rounds(NumPages, D, 2, z, g, NULL, S, NULL)
               /\ del_ranges(z, g, s) = D[NumPages]
  BY DelRounds
<1> HIDE DEF S
<1> DEFINE K == { i \in 0 .. NumPages : Emptied(z, D[i], R, role, g, Below(S, i)) }
<1>2. 0 \in K
  <2>1. D[0] = z /\ Below(S, 0) = {} /\ 0 \in 0 .. NumPages
    BY <1>0, <1>1, RoundsAt, BelowIs
  <2>2. Emptied(z, z, R, role, g, {})
    BY DEF Emptied, Released
  <2> QED
    BY <2>1, <2>2
<1>3. ASSUME NEW i \in K, i < NumPages PROVE i + 1 \in K
  <2>1. i \in VA /\ i \in 0 .. NumPages /\ i + 1 \in 0 .. NumPages /\ i \in 0 .. NumPages - 1
    BY <1>0, <1>3 DEF VA
  <2>2. Emptied(z, D[i], R, role, g, Below(S, i))
    OBVIOUS
  <2> HIDE DEF K
  <2>3. D[i + 1] = Body(2, D[i], i, g, NULL, S, NULL)
    BY <1>0, <1>1, <2>1, RoundsAt
  <2>4. Emptied(z, D[i + 1], R, role, g, Below(S, i + 1))
    <3>1. CASE i \notin S
      <4>1. D[i + 1] = D[i]
        BY <2>3, <3>1, BodyIs
      <4>2. Below(S, i + 1) = Below(S, i)
        BY <1>0, <2>1, <3>1, BelowIs
      <4> QED
        BY <2>2, <4>1, <4>2
    <3>2. CASE i \in S
      <4> DEFINE n == D[i]
                 b == D[i + 1]
                 B == Below(S, i)
      <4>1. b = del_page(n, g, i)
        BY <2>3, <3>2, BodyIs
      <4>2. Below(S, i + 1) = B \cup {i} /\ i \notin B
        BY <1>0, <2>1, <3>2, BelowIs
      <4>n. Emptied(z, n, R, role, g, B)
        BY <2>2
      <4>3. Deleted(n, b, R, role, g, i)
        BY <2>1, <4>1, <4>n, DelPage DEF Emptied
      <4> HIDE DEF n, b, B
      <4>4. va2pa_mmu(n, g, i) = va2pa_mmu(z, g, i)
        BY <2>1, <4>2, <4>n DEF Emptied
      <4>5. Shape(b, R, role) /\ Released(z, b) /\ n.free \subseteq b.free
        BY <4>n, <4>3, ReleasedTrans DEF Emptied, Deleted, Released
      <4>6. \A w \in B \cup {i} : va2pa_mmu(z, g, w) # NULL => va2pa_mmu(z, g, w) \in b.free
        BY <4>n, <4>3, <4>4, <4>5 DEF Emptied, Deleted
      <4>7. \A h \in R, w \in VA :
              /\ Mid(b, h, w) = Mid(z, h, w) /\ get_pte(b, h, w) = get_pte(z, h, w)
              /\ va2pa_mmu(b, h, w) = IF h = g /\ w \in B \cup {i} THEN NULL
                                      ELSE va2pa_mmu(z, h, w)
        BY <4>n, <4>3 DEF Emptied, Deleted
      <4>8. Emptied(z, b, R, role, g, B \cup {i})
        BY <4>5, <4>6, <4>7 DEF Emptied
      <4> QED
        BY <4>2, <4>8 DEF b, B
    <3> QED
      BY <3>1, <3>2
  <2> QED
    BY <2>1, <2>4 DEF K
<1>4. NumPages \in K
  <2>1. K \in SUBSET (0 .. NumPages)
    OBVIOUS
  <2> HIDE DEF K
  <2> QED
    BY <1>0, <1>2, <1>3, <2>1, Upward
<1>5. Emptied(z, D[NumPages], R, role, g, Below(S, NumPages)) /\ Below(S, NumPages) = S
  BY <1>0, <1>4, BelowIs
<1> QED
  BY <1>1, <1>5 DEF S

\* From z to n the tables below the root g, for the pages S, were removed.
Cleared(z, n, R, role, g, S) ==
  /\ Shape(n, R, role) /\ Released(z, n)
  /\ \A u \in S : Mid(z, g, u) # NULL => Mid(z, g, u) \in n.free
  /\ \A w \in VA : Mid(n, g, w) = IF \E u \in S : get_gptx(u) = get_gptx(w) THEN NULL
                                  ELSE Mid(z, g, w)
  /\ \A h \in R, w \in VA : h # g =>
       /\ Mid(n, h, w) = Mid(z, h, w) /\ get_pte(n, h, w) = get_pte(z, h, w)
       /\ va2pa_mmu(n, h, w) = va2pa_mmu(z, h, w)

LEMMA FreeRanges ==
  ASSUME NEW z, NEW R, NEW role, Shape(z, R, role), NEW g \in R, NEW s
  PROVE  Cleared(z, free_ranges(z, g, s), R, role, g, PagesOf(s))
<1> DEFINE S == PagesOf(s)
<1>0. NumPages \in Nat /\ S \in SUBSET VA
  BY Constants DEF PagesOf
<1>1. PICK D : /\ Rounds(NumPages, D, 3, z, g, NULL, S, NULL)
               /\ free_ranges(z, g, s) = D[NumPages]
  BY FreeRounds
<1> HIDE DEF S
<1> DEFINE K == { i \in 0 .. NumPages : Cleared(z, D[i], R, role, g, Below(S, i)) }
<1>2. 0 \in K
  <2>1. D[0] = z /\ Below(S, 0) = {} /\ 0 \in 0 .. NumPages
    BY <1>0, <1>1, RoundsAt, BelowIs
  <2>2. Cleared(z, z, R, role, g, {})
    BY DEF Cleared, Released
  <2> QED
    BY <2>1, <2>2
<1>3. ASSUME NEW i \in K, i < NumPages PROVE i + 1 \in K
  <2>1. i \in VA /\ i \in 0 .. NumPages /\ i + 1 \in 0 .. NumPages /\ i \in 0 .. NumPages - 1
    BY <1>0, <1>3 DEF VA
  <2>2. Cleared(z, D[i], R, role, g, Below(S, i))
    OBVIOUS
  <2> HIDE DEF K
  <2>3. D[i + 1] = Body(3, D[i], i, g, NULL, S, NULL)
    BY <1>0, <1>1, <2>1, RoundsAt
  <2>4. Cleared(z, D[i + 1], R, role, g, Below(S, i + 1))
    <3>1. CASE i \notin S
      <4>1. D[i + 1] = D[i]
        BY <2>3, <3>1, BodyIs
      <4>2. Below(S, i + 1) = Below(S, i)
        BY <1>0, <2>1, <3>1, BelowIs
      <4> QED
        BY <2>2, <4>1, <4>2
    <3>2. CASE i \in S
      <4> DEFINE n == D[i]
                 b == D[i + 1]
                 B == Below(S, i)
      <4>1. b = FreeTable(n, g, i)
        BY <2>3, <3>2, BodyIs
      <4>2. Below(S, i + 1) = B \cup {i} /\ i \notin B /\ B \in SUBSET VA
        BY <1>0, <2>1, <3>2, BelowIs
      <4>n. Cleared(z, n, R, role, g, B)
        BY <2>2
      <4>3. TableFreed(n, b, R, role, g, i)
        BY <2>1, <4>1, <4>n, FreesTable DEF Cleared
      <4> HIDE DEF n, b, B
      <4>5. Shape(b, R, role) /\ Released(z, b) /\ n.free \subseteq b.free
        BY <4>n, <4>3, ReleasedTrans DEF Cleared, TableFreed, Released
      <4>6. ASSUME NEW u \in B \cup {i}, Mid(z, g, u) # NULL PROVE Mid(z, g, u) \in b.free
        <5>1. CASE u \in B
          BY <4>n, <4>5, <4>6, <5>1 DEF Cleared
        <5>2. CASE u = i /\ \E o \in B : get_gptx(o) = get_gptx(i)
          <6>1. PICK o \in B : get_gptx(o) = get_gptx(i)
            BY <5>2
          <6>2. Mid(z, g, o) = Mid(z, g, u)
            BY <5>2, <6>1 DEF Mid
          <6> QED
            BY <4>n, <4>5, <4>6, <6>2 DEF Cleared
        <5>3. CASE u = i /\ ~ \E o \in B : get_gptx(o) = get_gptx(i)
          <6>1. Mid(n, g, i) = Mid(z, g, i)
            BY <2>1, <4>n, <5>3 DEF Cleared
          <6> QED
            BY <4>3, <4>6, <5>3, <6>1 DEF TableFreed
        <5> QED
          BY <5>1, <5>2, <5>3
      <4>7. \A w \in VA : Mid(b, g, w) = IF \E u \in B \cup {i} : get_gptx(u) = get_gptx(w)
                                         THEN NULL ELSE Mid(z, g, w)
        BY <4>n, <4>3 DEF Cleared, TableFreed
      <4>8. \A h \in R, w \in VA : h # g =>
              /\ Mid(b, h, w) = Mid(z, h, w) /\ get_pte(b, h, w) = get_pte(z, h, w)
              /\ va2pa_mmu(b, h, w) = va2pa_mmu(z, h, w)
        BY <4>n, <4>3 DEF Cleared, TableFreed
      <4>9. Cleared(z, b, R, role, g, B \cup {i})
        BY <4>5, <4>6, <4>7, <4>8 DEF Cleared
      <4> QED
        BY <4>2, <4>9 DEF b, B
    <3> QED
      BY <3>1, <3>2
  <2> QED
    BY <2>1, <2>4 DEF K
<1>4. NumPages \in K
  <2>1. K \in SUBSET (0 .. NumPages)
    OBVIOUS
  <2> HIDE DEF K
  <2> QED
    BY <1>0, <1>2, <1>3, <2>1, Upward
<1>5. Cleared(z, D[NumPages], R, role, g, Below(S, NumPages)) /\ Below(S, NumPages) = S
  BY <1>0, <1>4, BelowIs
<1> QED
  BY <1>1, <1>5 DEF S

\* From z to n the address space of the root g was removed.
Gone(z, n, R, role, g, S) ==
  /\ Shape(n, R \ {g}, role) /\ Released(z, n) /\ g \in n.free
  /\ \A w \in S : /\ va2pa_mmu(z, g, w) # NULL => va2pa_mmu(z, g, w) \in n.free
                  /\ Mid(z, g, w) # NULL => Mid(z, g, w) \in n.free
  /\ \A h \in R, w \in VA : h # g =>
       /\ Mid(n, h, w) = Mid(z, h, w) /\ get_pte(n, h, w) = get_pte(z, h, w)
       /\ va2pa_mmu(n, h, w) = va2pa_mmu(z, h, w)

LEMMA DelVmas ==
  ASSUME NEW z, NEW R, NEW role, Shape(z, R, role), NEW g \in R, NEW s
  PROVE  Gone(z, free_page(del_vmas(z, g, s), g), R, role, g, PagesOf(s))
<1> DEFINE S == PagesOf(s)
           a == del_ranges(z, g, s)
           b == free_ranges(a, g, s)
           n == free_page(b, g)
<1>0. S \in SUBSET VA
  BY DEF PagesOf
<1>1. Emptied(z, a, R, role, g, S)
  BY DelRanges
<1>2. Cleared(a, b, R, role, g, S)
  BY <1>1, FreeRanges DEF Emptied
<1>3. n = free_page(del_vmas(z, g, s), g)
  BY DEF del_vmas
<1> HIDE DEF S, a, b
<1>4. b \in Memory /\ g \in Frames /\ g \notin b.free /\ role[g] = <<g, 0, 0>> /\ Shape(b, R, role)
  BY <1>2 DEF Cleared, Shape
<1>5. /\ n \in Memory /\ n.free = b.free \cup {g} /\ n.ref = [b.ref EXCEPT ![g] = 0]
      /\ n.tab = b.tab /\ Released(b, n)
  BY <1>4, FreePageIs
<1> HIDE DEF n
<1>6. Released(z, n) /\ a.free \subseteq b.free /\ b.free \subseteq n.free
  BY <1>1, <1>2, <1>5, ReleasedTrans DEF Emptied, Cleared, Released
<1>7. \A h, w : /\ Mid(n, h, w) = Mid(b, h, w) /\ get_pte(n, h, w) = get_pte(b, h, w)
                /\ va2pa_mmu(n, h, w) = va2pa_mmu(b, h, w)
  BY <1>5, SameTab
<1>8. n.ref[g] = 0 /\ \A u \in Frames : u # g => n.ref[u] = b.ref[u]
  BY <1>4, <1>5 DEF Memory
<1>9. Shape(n, R \ {g}, role)
  <2>1. R \ {g} \subseteq Frames /\ \A h \in R \ {g} : h \notin n.free /\ role[h] = <<h, 0, 0>>
    BY <1>4, <1>5 DEF Shape
  <2>2. \A u \in n.free : n.ref[u] = 0
    BY <1>4, <1>5, <1>8 DEF Shape, Memory
  <2>3. ASSUME NEW h \in R \ {g}, NEW w \in VA
        PROVE  /\ Has(n, role, Mid(n, h, w), h, 1, get_gptx(w))
               /\ Has(n, role, get_pte(n, h, w), h, 2, Leaf(w))
               /\ Has(n, role, va2pa_mmu(n, h, w), h, 3, w)
               /\ va2pa_mmu(n, h, w) # NULL => n.ref[va2pa_mmu(n, h, w)] = 1
    BY <1>4, <1>5, <1>7, <1>8, Uses DEF Has
  <2> QED
    BY <1>5, <2>1, <2>2, <2>3 DEF Shape
<1>10. \A w \in S : /\ va2pa_mmu(z, g, w) # NULL => va2pa_mmu(z, g, w) \in n.free
                    /\ Mid(z, g, w) # NULL => Mid(z, g, w) \in n.free
  <2>1. \A w \in S : va2pa_mmu(z, g, w) # NULL => va2pa_mmu(z, g, w) \in n.free
    BY <1>1, <1>6 DEF Emptied
  <2>2. \A w \in S : Mid(a, g, w) = Mid(z, g, w)
    BY <1>0, <1>1 DEF Emptied
  <2>3. \A w \in S : Mid(z, g, w) # NULL => Mid(z, g, w) \in n.free
    BY <1>2, <1>6, <2>2 DEF Cleared
  <2> QED
    BY <2>1, <2>3
<1>11. \A h \in R, w \in VA : h # g =>
         /\ Mid(n, h, w) = Mid(z, h, w) /\ get_pte(n, h, w) = get_pte(z, h, w)
         /\ va2pa_mmu(n, h, w) = va2pa_mmu(z, h, w)
  BY <1>1, <1>2, <1>7 DEF Emptied, Cleared
<1>12. g \in n.free
  BY <1>5
<1> QED
  BY <1>3, <1>6, <1>9, <1>10, <1>11, <1>12 DEF Gone, S

-----------------------------------------------------------------------------
(* The address spaces of all processes.                                    *)

Roots(G) == { G[p] : p \in Procs } \ {NULL}

\* Every table under the root g is there for some page; the pages are in the
\* areas s, and there are some.
Sound(n, g, s) ==
  /\ \A v \in VA :
       /\ Mid(n, g, v) # NULL =>
            \E w \in VA : get_gptx(w) = get_gptx(v) /\ va2pa_mmu(n, g, w) # NULL
       /\ get_pte(n, g, v) # NULL => \E w \in VA : Leaf(w) = Leaf(v) /\ va2pa_mmu(n, g, w) # NULL
  /\ MappedAt(n, g) \subseteq PagesOf(s) /\ MappedAt(n, g) # {}

\* The inductive invariant, for the memory n, the roots G and the areas A.
Proper(n, G, A, role) ==
  /\ G \in [Procs -> Frames \cup {NULL}]
  /\ A = [p \in Procs |-> A[p]]
  /\ Shape(n, Roots(G), role) /\ ~n.twice
  /\ \A p, q \in Procs : p # q /\ G[p] # NULL => G[p] # G[q]
  /\ \A p \in Procs : A[p] = <<>> <=> G[p] = NULL
  /\ \A p \in Procs : G[p] # NULL => Sound(n, G[p], A[p])

\* The walks from the root g are the same.
SameWalks(n, b, g) == \A w \in VA : /\ Mid(b, g, w) = Mid(n, g, w)
                                    /\ get_pte(b, g, w) = get_pte(n, g, w)
                                    /\ va2pa_mmu(b, g, w) = va2pa_mmu(n, g, w)

LEMMA SoundSame == ASSUME NEW n, NEW b, NEW g, NEW s, Sound(n, g, s), SameWalks(n, b, g)
                   PROVE  Sound(b, g, s)
BY DEF Sound, SameWalks, MappedAt

Removal(n, G, A, p) == IF G[p] = NULL THEN n ELSE free_page(del_vmas(n, G[p], A[p]), G[p])

\* The address space of p is removed.
Removed(n, a, G, p) ==
  /\ Released(n, a)
  /\ \A q \in Procs : q # p /\ G[q] # NULL => SameWalks(n, a, G[q])
  /\ G[p] # NULL =>
       /\ G[p] \in a.free
       /\ \A w \in VA : /\ va2pa_mmu(n, G[p], w) # NULL => va2pa_mmu(n, G[p], w) \in a.free
                        /\ Mid(n, G[p], w) # NULL => Mid(n, G[p], w) \in a.free

LEMMA Removing ==
  ASSUME NEW n, NEW G, NEW A, NEW role, Proper(n, G, A, role), NEW p \in Procs
  PROVE  /\ Proper(Removal(n, G, A, p), [G EXCEPT ![p] = NULL], [A EXCEPT ![p] = <<>>], role)
         /\ Removed(n, Removal(n, G, A, p), G, p)
<1> DEFINE a == Removal(n, G, A, p)
           H == [G EXCEPT ![p] = NULL]
           B == [A EXCEPT ![p] = <<>>]
           g == G[p]
<1>0. /\ G \in [Procs -> Frames \cup {NULL}] /\ A = [q \in Procs |-> A[q]]
      /\ Shape(n, Roots(G), role) /\ ~n.twice
  BY DEF Proper
<1>1. /\ H \in [Procs -> Frames \cup {NULL}] /\ B = [q \in Procs |-> B[q]]
      /\ H[p] = NULL /\ B[p] = <<>> /\ \A q \in Procs : q # p => H[q] = G[q] /\ B[q] = A[q]
  BY <1>0
<1>2. Roots(H) = Roots(G) \ {g}
  <2>1. \A q \in Procs : q # p /\ G[q] # NULL => G[q] # g
    BY DEF Proper
  <2> HIDE DEF H
  <2> QED
    BY <1>1, <2>1 DEF Roots
<1>3. CASE g = NULL
  <2>1. a = n
    BY <1>3 DEF Removal
  <2>2. Roots(H) = Roots(G)
    BY <1>2, <1>3 DEF Roots
  <2> HIDE DEF H, B, a
  <2>3. Removed(n, a, G, p)
    BY <1>3, <2>1 DEF Removed, Released, SameWalks
  <2>4. Proper(a, H, B, role)
    BY <1>1, <1>3, <2>1, <2>2 DEF Proper
  <2> QED
    BY <2>3, <2>4 DEF H, B, a
<1>4. CASE g # NULL
  <2>1. g \in Roots(G)
    BY <1>4 DEF Roots
  <2>2. Gone(n, a, Roots(G), role, g, PagesOf(A[p]))
    <3>1. a = free_page(del_vmas(n, g, A[p]), g)
      BY <1>4 DEF Removal
    <3> HIDE DEF a, g
    <3> QED
      BY <1>0, <2>1, <3>1, DelVmas
  <2>3. Sound(n, g, A[p])
    BY <1>4 DEF Proper
  <2>e. g = G[p]
    OBVIOUS
  <2> HIDE DEF H, B, a, g
  <2>4. \A q \in Procs : q # p /\ G[q] # NULL => SameWalks(n, a, G[q])
    <3>1. \A q \in Procs : q # p /\ G[q] # NULL => G[q] # g /\ G[q] \in Roots(G)
      BY <2>e DEF Proper, Roots
    <3> QED
      BY <2>2, <3>1 DEF Gone, SameWalks
  <2>5. ASSUME NEW w \in VA
        PROVE  /\ va2pa_mmu(n, g, w) # NULL => va2pa_mmu(n, g, w) \in a.free
               /\ Mid(n, g, w) # NULL => Mid(n, g, w) \in a.free
    <3>1. \A u \in VA : va2pa_mmu(n, g, u) # NULL => u \in PagesOf(A[p])
      BY <2>3 DEF Sound, MappedAt
    <3>2. va2pa_mmu(n, g, w) # NULL => va2pa_mmu(n, g, w) \in a.free
      BY <2>2, <3>1 DEF Gone
    <3>3. ASSUME Mid(n, g, w) # NULL PROVE Mid(n, g, w) \in a.free
      <4>1. PICK u \in VA : get_gptx(u) = get_gptx(w) /\ va2pa_mmu(n, g, u) # NULL
        BY <2>3, <3>3 DEF Sound
      <4>2. Mid(n, g, u) = Mid(n, g, w) /\ u \in PagesOf(A[p])
        BY <3>1, <4>1 DEF Mid
      <4> QED
        BY <2>2, <3>3, <4>2 DEF Gone
    <3> QED
      BY <3>2, <3>3
  <2>6. Removed(n, a, G, p)
    BY <2>2, <2>4, <2>5, <2>e DEF Removed, Gone
  <2>7. Shape(a, Roots(H), role) /\ ~a.twice
    BY <1>0, <1>2, <2>2, <2>e DEF Gone, Released
  <2>8. \A q \in Procs : H[q] # NULL => Sound(a, H[q], B[q])
    <3>1. ASSUME NEW q \in Procs, H[q] # NULL PROVE Sound(a, H[q], B[q])
      <4>1. q # p /\ H[q] = G[q] /\ B[q] = A[q]
        BY <1>1, <3>1
      <4>2. Sound(n, G[q], A[q]) /\ SameWalks(n, a, G[q])
        BY <2>4, <3>1, <4>1 DEF Proper
      <4> QED
        BY <4>1, <4>2, SoundSame
    <3> QED
      BY <3>1
  <2>9. \A q, o \in Procs : q # o /\ H[q] # NULL => H[q] # H[o]
    BY <1>1 DEF Proper
  <2>10. \A q \in Procs : B[q] = <<>> <=> H[q] = NULL
    BY <1>1 DEF Proper
  <2>11. Proper(a, H, B, role)
    BY <1>1, <2>7, <2>8, <2>9, <2>10 DEF Proper
  <2> QED
    BY <2>6, <2>11 DEF H, B, a
<1> QED
  BY <1>3, <1>4

\* The process p gets an address space of its own.
LEMMA Adding ==
  ASSUME NEW n, NEW G, NEW A, NEW role, Proper(n, G, A, role), NEW p \in Procs, G[p] = NULL,
         NEW b, NEW r, NEW g, NEW S \in SUBSET VA, NEW c, NEW s, g \in n.free,
         Grown(n, b, Roots(G), role, r, g, S, c), S # {}, S \subseteq PagesOf(s)
  PROVE  /\ Proper(b, [G EXCEPT ![p] = g], [A EXCEPT ![p] = s], r)
         /\ \A q \in Procs : G[q] # NULL => SameWalks(n, b, G[q])
<1> DEFINE H == [G EXCEPT ![p] = g]
           B == [A EXCEPT ![p] = s]
<1>0. /\ G \in [Procs -> Frames \cup {NULL}] /\ A = [q \in Procs |-> A[q]]
      /\ Shape(n, Roots(G), role) /\ ~n.twice /\ n \in Memory
  BY DEF Proper, Shape
<1>g. g \in Frames /\ g # NULL /\ \A q \in Procs : G[q] # g
  <2>1. g \in Frames /\ g # NULL
    BY <1>0, Frame DEF Memory
  <2>2. g \notin Roots(G)
    BY <1>0 DEF Shape
  <2> QED
    BY <2>1, <2>2 DEF Roots
<1>1. /\ H \in [Procs -> Frames \cup {NULL}] /\ B = [q \in Procs |-> B[q]]
      /\ H[p] = g /\ B[p] = s /\ \A q \in Procs : q # p => H[q] = G[q] /\ B[q] = A[q]
  BY <1>0, <1>g
<1> HIDE DEF H, B
<1>2. Roots(H) = Roots(G) \cup {g}
  BY <1>1, <1>g DEF Roots
<1>3. Shape(b, Roots(H), r) /\ ~b.twice
  BY <1>0, <1>2 DEF Grown, Kept
<1>4. \A q \in Procs : G[q] # NULL => SameWalks(n, b, G[q])
  <2>1. \A q \in Procs : G[q] # NULL => G[q] \in Roots(G)
    BY DEF Roots
  <2> QED
    BY <2>1 DEF Grown, SameWalks
<1>5. Sound(b, g, s)
  <2>1. \A w \in VA :
          /\ Mid(b, g, w) # NULL <=> \E u \in S : get_gptx(u) = get_gptx(w)
          /\ get_pte(b, g, w) # NULL <=> \E u \in S : Leaf(u) = Leaf(w)
          /\ va2pa_mmu(b, g, w) # NULL <=> w \in S
    BY DEF Grown
  <2>2. MappedAt(b, g) = S
    BY <2>1 DEF MappedAt
  <2> QED
    BY <2>1, <2>2 DEF Sound
<1>6. \A q \in Procs : H[q] # NULL => Sound(b, H[q], B[q])
  <2>1. ASSUME NEW q \in Procs, H[q] # NULL, q # p PROVE Sound(b, H[q], B[q])
    <3>1. H[q] = G[q] /\ B[q] = A[q] /\ Sound(n, G[q], A[q]) /\ SameWalks(n, b, G[q])
      BY <1>1, <1>4, <2>1 DEF Proper
    <3> QED
      BY <3>1, SoundSame
  <2> QED
    BY <1>1, <1>5, <2>1
<1>7. \A q, o \in Procs : q # o /\ H[q] # NULL => H[q] # H[o]
  BY <1>1, <1>g DEF Proper
<1>8. \A q \in Procs : B[q] = <<>> <=> H[q] = NULL
  <2>1. s # <<>>
    <3>1. PagesOf(<<>>) = {}
      BY DEF PagesOf
    <3> QED
      BY <3>1
  <2> QED
    BY <1>1, <1>g, <2>1 DEF Proper
<1>9. Proper(b, H, B, r)
  BY <1>1, <1>3, <1>6, <1>7, <1>8 DEF Proper
<1> QED
  BY <1>4, <1>9 DEF H, B

-----------------------------------------------------------------------------
(* The actions.                                                            *)

\* No frame is used in two places, every table is there for some page, and the
\* pages of a process are in its areas.
SpaceInv == failed \in Procs \cup {NULL} /\ \E role : Proper(m, gpt, areas, role)

LEMMA InitProper == ASSUME Init PROVE SpaceInv
<1> DEFINE role == [f \in Frames |-> f]
<1>1. m \in Memory /\ ~m.twice /\ \A f \in m.free : m.ref[f] = 0
  <2>1. /\ m.tab = [f \in Frames |-> NoEntries] /\ m.ref = [f \in Frames |-> 0]
        /\ m.data \in {[f \in Frames |-> x] : x \in Values} /\ m.free = Frames /\ m.twice = FALSE
        /\ m = [tab |-> m.tab, data |-> m.data, ref |-> m.ref, free |-> m.free, twice |-> m.twice]
    BY DEF Init
  <2>2. /\ m.tab \in [Frames -> [Index -> Frames \cup {NULL}]] /\ m.data \in [Frames -> Values]
        /\ m.ref \in [Frames -> Nat]
    BY <2>1 DEF NoEntries
  <2> QED
    BY <2>1, <2>2 DEF Memory
<1>2. /\ gpt \in [Procs -> Frames \cup {NULL}] /\ \A p \in Procs : gpt[p] = NULL
      /\ areas = [p \in Procs |-> areas[p]] /\ \A p \in Procs : areas[p] = <<>>
  BY DEF Init
<1>3. Roots(gpt) = {}
  BY <1>2 DEF Roots
<1>4. Shape(m, Roots(gpt), role)
  BY <1>1, <1>3 DEF Shape
<1>5. Proper(m, gpt, areas, role)
  BY <1>1, <1>2, <1>4 DEF Proper
<1> QED
  BY <1>5 DEF SpaceInv, Init

LEMMA LeaveStep ==
  ASSUME NEW role, Proper(m, gpt, areas, role), NEW p \in Procs, Leave(p)
  PROVE  Proper(m', gpt', areas', role) /\ Removed(m, m', gpt, p)
<1>1. m' = Removal(m, gpt, areas, p)
  BY DEF Leave, WithoutSpace, Removal
<1>2. gpt' = [gpt EXCEPT ![p] = NULL] /\ areas' = [areas EXCEPT ![p] = <<>>]
  BY DEF Leave
<1> QED
  BY <1>1, <1>2, Removing

LEMMA MappedIs == ASSUME NEW p \in Procs, gpt[p] # NULL
                  PROVE  Mapped(p) = MappedAt(m, gpt[p])
BY DEF Mapped, MappedAt

\* a: the memory without the old address space.
Executed(a, r, g, p, S, x, role) ==
  /\ Removed(m, a, gpt, p) /\ Proper(a, [gpt EXCEPT ![p] = NULL], [areas EXCEPT ![p] = <<>>], role)
  /\ g \in a.free /\ gpt' = [gpt EXCEPT ![p] = g]
  /\ Grown(a, m', Roots([gpt EXCEPT ![p] = NULL]), role, r, g, S, [v \in VA |-> x])
  /\ \A q \in Procs : q # p /\ gpt[q] # NULL => SameWalks(a, m', gpt[q])
  /\ Proper(m', gpt', areas', r)

LEMMA LoadStep ==
  ASSUME NEW role, Proper(m, gpt, areas, role), NEW p \in Procs, NEW s, NEW S, NEW x \in Values,
         S # {}, S \subseteq PagesOf(s), Load(p, s, S, x)
  PROVE  \E a, r, g : Executed(a, r, g, p, S, x, role)
<1> DEFINE a == Removal(m, gpt, areas, p)
           H == [gpt EXCEPT ![p] = NULL]
           B == [areas EXCEPT ![p] = <<>>]
           g == NextFrame(a)
           c == [v \in VA |-> x]
<1>0. WithoutSpace(m, p) = a
  BY DEF WithoutSpace, Removal
<1>1. /\ Cardinality(a.free) >= Cost(S) /\ m' = load_bin(alloc_gpt(a), g, S, x)
      /\ gpt' = [gpt EXCEPT ![p] = g] /\ areas' = [areas EXCEPT ![p] = s]
  BY <1>0 DEF Load
<1>2. Proper(a, H, B, role) /\ Removed(m, a, gpt, p)
  BY Removing
<1>3. S # {} /\ S \subseteq PagesOf(s) /\ S \in SUBSET VA
  BY DEF PagesOf
<1>4. Shape(a, Roots(H), role)
  BY <1>2 DEF Proper
<1>5. gpt \in [Procs -> Frames \cup {NULL}] /\ areas = [q \in Procs |-> areas[q]]
  BY DEF Proper
<1>6. /\ gpt' = [H EXCEPT ![p] = g] /\ areas' = [B EXCEPT ![p] = s]
      /\ H[p] = NULL /\ \A q \in Procs : q # p => H[q] = gpt[q]
  BY <1>1, <1>5
<1> HIDE DEF a, H, B
<1>7. PICK r : g \in a.free /\ g \notin Roots(H)
               /\ Grown(a, load_bin(alloc_gpt(a), g, S, x), Roots(H), role, r, g, S, c)
  BY <1>1, <1>3, <1>4, LoadGrown
<1> HIDE DEF g, c
<1>8. Grown(a, m', Roots(H), role, r, g, S, c)
  BY <1>1, <1>7
<1>9. /\ Proper(m', [H EXCEPT ![p] = g], [B EXCEPT ![p] = s], r)
      /\ \A q \in Procs : H[q] # NULL => SameWalks(a, m', H[q])
  <2>1. Proper(a, H, B, role) /\ H[p] = NULL /\ g \in a.free
    BY <1>2, <1>6, <1>7
  <2>2. S \in SUBSET VA /\ S # {} /\ S \subseteq PagesOf(s)
    BY <1>3
  <2> QED
    BY <1>8, <2>1, <2>2, Adding
<1>10. Proper(m', gpt', areas', r)
  BY <1>6, <1>9
<1>11. \A q \in Procs : q # p /\ gpt[q] # NULL => SameWalks(a, m', gpt[q])
  BY <1>6, <1>9
<1>12. Executed(a, r, g, p, S, x, role)
  BY <1>1, <1>2, <1>7, <1>8, <1>10, <1>11 DEF Executed, H, B, c
<1> QED
  BY <1>12

\* What is loaded is the whole program, or the pages of its first areas.
LEMMA ExecLoads ==
  ASSUME NEW p \in Procs, NEW l \in Layouts, NEW x \in Values, Exec(p, l, x)
  PROVE  l.pages # {} /\ l.pages \subseteq PagesOf(l.areas) /\ Load(p, l.areas, l.pages, x)
BY SpaceAssumption DEF Exec

Part(l, k) == l.pages \cap PagesOf(SubSeq(l.areas, 1, k))

LEMMA PartLoads ==
  ASSUME NEW p \in Procs, NEW l \in Layouts, NEW k, NEW x \in Values, LoadPart(p, l, k, x)
  PROVE  /\ Part(l, k) # {} /\ Part(l, k) \subseteq PagesOf(SubSeq(l.areas, 1, k))
         /\ Load(p, SubSeq(l.areas, 1, k), Part(l, k), x)
BY DEF LoadPart, Part

Forked(r, g, p, q, role) ==
  /\ g \in m.free /\ gpt' = [gpt EXCEPT ![q] = g] /\ gpt[p] # NULL /\ gpt[q] = NULL
  /\ Grown(m, m', Roots(gpt), role, r, g, MappedAt(m, gpt[p]), ContentOf(m, gpt[p]))
  /\ \A o \in Procs : gpt[o] # NULL => SameWalks(m, m', gpt[o])
  /\ Proper(m', gpt', areas', r)

LEMMA ForkStep ==
  ASSUME NEW role, Proper(m, gpt, areas, role), NEW p \in Procs, NEW q \in Procs, Fork(p, q)
  PROVE  \E r, g : Forked(r, g, p, q, role)
<1> DEFINE g == NextFrame(m)
           f == gpt[p]
           S == MappedAt(m, f)
           c == ContentOf(m, f)
<1>1. /\ f # NULL /\ gpt[q] = NULL /\ Cardinality(m.free) >= Cost(S)
      /\ m' = dup_vmm(alloc_gpt(m), f, g, areas[p])
      /\ gpt' = [gpt EXCEPT ![q] = g] /\ areas' = [areas EXCEPT ![q] = areas[p]]
  BY MappedIs DEF Fork
<1>2. Shape(m, Roots(gpt), role) /\ f \in Roots(gpt) /\ Sound(m, f, areas[p])
  BY <1>1 DEF Proper, Roots
<1>3. S # {} /\ S \subseteq PagesOf(areas[p]) /\ S \in SUBSET VA
  BY <1>2 DEF Sound, MappedAt
<1>e. f = gpt[p] /\ S = MappedAt(m, f) /\ c = ContentOf(m, f)
  OBVIOUS
<1> HIDE DEF f
<1>4. PICK r : g \in m.free /\ g \notin Roots(gpt)
               /\ Grown(m, dup_vmm(alloc_gpt(m), f, g, areas[p]), Roots(gpt), role, r, g,
                        MappedAt(m, f), ContentOf(m, f))
  BY <1>1, <1>2, <1>3, DupGrown
<1> HIDE DEF g, S, c
<1>5. Grown(m, m', Roots(gpt), role, r, g, S, c)
  BY <1>1, <1>4, <1>e
<1>6. /\ Proper(m', [gpt EXCEPT ![q] = g], [areas EXCEPT ![q] = areas[p]], r)
      /\ \A o \in Procs : gpt[o] # NULL => SameWalks(m, m', gpt[o])
  <2> DEFINE s == areas[p]
  <2>1. gpt[q] = NULL /\ g \in m.free
    BY <1>1, <1>4
  <2>2. S \subseteq PagesOf(s)
    BY <1>3
  <2> HIDE DEF s
  <2>3. /\ Proper(m', [gpt EXCEPT ![q] = g], [areas EXCEPT ![q] = s], r)
        /\ \A o \in Procs : gpt[o] # NULL => SameWalks(m, m', gpt[o])
    BY <1>3, <1>5, <2>1, <2>2, Adding
  <2> QED
    BY <2>3 DEF s
<1>7. Proper(m', gpt', areas', r)
  BY <1>1, <1>6
<1>8. Forked(r, g, p, q, role)
  BY <1>1, <1>4, <1>5, <1>6, <1>7, <1>e DEF Forked
<1> QED
  BY <1>8

LEMMA WriteStep ==
  ASSUME NEW role, Proper(m, gpt, areas, role), NEW p \in Procs, NEW v \in VA, NEW x \in Values,
         Write(p, v, x)
  PROVE  /\ Proper(m', gpt', areas', role) /\ m'.free = m.free
         /\ gpt[p] # NULL /\ va2pa_mmu(m, gpt[p], v) # NULL
         /\ m'.data = [m.data EXCEPT ![va2pa_mmu(m, gpt[p], v)] = x]
         /\ \A g : SameWalks(m, m', g)
<1> DEFINE g == gpt[p]
           f == va2pa_mmu(m, g, v)
<1>1. g # NULL /\ f # NULL
  BY DEF Write, Mapped
<1>2. g \in Roots(gpt) /\ Shape(m, Roots(gpt), role)
  BY <1>1 DEF Roots, Proper
<1>3. f \in Frames /\ m \in Memory
  <2>1. m \in Memory
    BY <1>2 DEF Shape
  <2> QED
    BY <1>1, <1>2, <2>1, Uses
<1>4. m' = [m EXCEPT !.data[f] = x] /\ gpt' = gpt /\ areas' = areas
  BY DEF Write
<1>e. f = va2pa_mmu(m, g, v)
  OBVIOUS
<1> HIDE DEF f
<1>5. /\ m'.tab = m.tab /\ m'.data = [m.data EXCEPT ![f] = x] /\ m'.ref = m.ref
      /\ m'.free = m.free /\ m'.twice = m.twice
  BY <1>3, <1>4 DEF Memory
<1>6. m' \in Memory
  <2>1. [m.data EXCEPT ![f] = x] \in [Frames -> Values]
    BY <1>3 DEF Memory
  <2> QED
    BY <1>3, <1>4, <2>1 DEF Memory
<1>7. \A h, w : /\ Mid(m', h, w) = Mid(m, h, w) /\ get_pte(m', h, w) = get_pte(m, h, w)
                /\ va2pa_mmu(m', h, w) = va2pa_mmu(m, h, w)
  BY <1>5, SameTab
<1>8. \A h : SameWalks(m, m', h)
  BY <1>7 DEF SameWalks
<1>9. Shape(m', Roots(gpt), role)
  BY <1>2, <1>5, <1>6, <1>7 DEF Shape, Has
<1>10. \A q \in Procs : gpt[q] # NULL => Sound(m', gpt[q], areas[q])
  BY <1>8, SoundSame DEF Proper
<1>11. Proper(m', gpt', areas', role)
  BY <1>4, <1>5, <1>9, <1>10 DEF Proper
<1> QED
  BY <1>1, <1>5, <1>8, <1>11, <1>e

LEMMA NextProper == ASSUME SpaceInv, [Next]_vars PROVE SpaceInv'
<1>1. PICK role : Proper(m, gpt, areas, role)
  BY DEF SpaceInv
<1>0. failed' \in Procs \cup {NULL}
  BY DEF SpaceInv, Next, ProcStep, Exec, LoadPart, Fork, Exit, Write, GiveUp, vars
<1>2. SUFFICES \E r : Proper(m', gpt', areas', r)
  BY <1>0 DEF SpaceInv
<1>3. ASSUME NEW p \in Procs, NEW s, NEW S, NEW x \in Values, S # {}, S \subseteq PagesOf(s),
             Load(p, s, S, x)
      PROVE  \E r : Proper(m', gpt', areas', r)
  BY <1>1, <1>3, LoadStep DEF Executed
<1>8. ASSUME NEW p \in Procs, NEW l \in Layouts, NEW x \in Values, Exec(p, l, x)
      PROVE  \E r : Proper(m', gpt', areas', r)
  BY <1>3, <1>8, ExecLoads
<1>9. ASSUME NEW p \in Procs, NEW l \in Layouts, NEW k, NEW x \in Values, LoadPart(p, l, k, x)
      PROVE  \E r : Proper(m', gpt', areas', r)
  BY <1>3, <1>9, PartLoads
<1>4. ASSUME NEW p \in Procs, NEW q \in Procs, Fork(p, q)
      PROVE  \E r : Proper(m', gpt', areas', r)
  BY <1>1, <1>4, ForkStep DEF Forked
<1>5. ASSUME NEW p \in Procs, Leave(p) PROVE \E r : Proper(m', gpt', areas', r)
  BY <1>1, <1>5, LeaveStep
<1>6. ASSUME NEW p \in Procs, NEW v \in VA, NEW x \in Values, Write(p, v, x)
      PROVE  \E r : Proper(m', gpt', areas', r)
  BY <1>1, <1>6, WriteStep
<1>7. CASE UNCHANGED vars
  BY <1>1, <1>7 DEF vars
<1>10. CASE GiveUp
  <2>1. failed \in Procs /\ Leave(failed)
    BY <1>10 DEF GiveUp, SpaceInv
  <2> QED
    BY <1>5, <2>1
<1>11. ASSUME NEW p \in Procs, ProcStep(p) PROVE \E r : Proper(m', gpt', areas', r)
  BY <1>4, <1>5, <1>6, <1>8, <1>9, <1>11 DEF ProcStep, Exit
<1> QED
  BY <1>7, <1>10, <1>11 DEF Next

-----------------------------------------------------------------------------
(* The frames that a process uses.                                         *)

Mids(n, g)  == { Mid(n, g, w) : w \in VA } \ {NULL}
Ptes(n, g)  == { get_pte(n, g, w) : w \in VA } \ {NULL}
Pages(n, g) == { va2pa_mmu(n, g, w) : w \in VA } \ {NULL}

\* What the tables hold is what the walks meet.
LEMMA Met ==
  ASSUME NEW n, NEW g
  PROVE  /\ { n.tab[g][i] : i \in Index } \ {NULL} = Mids(n, g)
         /\ { n.tab[t][i] : t \in Mids(n, g), i \in Index } \ {NULL} = Ptes(n, g)
         /\ { n.tab[t][i] : t \in Ptes(n, g), i \in Index } \ {NULL} = Pages(n, g)
<1>1. { n.tab[g][i] : i \in Index } \ {NULL} = Mids(n, g)
  <2>1. \A w \in VA : get_gptx(w) \in Index
    BY Addresses
  <2>2. \A i \in Index : \E w \in VA : get_gptx(w) = i
    BY Addresses
  <2> QED
    BY <2>1, <2>2 DEF Mids, Mid
<1>2. { n.tab[t][i] : t \in Mids(n, g), i \in Index } \ {NULL} = Ptes(n, g)
  <2>1. ASSUME NEW t \in Mids(n, g), NEW i \in Index, n.tab[t][i] # NULL
        PROVE  n.tab[t][i] \in Ptes(n, g)
    <3>1. PICK w \in VA : t = Mid(n, g, w) /\ t # NULL
      BY DEF Mids
    <3>2. get_gptx(w) \in Index
      BY Addresses
    <3>3. PICK v \in VA : get_gptx(v) = get_gptx(w) /\ get_mptx(v) = i
      BY <3>2, Addresses
    <3>4. Mid(n, g, v) = t
      BY <3>1, <3>3 DEF Mid
    <3>5. get_pte(n, g, v) = n.tab[t][i]
      BY <3>1, <3>3, <3>4, Walk
    <3> QED
      BY <2>1, <3>5 DEF Ptes
  <2>2. ASSUME NEW f \in Ptes(n, g)
        PROVE  f # NULL /\ \E t \in Mids(n, g), i \in Index : f = n.tab[t][i]
    <3>1. PICK w \in VA : f = get_pte(n, g, w) /\ f # NULL
      BY DEF Ptes
    <3>2. Mid(n, g, w) # NULL /\ f = n.tab[Mid(n, g, w)][get_mptx(w)]
      BY <3>1, Walk
    <3>3. Mid(n, g, w) \in Mids(n, g) /\ get_mptx(w) \in Index
      BY <3>2, Addresses DEF Mids
    <3> QED
      BY <3>1, <3>2, <3>3
  <2> QED
    BY <2>1, <2>2
<1>3. { n.tab[t][i] : t \in Ptes(n, g), i \in Index } \ {NULL} = Pages(n, g)
  <2>1. ASSUME NEW t \in Ptes(n, g), NEW i \in Index, n.tab[t][i] # NULL
        PROVE  n.tab[t][i] \in Pages(n, g)
    <3>1. PICK w \in VA : t = get_pte(n, g, w) /\ t # NULL
      BY DEF Ptes
    <3>2. get_gptx(w) \in Index /\ get_mptx(w) \in Index
      BY Addresses
    <3>3. PICK v \in VA : get_gptx(v) = get_gptx(w) /\ get_mptx(v) = get_mptx(w) /\ get_ptx(v) = i
      BY <3>2, Addresses
    <3>4. get_pte(n, g, v) = t
      BY <3>1, <3>3 DEF get_pte
    <3>5. va2pa_mmu(n, g, v) = n.tab[t][i]
      BY <3>1, <3>3, <3>4, Walk
    <3> QED
      BY <2>1, <3>5 DEF Pages
  <2>2. ASSUME NEW f \in Pages(n, g)
        PROVE  f # NULL /\ \E t \in Ptes(n, g), i \in Index : f = n.tab[t][i]
    <3>1. PICK w \in VA : f = va2pa_mmu(n, g, w) /\ f # NULL
      BY DEF Pages
    <3>2. get_pte(n, g, w) # NULL /\ f = n.tab[get_pte(n, g, w)][get_ptx(w)]
      BY <3>1, Walk
    <3>3. get_pte(n, g, w) \in Ptes(n, g) /\ get_ptx(w) \in Index
      BY <3>2, Addresses DEF Ptes
    <3> QED
      BY <3>1, <3>2, <3>3
  <2> QED
    BY <2>1, <2>2
<1> QED
  BY <1>1, <1>2, <1>3

UsedOf(n, g) == IF g = NULL THEN {} ELSE {g} \cup Mids(n, g) \cup Ptes(n, g) \cup Pages(n, g)

LEMMA UsedIs ==
  ASSUME NEW p \in Procs
  PROVE  /\ Used(p) = UsedOf(m, gpt[p])
         /\ gpt[p] # NULL => /\ Middle(p) = Mids(m, gpt[p]) /\ Leaves(p) = Ptes(m, gpt[p])
                             /\ Data(p) = Pages(m, gpt[p])
         /\ gpt[p] = NULL => Middle(p) = {} /\ Leaves(p) = {} /\ Data(p) = {}
<1>1. CASE gpt[p] = NULL
  <2>1. Middle(p) = {}
    BY <1>1 DEF Middle
  <2>2. Leaves(p) = {}
    BY <2>1 DEF Leaves
  <2>3. Data(p) = {}
    BY <2>2 DEF Data
  <2> QED
    BY <1>1, <2>1, <2>2, <2>3 DEF Used, UsedOf
<1>2. CASE gpt[p] # NULL
  <2>1. Middle(p) = Mids(m, gpt[p])
    BY <1>2, Met DEF Middle
  <2>2. Leaves(p) = Ptes(m, gpt[p])
    BY <2>1, Met DEF Leaves
  <2>3. Data(p) = Pages(m, gpt[p])
    BY <2>2, Met DEF Data
  <2> QED
    BY <1>2, <2>1, <2>2, <2>3 DEF Used, UsedOf
<1> QED
  BY <1>1, <1>2

LEMMA UsedIsPrimed ==
  ASSUME NEW p \in Procs
  PROVE  Used(p)' = UsedOf(m', gpt'[p])
<1>1. CASE gpt'[p] = NULL
  <2>1. Middle(p)' = {}
    BY <1>1 DEF Middle
  <2>2. Leaves(p)' = {}
    BY <2>1 DEF Leaves
  <2>3. Data(p)' = {}
    BY <2>2 DEF Data
  <2> QED
    BY <1>1, <2>1, <2>2, <2>3 DEF Used, UsedOf
<1>2. CASE gpt'[p] # NULL
  <2>1. Middle(p)' = Mids(m', gpt'[p])
    BY <1>2, Met DEF Middle
  <2>2. Leaves(p)' = Ptes(m', gpt'[p])
    BY <2>1, Met DEF Leaves
  <2>3. Data(p)' = Pages(m', gpt'[p])
    BY <2>2, Met DEF Data
  <2> QED
    BY <1>2, <2>1, <2>2, <2>3 DEF Used, UsedOf
<1> QED
  BY <1>1, <1>2

\* The role of the frames that the root g uses.
LEMMA UsedRoles ==
  ASSUME NEW n, NEW R, NEW role, Shape(n, R, role), NEW g \in R
  PROVE  /\ \A f \in UsedOf(n, g) : f \in Frames /\ f \notin n.free
         /\ g # NULL /\ role[g] = <<g, 0, 0>>
         /\ \A f \in Mids(n, g) : \E w \in VA : f = Mid(n, g, w) /\ role[f] = <<g, 1, get_gptx(w)>>
         /\ \A f \in Ptes(n, g) : \E w \in VA : f = get_pte(n, g, w) /\ role[f] = <<g, 2, Leaf(w)>>
         /\ \A f \in Pages(n, g) : \E w \in VA : /\ f = va2pa_mmu(n, g, w) /\ role[f] = <<g, 3, w>>
                                                 /\ n.ref[f] = 1
         /\ \A f \in UsedOf(n, g) : role[f][1] = g
<1>0. g \in Frames /\ g # NULL /\ g \notin n.free /\ role[g] = <<g, 0, 0>>
  BY Frame DEF Shape
<1>1. ASSUME NEW f \in Mids(n, g)
      PROVE  /\ f \in Frames /\ f \notin n.free
             /\ \E w \in VA : f = Mid(n, g, w) /\ role[f] = <<g, 1, get_gptx(w)>>
  BY Uses DEF Mids
<1>2. ASSUME NEW f \in Ptes(n, g)
      PROVE  /\ f \in Frames /\ f \notin n.free
             /\ \E w \in VA : f = get_pte(n, g, w) /\ role[f] = <<g, 2, Leaf(w)>>
  BY Uses DEF Ptes
<1>3. ASSUME NEW f \in Pages(n, g)
      PROVE  /\ f \in Frames /\ f \notin n.free
             /\ \E w \in VA : f = va2pa_mmu(n, g, w) /\ role[f] = <<g, 3, w>> /\ n.ref[f] = 1
  BY Uses DEF Pages
<1>4. \A f \in UsedOf(n, g) : f = g \/ f \in Mids(n, g) \/ f \in Ptes(n, g) \/ f \in Pages(n, g)
  BY <1>0 DEF UsedOf
<1>5. \A f \in UsedOf(n, g) : f \in Frames /\ f \notin n.free
  BY <1>0, <1>1, <1>2, <1>3, <1>4
<1>6. \A f \in UsedOf(n, g) : role[f][1] = g
  BY <1>0, <1>1, <1>2, <1>3, <1>4
<1> QED
  BY <1>0, <1>1, <1>2, <1>3, <1>5, <1>6

LEMMA Counted ==
  ASSUME NEW A, NEW B, IsFiniteSet(A), NEW F \in [A -> B],
         \A a, b \in A : F[a] = F[b] => a = b, \A y \in B : \E a \in A : F[a] = y
  PROVE  Cardinality(A) = Cardinality(B)
<1>1. IsInjective(F)
  BY DEF IsInjective
<1>2. F \in Bijection(A, B)
  BY <1>1 DEF Bijection, Injection, Surjection
<1>3. ExistsBijection(A, B)
  BY <1>2 DEF ExistsBijection
<1> QED
  BY <1>3, FS_Bijection

LEMMA Disjoint ==
  ASSUME NEW A, NEW B, IsFiniteSet(A), IsFiniteSet(B), A \cap B = {}
  PROVE  IsFiniteSet(A \cup B) /\ Cardinality(A \cup B) = Cardinality(A) + Cardinality(B)
<1>1. Cardinality(A) \in Nat /\ Cardinality(B) \in Nat
  BY FS_CardinalityType
<1>2. Cardinality(A \cap B) = 0
  BY FS_EmptySet
<1>3. /\ IsFiniteSet(A \cup B)
      /\ Cardinality(A \cup B) = Cardinality(A) + Cardinality(B) - Cardinality(A \cap B)
  BY FS_Union
<1> QED
  BY <1>1, <1>2, <1>3

\* The address space of a root uses one frame for each of its pages, for each
\* table these need, and for the root.
LEMMA UsedSize ==
  ASSUME NEW n, NEW R, NEW role, Shape(n, R, role), NEW g \in R, NEW s, Sound(n, g, s)
  PROVE  Cardinality(UsedOf(n, g)) = Cost(MappedAt(n, g))
<1> DEFINE S == MappedAt(n, g)
           M == Mids(n, g)
           L == Ptes(n, g)
           D == Pages(n, g)
<1>0. /\ \A f \in UsedOf(n, g) : f \in Frames
      /\ g # NULL /\ role[g] = <<g, 0, 0>>
      /\ \A f \in M : \E w \in VA : f = Mid(n, g, w) /\ role[f] = <<g, 1, get_gptx(w)>>
      /\ \A f \in L : \E w \in VA : f = get_pte(n, g, w) /\ role[f] = <<g, 2, Leaf(w)>>
      /\ \A f \in D : \E w \in VA : f = va2pa_mmu(n, g, w) /\ role[f] = <<g, 3, w>>
  BY UsedRoles
<1>1. UsedOf(n, g) = ((M \cup L) \cup D) \cup {g}
  BY <1>0 DEF UsedOf
<1>2. IsFiniteSet(M) /\ IsFiniteSet(L) /\ IsFiniteSet(D)
  <2>1. M \subseteq Frames /\ L \subseteq Frames /\ D \subseteq Frames
    BY <1>0, <1>1
  <2> QED
    BY <2>1, Frame, FS_Subset
<1>3. S \in SUBSET VA /\ \A w \in VA : w \in S <=> va2pa_mmu(n, g, w) # NULL
  BY DEF MappedAt
<1>4. Cardinality(M) = Cardinality(Gptxs(S))
  <2> DEFINE F == [f \in M |-> role[f][3]]
  <2>1. F \in [M -> Gptxs(S)]
    <3>1. ASSUME NEW f \in M PROVE role[f][3] \in Gptxs(S)
      <4>1. PICK w \in VA : f = Mid(n, g, w) /\ role[f] = <<g, 1, get_gptx(w)>>
        BY <1>0
      <4>2. f # NULL
        BY DEF Mids
      <4>3. PICK u \in VA : get_gptx(u) = get_gptx(w) /\ va2pa_mmu(n, g, u) # NULL
        BY <4>1, <4>2 DEF Sound
      <4>4. role[f][3] = get_gptx(u) /\ u \in S
        BY <1>3, <4>1, <4>3
      <4> QED
        BY <4>4 DEF Gptxs
    <3> QED
      BY <3>1
  <2>2. ASSUME NEW a \in M, NEW b \in M, F[a] = F[b] PROVE a = b
    <3>1. PICK w \in VA : a = Mid(n, g, w) /\ role[a] = <<g, 1, get_gptx(w)>>
      BY <1>0
    <3>2. PICK u \in VA : b = Mid(n, g, u) /\ role[b] = <<g, 1, get_gptx(u)>>
      BY <1>0
    <3>3. get_gptx(w) = get_gptx(u)
      BY <2>2, <3>1, <3>2
    <3> QED
      BY <3>1, <3>2, <3>3 DEF Mid
  <2>3. ASSUME NEW y \in Gptxs(S) PROVE \E a \in M : F[a] = y
    <3>1. PICK w \in S : y = get_gptx(w)
      BY DEF Gptxs
    <3>2. va2pa_mmu(n, g, w) # NULL /\ w \in VA
      BY <1>3
    <3>3. Mid(n, g, w) # NULL /\ role[Mid(n, g, w)] = <<g, 1, y>>
      BY <3>1, <3>2, Uses
    <3>4. Mid(n, g, w) \in M
      BY <3>2, <3>3 DEF Mids
    <3> QED
      BY <3>3, <3>4
  <2> HIDE DEF F, M
  <2> QED
    BY <1>2, <2>1, <2>2, <2>3, Counted
<1>5. Cardinality(L) = Cardinality(Leafs(S))
  <2> DEFINE F == [f \in L |-> role[f][3]]
  <2>1. F \in [L -> Leafs(S)]
    <3>1. ASSUME NEW f \in L PROVE role[f][3] \in Leafs(S)
      <4>1. PICK w \in VA : f = get_pte(n, g, w) /\ role[f] = <<g, 2, Leaf(w)>>
        BY <1>0
      <4>2. f # NULL
        BY DEF Ptes
      <4>3. PICK u \in VA : Leaf(u) = Leaf(w) /\ va2pa_mmu(n, g, u) # NULL
        BY <4>1, <4>2 DEF Sound
      <4>4. role[f][3] = Leaf(u) /\ u \in S
        BY <1>3, <4>1, <4>3
      <4> QED
        BY <4>4 DEF Leafs
    <3> QED
      BY <3>1
  <2>2. ASSUME NEW a \in L, NEW b \in L, F[a] = F[b] PROVE a = b
    <3>1. PICK w \in VA : a = get_pte(n, g, w) /\ role[a] = <<g, 2, Leaf(w)>>
      BY <1>0
    <3>2. PICK u \in VA : b = get_pte(n, g, u) /\ role[b] = <<g, 2, Leaf(u)>>
      BY <1>0
    <3>3. Leaf(w) = Leaf(u)
      BY <2>2, <3>1, <3>2
    <3>4. get_gptx(w) = get_gptx(u) /\ get_mptx(w) = get_mptx(u)
      BY <3>3, Addresses
    <3> QED
      BY <3>1, <3>2, <3>4 DEF get_pte
  <2>3. ASSUME NEW y \in Leafs(S) PROVE \E a \in L : F[a] = y
    <3>1. PICK w \in S : y = Leaf(w)
      BY DEF Leafs
    <3>2. va2pa_mmu(n, g, w) # NULL /\ w \in VA
      BY <1>3
    <3>3. get_pte(n, g, w) # NULL /\ role[get_pte(n, g, w)] = <<g, 2, y>>
      BY <3>1, <3>2, Uses
    <3>4. get_pte(n, g, w) \in L
      BY <3>2, <3>3 DEF Ptes
    <3> QED
      BY <3>3, <3>4
  <2> HIDE DEF F, L
  <2> QED
    BY <1>2, <2>1, <2>2, <2>3, Counted
<1>6. Cardinality(D) = Cardinality(S)
  <2> DEFINE F == [f \in D |-> role[f][3]]
  <2>1. F \in [D -> S]
    <3>1. ASSUME NEW f \in D PROVE role[f][3] \in S
      <4>1. PICK w \in VA : f = va2pa_mmu(n, g, w) /\ role[f] = <<g, 3, w>>
        BY <1>0
      <4>2. f # NULL
        BY DEF Pages
      <4> QED
        BY <1>3, <4>1, <4>2
    <3> QED
      BY <3>1
  <2>2. ASSUME NEW a \in D, NEW b \in D, F[a] = F[b] PROVE a = b
    <3>1. PICK w \in VA : a = va2pa_mmu(n, g, w) /\ role[a] = <<g, 3, w>>
      BY <1>0
    <3>2. PICK u \in VA : b = va2pa_mmu(n, g, u) /\ role[b] = <<g, 3, u>>
      BY <1>0
    <3> QED
      BY <2>2, <3>1, <3>2
  <2>3. ASSUME NEW w \in S PROVE \E a \in D : F[a] = w
    <3>2. va2pa_mmu(n, g, w) # NULL /\ w \in VA
      BY <1>3
    <3>3. role[va2pa_mmu(n, g, w)] = <<g, 3, w>>
      BY <3>2, Uses
    <3>4. va2pa_mmu(n, g, w) \in D
      BY <3>2 DEF Pages
    <3> QED
      BY <3>3, <3>4
  <2> HIDE DEF F, D, S
  <2> QED
    BY <1>2, <2>1, <2>2, <2>3, Counted
<1>7. M \cap L = {} /\ (M \cup L) \cap D = {} /\ g \notin (M \cup L) \cup D
  <2>1. \A f \in M : role[f][2] = 1
    BY <1>0
  <2>2. \A f \in L : role[f][2] = 2
    BY <1>0
  <2>3. \A f \in D : role[f][2] = 3
    BY <1>0
  <2>4. role[g][2] = 0
    BY <1>0
  <2> HIDE DEF M, L, D
  <2> QED
    BY <2>1, <2>2, <2>3, <2>4
<1> HIDE DEF M, L, D, S
<1>8. /\ IsFiniteSet((M \cup L) \cup D)
      /\ Cardinality((M \cup L) \cup D) = Cardinality(M) + Cardinality(L) + Cardinality(D)
  <2>1. IsFiniteSet(M \cup L) /\ Cardinality(M \cup L) = Cardinality(M) + Cardinality(L)
    BY <1>2, <1>7, Disjoint
  <2>2. /\ IsFiniteSet((M \cup L) \cup D)
        /\ Cardinality((M \cup L) \cup D) = Cardinality(M \cup L) + Cardinality(D)
    BY <1>2, <1>7, <2>1, Disjoint
  <2> QED
    BY <2>1, <2>2
<1>9. Cardinality(UsedOf(n, g)) = Cardinality(M) + Cardinality(L) + Cardinality(D) + 1
  BY <1>1, <1>7, <1>8, OneMore
<1>10. /\ Cost(S) = 1 + Cardinality(S) + Cardinality(Gptxs(S)) + Cardinality(Leafs(S))
       /\ Cardinality(S) \in Nat /\ Cardinality(Gptxs(S)) \in Nat /\ Cardinality(Leafs(S)) \in Nat
  BY <1>3, CostIs
<1> QED
  BY <1>4, <1>5, <1>6, <1>9, <1>10 DEF S

-----------------------------------------------------------------------------
(* What is proved of the address spaces.                                   *)

LEMMA InvNoSharing == ASSUME SpaceInv PROVE NoSharing
<1>1. PICK role : Proper(m, gpt, areas, role)
  BY DEF SpaceInv
<1>2. /\ Shape(m, Roots(gpt), role) /\ ~m.twice /\ gpt \in [Procs -> Frames \cup {NULL}]
      /\ \A p, q \in Procs : p # q /\ gpt[p] # NULL => gpt[p] # gpt[q]
      /\ \A p \in Procs : areas[p] = <<>> <=> gpt[p] = NULL
      /\ \A p \in Procs : gpt[p] # NULL => gpt[p] \in Roots(gpt) /\ Sound(m, gpt[p], areas[p])
  BY <1>1 DEF Proper, Roots
<1>3. TypeOK
  <2>1. m \in Memory
    BY <1>2 DEF Shape
  <2> QED
    BY <1>2, <2>1 DEF TypeOK, Memory, SpaceInv
<1>4. ASSUME NEW p \in Procs, NEW q \in Procs, p # q PROVE Used(p) \cap Used(q) = {}
  <2>1. \A f \in Used(p) : gpt[p] # NULL /\ role[f][1] = gpt[p]
    BY <1>2, UsedIs, UsedRoles DEF UsedOf
  <2>2. \A f \in Used(q) : gpt[q] # NULL /\ role[f][1] = gpt[q]
    BY <1>2, UsedIs, UsedRoles DEF UsedOf
  <2> QED
    BY <1>2, <1>4, <2>1, <2>2
<1>5. ASSUME NEW p \in Procs
      PROVE  /\ Used(p) \cap m.free = {}
             /\ Cardinality(Used(p)) = (IF gpt[p] = NULL THEN 0 ELSE Cost(Mapped(p)))
             /\ \A f \in Data(p) : m.ref[f] = 1
  <2>1. CASE gpt[p] = NULL
    <3>1. Used(p) = {} /\ Data(p) = {}
      BY <2>1, UsedIs DEF UsedOf
    <3> QED
      BY <2>1, <3>1, FS_EmptySet
  <2>2. CASE gpt[p] # NULL
    <3>1. Used(p) = UsedOf(m, gpt[p]) /\ Data(p) = Pages(m, gpt[p])
      BY <2>2, UsedIs
    <3>2. \A f \in UsedOf(m, gpt[p]) : f \notin m.free
      BY <1>2, <2>2, UsedRoles
    <3>3. \A f \in Pages(m, gpt[p]) : m.ref[f] = 1
      BY <1>2, <2>2, UsedRoles
    <3>4. Cardinality(UsedOf(m, gpt[p])) = Cost(Mapped(p))
      BY <1>2, <2>2, UsedSize, MappedIs
    <3> QED
      BY <2>2, <3>1, <3>2, <3>3, <3>4
  <2> QED
    BY <2>1, <2>2
<1> QED
  BY <1>2, <1>3, <1>4, <1>5 DEF NoSharing

\* No frame has two uses, whatever the processes do with exec, fork, exit and
\* writes, for every size of the tables and of the memory: address spaces share
\* no frame, no used frame is free, none is freed twice, each page is referenced
\* once, and a process uses what its mapped pages cost (proc.c, pmm.c, vmm.c).
THEOREM NoSharingHolds == Spec => []NoSharing
<1>1. Init => SpaceInv
  BY InitProper
<1>2. SpaceInv /\ [Next]_vars => SpaceInv'
  BY NextProper
<1>3. SpaceInv => NoSharing
  BY InvNoSharing
<1> QED
  BY <1>1, <1>2, <1>3, PTL DEF Spec

LEMMA SameUsed == ASSUME NEW n, NEW b, NEW g, SameWalks(n, b, g)
                  PROVE  UsedOf(n, g) = UsedOf(b, g)
<1>1. Mids(n, g) = Mids(b, g)
  BY DEF SameWalks, Mids
<1>2. Ptes(n, g) = Ptes(b, g)
  BY DEF SameWalks, Ptes
<1>3. Pages(n, g) = Pages(b, g)
  BY DEF SameWalks, Pages
<1> QED
  BY <1>1, <1>2, <1>3 DEF UsedOf

LEMMA OccUsed == ASSUME NEW n, NEW g, g # NULL PROVE Occ(n, g) \subseteq UsedOf(n, g)
BY Frame DEF Occ, UsedOf, Mids, Ptes, Pages

\* Of the frames that p used, those of the last level's page tables apart, all
\* are free once its address space is removed.
LEMMA RemovedFrames ==
  ASSUME NEW a, NEW p \in Procs, Removed(m, a, gpt, p), NEW f \in Used(p), f \notin Leaves(p)
  PROVE  f \in a.free
<1>1. gpt[p] # NULL /\ f \in {gpt[p]} \cup Mids(m, gpt[p]) \cup Pages(m, gpt[p])
  BY UsedIs DEF UsedOf
<1> QED
  BY <1>1 DEF Removed, Mids, Pages

LEMMA StepLoses ==
  ASSUME SpaceInv, [Next]_vars, NEW f \in AllUsed
  PROVE  f \in AllUsed' \cup m'.free \/ f \in AllLeaves
<1>1. PICK role : Proper(m, gpt, areas, role)
  BY DEF SpaceInv
<1>2. PICK o \in Procs : f \in Used(o)
  BY DEF AllUsed
<1>3. gpt[o] # NULL /\ f \in UsedOf(m, gpt[o]) /\ gpt \in [Procs -> Frames \cup {NULL}]
  BY <1>1, <1>2, UsedIs DEF UsedOf, Proper
<1>4. ASSUME NEW q \in Procs, f \in UsedOf(m', gpt'[q]) PROVE f \in AllUsed'
  BY <1>4, UsedIsPrimed DEF AllUsed
<1>5. ASSUME NEW p \in Procs, NEW s, NEW S, NEW x \in Values, S # {}, S \subseteq PagesOf(s),
             Load(p, s, S, x), f \notin Leaves(o)
      PROVE  f \in AllUsed' \cup m'.free
  <2>1. PICK a, r, g : Executed(a, r, g, p, S, x, role)
    BY <1>1, <1>5, LoadStep
  <2>2. gpt' = [gpt EXCEPT ![p] = g] /\ g \in a.free /\ a \in Memory
    BY <2>1 DEF Executed, Proper, Shape
  <2>3. CASE o = p
    <3>1. f \in a.free
      BY <1>2, <1>5, <2>1, <2>3, RemovedFrames DEF Executed
    <3>2. f \in m'.free \/ f \in Occ(m', g)
      BY <2>1, <3>1 DEF Executed, Grown
    <3>3. g # NULL /\ gpt'[p] = g
      BY <1>3, <2>2, Frame DEF Memory
    <3> QED
      BY <1>4, <3>2, <3>3, OccUsed
  <2>4. CASE o # p
    <3>1. SameWalks(m, a, gpt[o]) /\ SameWalks(a, m', gpt[o]) /\ gpt'[o] = gpt[o]
      BY <1>3, <2>1, <2>2, <2>4 DEF Executed, Removed
    <3> QED
      BY <1>3, <1>4, <3>1, SameUsed
  <2> QED
    BY <2>3, <2>4
<1>6. ASSUME NEW p \in Procs, NEW q \in Procs, Fork(p, q) PROVE f \in AllUsed'
  <2>1. PICK r, g : Forked(r, g, p, q, role)
    BY <1>1, <1>6, ForkStep
  <2>2. SameWalks(m, m', gpt[o]) /\ gpt'[o] = gpt[o]
    BY <1>3, <2>1 DEF Forked
  <2> QED
    BY <1>3, <1>4, <2>2, SameUsed
<1>7. ASSUME NEW p \in Procs, Leave(p), f \notin Leaves(o) PROVE f \in AllUsed' \cup m'.free
  <2>1. Removed(m, m', gpt, p) /\ gpt' = [gpt EXCEPT ![p] = NULL]
    BY <1>1, <1>7, LeaveStep DEF Leave
  <2>2. CASE o = p
    BY <1>2, <1>7, <2>1, <2>2, RemovedFrames
  <2>3. CASE o # p
    <3>1. SameWalks(m, m', gpt[o]) /\ gpt'[o] = gpt[o]
      BY <1>3, <2>1, <2>3 DEF Removed
    <3> QED
      BY <1>3, <1>4, <3>1, SameUsed
  <2> QED
    BY <2>2, <2>3
<1>8. ASSUME NEW p \in Procs, NEW v \in VA, NEW x \in Values, Write(p, v, x) PROVE f \in AllUsed'
  <2>1. SameWalks(m, m', gpt[o]) /\ gpt' = gpt
    BY <1>1, <1>8, WriteStep DEF Write
  <2> QED
    BY <1>3, <1>4, <2>1, SameUsed
<1>9. SUFFICES ASSUME f \notin Leaves(o) PROVE f \in AllUsed' \cup m'.free
  BY DEF AllLeaves
<1>10. CASE UNCHANGED vars
  <2>1. m' = m /\ gpt' = gpt
    BY <1>10 DEF vars
  <2> QED
    BY <1>3, <1>4, <2>1
<1>11. ASSUME NEW p \in Procs, NEW l \in Layouts, NEW x \in Values, Exec(p, l, x)
       PROVE  f \in AllUsed' \cup m'.free
  BY <1>5, <1>9, <1>11, ExecLoads
<1>12. ASSUME NEW p \in Procs, NEW l \in Layouts, NEW k, NEW x \in Values, LoadPart(p, l, k, x)
       PROVE  f \in AllUsed' \cup m'.free
  BY <1>5, <1>9, <1>12, PartLoads
<1>13. CASE GiveUp
  <2>1. failed \in Procs /\ Leave(failed)
    BY <1>13 DEF GiveUp, SpaceInv
  <2> QED
    BY <1>7, <1>9, <2>1
<1>14. ASSUME NEW p \in Procs, ProcStep(p) PROVE f \in AllUsed' \cup m'.free
  BY <1>6, <1>7, <1>8, <1>9, <1>11, <1>12, <1>14 DEF ProcStep, Exit
<1> QED
  BY <1>10, <1>13, <1>14 DEF Next

\* exit and exec give back every frame that the address space had, and a load_bin
\* that gives up every frame it had taken, except the page tables of the last
\* level, which free_range forgets; no other step loses a frame (pmm.c, free_range;
\* proc.c, free_gpt and load_bin).
THEOREM OnlyLeavesLostHolds == Spec => OnlyLeavesLost
<1>1. Init => SpaceInv
  BY InitProper
<1>2. SpaceInv /\ [Next]_vars => SpaceInv'
  BY NextProper
<1>3. SpaceInv /\ [Next]_vars => [AllUsed \ AllLeaves \subseteq AllUsed' \cup m'.free]_vars
  BY StepLoses
<1> QED
  BY <1>1, <1>2, <1>3, PTL DEF Spec, OnlyLeavesLost

-----------------------------------------------------------------------------
(* The memory each process sees.                                           *)

\* What is at each address under the root g.
ViewOf(n, g) ==
  [v \in VA |-> IF g = NULL THEN NULL
                ELSE IF va2pa_mmu(n, g, v) = NULL THEN NULL ELSE n.data[va2pa_mmu(n, g, v)]]

\* The frames that were not free hold the same.
SameData(n, b) == \A f \in Frames : f \notin n.free => b.data[f] = n.data[f]

LEMMA SameView ==
  ASSUME NEW n, NEW b, NEW R, NEW role, Shape(n, R, role), NEW g \in R, SameWalks(n, b, g),
         SameData(n, b)
  PROVE  ViewOf(b, g) = ViewOf(n, g)
<1>1. ASSUME NEW w \in VA, va2pa_mmu(n, g, w) # NULL
      PROVE  b.data[va2pa_mmu(n, g, w)] = n.data[va2pa_mmu(n, g, w)]
  BY <1>1, Uses DEF SameData
<1>2. \A w \in VA : va2pa_mmu(b, g, w) = va2pa_mmu(n, g, w)
  BY DEF SameWalks
<1> QED
  BY <1>1, <1>2 DEF ViewOf

LEMMA GrownView ==
  ASSUME NEW z, NEW n, NEW R, NEW role, NEW r, NEW g, NEW S, NEW c,
         Grown(z, n, R, role, r, g, S, c), g # NULL
  PROVE  ViewOf(n, g) = [v \in VA |-> IF v \in S THEN c[v] ELSE NULL]
<1>1. \A w \in VA : /\ va2pa_mmu(n, g, w) # NULL <=> w \in S
                    /\ w \in S => n.data[va2pa_mmu(n, g, w)] = c[w]
  BY DEF Grown
<1> QED
  BY <1>1 DEF ViewOf

LEMMA NoView == ASSUME NEW n PROVE ViewOf(n, NULL) = Space!Nothing
BY DEF ViewOf, Space!Nothing

\* A process whose load_bin gives up has no vmm; the others see what is under
\* their roots.
LEMMA ViewIs ==
  ASSUME NEW p \in Procs
  PROVE  /\ View(p)  = IF p = failed THEN Space!Nothing ELSE ViewOf(m, gpt[p])
         /\ View(p)' = IF p = failed' THEN Space!Nothing ELSE ViewOf(m', gpt'[p])
<1>1. View(p) = ViewOf(m, vmm(p))
  BY DEF View, ViewOf
<1>2. View(p)' = ViewOf(m', vmm(p)')
  BY DEF View, ViewOf
<1> QED
  BY <1>1, <1>2, NoView DEF vmm

LEMMA NoneFails ==
  ASSUME NEW p \in Procs, failed = NULL, UNCHANGED failed
  PROVE  View(p) = ViewOf(m, gpt[p]) /\ View(p)' = ViewOf(m', gpt'[p])
BY ViewIs, SpaceAssumption

\* The roots are what Shape is about.
LEMMA Mapping ==
  ASSUME NEW n, NEW G, NEW A, NEW role, Proper(n, G, A, role)
  PROVE  /\ Shape(n, Roots(G), role) /\ G \in [Procs -> Frames \cup {NULL}] /\ n \in Memory
         /\ \A p \in Procs : G[p] # NULL => G[p] \in Roots(G) /\ Sound(n, G[p], A[p])
BY DEF Proper, Roots, Shape

LEMMA RemovedViews ==
  ASSUME NEW a, NEW role, Proper(m, gpt, areas, role), NEW p \in Procs, Removed(m, a, gpt, p),
         NEW q \in Procs, q # p
  PROVE  ViewOf(a, gpt[q]) = ViewOf(m, gpt[q])
<1>1. CASE gpt[q] = NULL
  BY <1>1, NoView
<1>2. CASE gpt[q] # NULL
  <2>1. SameWalks(m, a, gpt[q]) /\ SameData(m, a)
    BY <1>2 DEF Removed, Released, SameData
  <2>2. Shape(m, Roots(gpt), role) /\ gpt[q] \in Roots(gpt)
    BY <1>2, Mapping
  <2> QED
    BY <2>1, <2>2, SameView
<1> QED
  BY <1>1, <1>2

LEMMA LoadView ==
  ASSUME SpaceInv, NEW p \in Procs, NEW s, NEW S, NEW x \in Values, S # {}, S \subseteq PagesOf(s),
         Load(p, s, S, x)
  PROVE  /\ ViewOf(m', gpt'[p]) = [v \in VA |-> IF v \in S THEN x ELSE NULL]
         /\ \A q \in Procs : q # p => ViewOf(m', gpt'[q]) = ViewOf(m, gpt[q])
<1>1. PICK role : Proper(m, gpt, areas, role)
  BY DEF SpaceInv
<1>2. PICK a, r, g : Executed(a, r, g, p, S, x, role)
  BY <1>1, LoadStep
<1> DEFINE H == [gpt EXCEPT ![p] = NULL]
           c == [v \in VA |-> x]
<1>3. /\ Removed(m, a, gpt, p) /\ Proper(a, H, [areas EXCEPT ![p] = <<>>], role)
      /\ g \in a.free /\ gpt' = [gpt EXCEPT ![p] = g]
      /\ Grown(a, m', Roots(H), role, r, g, S, c)
      /\ \A q \in Procs : q # p /\ gpt[q] # NULL => SameWalks(a, m', gpt[q])
  BY <1>2 DEF Executed
<1>4. /\ gpt \in [Procs -> Frames \cup {NULL}] /\ a \in Memory /\ Shape(a, Roots(H), role)
      /\ \A q \in Procs : H[q] # NULL => H[q] \in Roots(H)
  BY <1>1, <1>3, Mapping
<1>5. g # NULL /\ gpt'[p] = g /\ \A q \in Procs : q # p => gpt'[q] = gpt[q] /\ H[q] = gpt[q]
  BY <1>3, <1>4, Frame DEF Memory
<1>6. ViewOf(m', g) = [v \in VA |-> IF v \in S THEN x ELSE NULL]
  <2>1. ViewOf(m', g) = [v \in VA |-> IF v \in S THEN c[v] ELSE NULL]
    BY <1>3, <1>5, GrownView
  <2>2. \A v \in VA : c[v] = x
    OBVIOUS
  <2> HIDE DEF c
  <2> QED
    BY <2>1, <2>2
<1> HIDE DEF H, c
<1>7. ASSUME NEW q \in Procs, q # p PROVE ViewOf(m', gpt'[q]) = ViewOf(m, gpt[q])
  <2>1. ViewOf(a, gpt[q]) = ViewOf(m, gpt[q])
    BY <1>1, <1>3, <1>7, RemovedViews
  <2>2. CASE gpt[q] = NULL
    BY <1>5, <1>7, <2>2, NoView
  <2>3. CASE gpt[q] # NULL
    <3>1. SameWalks(a, m', gpt[q]) /\ gpt[q] \in Roots(H)
      BY <1>3, <1>4, <1>5, <1>7, <2>3
    <3>2. SameData(a, m')
      BY <1>3 DEF Grown, Kept, SameData
    <3>3. ViewOf(m', gpt[q]) = ViewOf(a, gpt[q])
      BY <1>4, <3>1, <3>2, SameView
    <3> QED
      BY <1>5, <1>7, <2>1, <3>3
  <2> QED
    BY <2>2, <2>3
<1> QED
  BY <1>5, <1>6, <1>7

LEMMA ExecView ==
  ASSUME SpaceInv, failed = NULL, NEW p \in Procs, NEW l \in Layouts, NEW x \in Values,
         Exec(p, l, x)
  PROVE  Space!Exec(p)
<1>1. /\ ViewOf(m', gpt'[p]) = [v \in VA |-> IF v \in l.pages THEN x ELSE NULL]
      /\ \A q \in Procs : q # p => ViewOf(m', gpt'[q]) = ViewOf(m, gpt[q])
  BY LoadView, ExecLoads
<1>2. UNCHANGED failed
  BY DEF Exec
<1>3. /\ View(p)' = [v \in VA |-> IF v \in l.pages THEN x ELSE NULL]
      /\ \A q \in Procs : q # p => View(q)' = View(q)
  BY <1>1, <1>2, NoneFails
<1>4. l.pages \in { k.pages : k \in Layouts }
  OBVIOUS
<1>5. [q \in Procs |-> View(q)]' = [[q \in Procs |-> View(q)] EXCEPT
                                      ![p] = [v \in VA |-> IF v \in l.pages THEN x ELSE NULL]]
  BY <1>3
<1> QED
  BY <1>4, <1>5 DEF Space!Exec

\* The old memory is gone, and what has been made of the new one is not seen.
LEMMA LoadPartView ==
  ASSUME SpaceInv, failed = NULL, NEW p \in Procs, NEW l \in Layouts, NEW k, NEW x \in Values,
         LoadPart(p, l, k, x)
  PROVE  Space!Exit(p)
<1>1. \A q \in Procs : q # p => ViewOf(m', gpt'[q]) = ViewOf(m, gpt[q])
  <2> DEFINE s == SubSeq(l.areas, 1, k)
             S == Part(l, k)
  <2>1. S # {} /\ S \subseteq PagesOf(s) /\ Load(p, s, S, x)
    BY PartLoads
  <2> HIDE DEF s, S
  <2> QED
    BY <2>1, LoadView
<1>2. failed' = p /\ \A q \in Procs : q # failed
  BY SpaceAssumption DEF LoadPart
<1>3. View(p)' = Space!Nothing /\ \A q \in Procs : q # p => View(q)' = View(q)
  BY <1>1, <1>2, ViewIs
<1>4. [q \in Procs |-> View(q)]' = [[q \in Procs |-> View(q)] EXCEPT ![p] = Space!Nothing]
  BY <1>3
<1> QED
  BY <1>4 DEF Space!Exit

LEMMA LeaveView ==
  ASSUME SpaceInv, NEW p \in Procs, Leave(p)
  PROVE  /\ ViewOf(m', gpt'[p]) = Space!Nothing
         /\ \A q \in Procs : q # p => ViewOf(m', gpt'[q]) = ViewOf(m, gpt[q])
<1>1. PICK role : Proper(m, gpt, areas, role)
  BY DEF SpaceInv
<1>2. Removed(m, m', gpt, p) /\ gpt' = [gpt EXCEPT ![p] = NULL]
  BY <1>1, LeaveStep DEF Leave
<1>3. gpt'[p] = NULL /\ \A q \in Procs : q # p => gpt'[q] = gpt[q]
  BY <1>1, <1>2, Mapping
<1>4. \A q \in Procs : q # p => ViewOf(m', gpt'[q]) = ViewOf(m, gpt[q])
  BY <1>1, <1>2, <1>3, RemovedViews
<1> QED
  BY <1>3, <1>4, NoView

LEMMA ExitView ==
  ASSUME SpaceInv, failed = NULL, NEW p \in Procs, Exit(p) PROVE Space!Exit(p)
<1>1. /\ ViewOf(m', gpt'[p]) = Space!Nothing
      /\ \A q \in Procs : q # p => ViewOf(m', gpt'[q]) = ViewOf(m, gpt[q])
  BY LeaveView DEF Exit
<1>2. UNCHANGED failed
  BY DEF Exit
<1>3. View(p)' = Space!Nothing /\ \A q \in Procs : q # p => View(q)' = View(q)
  BY <1>1, <1>2, NoneFails
<1>4. [q \in Procs |-> View(q)]' = [[q \in Procs |-> View(q)] EXCEPT ![p] = Space!Nothing]
  BY <1>3
<1> QED
  BY <1>4 DEF Space!Exit

\* What a load_bin that gives up removes was not seen.
LEMMA GiveUpView ==
  ASSUME SpaceInv, GiveUp PROVE UNCHANGED [p \in Procs |-> View(p)]
<1>1. failed \in Procs /\ Leave(failed) /\ failed' = NULL
  BY DEF GiveUp, SpaceInv
<1>2. /\ ViewOf(m', gpt'[failed]) = Space!Nothing
      /\ \A q \in Procs : q # failed => ViewOf(m', gpt'[q]) = ViewOf(m, gpt[q])
  BY <1>1, LeaveView
<1>3. \A q \in Procs : q # failed'
  BY <1>1, SpaceAssumption
<1>4. \A q \in Procs : View(q)' = View(q)
  BY <1>2, <1>3, ViewIs
<1> QED
  BY <1>4

LEMMA ForkView ==
  ASSUME SpaceInv, failed = NULL, NEW p \in Procs, NEW q \in Procs, Fork(p, q) PROVE Space!Fork(p, q)
<1>1. PICK role : Proper(m, gpt, areas, role)
  BY DEF SpaceInv
<1>2. PICK r, g : Forked(r, g, p, q, role)
  BY <1>1, ForkStep
<1> DEFINE S == MappedAt(m, gpt[p])
           c == ContentOf(m, gpt[p])
<1>3. /\ g \in m.free /\ gpt' = [gpt EXCEPT ![q] = g] /\ gpt[p] # NULL /\ gpt[q] = NULL
      /\ Grown(m, m', Roots(gpt), role, r, g, S, c)
      /\ \A o \in Procs : gpt[o] # NULL => SameWalks(m, m', gpt[o])
  BY <1>2 DEF Forked
<1>4. /\ gpt \in [Procs -> Frames \cup {NULL}] /\ m \in Memory /\ Shape(m, Roots(gpt), role)
      /\ \A o \in Procs : gpt[o] # NULL => gpt[o] \in Roots(gpt) /\ Sound(m, gpt[o], areas[o])
  BY <1>1, Mapping
<1>5. g # NULL /\ gpt'[q] = g /\ \A o \in Procs : o # q => gpt'[o] = gpt[o]
  BY <1>3, <1>4, Frame DEF Memory
<1>6. ViewOf(m', g) = ViewOf(m, gpt[p])
  <2>1. ViewOf(m', g) = [v \in VA |-> IF v \in S THEN c[v] ELSE NULL]
    BY <1>3, <1>5, GrownView
  <2>2. \A v \in VA : /\ v \in S <=> va2pa_mmu(m, gpt[p], v) # NULL
                      /\ c[v] = m.data[va2pa_mmu(m, gpt[p], v)]
    BY DEF MappedAt, ContentOf
  <2> HIDE DEF S, c
  <2> QED
    BY <1>3, <2>1, <2>2 DEF ViewOf
<1>7. ASSUME NEW o \in Procs, o # q PROVE ViewOf(m', gpt'[o]) = ViewOf(m, gpt[o])
  <2>1. CASE gpt[o] = NULL
    BY <1>5, <1>7, <2>1, NoView
  <2>2. CASE gpt[o] # NULL
    <3>1. SameData(m, m')
      BY <1>3 DEF Grown, Kept, SameData
    <3>2. SameWalks(m, m', gpt[o]) /\ gpt[o] \in Roots(gpt)
      BY <1>3, <1>4, <2>2
    <3>3. ViewOf(m', gpt[o]) = ViewOf(m, gpt[o])
      BY <1>4, <3>1, <3>2, SameView
    <3> QED
      BY <1>5, <1>7, <3>3
  <2> QED
    BY <2>1, <2>2
<1>8. View(q)' = View(p) /\ \A o \in Procs : o # q => View(o)' = View(o)
  BY <1>5, <1>6, <1>7, NoneFails DEF Fork
<1>9. View(q) = Space!Nothing
  BY <1>3, NoView, NoneFails DEF Fork
<1>10. View(p) # Space!Nothing
  <2>1. PICK v \in VA : va2pa_mmu(m, gpt[p], v) # NULL
    BY <1>3, <1>4 DEF Sound, MappedAt
  <2>2. va2pa_mmu(m, gpt[p], v) \in Frames
    BY <1>3, <1>4, <2>1, Uses
  <2>3. m.data[va2pa_mmu(m, gpt[p], v)] \in Values
    BY <1>4, <2>2 DEF Memory
  <2>4. View(p)[v] \in Values
    BY <1>3, <2>1, <2>3, NoneFails DEF ViewOf, Fork
  <2>5. View(p)[v] # NULL
    BY <2>4, SpaceAssumption
  <2> QED
    BY <2>5 DEF Space!Nothing
<1>11. [o \in Procs |-> View(o)]' = [[o \in Procs |-> View(o)] EXCEPT
                                       ![q] = [o \in Procs |-> View(o)][p]]
  BY <1>8
<1> QED
  BY <1>9, <1>10, <1>11 DEF Space!Fork

LEMMA WriteView ==
  ASSUME SpaceInv, failed = NULL, NEW p \in Procs, NEW v \in VA, NEW x \in Values, Write(p, v, x)
  PROVE  Space!Write(p, v, x)
<1> DEFINE f == va2pa_mmu(m, gpt[p], v)
<1>1. PICK role : Proper(m, gpt, areas, role)
  BY DEF SpaceInv
<1>2. /\ gpt' = gpt /\ gpt[p] # NULL /\ f # NULL /\ m'.data = [m.data EXCEPT ![f] = x]
      /\ \A g : SameWalks(m, m', g)
  BY <1>1, WriteStep DEF Write
<1>3. /\ m \in Memory /\ Shape(m, Roots(gpt), role)
      /\ \A o \in Procs : gpt[o] # NULL => gpt[o] \in Roots(gpt)
      /\ \A o \in Procs : o # p => gpt[o] # gpt[p]
  <2>1. \A o \in Procs : o # p => gpt[o] # gpt[p]
    BY <1>1, <1>2 DEF Proper
  <2> QED
    BY <1>1, <2>1, Mapping
<1>4. f \in Frames /\ role[f] = <<gpt[p], 3, v>>
  BY <1>2, <1>3, Uses
<1>5. /\ m.data \in [Frames -> Values] /\ m'.data[f] = x
      /\ \A u \in Frames : u # f => m'.data[u] = m.data[u]
  BY <1>2, <1>3, <1>4 DEF Memory
<1>6. \A g, w : w \in VA => va2pa_mmu(m', g, w) = va2pa_mmu(m, g, w)
  BY <1>2 DEF SameWalks
<1>7. View(p)[v] \in Values /\ View(p)'[v] = x
  BY <1>2, <1>4, <1>5, <1>6, NoneFails DEF ViewOf, Write
<1>e. f = va2pa_mmu(m, gpt[p], v)
  OBVIOUS
<1> HIDE DEF f
<1>8. ASSUME NEW o \in Procs, gpt[o] # NULL, NEW w \in VA, o # p \/ w # v,
             va2pa_mmu(m, gpt[o], w) # NULL
      PROVE  m'.data[va2pa_mmu(m, gpt[o], w)] = m.data[va2pa_mmu(m, gpt[o], w)]
  <2>1. /\ va2pa_mmu(m, gpt[o], w) \in Frames
        /\ role[va2pa_mmu(m, gpt[o], w)] = <<gpt[o], 3, w>>
    BY <1>3, <1>8, Uses
  <2>2. va2pa_mmu(m, gpt[o], w) # f
    BY <1>3, <1>4, <1>8, <2>1
  <2> QED
    BY <1>5, <2>1, <2>2
<1>9. \A o \in Procs, w \in VA : o # p \/ w # v =>
         ViewOf(m', gpt'[o])[w] = ViewOf(m, gpt[o])[w]
  BY <1>2, <1>6, <1>8 DEF ViewOf
<1>10. \A o \in Procs : /\ View(o) = [w \in VA |-> View(o)[w]]
                        /\ View(o)' = [w \in VA |-> View(o)'[w]]
  BY DEF View
<1>11. \A o \in Procs, w \in VA : o # p \/ w # v => View(o)'[w] = View(o)[w]
  BY <1>9, NoneFails DEF Write
<1>12. \A o \in Procs : o # p => View(o)' = View(o)
  BY <1>10, <1>11
<1>13. View(p)' = [View(p) EXCEPT ![v] = x]
  BY <1>7, <1>10, <1>11
<1>14. View(p)[v] # NULL
  BY <1>7, SpaceAssumption
<1>15. [o \in Procs |-> View(o)]' = [[o \in Procs |-> View(o)] EXCEPT ![p][v] = x]
  BY <1>12, <1>13
<1> QED
  BY <1>14, <1>15 DEF Space!Write

LEMMA StepViews == ASSUME SpaceInv, [Next]_vars
                   PROVE  Space!Next \/ UNCHANGED [p \in Procs |-> View(p)]
<1>1. CASE GiveUp
  BY <1>1, GiveUpView
<1>2. CASE UNCHANGED vars
  BY <1>2, ViewIs DEF vars
<1>3. ASSUME failed = NULL, NEW p \in Procs, ProcStep(p) PROVE Space!Next
  <2>1. ASSUME NEW l \in Layouts, NEW x \in Values, Exec(p, l, x) PROVE Space!Next
    BY <1>3, <2>1, ExecView DEF Space!Next
  <2>2. ASSUME NEW l \in Layouts, NEW k, NEW x \in Values, LoadPart(p, l, k, x) PROVE Space!Next
    BY <1>3, <2>2, LoadPartView DEF Space!Next
  <2>3. ASSUME NEW q \in Procs, Fork(p, q) PROVE Space!Next
    BY <1>3, <2>3, ForkView DEF Space!Next
  <2>4. CASE Exit(p)
    BY <1>3, <2>4, ExitView DEF Space!Next
  <2>5. ASSUME NEW v \in VA, NEW x \in Values, Write(p, v, x) PROVE Space!Next
    BY <1>3, <2>5, WriteView DEF Space!Next
  <2> QED
    BY <1>3, <2>1, <2>2, <2>3, <2>4, <2>5 DEF ProcStep
<1> QED
  BY <1>1, <1>2, <1>3 DEF Next

LEMMA InitViews == ASSUME Init PROVE Space!Init
<1>1. \A p \in Procs : View(p) = Space!Nothing
  BY NoView, ViewIs, SpaceAssumption DEF Init
<1> QED
  BY <1>1 DEF Space!Init

\* Through page tables, frames, copies and frees each process sees a memory of
\* its own: exec replaces it, or removes it if load_bin gives up, fork copies it,
\* exit removes it, and a write is seen by no other process (SpaceSpec;
\* copy_range, load_bin and del_vmas).
THEOREM KeepsSpaceSpecHolds == Spec => KeepsSpaceSpec
<1>1. Init => SpaceInv /\ Space!Init
  BY InitProper, InitViews
<1>2. SpaceInv /\ [Next]_vars => SpaceInv'
  BY NextProper
<1>3. SpaceInv /\ [Next]_vars => [Space!Next]_([p \in Procs |-> View(p)])
  BY StepViews
<1> QED
  BY <1>1, <1>2, <1>3, PTL DEF Spec, KeepsSpaceSpec, Space!Spec
=============================================================================
