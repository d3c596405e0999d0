--------------------------- MODULE BestFitProofs ---------------------------
(***************************************************************************)
(* The free list of best_fit_pmm.c, for every number of pages: what each   *)
(* operation of BestFit.tla keeps, and which step of PageSpec it is.       *)
(* MemBootProofs draws the conclusions for the start of the kernel.        *)
(***************************************************************************)
EXTENDS BestFit, FiniteSetTheorems, SequenceTheorems, TLAPS

\* What the constants must be: there is a page, and NULL is no page and no list.
PmmConstants ==
  /\ NumPages \in Nat \ {0}
  /\ NULL \notin Pages
  /\ NULL \notin [list : Seq(Pages), num_free : 0 .. NumPages]

\* The invariant: what is lost is held by nobody, so that it never comes back.
PmmInv == ListExact /\ used \cap lost = {}

-----------------------------------------------------------------------------
(* Facts about numbers and sequences.                                      *)

\* Every set of natural numbers has a least element: induction in a form that
\* needs no operator as a parameter.
LEMMA Least == ASSUME NEW S, S \subseteq Nat, S # {}
               PROVE  \E m \in S : \A k \in S : m <= k
<1> DEFINE R == StrictSubsetOrdering(Nat)
           T == { 0 .. k : k \in S }
<1>1. IsWellFoundedOn(R, FiniteSubsetsOf(Nat))
  BY FS_StrictSubsetOrderingWellFounded, Zenon
<1>2. T \subseteq FiniteSubsetsOf(Nat)
  <2>1. \A k \in S : IsFiniteSet(0 .. k) /\ 0 .. k \subseteq Nat
    BY FS_Interval
  <2> QED
    BY <2>1, Zenon DEF FiniteSubsetsOf
<1>3. T # {}
  OBVIOUS
<1>4. PICK x \in T : \A y \in T : ~(<<y, x>> \in R)
  <2> HIDE DEF R, T
  <2> QED
    BY <1>1, <1>2, <1>3, WFMin, Zenon
<1>5. PICK m \in S : x = 0 .. m
  OBVIOUS
<1>6. ASSUME NEW k \in S, k < m PROVE FALSE
  <2>1. 0 .. k \subseteq 0 .. m /\ 0 .. k # 0 .. m
    BY <1>6
  <2>2. <<0 .. k, 0 .. m>> \in R
    BY <2>1 DEF StrictSubsetOrdering
  <2> QED
    BY <1>4, <1>5, <2>2
<1> QED
  BY <1>6

\* What is where in a list of which the positions i .. j are replaced by s.
LEMMA SpliceProperties ==
  ASSUME NEW S, list \in Seq(S), NEW s \in Seq(S),
         NEW i \in 1 .. Len(list) + 1, NEW j \in i - 1 .. Len(list)
  PROVE  /\ Splice(i, j, s) \in Seq(S)
         /\ Len(Splice(i, j, s)) = i - 1 + Len(s) + Len(list) - j
         /\ \A m \in 1 .. i - 1 : Splice(i, j, s)[m] = list[m]
         /\ \A m \in 1 .. Len(s) : Splice(i, j, s)[i - 1 + m] = s[m]
         /\ \A m \in j + 1 .. Len(list) : Splice(i, j, s)[m - j + i - 1 + Len(s)] = list[m]
<1> DEFINE a == SubSeq(list, 1, i - 1)
           b == SubSeq(list, j + 1, Len(list))
           n == Len(list)
<1>1. n \in Nat /\ i \in Int /\ j \in Int /\ \A m \in 1 .. n : list[m] \in S
  OBVIOUS
<1>2. a \in Seq(S) /\ Len(a) = i - 1 /\ \A m \in 1 .. i - 1 : a[m] = list[m]
  <2>1. \A m \in 1 .. i - 1 : list[m] \in S
    BY <1>1
  <2> QED
    BY <1>1, <2>1, SubSeqProperties
<1>3. b \in Seq(S) /\ Len(b) = n - j /\ \A m \in 1 .. n - j : b[m] = list[j + m]
  <2>1. \A m \in j + 1 .. n : list[m] \in S
    BY <1>1
  <2>2. b \in Seq(S)
    BY <1>1, <2>1, SubSeqProperties
  <2>3. Len(b) = IF j + 1 <= n THEN n - (j + 1) + 1 ELSE 0
    BY <1>1, <2>1, SubSeqProperties
  <2>4. \A m \in 1 .. n - (j + 1) + 1 : b[m] = list[(j + 1) + m - 1]
    BY <1>1, <2>1, SubSeqProperties
  <2> HIDE DEF b
  <2> QED
    BY <1>1, <2>2, <2>3, <2>4
<1> HIDE DEF a, b
<1>4. /\ a \o s \in Seq(S) /\ Len(a \o s) = i - 1 + Len(s)
      /\ \A m \in 1 .. i - 1 : (a \o s)[m] = list[m]
      /\ \A m \in 1 .. Len(s) : (a \o s)[i - 1 + m] = s[m]
  <2>1. /\ a \o s \in Seq(S) /\ Len(a \o s) = Len(a) + Len(s)
        /\ \A m \in 1 .. Len(a) + Len(s) :
             (a \o s)[m] = IF m <= Len(a) THEN a[m] ELSE s[m - Len(a)]
    BY <1>2, ConcatProperties
  <2>2. Len(s) \in Nat
    OBVIOUS
  <2> QED
    BY <1>1, <1>2, <2>1, <2>2
<1> DEFINE c == a \o s
<1>5. Splice(i, j, s) = c \o b
  BY DEF Splice, a, b
<1>c. /\ c \in Seq(S) /\ Len(c) = i - 1 + Len(s) /\ Len(s) \in Nat
      /\ \A m \in 1 .. i - 1 : c[m] = list[m]
      /\ \A m \in 1 .. Len(s) : c[i - 1 + m] = s[m]
  BY <1>4
<1> HIDE DEF c, n
<1>6. /\ c \o b \in Seq(S) /\ Len(c \o b) = Len(c) + Len(b)
      /\ \A m \in 1 .. Len(c) + Len(b) : (c \o b)[m] = IF m <= Len(c) THEN c[m] ELSE b[m - Len(c)]
  <2>1. b \in Seq(S) /\ c \in Seq(S)
    BY <1>3, <1>c
  <2> QED
    BY <2>1, ConcatProperties, Zenon
<1>7. \A m \in 1 .. Len(c) : (c \o b)[m] = c[m]
  BY <1>1, <1>3, <1>c, <1>6
<1>8. \A m \in 1 .. Len(b) : (c \o b)[Len(c) + m] = b[m]
  <2> TAKE m \in 1 .. Len(b)
  <2>1. Len(c) \in Nat /\ Len(b) \in Nat
    BY <1>1, <1>3, <1>c
  <2>2. Len(c) + m \in 1 .. Len(c) + Len(b) /\ ~(Len(c) + m <= Len(c)) /\ Len(c) + m - Len(c) = m
    BY <2>1
  <2> QED
    BY <1>6, <2>2
<1>9. \A m \in 1 .. i - 1 : (c \o b)[m] = list[m]
  BY <1>1, <1>c, <1>7
<1>10. \A m \in 1 .. Len(s) : (c \o b)[i - 1 + m] = s[m]
  BY <1>1, <1>c, <1>7
<1>11. \A m \in j + 1 .. n : (c \o b)[m - j + i - 1 + Len(s)] = list[m]
  <2> TAKE m \in j + 1 .. n
  <2>1. m - j \in 1 .. Len(b) /\ Len(c) + (m - j) = m - j + i - 1 + Len(s) /\ j + (m - j) = m
    BY <1>1, <1>3, <1>c
  <2> QED
    BY <1>3, <1>8, <2>1
<1>12. Len(c) + Len(b) = i - 1 + Len(s) + n - j
  BY <1>1, <1>3, <1>c
<1> QED
  BY <1>5, <1>6, <1>9, <1>10, <1>11, <1>12 DEF n

-----------------------------------------------------------------------------
(* Free blocks as a set B, with P giving their lengths.                    *)

Cov(B, P)   == { p \in Int : \E b \in B : b <= p /\ p < b + P[b] }
Apart(B, P) == \A a, b \in B : a < b => a + P[a] < b
Lengths(B, P) == \A b \in B : b \in Int /\ P[b] \in Int /\ P[b] > 0
MergedIn(l, P) == \A i \in 2 .. Len(l) : l[i - 1] + P[l[i - 1]] < l[i]
Ordered(l)  == \A i, j \in 1 .. Len(l) : i < j => l[i] < l[j]

\* The pages of blocks are those between their bounds.
LEMMA CovRuns == ASSUME NEW B, NEW P, \A b \in B : b \in Int /\ P[b] \in Int
                 PROVE  UNION { Run(b, P[b]) : b \in B } = Cov(B, P)
<1>1. \A b \in B : Run(b, P[b]) = { p \in Int : b <= p /\ p < b + P[b] }
  BY DEF Run
<1> QED
  BY <1>1 DEF Cov

\* The blocks C are what is left of the blocks B without the first n pages of a.
Cut(B, P, a, n, C, Q) ==
  /\ Lengths(B, P) /\ Apart(B, P)
  /\ a \in B /\ n \in Nat \ {0} /\ n <= P[a]
  /\ C = (B \ {a}) \cup (IF P[a] - n > 0 THEN {a + n} ELSE {})
  /\ \A c \in C : Q[c] = IF c = a + n /\ P[a] - n > 0 THEN P[a] - n ELSE P[c]

\* alloc_pages cuts n pages off the front of the block a.
LEMMA AllocCov ==
  ASSUME NEW B, NEW P, NEW a, NEW n, NEW C, NEW Q, Cut(B, P, a, n, C, Q)
  PROVE  /\ Lengths(C, Q) /\ Apart(C, Q)
         /\ Cov(C, Q) = Cov(B, P) \ Run(a, n)
<1> USE DEF Cut
<1>1. a \in Int /\ P[a] \in Int /\ n \in Int /\ n > 0
  BY DEF Lengths
<1>2. \A b \in B : b # a => b + P[b] < a \/ a + P[a] < b
  BY DEF Lengths, Apart
<1>3. CASE P[a] - n > 0
  <2>1. C = (B \ {a}) \cup {a + n}
    BY <1>3
  <2>2. a + n \notin B
    BY <1>1, <1>2, <1>3 DEF Lengths
  <2>3. Q[a + n] = P[a] - n /\ \A b \in B \ {a} : Q[b] = P[b]
    BY <1>3, <2>1, <2>2
  <2>4. Lengths(C, Q)
    BY <1>1, <1>3, <2>1, <2>3 DEF Lengths
  <2>5. Apart(C, Q)
    BY <1>1, <1>2, <1>3, <2>1, <2>3 DEF Apart, Lengths
  <2>6. \A p \in Int : p \in Cov(C, Q) <=> p \in Cov(B, P) /\ ~(a <= p /\ p < a + n)
    <3> TAKE p \in Int
    <3>1. p \in Cov(C, Q) <=> (\E b \in B \ {a} : b <= p /\ p < b + P[b]) \/ (a + n <= p /\ p < a + n + (P[a] - n))
      BY <2>1, <2>3 DEF Cov
    <3>2. p \in Cov(B, P) <=> (\E b \in B \ {a} : b <= p /\ p < b + P[b]) \/ (a <= p /\ p < a + P[a])
      BY DEF Cov
    <3>3. ASSUME NEW b \in B \ {a}, b <= p, p < b + P[b] PROVE ~(a <= p /\ p < a + n)
      BY <1>1, <1>2, <3>3 DEF Lengths
    <3> QED
      BY <1>1, <3>1, <3>2, <3>3
  <2> QED
    BY <1>1, <2>4, <2>5, <2>6 DEF Cov, Run
<1>4. CASE ~(P[a] - n > 0)
  <2>1. C = B \ {a} /\ P[a] = n /\ \A b \in C : Q[b] = P[b]
    BY <1>1, <1>4
  <2>2. Lengths(C, Q) /\ Apart(C, Q)
    BY <2>1 DEF Lengths, Apart
  <2>3. \A p \in Int : p \in Cov(C, Q) <=> p \in Cov(B, P) /\ ~(a <= p /\ p < a + n)
    <3> TAKE p \in Int
    <3>1. p \in Cov(C, Q) <=> (\E b \in B \ {a} : b <= p /\ p < b + P[b])
      BY <2>1 DEF Cov
    <3>2. p \in Cov(B, P) <=> (\E b \in B \ {a} : b <= p /\ p < b + P[b]) \/ (a <= p /\ p < a + n)
      BY <2>1 DEF Cov
    <3>3. ASSUME NEW b \in B \ {a}, b <= p, p < b + P[b] PROVE ~(a <= p /\ p < a + n)
      BY <1>1, <1>2, <2>1, <3>3 DEF Lengths
    <3> QED
      BY <3>1, <3>2, <3>3
  <2> QED
    BY <1>1, <2>2, <2>3 DEF Cov, Run
<1> QED
  BY <1>3, <1>4

\* The blocks C are the blocks B with the n pages from b, joined with the block a
\* before them if prev, and with the block behind them if there is one; base is the
\* block they are in now.
Joined(B, P, b, n, prev, a, base, C, Q) ==
  /\ Lengths(B, P) /\ Apart(B, P)
  /\ b \in Int /\ n \in Nat \ {0} /\ Run(b, n) \cap Cov(B, P) = {}
  /\ prev \in BOOLEAN
  /\ IF prev THEN a \in B /\ a + P[a] = b ELSE \A c \in B : c + P[c] # b
  /\ C = (B \cup {b}) \ ((IF prev THEN {b} ELSE {}) \cup (IF b + n \in B THEN {b + n} ELSE {}))
  /\ base = IF prev THEN a ELSE b
  /\ \A c \in C : Q[c] = IF c = base THEN n + (IF prev THEN P[a] ELSE 0)
                                          + (IF b + n \in B THEN P[b + n] ELSE 0)
                         ELSE P[c]

\* free_pages puts the n pages from b back.
LEMMA FreeCov ==
  ASSUME NEW B, NEW P, NEW b, NEW n, NEW prev, NEW a, NEW base, NEW C, NEW Q,
         Joined(B, P, b, n, prev, a, base, C, Q)
  PROVE  /\ Lengths(C, Q) /\ Apart(C, Q) /\ base \in C
         /\ Cov(C, Q) = Cov(B, P) \cup Run(b, n)
<1> USE DEF Joined
<1> DEFINE more == IF b + n \in B THEN P[b + n] ELSE 0
           less == IF prev THEN P[a] ELSE 0
<1>1. /\ n \in Int /\ n > 0 /\ more \in Int /\ more >= 0 /\ less \in Int /\ less >= 0
      /\ base \in Int /\ base + less = b
  BY DEF Lengths
<1>2. \A c \in B : c + P[c] <= b \/ b + n <= c
  <2> TAKE c \in B
  <2>1. c \in Int /\ P[c] \in Int /\ P[c] > 0
    BY DEF Lengths
  <2>2. ASSUME c + P[c] > b, c < b + n PROVE FALSE
    <3> DEFINE p == IF c <= b THEN b ELSE c
    <3>1. p \in Int /\ c <= p /\ p < c + P[c] /\ b <= p /\ p <= b + n - 1
      BY <1>1, <2>1, <2>2
    <3> HIDE DEF p
    <3>2. p \in Cov(B, P) /\ p \in Run(b, n)
      BY <1>1, <3>1 DEF Cov, Run
    <3> QED
      BY <3>2
  <2> QED
    BY <1>1, <2>1, <2>2
<1>3. b \notin B /\ b # b + n /\ base # b + n /\ (prev => a # b)
  BY <1>1, <1>2 DEF Lengths
<1>4. /\ base \in C
      /\ \A c \in B : c # base /\ c # b + n => c \in C
      /\ \A c \in C : c = base \/ (c \in B /\ c # b + n)
  <2>1. CASE prev
    BY <1>3, <2>1
  <2>2. CASE ~prev
    BY <1>3, <2>2
  <2> QED
    BY <2>1, <2>2
<1>5. Q[base] = n + less + more /\ \A c \in C : c # base => Q[c] = P[c]
  BY <1>4
<1>6. \A c \in B : c # base /\ c # b + n => c + P[c] < base \/ base + (n + less + more) < c
  <2> TAKE c \in B
  <2> HAVE c # base /\ c # b + n
  <2>1. c \in Int /\ P[c] \in Int /\ P[c] > 0
    BY DEF Lengths
  <2>2. CASE c + P[c] <= b
    <3>1. CASE prev
      <4>1. a \in B /\ a + P[a] = b /\ a \in Int /\ P[a] \in Int /\ P[a] > 0 /\ base = a /\ a # c
        BY <3>1 DEF Lengths
      <4>2. c < a => c + P[c] < a
        BY <4>1 DEF Apart
      <4>3. a < c => a + P[a] < c
        BY <4>1 DEF Apart
      <4> QED
        BY <2>1, <2>2, <4>1, <4>2, <4>3
    <3>2. CASE ~prev
      BY <2>1, <2>2, <3>2
    <3> QED
      BY <3>1, <3>2
  <2>3. CASE b + n <= c
    <3>1. CASE b + n \in B
      <4>1. P[b + n] \in Int /\ P[b + n] > 0 /\ more = P[b + n]
        BY <3>1 DEF Lengths
      <4>2. b + n < c => b + n + P[b + n] < c
        BY <3>1 DEF Apart
      <4> QED
        BY <1>1, <2>1, <2>3, <4>1, <4>2
    <3>2. CASE b + n \notin B
      <4>1. more = 0 /\ b + n # c
        BY <3>2
      <4> QED
        BY <1>1, <2>1, <2>3, <4>1
    <3> QED
      BY <3>1, <3>2
  <2> QED
    BY <1>2, <2>2, <2>3
<1> DEFINE total == n + less + more
<1>7. total \in Int /\ total > 0 /\ Q[base] = total
  BY <1>1, <1>5
<1>8. \A c \in B : c # base /\ c # b + n => c + P[c] < base \/ base + total < c
  BY <1>6
<1>9. base + total = b + n + more
  BY <1>1
<1> HIDE DEF total
<1>10. Lengths(C, Q)
  BY <1>1, <1>4, <1>5, <1>7 DEF Lengths
<1>11. Apart(C, Q)
  <2> SUFFICES ASSUME NEW c \in C, NEW d \in C, c < d PROVE c + Q[c] < d
    BY DEF Apart
  <2>1. c \in Int /\ d \in Int /\ Q[c] \in Int /\ Q[d] \in Int /\ Q[c] > 0 /\ Q[d] > 0
    BY <1>10 DEF Lengths
  <2>2. CASE c = base
    BY <1>1, <1>4, <1>5, <1>7, <1>8, <2>1, <2>2
  <2>3. CASE d = base
    BY <1>1, <1>4, <1>5, <1>7, <1>8, <2>1, <2>3
  <2>4. CASE c # base /\ d # base
    BY <1>4, <1>5, <2>4 DEF Apart
  <2> QED
    BY <2>2, <2>3, <2>4
<1>12. \A p \in Int : p \in Cov(C, Q) <=> p \in Cov(B, P) \/ (b <= p /\ p < b + n)
  <2> TAKE p \in Int
  <2>1. p \in Cov(C, Q) <=> \/ base <= p /\ p < base + total
                            \/ \E c \in B : c # base /\ c # b + n /\ c <= p /\ p < c + P[c]
    BY <1>3, <1>4, <1>5, <1>7 DEF Cov
  <2>2. p \in Cov(B, P) <=> \/ prev /\ base <= p /\ p < b
                            \/ b + n \in B /\ b + n <= p /\ p < b + n + more
                            \/ \E c \in B : c # base /\ c # b + n /\ c <= p /\ p < c + P[c]
    <3> DEFINE T == { c \in B : c <= p /\ p < c + P[c] }
               y == b + n
    <3>1. p \in Cov(B, P) <=> \E c \in T : TRUE
      BY DEF Cov
    <3>2. base \in T <=> prev /\ base <= p /\ p < b
      BY <1>3
    <3>3. y \in T <=> b + n \in B /\ b + n <= p /\ p < b + n + more
      OBVIOUS
    <3>4. (\E c \in T : c # base /\ c # y)
            <=> \E c \in B : c # base /\ c # b + n /\ c <= p /\ p < c + P[c]
      OBVIOUS
    <3> HIDE DEF T, y, more
    <3>5. (\E c \in T : TRUE) <=> base \in T \/ y \in T \/ \E c \in T : c # base /\ c # y
      BY Zenon
    <3> QED
      BY <3>1, <3>2, <3>3, <3>4, <3>5, Zenon
  <2>3. base <= p /\ p < base + total <=> \/ base <= p /\ p < b
                                          \/ b <= p /\ p < b + n
                                          \/ b + n <= p /\ p < b + n + more
    BY <1>1, <1>9
  <2>4. ~prev => ~(base <= p /\ p < b)
    BY <1>1
  <2>5. b + n \notin B => ~(b + n <= p /\ p < b + n + more)
    BY <1>1
  <2> HIDE DEF more
  <2> QED
    BY <2>1, <2>2, <2>3, <2>4, <2>5, Zenon
<1> QED
  BY <1>1, <1>4, <1>10, <1>11, <1>12 DEF Cov, Run

-----------------------------------------------------------------------------
(* The list: its order, and what the two operations do to it.              *)

\* A list whose neighbours are in order and apart is so as a whole.
LEMMA MergedOrdered ==
  ASSUME NEW l, l \in Seq(Int), NEW P, Lengths(Blocks(l), P)
  PROVE  MergedIn(l, P) <=> Ordered(l) /\ Apart(Blocks(l), P)
<1> DEFINE n == Len(l)
<1>1. n \in Nat /\ \A i \in 1 .. n : l[i] \in Int /\ l[i] \in Blocks(l)
  BY DEF Blocks
<1>2. \A i \in 1 .. n : P[l[i]] \in Int /\ P[l[i]] > 0
  BY <1>1 DEF Lengths
<1>3. ASSUME MergedIn(l, P), NEW i \in 1 .. n, NEW j \in 1 .. n, i < j
      PROVE  l[i] + P[l[i]] < l[j]
  <2> DEFINE S == { k \in 1 .. n : i < k /\ ~(l[i] + P[l[i]] < l[k]) }
  <2>1. SUFFICES ASSUME S # {} PROVE FALSE
    BY <1>3
  <2>2. S \subseteq Nat
    OBVIOUS
  <2>3. PICK k \in S : \A h \in S : k <= h
    <3> HIDE DEF S
    <3> QED
      BY <2>1, <2>2, Least
  <2>4. k \in 1 .. n /\ i < k /\ ~(l[i] + P[l[i]] < l[k]) /\ k \in 2 .. n
    OBVIOUS
  <2>5. l[k - 1] + P[l[k - 1]] < l[k]
    BY <1>3, <2>4 DEF MergedIn
  <2>6. k - 1 # i
    BY <2>4, <2>5
  <2>7. k - 1 \in 1 .. n /\ i < k - 1 /\ k - 1 \notin S
    BY <2>3, <2>4, <2>6
  <2>8. l[i] + P[l[i]] < l[k - 1]
    BY <2>7
  <2>9. /\ l[i] \in Int /\ l[k] \in Int /\ l[k - 1] \in Int
        /\ P[l[i]] \in Int /\ P[l[k - 1]] \in Int /\ P[l[k - 1]] > 0
    BY <1>1, <1>2, <2>4, <2>7
  <2> QED
    BY <2>4, <2>5, <2>8, <2>9
<1>4. MergedIn(l, P) => Ordered(l)
  BY <1>1, <1>2, <1>3 DEF Ordered
<1>5. ASSUME MergedIn(l, P) PROVE Apart(Blocks(l), P)
  <2> SUFFICES ASSUME NEW a \in Blocks(l), NEW b \in Blocks(l), a < b
               PROVE  a + P[a] < b
    BY DEF Apart
  <2>1. PICK i \in 1 .. n : a = l[i]
    BY DEF Blocks
  <2>2. PICK j \in 1 .. n : b = l[j]
    BY DEF Blocks
  <2>3. i < j
    BY <1>1, <1>2, <1>3, <1>5, <2>1, <2>2
  <2> QED
    BY <1>3, <1>5, <2>1, <2>2, <2>3
<1>6. ASSUME Ordered(l), Apart(Blocks(l), P) PROVE MergedIn(l, P)
  <2> SUFFICES ASSUME NEW i \in 2 .. n PROVE l[i - 1] + P[l[i - 1]] < l[i]
    BY DEF MergedIn
  <2>1. i \in 1 .. n /\ i - 1 \in 1 .. n /\ i - 1 < i
    BY <1>1
  <2>2. l[i - 1] < l[i]
    BY <1>6, <2>1 DEF Ordered
  <2> QED
    BY <1>1, <1>6, <2>1, <2>2 DEF Apart
<1> QED
  BY <1>4, <1>5, <1>6

\* One block in the place of the positions i .. j, between its neighbours.
LEMMA SpliceOne ==
  ASSUME list \in Seq(Pages), Ordered(list), NEW x \in Pages, NumPages \in Nat,
         NEW i \in 1 .. Len(list) + 1, NEW j \in i - 1 .. Len(list),
         \A m \in 1 .. i - 1 : list[m] < x,
         \A m \in j + 1 .. Len(list) : x < list[m]
  PROVE  /\ Splice(i, j, <<x>>) \in Seq(Pages) /\ Ordered(Splice(i, j, <<x>>))
         /\ Blocks(Splice(i, j, <<x>>)) =
              { list[m] : m \in 1 .. i - 1 } \cup {x} \cup { list[m] : m \in j + 1 .. Len(list) }
<1> DEFINE n == Len(list)
           l == Splice(i, j, <<x>>)
<1>1. /\ n \in Nat /\ i \in Int /\ j \in Int /\ i >= 1 /\ i - 1 <= j /\ j <= n
      /\ \A m \in 1 .. n : list[m] \in Int
  BY DEF Pages
<1>2. <<x>> \in Seq(Pages) /\ Len(<<x>>) = 1 /\ <<x>>[1] = x /\ x \in Int
  BY DEF Pages
<1>3. /\ l \in Seq(Pages) /\ Len(l) = i - 1 + 1 + n - j
      /\ \A m \in 1 .. i - 1 : l[m] = list[m]
      /\ \A m \in 1 .. 1 : l[i - 1 + m] = <<x>>[m]
      /\ \A m \in j + 1 .. n : l[m - j + i - 1 + 1] = list[m]
  BY <1>2, SpliceProperties
<1>4. Len(l) = i + n - j /\ l[i] = x
  <2>1. l[i - 1 + 1] = x /\ i - 1 + 1 = i
    BY <1>1, <1>2, <1>3
  <2> QED
    BY <1>1, <1>3, <2>1
<1>5. \A m \in 1 .. i + n - j : m > i => m - i + j \in j + 1 .. n /\ l[m] = list[m - i + j]
  <2> TAKE m \in 1 .. i + n - j
  <2> HAVE m > i
  <2>1. m - i + j \in j + 1 .. n /\ (m - i + j) - j + i - 1 + 1 = m
    BY <1>1
  <2> QED
    BY <1>3, <2>1
<1>6. \A m \in 1 .. i + n - j : m < i => m \in 1 .. i - 1 /\ l[m] = list[m]
  BY <1>1, <1>3
<1>7. \A m \in j + 1 .. n : m - j + i \in 1 .. i + n - j /\ l[m - j + i] = list[m]
  <2> TAKE m \in j + 1 .. n
  <2>1. m - j + i - 1 + 1 = m - j + i /\ m - j + i \in 1 .. i + n - j
    BY <1>1
  <2> QED
    BY <1>3, <2>1
<1>8. i \in 1 .. i + n - j /\ \A m \in 1 .. i - 1 : m \in 1 .. i + n - j
  BY <1>1
<1>9. l \in Seq(Pages)
  BY <1>3
<1>a. \A m \in 1 .. i - 1 : l[m] = list[m]
  BY <1>3
<1> HIDE DEF l
<1>10. Ordered(l)
  <2> SUFFICES ASSUME NEW a \in 1 .. i + n - j, NEW b \in 1 .. i + n - j, a < b
               PROVE  l[a] < l[b]
    BY <1>4 DEF Ordered
  <2>0. \A p, q \in 1 .. n : p < q => list[p] < list[q]
    BY DEF Ordered
  <2>1. CASE b < i
    BY <1>1, <1>6, <2>0, <2>1
  <2>2. CASE b = i
    BY <1>4, <1>6, <2>2
  <2>3. CASE b > i /\ a = i
    BY <1>4, <1>5, <2>3
  <2>4. CASE b > i /\ a < i
    <3>1. a \in 1 .. i - 1 /\ l[a] = list[a] /\ list[a] < x /\ list[a] \in Int
      BY <1>1, <1>6, <2>4
    <3>2. b - i + j \in j + 1 .. n /\ l[b] = list[b - i + j]
      BY <1>5, <2>4
    <3>3. x < list[b - i + j] /\ list[b - i + j] \in Int
      BY <1>1, <3>2
    <3> QED
      BY <1>2, <3>1, <3>2, <3>3
  <2>5. CASE b > i /\ a > i
    <3>1. a - i + j \in 1 .. n /\ b - i + j \in 1 .. n /\ a - i + j < b - i + j
      BY <1>1, <1>5, <2>5
    <3> QED
      BY <1>5, <2>0, <2>5, <3>1
  <2> QED
    BY <1>1, <2>1, <2>2, <2>3, <2>4, <2>5
<1>11. Blocks(l) = { list[m] : m \in 1 .. i - 1 } \cup {x} \cup { list[m] : m \in j + 1 .. n }
  <2>1. Blocks(l) = { l[m] : m \in 1 .. i + n - j }
    BY <1>4 DEF Blocks
  <2>2. ASSUME NEW m \in 1 .. i + n - j
        PROVE  l[m] \in { list[h] : h \in 1 .. i - 1 } \cup {x} \cup { list[h] : h \in j + 1 .. n }
    <3>1. m < i \/ m = i \/ m > i
      BY <1>1
    <3>2. CASE m < i
      BY <1>6, <3>2
    <3>3. CASE m = i
      BY <1>4, <3>3
    <3>4. CASE m > i
      BY <1>5, <3>4
    <3> QED
      BY <3>1, <3>2, <3>3, <3>4
  <2>3. \A m \in 1 .. i - 1 : list[m] \in { l[h] : h \in 1 .. i + n - j }
    BY <1>8, <1>a
  <2>4. x \in { l[h] : h \in 1 .. i + n - j }
    BY <1>4, <1>8
  <2>5. \A m \in j + 1 .. n : list[m] \in { l[h] : h \in 1 .. i + n - j }
    BY <1>7
  <2> QED
    BY <2>1, <2>2, <2>3, <2>4, <2>5
<1> QED
  BY <1>9, <1>10, <1>11 DEF l

\* The block at position i leaves the list.
LEMMA SpliceNone ==
  ASSUME list \in Seq(Pages), Ordered(list), NumPages \in Nat, NEW i \in 1 .. Len(list)
  PROVE  /\ Splice(i, i, <<>>) \in Seq(Pages) /\ Ordered(Splice(i, i, <<>>))
         /\ Blocks(Splice(i, i, <<>>)) = Blocks(list) \ {list[i]}
<1> DEFINE n == Len(list)
           e == <<>>
           l == Splice(i, i, e)
<1>1. n \in Nat /\ \A m \in 1 .. n : list[m] \in Int
  BY DEF Pages
<1>2. e \in Seq(Pages) /\ Len(e) = 0 /\ i \in 1 .. n + 1 /\ i \in i - 1 .. n
  BY <1>1
<1> HIDE DEF e
<1>3. /\ l \in Seq(Pages) /\ Len(l) = i - 1 + 0 + n - i
      /\ \A m \in 1 .. i - 1 : l[m] = list[m]
      /\ \A m \in i + 1 .. n : l[m - i + i - 1 + 0] = list[m]
  <2>1. /\ l \in Seq(Pages) /\ Len(l) = i - 1 + Len(e) + n - i
        /\ \A m \in 1 .. i - 1 : l[m] = list[m]
        /\ \A m \in i + 1 .. n : l[m - i + i - 1 + Len(e)] = list[m]
    <3>1. ASSUME NEW h \in 1 .. Len(list) + 1, NEW j \in h - 1 .. Len(list), NEW s \in Seq(Pages)
          PROVE  /\ Splice(h, j, s) \in Seq(Pages)
                 /\ Len(Splice(h, j, s)) = h - 1 + Len(s) + Len(list) - j
                 /\ \A m \in 1 .. h - 1 : Splice(h, j, s)[m] = list[m]
                 /\ \A m \in j + 1 .. Len(list) : Splice(h, j, s)[m - j + h - 1 + Len(s)] = list[m]
      BY SpliceProperties
    <3>2. i \in 1 .. Len(list) + 1 /\ i \in i - 1 .. Len(list) /\ e \in Seq(Pages)
      BY <1>2
    <3>3. /\ Splice(i, i, e) \in Seq(Pages)
          /\ Len(Splice(i, i, e)) = i - 1 + Len(e) + Len(list) - i
      BY <3>1, <3>2
    <3>4. \A m \in 1 .. i - 1 : Splice(i, i, e)[m] = list[m]
      BY <3>1, <3>2
    <3>5. \A m \in i + 1 .. Len(list) : Splice(i, i, e)[m - i + i - 1 + Len(e)] = list[m]
      BY <3>1, <3>2
    <3> QED
      BY <3>3, <3>4, <3>5
  <2> QED
    BY <1>2, <2>1
<1>4. Len(l) = n - 1
  BY <1>1, <1>3
<1>5. \A m \in 1 .. n - 1 : m >= i => l[m] = list[m + 1]
  <2> TAKE m \in 1 .. n - 1
  <2> HAVE m >= i
  <2>1. m + 1 \in i + 1 .. n /\ (m + 1) - i + i - 1 + 0 = m
    BY <1>1
  <2> QED
    BY <1>3, <2>1
<1>6. \A m \in 1 .. n - 1 : m < i => l[m] = list[m]
  BY <1>1, <1>3
<1>7. l \in Seq(Pages)
  BY <1>3
<1>8. \A p, q \in 1 .. n : p < q => list[p] < list[q]
  BY DEF Ordered
<1> HIDE DEF l
<1>9. Ordered(l)
  <2> SUFFICES ASSUME NEW a \in 1 .. n - 1, NEW b \in 1 .. n - 1, a < b
               PROVE  l[a] < l[b]
    BY <1>4 DEF Ordered
  <2>1. /\ a \in 1 .. n /\ b \in 1 .. n /\ a + 1 \in 1 .. n /\ b + 1 \in 1 .. n
        /\ a < b + 1 /\ a + 1 < b + 1
    BY <1>1
  <2>2. CASE b < i
    BY <1>5, <1>6, <1>8, <2>1, <2>2
  <2>3. CASE b >= i /\ a < i
    BY <1>5, <1>6, <1>8, <2>1, <2>3
  <2>4. CASE a >= i
    BY <1>5, <1>6, <1>8, <2>1, <2>4
  <2> QED
    BY <2>2, <2>3, <2>4
<1>10. Blocks(l) = { l[m] : m \in 1 .. n - 1 } /\ Blocks(list) = { list[m] : m \in 1 .. n }
  BY <1>4 DEF Blocks
<1>11. ASSUME NEW m \in 1 .. n - 1
       PROVE  l[m] \in { list[h] : h \in 1 .. n } /\ l[m] # list[i]
  <2>1. m \in 1 .. n /\ m + 1 \in 1 .. n
    BY <1>1
  <2>2. CASE m < i
    <3>1. l[m] = list[m] /\ list[m] < list[i] /\ list[m] \in Int /\ list[i] \in Int
      BY <1>1, <1>6, <1>8, <2>1, <2>2
    <3> QED
      BY <2>1, <3>1
  <2>3. CASE m >= i
    <3>1. l[m] = list[m + 1] /\ list[i] < list[m + 1] /\ list[m + 1] \in Int /\ list[i] \in Int
      BY <1>1, <1>5, <1>8, <2>1, <2>3
    <3> QED
      BY <2>1, <3>1
  <2> QED
    BY <2>2, <2>3
<1>12. ASSUME NEW m \in 1 .. n, list[m] # list[i]
       PROVE  list[m] \in { l[h] : h \in 1 .. n - 1 }
  <2>1. CASE m < i
    <3>1. m \in 1 .. n - 1 /\ l[m] = list[m]
      BY <1>1, <1>6, <2>1
    <3> QED
      BY <3>1
  <2>2. CASE m > i
    <3>1. m - 1 \in 1 .. n - 1 /\ m - 1 >= i /\ (m - 1) + 1 = m
      BY <1>1, <2>2
    <3>2. l[m - 1] = list[m]
      BY <1>5, <3>1
    <3> QED
      BY <3>1, <3>2
  <2> QED
    BY <1>1, <1>12, <2>1, <2>2
<1>13. Blocks(l) = Blocks(list) \ {list[i]}
  BY <1>10, <1>11, <1>12
<1> QED
  BY <1>7, <1>9, <1>13 DEF l, e

\* Where best_fit_free_pages puts a block: behind the blocks with lower addresses.
LEMMA InsertAt ==
  ASSUME list \in Seq(Pages), Ordered(list), NumPages \in Nat, NEW b \in Pages \ Blocks(list)
  PROVE  /\ Place(b) \in 1 .. Len(list) + 1
         /\ \A i \in 1 .. Len(list) : IF i < Place(b) THEN list[i] < b ELSE b < list[i]
<1> DEFINE n == Len(list)
           S == { i \in 1 .. n + 1 : i = n + 1 \/ b < list[i] }
           First(k) == /\ k <= n => b < list[k]
                       /\ \A i \in 1 .. k - 1 : ~(b < list[i])
<1>1. n \in Nat /\ b \in Int /\ \A i \in 1 .. n : list[i] \in Int /\ list[i] # b
  BY DEF Pages, Blocks
<1>2. S \subseteq Nat /\ S # {}
  <2>1. n + 1 \in S
    BY <1>1
  <2> QED
    BY <2>1
<1>3. PICK c \in S : \A i \in S : c <= i
  <2> HIDE DEF S
  <2> QED
    BY <1>2, Least
<1>4. c \in 1 .. n + 1 /\ First(c)
  <2>1. c \in 1 .. n + 1 /\ (c = n + 1 \/ b < list[c])
    OBVIOUS
  <2> QED
    BY <1>1, <1>3, <2>1
<1>5. Place(b) = CHOOSE k \in 1 .. n + 1 : First(k)
  BY DEF Place
<1>6. Place(b) \in 1 .. n + 1 /\ First(Place(b))
  <2> HIDE DEF First
  <2> QED
    BY <1>4, <1>5
<1>7. ASSUME NEW i \in 1 .. n, i >= Place(b) PROVE b < list[i]
  <2>1. Place(b) \in 1 .. n /\ b < list[Place(b)]
    BY <1>1, <1>6, <1>7
  <2>2. i = Place(b) \/ list[Place(b)] < list[i]
    BY <1>7, <2>1 DEF Ordered
  <2> QED
    BY <1>1, <2>1, <2>2
<1>8. ASSUME NEW i \in 1 .. n, i < Place(b) PROVE list[i] < b
  BY <1>1, <1>6, <1>8
<1> QED
  BY <1>1, <1>6, <1>7, <1>8

-----------------------------------------------------------------------------
(* The operations.                                                         *)

\* What the invariant says of one of the lists, in terms of blocks.
ListFacts(l) ==
  /\ l \in Seq(Pages) /\ l \in Seq(Int) /\ Blocks(l) \subseteq Pages
  /\ Lengths(Blocks(l), property) /\ Ordered(l) /\ Apart(Blocks(l), property)
  /\ Covered(l) = Cov(Blocks(l), property)
  /\ Blocks(l) \subseteq Covered(l) /\ Covered(l) \subseteq Pages

\* The blocks of the list that is put aside.
AsideBlocks == IF saved = NULL THEN {} ELSE Blocks(saved.list)

\* A list of blocks with lengths that is merged.
LEMMA ListFactsFrom ==
  ASSUME PmmConstants, TypeOK, NEW l, l \in Seq(Pages), Merged(l),
         \A b \in Blocks(l) : property[b] # 0, Covered(l) \subseteq Pages
  PROVE  ListFacts(l)
<1>1. NumPages \in Nat /\ Pages \subseteq Int
  BY DEF PmmConstants, Pages
<1>2. \A i \in 1 .. Len(l) : l[i] \in Pages
  OBVIOUS
<1>3. l \in Seq(Int)
  BY <1>1, SeqMonotonic
<1>4. Blocks(l) \subseteq Pages
  BY <1>2 DEF Blocks
<1>5. Lengths(Blocks(l), property)
  <2> SUFFICES ASSUME NEW b \in Blocks(l) PROVE b \in Int /\ property[b] \in Int /\ property[b] > 0
    BY DEF Lengths
  <2>1. property[b] \in 0 .. NumPages /\ property[b] # 0
    BY <1>4 DEF TypeOK
  <2>2. b \in Int
    BY <1>1, <1>4
  <2>3. property[b] \in Int /\ property[b] > 0
    BY <1>1, <2>1
  <2> QED
    BY <2>2, <2>3
<1>6. Ordered(l) /\ Apart(Blocks(l), property)
  BY <1>3, <1>5, MergedOrdered DEF Merged, MergedIn
<1>7. Covered(l) = Cov(Blocks(l), property)
  BY <1>5, CovRuns DEF Covered, Lengths
<1>8. Blocks(l) \subseteq Covered(l)
  BY <1>5, <1>7 DEF Cov, Lengths
<1> QED
  BY <1>3, <1>4, <1>5, <1>6, <1>7, <1>8 DEF ListFacts

\* What every operation finds.
LEMMA PmmFacts ==
  ASSUME PmmConstants, PmmInv
  PROVE  /\ TypeOK /\ ListFacts(list)
         /\ saved # NULL => ListFacts(saved.list)
         /\ AsideBlocks \subseteq Aside /\ Aside \subseteq Pages
         /\ Covered(list) \cap Aside = {}
         /\ Covered(list) \cup Aside = (Pages \ lost) \ used
         /\ flag \cap (Pages \ lost) = Blocks(list) \cup AsideBlocks
         /\ \A p \in Pages \ lost : property[p] # 0 <=> p \in flag
         /\ num_free = Cardinality(Covered(list))
         /\ saved # NULL => saved.num_free = Cardinality(Aside)
<1>1. /\ TypeOK /\ Merged(list) /\ num_free = Cardinality(Covered(list))
      /\ saved # NULL => Merged(saved.list) /\ saved.num_free = Cardinality(Aside)
      /\ Covered(list) \cap Aside = {}
      /\ Covered(list) \cup Aside = (Pages \ lost) \ used
      /\ flag \cap (Pages \ lost) = Blocks(list) \cup AsideBlocks
      /\ \A p \in Pages \ lost : property[p] # 0 <=> p \in flag
  BY DEF PmmInv, ListExact, AsideBlocks
<1>2. \A b \in Blocks(list) \cup AsideBlocks : property[b] # 0
  BY <1>1
<1>3. ListFacts(list)
  <2>1. list \in Seq(Pages) /\ Covered(list) \subseteq Pages
    BY <1>1 DEF TypeOK
  <2> QED
    BY <1>1, <1>2, <2>1, ListFactsFrom
<1>4. ASSUME saved # NULL PROVE ListFacts(saved.list)
  <2>1. saved.list \in Seq(Pages) /\ Covered(saved.list) \subseteq Pages
    BY <1>1, <1>4 DEF TypeOK, Aside
  <2>2. \A b \in Blocks(saved.list) : property[b] # 0
    BY <1>2, <1>4 DEF AsideBlocks
  <2> QED
    BY <1>1, <1>4, <2>1, <2>2, ListFactsFrom
<1>5. AsideBlocks \subseteq Aside
  BY <1>4 DEF AsideBlocks, Aside, ListFacts
<1> QED
  BY <1>1, <1>3, <1>4, <1>5

\* best_fit_alloc_pages finds a block if there is one that fits.
LEMMA BestFound ==
  ASSUME PmmConstants, PmmInv, NEW n \in Nat \ {0}, CanAlloc(n)
  PROVE  /\ Best(n) \in 1 .. Len(list) /\ Fits(Best(n), n)
         /\ \A j \in 1 .. Len(list) : Fits(j, n) => property[list[Best(n)]] <= property[list[j]]
<1> DEFINE m == Len(list)
           S == { property[list[i]] : i \in { j \in 1 .. m : Fits(j, n) } }
           Found(i) == /\ Fits(i, n)
                       /\ \A j \in 1 .. m : Fits(j, n) =>
                            \/ property[list[i]] < property[list[j]]
                            \/ property[list[i]] = property[list[j]] /\ i <= j
<1>1. \A i \in 1 .. m : property[list[i]] \in Nat
  <2>1. \A i \in 1 .. m : list[i] \in Blocks(list)
    BY DEF Blocks
  <2> QED
    BY <2>1, PmmFacts DEF ListFacts, Lengths
<1>2. S \subseteq Nat /\ S # {}
  BY <1>1 DEF CanAlloc
<1>3. PICK v \in S : \A w \in S : v <= w
  <2> HIDE DEF S
  <2> QED
    BY <1>2, Least
<1> DEFINE T == { i \in 1 .. m : Fits(i, n) /\ property[list[i]] = v }
<1>4. T \subseteq Nat /\ T # {}
  OBVIOUS
<1>5. PICK i \in T : \A j \in T : i <= j
  <2> HIDE DEF T
  <2> QED
    BY <1>4, Least
<1>6. \A j \in 1 .. m : Fits(j, n) => v <= property[list[j]]
  BY <1>3
<1>7. i \in 1 .. m /\ Found(i)
  <2>1. i \in 1 .. m /\ Fits(i, n) /\ property[list[i]] = v
    OBVIOUS
  <2>2. ASSUME NEW j \in 1 .. m, Fits(j, n)
        PROVE  \/ property[list[i]] < property[list[j]]
               \/ property[list[i]] = property[list[j]] /\ i <= j
    <3>1. v <= property[list[j]]
      BY <1>6, <2>2
    <3>2. CASE property[list[j]] = v
      BY <1>5, <2>1, <2>2, <3>2
    <3>3. CASE property[list[j]] # v
      BY <1>1, <2>1, <3>1, <3>3
    <3> QED
      BY <3>2, <3>3
  <2> QED
    BY <2>1, <2>2
<1>8. Best(n) = CHOOSE h \in 1 .. m : Found(h)
  BY DEF Best
<1>9. Best(n) \in 1 .. m /\ Found(Best(n))
  <2> HIDE DEF Found
  <2> QED
    BY <1>7, <1>8
<1> QED
  BY <1>1, <1>9

\* What best_fit_alloc_pages does, without the positions in the list: the block a,
\* the smallest that fits, loses its first n pages.
AllocStep(n, a) ==
  /\ a \in Blocks(list) /\ n <= property[a]
  /\ \A b \in Blocks(list) : n <= property[b] => property[a] <= property[b]
  /\ list' \in Seq(Pages) /\ Ordered(list')
  /\ Blocks(list') = (Blocks(list) \ {a}) \cup (IF property[a] - n > 0 THEN {a + n} ELSE {})
  /\ flag' = (flag \ {a}) \cup (IF property[a] - n > 0 THEN {a + n} ELSE {})
  /\ property' = [p \in Pages |-> IF p = a THEN 0
                                  ELSE IF p = a + n /\ property[a] - n > 0 THEN property[a] - n
                                  ELSE property[p]]
  /\ num_free' = num_free - n
  /\ used' = used \cup Run(a, n)
  /\ result' = a
  /\ saved' = saved /\ lost' = lost

\* alloc_pages keeps the order of the list.
LEMMA AllocIsStep == ASSUME PmmConstants, PmmInv, NEW n \in Nat \ {0}, AllocPages(n)
                     PROVE  AllocStep(n, list[Best(n)])
<1> DEFINE i == Best(n)
           a == list[i]
           m == Len(list)
<1>1. CanAlloc(n)
  BY DEF AllocPages
<1>2. /\ i \in 1 .. m /\ Fits(i, n)
      /\ \A j \in 1 .. m : Fits(j, n) => property[list[i]] <= property[list[j]]
  BY <1>1, BestFound
<1>f. ListFacts(list) /\ NumPages \in Nat /\ m \in Nat
  BY PmmFacts DEF PmmConstants, ListFacts
<1>3. a \in Blocks(list)
  BY <1>2 DEF Blocks
<1>4. a \in Int /\ property[a] \in Int /\ property[a] > 0 /\ n <= property[a]
  <2>1. property[a] >= n
    BY <1>2 DEF Fits
  <2>2. a \in Int /\ property[a] \in Int /\ property[a] > 0
    BY <1>3, <1>f DEF ListFacts, Lengths
  <2> QED
    BY <2>1, <2>2
<1>5. \A b \in Blocks(list) : n <= property[b] => property[a] <= property[b]
  <2> TAKE b \in Blocks(list)
  <2> HAVE n <= property[b]
  <2>1. PICK j \in 1 .. m : b = list[j]
    BY DEF Blocks
  <2>2. property[b] \in Int
    BY <1>f DEF ListFacts, Lengths
  <2>3. Fits(j, n)
    BY <2>1, <2>2 DEF Fits
  <2> QED
    BY <1>2, <2>1, <2>3
<1>6. list' = Splice(i, i, IF property[a] - n > 0 THEN <<a + n>> ELSE <<>>)
  BY DEF AllocPages
<1>7. /\ list' \in Seq(Pages) /\ Ordered(list')
      /\ Blocks(list') = (Blocks(list) \ {a}) \cup (IF property[a] - n > 0 THEN {a + n} ELSE {})
  <2>0. \A p, q \in 1 .. m : p < q => list[p] < list[q]
    BY <1>f DEF ListFacts, Ordered
  <2>1. CASE property[a] - n > 0
    <3>1. list' = Splice(i, i, <<a + n>>)
      BY <1>6, <2>1
    <3>2. a + n \in Pages
      <4>1. a + n \in Int /\ a <= a + n /\ a + n < a + property[a]
        BY <1>4, <2>1
      <4>2. a + n \in Cov(Blocks(list), property)
        BY <1>3, <4>1 DEF Cov
      <4> QED
        BY <1>f, <4>2 DEF ListFacts
    <3>3. \A j \in 1 .. m : list[j] \in Blocks(list) /\ list[j] \in Int
      BY <1>f DEF Blocks, ListFacts, Lengths
    <3>4. \A j \in 1 .. i - 1 : list[j] < a + n
      <4> TAKE j \in 1 .. i - 1
      <4>1. j \in 1 .. m /\ j < i
        BY <1>2, <1>f
      <4>2. list[j] < a /\ list[j] \in Int
        BY <1>2, <2>0, <3>3, <4>1
      <4> QED
        BY <1>4, <4>2
    <3>5. \A j \in i + 1 .. m : a + n < list[j]
      <4> TAKE j \in i + 1 .. m
      <4>1. j \in 1 .. m /\ i < j
        BY <1>2, <1>f
      <4>2. a < list[j] /\ list[j] \in Blocks(list) /\ list[j] \in Int
        BY <1>2, <2>0, <3>3, <4>1
      <4>3. a + property[a] < list[j]
        BY <1>3, <1>f, <4>2 DEF ListFacts, Apart
      <4> QED
        BY <1>4, <2>1, <4>2, <4>3
    <3>6. i \in 1 .. m + 1 /\ i \in i - 1 .. m
      BY <1>2, <1>f
    <3>s. list \in Seq(Pages) /\ Ordered(list)
      BY <1>f DEF ListFacts
    <3> HIDE DEF a, i, m
    <3>7. ASSUME NEW h \in 1 .. Len(list) + 1, NEW j \in h - 1 .. Len(list),
                 \A q \in 1 .. h - 1 : list[q] < a + n,
                 \A q \in j + 1 .. Len(list) : a + n < list[q]
          PROVE  /\ Splice(h, j, <<a + n>>) \in Seq(Pages) /\ Ordered(Splice(h, j, <<a + n>>))
                 /\ Blocks(Splice(h, j, <<a + n>>)) =
                      { list[q] : q \in 1 .. h - 1 } \cup {a + n} \cup { list[q] : q \in j + 1 .. Len(list) }
      BY <1>f, <3>2, <3>s, <3>7, SpliceOne
    <3>8. list' \in Seq(Pages) /\ Ordered(list')
      BY <3>1, <3>4, <3>5, <3>6, <3>7 DEF m
    <3>9. Blocks(list') = { list[q] : q \in 1 .. i - 1 } \cup {a + n} \cup { list[q] : q \in i + 1 .. m }
      BY <3>1, <3>4, <3>5, <3>6, <3>7 DEF m
    <3>10. Blocks(list) \ {a} = { list[q] : q \in 1 .. i - 1 } \cup { list[q] : q \in i + 1 .. m }
      <4>1. Blocks(list) = { list[q] : q \in 1 .. m }
        BY DEF Blocks, m
      <4>2. a = list[i]
        BY DEF a
      <4>3. \A q \in 1 .. m : q # i => list[q] # a
        BY <1>2, <1>4, <2>0, <3>3, <4>2
      <4>4. \A q \in 1 .. i - 1 : q \in 1 .. m /\ q # i
        BY <1>2, <1>f
      <4>5. \A q \in i + 1 .. m : q \in 1 .. m /\ q # i
        BY <1>2, <1>f
      <4>6. \A q \in 1 .. m : q # i => q \in 1 .. i - 1 \/ q \in i + 1 .. m
        BY <1>2, <1>f
      <4> QED
        BY <4>1, <4>2, <4>3, <4>4, <4>5, <4>6
    <3> QED
      BY <2>1, <3>8, <3>9, <3>10
  <2>2. CASE ~(property[a] - n > 0)
    <3>1. list' = Splice(i, i, <<>>)
      BY <1>6, <2>2
    <3>2. list \in Seq(Pages) /\ Ordered(list)
      BY <1>f DEF ListFacts
    <3>3. list' \in Seq(Pages) /\ Ordered(list') /\ Blocks(list') = Blocks(list) \ {a}
      BY <1>2, <1>f, <3>1, <3>2, SpliceNone
    <3> QED
      BY <2>2, <3>3
  <2> QED
    BY <2>1, <2>2
<1> QED
  BY <1>3, <1>4, <1>5, <1>7 DEF AllocPages, AllocStep

\* A list that is put aside stays as it was while the lengths of its blocks do.
LEMMA AsideKept ==
  ASSUME PmmConstants, PmmInv, saved' = saved, \A c \in AsideBlocks : property'[c] = property[c]
  PROVE  /\ Aside' = Aside /\ AsideBlocks' = AsideBlocks
         /\ saved # NULL => Merged(saved.list)'
<1>1. AsideBlocks' = AsideBlocks
  BY DEF AsideBlocks, Blocks
<1>2. CASE saved = NULL
  BY <1>1, <1>2 DEF Aside
<1>3. CASE saved # NULL
  <2> DEFINE l == saved.list
             B == Blocks(l)
  <2>1. ListFacts(l) /\ Merged(l)
    BY <1>3, PmmFacts DEF PmmInv, ListExact
  <2>2. \A c \in B : property'[c] = property[c]
    BY <1>3 DEF AsideBlocks
  <2>3. { Run(b, property'[b]) : b \in B } = { Run(b, property[b]) : b \in B }
    BY <2>2
  <2>4. Covered(l)' = Covered(l)
    BY <2>3, <1>3 DEF Covered, Blocks
  <2>5. \A i \in 2 .. Len(l) : l[i - 1] \in B
    <3>1. Len(l) \in Nat
      BY <2>1 DEF ListFacts
    <3>2. \A i \in 2 .. Len(l) : i - 1 \in 1 .. Len(l)
      BY <3>1
    <3> QED
      BY <3>2 DEF Blocks
  <2>6. \A i \in 2 .. Len(l) : l[i - 1] + property'[l[i - 1]] < l[i]
    BY <2>1, <2>2, <2>5 DEF Merged
  <2> QED
    BY <1>1, <1>3, <2>4, <2>6 DEF Aside, Merged
<1> QED
  BY <1>2, <1>3

\* The list after an operation, from its blocks.
LEMMA ListAfter ==
  ASSUME PmmConstants, list' \in Seq(Pages), Ordered(list'),
         Lengths(Blocks(list'), property'), Apart(Blocks(list'), property')
  PROVE  Merged(list)' /\ Covered(list)' = Cov(Blocks(list'), property')
<1>1. list' \in Seq(Int)
  <2>1. Pages \subseteq Int
    BY DEF Pages
  <2> QED
    BY <2>1, SeqMonotonic
<1>2. MergedIn(list', property')
  BY <1>1, MergedOrdered
<1>3. Covered(list)' = Cov(Blocks(list'), property')
  BY CovRuns DEF Covered, Blocks, Lengths
<1> QED
  BY <1>2, <1>3 DEF Merged, MergedIn

\* What alloc_pages keeps, and what it does to the free pages.
LEMMA AllocKeeps ==
  ASSUME PmmConstants, PmmInv, NEW n \in Nat \ {0}, NEW a, AllocStep(n, a)
  PROVE  /\ PmmInv'
         /\ Run(a, n) \subseteq Covered(list)
         /\ Covered(list)' = Covered(list) \ Run(a, n) /\ Aside' = Aside
<1> DEFINE B == Blocks(list)
           C == Blocks(list')
           P == property
           Q == property'
           known == Pages \ lost
<1>f. /\ TypeOK /\ ListFacts(list) /\ AsideBlocks \subseteq Aside /\ Aside \subseteq Pages
      /\ Covered(list) \cap Aside = {} /\ Covered(list) \cup Aside = known \ used
      /\ flag \cap known = B \cup AsideBlocks
      /\ \A p \in known : P[p] # 0 <=> p \in flag
      /\ num_free = Cardinality(Covered(list))
      /\ saved # NULL => saved.num_free = Cardinality(Aside)
      /\ NumPages \in Nat
  BY PmmFacts DEF PmmConstants
<1>b. Lengths(B, P) /\ Apart(B, P) /\ Covered(list) = Cov(B, P) /\ B \subseteq Covered(list)
      /\ Covered(list) \subseteq Pages
  BY <1>f DEF ListFacts
<1>1. a \in B /\ n <= P[a] /\ a \in Int /\ P[a] \in Int /\ a \in Covered(list) /\ n \in Int /\ n > 0
  BY <1>b DEF AllocStep, Lengths
<1>2. Run(a, n) \subseteq Covered(list)
  <2> SUFFICES ASSUME NEW p \in Run(a, n) PROVE p \in Cov(B, P)
    BY <1>b
  <2>1. p \in Int /\ a <= p /\ p < a + P[a]
    BY <1>1 DEF Run
  <2> QED
    BY <1>1, <2>1 DEF Cov
<1>3. P[a] - n > 0 => a + n \in Covered(list)
  <2> HAVE P[a] - n > 0
  <2>1. a + n \in Int /\ a <= a + n /\ a + n < a + P[a]
    BY <1>1
  <2> QED
    BY <1>1, <1>b, <2>1 DEF Cov
<1>4. C = (B \ {a}) \cup (IF P[a] - n > 0 THEN {a + n} ELSE {})
  BY DEF AllocStep
<1>5. C \subseteq Covered(list)
  BY <1>3, <1>4, <1>b
<1>6. a + n # a
  BY <1>1
<1>7. \A p \in Pages : Q[p] = IF p = a THEN 0
                              ELSE IF p = a + n /\ P[a] - n > 0 THEN P[a] - n
                              ELSE P[p]
  BY DEF AllocStep
<1>8. a \notin C
  BY <1>4, <1>6
<1>9. \A c \in C : Q[c] = IF c = a + n /\ P[a] - n > 0 THEN P[a] - n ELSE P[c]
  BY <1>5, <1>7, <1>8, <1>b
<1>10. Lengths(C, Q) /\ Apart(C, Q) /\ Cov(C, Q) = Cov(B, P) \ Run(a, n)
  <2>0. Lengths(B, P) /\ Apart(B, P) /\ a \in B /\ n <= P[a]
    BY <1>1, <1>b
  <2>1. Cut(B, P, a, n, C, Q)
    BY <1>4, <1>9, <2>0, Zenon DEF Cut
  <2> QED
    BY <2>1, AllocCov
<1>11. Merged(list)' /\ Covered(list)' = Covered(list) \ Run(a, n)
  <2>1. Merged(list)' /\ Covered(list)' = Cov(C, Q)
    BY <1>10, ListAfter DEF AllocStep
  <2> QED
    BY <1>10, <1>b, <2>1
<1>12. \A c \in AsideBlocks : Q[c] = P[c]
  BY <1>1, <1>3, <1>7, <1>f
<1>13. /\ Aside' = Aside /\ AsideBlocks' = AsideBlocks
       /\ saved # NULL => Merged(saved.list)'
  BY <1>12, AsideKept DEF AllocStep
<1>14. num_free' = Cardinality(Covered(list)') /\ num_free' \in 0 .. NumPages
  <2>1. IsFiniteSet(Pages)
    BY <1>f, FS_Interval DEF Pages
  <2>2. IsFiniteSet(Covered(list))
    BY <1>b, <2>1, FS_Subset
  <2>3. Covered(list) \cap Run(a, n) = Run(a, n)
    BY <1>2
  <2>4. Cardinality(Run(a, n)) = n
    <3>1. Cardinality(a .. a + n - 1) = IF a > a + n - 1 THEN 0 ELSE a + n - 1 - a + 1
      BY <1>1, FS_Interval
    <3> QED
      BY <1>1, <3>1 DEF Run
  <2>5. Cardinality(Covered(list) \ Run(a, n)) = Cardinality(Covered(list)) - n
    BY <2>2, <2>3, <2>4, FS_Difference
  <2>6. Cardinality(Covered(list) \ Run(a, n)) \in Nat
    BY <2>2, FS_Difference, FS_CardinalityType
  <2>7. num_free' = num_free - n /\ num_free \in 0 .. NumPages
    BY <1>f DEF AllocStep, TypeOK
  <2> QED
    BY <1>1, <1>11, <1>f, <2>5, <2>6, <2>7
<1>15. used' = used \cup Run(a, n) /\ lost' = lost /\ saved' = saved /\ result' = a
  BY DEF AllocStep
<1>16. Covered(list)' \cap Aside' = {} /\ Covered(list)' \cup Aside' = known \ used'
  BY <1>2, <1>11, <1>13, <1>15, <1>f
<1>17. flag' = (flag \ {a}) \cup (IF P[a] - n > 0 THEN {a + n} ELSE {})
  BY DEF AllocStep
<1>18. a \in known /\ (P[a] - n > 0 => a + n \in known)
  BY <1>1, <1>3, <1>f
<1>19. flag' \cap known = C \cup AsideBlocks
  <2>1. a \notin AsideBlocks
    BY <1>1, <1>f
  <2> QED
    BY <1>4, <1>17, <1>18, <1>f, <2>1
<1>20. \A p \in known : Q[p] # 0 <=> p \in flag'
  <2> TAKE p \in known
  <2>1. CASE p = a
    BY <1>6, <1>7, <1>17, <2>1
  <2>2. CASE p # a /\ p = a + n /\ P[a] - n > 0
    BY <1>1, <1>7, <1>17, <2>2
  <2>3. CASE p # a /\ ~(p = a + n /\ P[a] - n > 0)
    <3>1. Q[p] = P[p] /\ (p \in flag' <=> p \in flag)
      BY <1>7, <1>17, <2>3
    <3> QED
      BY <1>f, <3>1
  <2> QED
    BY <2>1, <2>2, <2>3
<1>21. TypeOK'
  <2>1. property' \in [Pages -> 0 .. NumPages]
    <3>1. property' = [p \in Pages |-> Q[p]]
      BY DEF AllocStep
    <3>2. \A p \in Pages : P[p] \in 0 .. NumPages
      BY <1>f DEF TypeOK
    <3>3. P[a] \in 0 .. NumPages
      BY <1>1, <1>b, <3>2
    <3>4. \A p \in Pages : Q[p] \in 0 .. NumPages
      BY <1>1, <1>7, <1>f, <3>2, <3>3
    <3> QED
      BY <3>1, <3>4
  <2>2. flag' \subseteq Pages /\ used' \subseteq Pages /\ result' \in Pages
    <3>1. flag \subseteq Pages /\ used \subseteq Pages
      BY <1>f DEF TypeOK
    <3> QED
      BY <1>1, <1>2, <1>15, <1>17, <1>18, <1>b, <3>1
  <2> QED
    BY <1>14, <1>15, <1>f, <2>1, <2>2 DEF TypeOK, AllocStep
<1>22. used' \cap lost' = {}
  BY <1>2, <1>15, <1>f DEF PmmInv
<1>23. C \cup AsideBlocks = Blocks(list') \cup (IF saved' = NULL THEN {} ELSE Blocks(saved'.list))
  BY <1>15 DEF AsideBlocks
<1>24. ListExact'
  BY <1>11, <1>13, <1>14, <1>15, <1>16, <1>19, <1>20, <1>21, <1>23, <1>f DEF ListExact, Blocks
<1> QED
  BY <1>2, <1>11, <1>13, <1>22, <1>24 DEF PmmInv

\* What best_fit_free_pages does, without the positions in the list: the n pages
\* from b are free again, joined with the block a before them, if prev, and with
\* the block behind them.
Gone(b, n, prev) == (IF prev THEN {b} ELSE {})
                    \cup (IF b + n \in Blocks(list) THEN {b + n} ELSE {})

FreeStep(b, n, prev, a) ==
  LET base == IF prev THEN a ELSE b
  IN /\ prev \in BOOLEAN /\ b \in Int /\ Run(b, n) \subseteq used
     /\ IF prev THEN a \in Blocks(list) /\ a + property[a] = b
        ELSE \A c \in Blocks(list) : c + property[c] # b
     /\ list' \in Seq(Pages) /\ Ordered(list')
     /\ Blocks(list') = (Blocks(list) \cup {b}) \ Gone(b, n, prev)
     /\ flag' = (flag \cup {b}) \ Gone(b, n, prev)
     /\ property' = [p \in Pages |->
          IF p = base THEN n + (IF prev THEN property[a] ELSE 0)
                             + (IF b + n \in Blocks(list) THEN property[b + n] ELSE 0)
          ELSE IF p \in Gone(b, n, prev) THEN 0 ELSE property[p]]
     /\ num_free' = num_free + n
     /\ used' = used \ Run(b, n)
     /\ result' = result /\ saved' = saved /\ lost' = lost

\* free_pages keeps the order of the list and finds both neighbours.
LEMMA FreeIsStep ==
  ASSUME PmmConstants, PmmInv, NEW b, b \in Int, NEW n \in Nat \ {0}, FreePages(b, n)
  PROVE  \E prev, a : FreeStep(b, n, prev, a)
<1> DEFINE m == Len(list)
           B == Blocks(list)
           P == property
           k == Place(b)
           prev == JoinsPrev(k, b)
           next == JoinsNext(k, b, n)
           a == list[k - 1]
           x == IF prev THEN a ELSE b
           I == IF prev THEN k - 1 ELSE k
           J == IF next THEN k ELSE k - 1
<1>f. /\ ListFacts(list) /\ NumPages \in Nat /\ Covered(list) \cap used = {} /\ used \subseteq Pages
      /\ TypeOK
  BY PmmFacts DEF PmmConstants, TypeOK
<1>g. /\ list \in Seq(Pages) /\ Ordered(list) /\ m \in Nat /\ B \subseteq Covered(list)
      /\ Lengths(B, P) /\ Apart(B, P) /\ Covered(list) = Cov(B, P)
  BY <1>f DEF ListFacts
<1>h. \A i \in 1 .. m : list[i] \in B /\ list[i] \in Int /\ P[list[i]] \in Int /\ P[list[i]] > 0
  <2>1. \A i \in 1 .. m : list[i] \in B
    BY DEF Blocks
  <2> QED
    BY <1>g, <2>1 DEF Lengths
<1>1. b \in Int /\ n \in Int /\ n > 0 /\ Run(b, n) \subseteq used
  BY DEF FreePages
<1>2. b \in Run(b, n)
  BY <1>1 DEF Run
<1>3. b \in Pages \ B
  BY <1>1, <1>2, <1>f, <1>g
<1>4. /\ k \in 1 .. m + 1
      /\ \A i \in 1 .. m : IF i < k THEN list[i] < b ELSE b < list[i]
  BY <1>3, <1>f, <1>g, InsertAt
<1>5. /\ list' = Splice(I, J, <<x>>)
      /\ flag' = (flag \cup {b}) \ ((IF prev THEN {b} ELSE {}) \cup (IF next THEN {list[k]} ELSE {}))
      /\ property' = [p \in Pages |->
           IF p = x THEN n + (IF prev THEN P[a] ELSE 0) + (IF next THEN P[list[k]] ELSE 0)
           ELSE IF p \in (IF prev THEN {b} ELSE {}) \cup (IF next THEN {list[k]} ELSE {}) THEN 0
           ELSE P[p]]
      /\ num_free' = num_free + n /\ used' = used \ Run(b, n)
      /\ result' = result /\ saved' = saved /\ lost' = lost
  BY DEF FreePages
<1>6. prev <=> k > 1 /\ a + P[a] = b
  BY DEF JoinsPrev
<1>7. next <=> k <= m /\ b + n = list[k]
  BY DEF JoinsNext
<1>p. prev \in BOOLEAN
  BY DEF JoinsPrev
<1> HIDE DEF prev, next, k
<1>8. k > 1 => k - 1 \in 1 .. m /\ a \in B /\ a \in Int /\ P[a] \in Int /\ P[a] > 0 /\ a < b
  <2> HAVE k > 1
  <2>1. k - 1 \in 1 .. m /\ k - 1 < k
    BY <1>4, <1>g
  <2> QED
    BY <1>4, <1>h, <2>1
<1>9. \A i, j \in 1 .. m : i < j => list[i] < list[j]
  BY <1>g DEF Ordered
<1>10. ASSUME ~prev PROVE \A c \in B : c + P[c] # b
  <2> SUFFICES ASSUME NEW c \in B, c + P[c] = b PROVE FALSE
    OBVIOUS
  <2>1. PICK j \in 1 .. m : c = list[j]
    BY DEF Blocks
  <2>2. c \in Int /\ P[c] \in Int /\ P[c] > 0 /\ c < b
    BY <1>h, <2>1
  <2>3. j < k /\ k > 1
    BY <1>4, <2>1, <2>2
  <2>4. j # k - 1
    BY <1>6, <1>10, <2>1, <2>3
  <2>5. j < k - 1 /\ k - 1 \in 1 .. m
    BY <1>4, <1>8, <2>3, <2>4
  <2>6. c < a
    BY <1>9, <2>1, <2>5
  <2>7. c + P[c] < a
    BY <1>8, <1>g, <2>3, <2>6 DEF Apart
  <2> QED
    BY <1>1, <1>8, <2>2, <2>3, <2>7
<1>11. next <=> b + n \in B
  <2>1. next => b + n \in B
    BY <1>4, <1>7, <1>h
  <2>2. ASSUME b + n \in B, ~next PROVE FALSE
    <3>1. PICK j \in 1 .. m : b + n = list[j]
      BY <2>2 DEF Blocks
    <3>2. b < list[j]
      BY <1>1, <3>1
    <3>3. ~(j < k)
      BY <1>1, <1>4, <1>h, <3>2
    <3>4. k \in 1 .. m /\ k < j
      BY <1>4, <1>7, <2>2, <3>1, <3>3
    <3>5. b < list[k] /\ list[k] < b + n /\ list[k] \in Int
      BY <1>4, <1>9, <1>h, <3>1, <3>4
    <3>6. list[k] \in Run(b, n)
      BY <1>1, <3>5 DEF Run
    <3>7. list[k] \in Covered(list)
      BY <1>g, <1>h, <3>4
    <3> QED
      BY <1>1, <1>f, <3>6, <3>7
  <2> QED
    BY <2>1, <2>2
<1>12. next => list[k] = b + n
  BY <1>7
<1>13. Gone(b, n, prev) = (IF prev THEN {b} ELSE {}) \cup (IF next THEN {list[k]} ELSE {})
  BY <1>11, <1>12 DEF Gone
<1>14. I \in 1 .. m + 1 /\ J \in I - 1 .. m
  BY <1>4, <1>6, <1>7, <1>g
<1>15. x \in Pages
  BY <1>3, <1>6, <1>8, <1>f DEF ListFacts
<1>16. \A j \in 1 .. I - 1 : list[j] < x
  <2> TAKE j \in 1 .. I - 1
  <2>1. CASE prev
    BY <1>4, <1>6, <1>8, <1>9, <1>g, <2>1
  <2>2. CASE ~prev
    BY <1>4, <1>g, <2>2
  <2> QED
    BY <2>1, <2>2
<1>17. \A j \in J + 1 .. m : x < list[j]
  <2> TAKE j \in J + 1 .. m
  <2>1. j \in 1 .. m /\ ~(j < k)
    BY <1>4, <1>7, <1>g
  <2>2. b < list[j] /\ list[j] \in Int
    BY <1>4, <1>h, <2>1
  <2>3. x <= b /\ x \in Int
    BY <1>1, <1>6, <1>8
  <2> QED
    BY <1>1, <2>2, <2>3
<1>18. \A j \in 1 .. m : j \in 1 .. I - 1 \/ j \in J + 1 .. m \/ (prev /\ j = k - 1) \/ (next /\ j = k)
  BY <1>4, <1>6, <1>7, <1>g
<1>19. /\ \A j \in 1 .. I - 1 : j \in 1 .. m /\ ~(next /\ j = k)
       /\ \A j \in J + 1 .. m : j \in 1 .. m /\ ~(next /\ j = k)
  BY <1>4, <1>6, <1>7, <1>g
<1> HIDE DEF I, J
<1>20. list' \in Seq(Pages) /\ Ordered(list')
       /\ Blocks(list') = { list[j] : j \in 1 .. I - 1 } \cup {x} \cup { list[j] : j \in J + 1 .. m }
  <2> HIDE DEF x
  <2>1. ASSUME NEW X \in Pages, NEW II \in 1 .. Len(list) + 1, NEW JJ \in II - 1 .. Len(list),
               \A j \in 1 .. II - 1 : list[j] < X, \A j \in JJ + 1 .. Len(list) : X < list[j]
        PROVE  /\ Splice(II, JJ, <<X>>) \in Seq(Pages) /\ Ordered(Splice(II, JJ, <<X>>))
               /\ Blocks(Splice(II, JJ, <<X>>)) =
                    { list[j] : j \in 1 .. II - 1 } \cup {X} \cup { list[j] : j \in JJ + 1 .. Len(list) }
    BY <1>f, <1>g, <2>1, SpliceOne
  <2>2. list' \in Seq(Pages) /\ Ordered(list')
    BY <1>5, <1>14, <1>15, <1>16, <1>17, <2>1
  <2>3. Blocks(list') = { list[j] : j \in 1 .. I - 1 } \cup {x} \cup { list[j] : j \in J + 1 .. m }
    BY <1>5, <1>14, <1>15, <1>16, <1>17, <2>1
  <2> QED
    BY <2>2, <2>3
<1>21. Blocks(list') = (B \cup {b}) \ Gone(b, n, prev)
  <2> DEFINE L == { list[j] : j \in 1 .. I - 1 } \cup { list[j] : j \in J + 1 .. m }
             D == IF next THEN {list[k]} ELSE {}
             E == IF prev THEN {a} ELSE {}
  <2>0. B = { list[j] : j \in 1 .. m } /\ b \notin B
    BY <1>3 DEF Blocks
  <2>1. L \subseteq B /\ B \subseteq L \cup D \cup E
    BY <1>18, <1>19, <2>0
  <2>2. L \cap D = {}
    <3> SUFFICES ASSUME next, NEW j \in 1 .. m, j # k, list[j] = list[k] PROVE FALSE
      BY <1>19
    <3>1. k \in 1 .. m
      BY <1>4, <1>7, <1>g
    <3> QED
      BY <1>9, <1>h, <3>1
  <2>3. E \subseteq B /\ D \subseteq B /\ E \cap D = {}
    <3>1. E \subseteq B
      BY <1>6, <1>8
    <3>2. D \subseteq B
      BY <1>11, <1>12
    <3>3. E \cap D = {}
      <4> SUFFICES ASSUME prev, next, a = list[k] PROVE FALSE
        OBVIOUS
      <4> QED
        BY <1>1, <1>6, <1>8, <1>12
    <3> QED
      BY <3>1, <3>2, <3>3
  <2>4. {x} = IF prev THEN E ELSE {b}
    OBVIOUS
  <2>5. Blocks(list') = L \cup {x}
    BY <1>20
  <2>6. Gone(b, n, prev) = (IF prev THEN {b} ELSE {}) \cup D
    BY <1>13
  <2>7. prev \/ E = {}
    OBVIOUS
  <2> HIDE DEF L, D, E, B, x
  <2>8. CASE prev
    <3>1. Blocks(list') = L \cup E /\ Gone(b, n, prev) = {b} \cup D
      BY <2>4, <2>5, <2>6, <2>8
    <3> QED
      BY <2>0, <2>1, <2>2, <2>3, <3>1
  <2>9. CASE ~prev
    <3>1. Blocks(list') = L \cup {b} /\ Gone(b, n, prev) = D /\ E = {}
      BY <2>4, <2>5, <2>6, <2>7, <2>9
    <3> QED
      BY <2>0, <2>1, <2>2, <2>3, <3>1
  <2> QED
    BY <2>8, <2>9
<1>22. FreeStep(b, n, prev, a)
  <2>1. (IF next THEN P[list[k]] ELSE 0) = IF b + n \in B THEN P[b + n] ELSE 0
    BY <1>11, <1>12
  <2>2. property' = [p \in Pages |->
          IF p = x THEN n + (IF prev THEN P[a] ELSE 0) + (IF b + n \in B THEN P[b + n] ELSE 0)
          ELSE IF p \in Gone(b, n, prev) THEN 0 ELSE P[p]]
    <3>1. ASSUME NEW y, NEW z, NEW G, y = z,
                 property' = [p \in Pages |->
                   IF p = x THEN n + (IF prev THEN P[a] ELSE 0) + y
                   ELSE IF p \in G THEN 0 ELSE P[p]]
          PROVE  property' = [p \in Pages |->
                   IF p = x THEN n + (IF prev THEN P[a] ELSE 0) + z
                   ELSE IF p \in G THEN 0 ELSE P[p]]
      BY <3>1
    <3> QED
      BY <1>5, <1>13, <2>1, <3>1
  <2>3. IF prev THEN a \in B /\ a + P[a] = b ELSE \A c \in B : c + P[c] # b
    BY <1>6, <1>8, <1>10
  <2> QED
    BY <1>1, <1>5, <1>13, <1>20, <1>21, <1>p, <2>2, <2>3 DEF FreeStep
<1> QED
  BY <1>22

\* What free_pages keeps, and what it does to the free pages.
LEMMA FreeKeeps ==
  ASSUME PmmConstants, PmmInv, NEW b, NEW n \in Nat \ {0}, NEW prev, NEW a,
         FreeStep(b, n, prev, a)
  PROVE  /\ PmmInv'
         /\ Run(b, n) \cap (Covered(list) \cup Aside) = {} /\ Run(b, n) \subseteq Pages
         /\ Covered(list)' = Covered(list) \cup Run(b, n) /\ Aside' = Aside
<1> DEFINE B == Blocks(list)
           C == Blocks(list')
           P == property
           Q == property'
           known == Pages \ lost
           base == IF prev THEN a ELSE b
           gone == Gone(b, n, prev)
           total == n + (IF prev THEN P[a] ELSE 0) + (IF b + n \in B THEN P[b + n] ELSE 0)
<1>f. /\ TypeOK /\ ListFacts(list) /\ AsideBlocks \subseteq Aside /\ Aside \subseteq Pages
      /\ Covered(list) \cap Aside = {} /\ Covered(list) \cup Aside = known \ used
      /\ flag \cap known = B \cup AsideBlocks
      /\ \A p \in known : P[p] # 0 <=> p \in flag
      /\ num_free = Cardinality(Covered(list))
      /\ saved # NULL => saved.num_free = Cardinality(Aside)
      /\ NumPages \in Nat
  BY PmmFacts DEF PmmConstants
<1>b. /\ Lengths(B, P) /\ Apart(B, P) /\ Covered(list) = Cov(B, P) /\ B \subseteq Covered(list)
      /\ Covered(list) \subseteq Pages
  BY <1>f DEF ListFacts
<1>u. used \subseteq Pages /\ used \cap lost = {} /\ flag \subseteq Pages
  BY <1>f DEF TypeOK, PmmInv
<1>1. b \in Int /\ n \in Int /\ n > 0 /\ Run(b, n) \subseteq used
  BY DEF FreeStep
<1>2. Run(b, n) \cap (Covered(list) \cup Aside) = {} /\ Run(b, n) \subseteq known /\ b \in Run(b, n)
  <2>1. b \in Run(b, n)
    BY <1>1 DEF Run
  <2> QED
    BY <1>1, <1>f, <1>u, <2>1
<1>3. /\ prev \in BOOLEAN
      /\ IF prev THEN a \in B /\ a + P[a] = b ELSE \A c \in B : c + P[c] # b
      /\ C = (B \cup {b}) \ gone
      /\ flag' = (flag \cup {b}) \ gone
      /\ num_free' = num_free + n /\ used' = used \ Run(b, n)
      /\ result' = result /\ saved' = saved /\ lost' = lost
      /\ list' \in Seq(Pages) /\ Ordered(list')
      /\ property' = [p \in Pages |-> IF p = base THEN total ELSE IF p \in gone THEN 0 ELSE P[p]]
  BY DEF FreeStep
<1>4. \A p \in Pages : Q[p] = IF p = base THEN total ELSE IF p \in gone THEN 0 ELSE P[p]
  BY <1>3
<1>5. B \cup {b} \subseteq Pages /\ C \subseteq Pages /\ base \in Pages
  BY <1>2, <1>3, <1>b
<1>6. \A c \in C : Q[c] = IF c = base THEN total ELSE P[c]
  <2>1. \A c \in C : c \in Pages /\ c \notin gone
    BY <1>3, <1>5
  <2> QED
    BY <1>4, <2>1
<1>7. Lengths(C, Q) /\ Apart(C, Q) /\ base \in C /\ Cov(C, Q) = Cov(B, P) \cup Run(b, n)
  <2>1. Run(b, n) \cap Cov(B, P) = {}
    BY <1>2, <1>b
  <2>2. C = (B \cup {b}) \ ((IF prev THEN {b} ELSE {}) \cup (IF b + n \in B THEN {b + n} ELSE {}))
    BY <1>3 DEF Gone
  <2>3. Joined(B, P, b, n, prev, a, base, C, Q)
    BY <1>1, <1>3, <1>6, <1>b, <2>1, <2>2, Zenon DEF Joined
  <2> QED
    BY <2>3, FreeCov
<1>8. total = Q[base] /\ total \in Int /\ total > 0
  BY <1>6, <1>7 DEF Lengths
<1> HIDE DEF total
<1>9. Merged(list)' /\ Covered(list)' = Covered(list) \cup Run(b, n)
  <2>1. Merged(list)' /\ Covered(list)' = Cov(C, Q)
    BY <1>3, <1>7, ListAfter
  <2> QED
    BY <1>7, <1>b, <2>1
<1>10. gone \subseteq B \cup {b} /\ base \in B \cup {b} /\ b \in known
  BY <1>2, <1>3 DEF Gone
<1>11. \A c \in AsideBlocks : Q[c] = P[c]
  <2> TAKE c \in AsideBlocks
  <2>1. c \in Pages /\ c \notin B \cup {b}
    BY <1>2, <1>b, <1>f
  <2> QED
    BY <1>4, <1>10, <2>1
<1>12. /\ Aside' = Aside /\ AsideBlocks' = AsideBlocks
       /\ saved # NULL => Merged(saved.list)'
  BY <1>3, <1>11, AsideKept
<1>13. num_free' = Cardinality(Covered(list)') /\ num_free' \in 0 .. NumPages
  <2>1. IsFiniteSet(Pages) /\ Cardinality(Pages) = NumPages
    <3>1. IsFiniteSet(0 .. NumPages - 1)
          /\ Cardinality(0 .. NumPages - 1) = IF 0 > NumPages - 1 THEN 0 ELSE NumPages - 1 - 0 + 1
      BY <1>f, FS_Interval
    <3> QED
      BY <1>f, <3>1 DEF Pages
  <2>2. IsFiniteSet(Covered(list)) /\ IsFiniteSet(Run(b, n))
    BY <1>2, <1>b, <2>1, FS_Subset
  <2>3. Covered(list) \cap Run(b, n) = {}
    BY <1>2
  <2>4. Cardinality(Run(b, n)) = n
    <3>1. Cardinality(b .. b + n - 1) = IF b > b + n - 1 THEN 0 ELSE b + n - 1 - b + 1
      BY <1>1, FS_Interval
    <3> QED
      BY <1>1, <3>1 DEF Run
  <2>5. Cardinality(Covered(list) \cup Run(b, n)) = Cardinality(Covered(list)) + n - 0
    BY <2>2, <2>3, <2>4, FS_Union, FS_EmptySet
  <2>6. /\ Cardinality(Covered(list)) \in Nat
        /\ Cardinality(Covered(list) \cup Run(b, n)) <= NumPages
    <3>1. Covered(list) \cup Run(b, n) \in SUBSET Pages
      BY <1>2, <1>b
    <3> QED
      BY <2>1, <2>2, <3>1, FS_Subset, FS_CardinalityType
  <2> QED
    BY <1>1, <1>3, <1>9, <1>f, <2>5, <2>6
<1>14. Covered(list)' \cap Aside' = {} /\ Covered(list)' \cup Aside' = known \ used'
  BY <1>2, <1>3, <1>9, <1>12, <1>f, <1>1
<1>15. flag' \cap known = C \cup AsideBlocks
  <2>1. gone \cap AsideBlocks = {}
    BY <1>2, <1>10, <1>b, <1>f
  <2> QED
    BY <1>3, <1>10, <1>f, <2>1
<1>16. \A p \in known : Q[p] # 0 <=> p \in flag'
  <2> TAKE p \in known
  <2>1. CASE p = base
    <3>1. base \in flag'
      BY <1>7, <1>15
    <3> QED
      BY <1>4, <1>8, <2>1, <3>1
  <2>2. CASE p # base /\ p \in gone
    BY <1>3, <1>4, <2>2
  <2>3. CASE p # base /\ p \notin gone
    <3>1. Q[p] = P[p]
      BY <1>4, <2>3
    <3>2. p # b
      BY <2>3 DEF Gone
    <3> QED
      BY <1>3, <1>f, <2>3, <3>1, <3>2
  <2> QED
    BY <2>1, <2>2, <2>3
<1>17. TypeOK'
  <2>1. Q[base] \in 0 .. NumPages
    <3>1. base + Q[base] - 1 \in Cov(C, Q)
      <4>1. base \in Int /\ Q[base] \in Int /\ Q[base] > 0
        BY <1>7 DEF Lengths
      <4>2. base + Q[base] - 1 \in Int /\ base <= base + Q[base] - 1
            /\ base + Q[base] - 1 < base + Q[base]
        BY <4>1
      <4> QED
        BY <1>7, <4>2 DEF Cov
    <3>2. base + Q[base] - 1 \in Pages
      BY <1>2, <1>7, <1>b, <3>1
    <3>3. base \in Pages
      BY <1>5
    <3> QED
      BY <1>8, <1>f, <3>2, <3>3 DEF Pages
  <2>2. property' \in [Pages -> 0 .. NumPages]
    <3>1. property' = [p \in Pages |-> Q[p]]
      BY <1>3
    <3>2. \A p \in Pages : P[p] \in 0 .. NumPages
      BY <1>f DEF TypeOK
    <3>3. \A p \in Pages : Q[p] \in 0 .. NumPages
      BY <1>4, <1>8, <1>f, <2>1, <3>2
    <3> QED
      BY <3>1, <3>3
  <2>3. flag' \subseteq Pages /\ used' \subseteq Pages
    BY <1>3, <1>5, <1>u
  <2> QED
    BY <1>3, <1>13, <1>f, <2>2, <2>3 DEF TypeOK
<1>18. used' \cap lost' = {}
  BY <1>3, <1>u
<1>19. C \cup AsideBlocks = Blocks(list') \cup (IF saved' = NULL THEN {} ELSE Blocks(saved'.list))
  BY <1>3 DEF AsideBlocks
<1>20. ListExact'
  BY <1>3, <1>9, <1>12, <1>13, <1>14, <1>15, <1>16, <1>17, <1>19, <1>f DEF ListExact, Blocks
<1>21. Run(b, n) \subseteq Pages
  BY <1>1, <1>u
<1> QED
  BY <1>2, <1>9, <1>12, <1>18, <1>20, <1>21 DEF PmmInv


\* init_page makes one block of all pages.
LEMMA PmmInit == ASSUME PmmConstants, Init
                 PROVE  PmmInv /\ Covered(list) = Pages /\ Aside = {}
<1>1. NumPages \in Nat /\ NumPages > 0 /\ 0 \in Pages
  BY DEF PmmConstants, Pages
<1>2. list = <<0>> /\ Len(list) = 1 /\ list \in Seq(Pages)
  BY <1>1 DEF Init
<1>3. Blocks(list) = {0}
  BY <1>2 DEF Blocks
<1>4. property[0] = NumPages /\ \A p \in Pages : property[p] = IF p = 0 THEN NumPages ELSE 0
  BY <1>1 DEF Init
<1>5. Run(0, NumPages) = Pages
  BY <1>1 DEF Run, Pages
<1>6. Covered(list) = Pages
  BY <1>3, <1>4, <1>5 DEF Covered
<1>7. Cardinality(Pages) = NumPages
  BY <1>1, FS_Interval DEF Pages
<1>8. TypeOK
  BY <1>1, <1>2 DEF Init, TypeOK
<1>9. Merged(list)
  BY <1>2 DEF Merged
<1>10. Aside = {} /\ saved = NULL /\ lost = {} /\ used = {} /\ flag = {0} /\ num_free = NumPages
  BY DEF Init, Aside
<1>11. \A p \in Pages : property[p] # 0 <=> p \in flag
  BY <1>1, <1>4, <1>10
<1>12. ListExact
  BY <1>1, <1>3, <1>6, <1>7, <1>8, <1>9, <1>10, <1>11 DEF ListExact
<1> QED
  BY <1>6, <1>10, <1>12 DEF PmmInv

\* A test puts the list aside.
LEMMA SaveKeeps == ASSUME PmmConstants, PmmInv, SaveArea
                   PROVE  /\ PmmInv'
                          /\ Covered(list)' = {} /\ Aside = {} /\ Aside' = Covered(list)
<1>f. /\ TypeOK /\ ListFacts(list)
      /\ Covered(list) \cup Aside = (Pages \ lost) \ used
      /\ flag \cap (Pages \ lost) = Blocks(list) \cup AsideBlocks
      /\ \A p \in Pages \ lost : property[p] # 0 <=> p \in flag
      /\ num_free = Cardinality(Covered(list))
      /\ NumPages \in Nat /\ Merged(list) /\ used \cap lost = {}
  BY PmmFacts DEF PmmConstants, PmmInv, ListExact
<1>1. /\ saved = NULL /\ saved' = [list |-> list, num_free |-> num_free]
      /\ list' = <<>> /\ num_free' = 0
      /\ flag' = flag /\ property' = property /\ used' = used /\ result' = result /\ lost' = lost
  BY DEF SaveArea
<1>2. saved' \in [list : Seq(Pages), num_free : 0 .. NumPages]
      /\ saved'.list = list /\ saved'.num_free = num_free
  BY <1>1, <1>f DEF TypeOK
<1>3. saved' # NULL
  BY <1>2 DEF PmmConstants
<1>4. Blocks(list') = {} /\ Len(list') = 0
  BY <1>1 DEF Blocks
<1>5. Covered(list)' = {}
  BY <1>4 DEF Covered, Blocks
<1>6. Aside = {} /\ AsideBlocks = {}
  BY <1>1 DEF Aside, AsideBlocks
<1>7. Aside' = Covered(list)
  <2>1. Aside' = UNION { Run(b, property'[b]) : b \in Blocks(saved'.list) }
    BY <1>3 DEF Aside, Covered, Blocks
  <2> QED
    BY <1>1, <1>2, <2>1 DEF Covered
<1>8. Merged(list)'
  BY <1>1, <1>4 DEF Merged
<1>9. Merged(saved.list)'
  BY <1>1, <1>2, <1>f DEF Merged
<1>10. TypeOK'
  <2>1. <<>> \in Seq(Pages) /\ 0 \in 0 .. NumPages
    BY <1>f
  <2> QED
    BY <1>1, <1>2, <1>f, <2>1 DEF TypeOK
<1>11. num_free' = Cardinality(Covered(list)') /\ saved'.num_free = Cardinality(Aside')
  BY <1>1, <1>2, <1>5, <1>7, <1>f, FS_EmptySet
<1>12. Covered(list)' \cap Aside' = {} /\ Covered(list)' \cup Aside' = (Pages \ lost') \ used'
  BY <1>1, <1>5, <1>6, <1>7, <1>f
<1>13. flag' \cap (Pages \ lost') = Blocks(list') \cup (IF saved' = NULL THEN {} ELSE Blocks(saved'.list))
  BY <1>1, <1>2, <1>3, <1>4, <1>6, <1>f
<1>14. \A p \in Pages \ lost' : property'[p] # 0 <=> p \in flag'
  BY <1>1, <1>f
<1>15. ListExact'
  BY <1>8, <1>9, <1>10, <1>11, <1>12, <1>13, <1>14 DEF ListExact, Blocks
<1> QED
  BY <1>1, <1>5, <1>6, <1>7, <1>15, <1>f DEF PmmInv

\* A test puts it back; what it had freed meanwhile is lost.
LEMMA RestoreKeeps == ASSUME PmmConstants, PmmInv, RestoreArea
                      PROVE  PmmInv' /\ Covered(list)' = Aside /\ Aside' = {}
<1>f. /\ TypeOK /\ ListFacts(list) /\ Covered(list) \cap Aside = {}
      /\ AsideBlocks \subseteq Aside
      /\ Covered(list) \cup Aside = (Pages \ lost) \ used
      /\ flag \cap (Pages \ lost) = Blocks(list) \cup AsideBlocks
      /\ \A p \in Pages \ lost : property[p] # 0 <=> p \in flag
      /\ NumPages \in Nat /\ used \cap lost = {}
  BY PmmFacts DEF PmmConstants, PmmInv
<1>1. /\ saved # NULL /\ saved' = NULL
      /\ list' = saved.list /\ num_free' = saved.num_free
      /\ lost' = lost \cup Covered(list)
      /\ flag' = flag /\ property' = property /\ used' = used /\ result' = result
  BY DEF RestoreArea
<1>2. ListFacts(saved.list) /\ Merged(saved.list) /\ saved.num_free = Cardinality(Aside)
  BY <1>1, PmmFacts DEF PmmInv, ListExact
<1>3. saved.list \in Seq(Pages) /\ saved.num_free \in 0 .. NumPages
  BY <1>1, <1>f DEF TypeOK
<1>4. Aside = Covered(saved.list) /\ AsideBlocks = Blocks(saved.list)
  BY <1>1 DEF Aside, AsideBlocks
<1>5. Covered(list)' = Aside /\ Blocks(list') = AsideBlocks
  <2>1. Covered(list)' = UNION { Run(b, property'[b]) : b \in Blocks(list') }
    BY DEF Covered, Blocks
  <2> QED
    BY <1>1, <1>4, <2>1 DEF Covered
<1>6. Aside' = {}
  BY <1>1 DEF Aside
<1>7. Merged(list)'
  BY <1>1, <1>2 DEF Merged
<1>8. Covered(list) \subseteq Pages /\ Blocks(list) \subseteq Covered(list)
  BY <1>f DEF ListFacts
<1>9. TypeOK'
  <2>1. lost' \subseteq Pages
    BY <1>1, <1>8, <1>f DEF TypeOK
  <2> QED
    BY <1>1, <1>3, <1>f, <2>1 DEF TypeOK
<1>10. Covered(list)' \cup Aside' = (Pages \ lost') \ used' /\ Covered(list)' \cap Aside' = {}
  BY <1>1, <1>5, <1>6, <1>f
<1>11. flag' \cap (Pages \ lost') = Blocks(list') \cup (IF saved' = NULL THEN {} ELSE Blocks(saved'.list))
  BY <1>1, <1>5, <1>8, <1>f
<1>12. \A p \in Pages \ lost' : property'[p] # 0 <=> p \in flag'
  BY <1>1, <1>f
<1>13. used' \cap lost' = {}
  BY <1>1, <1>f
<1>14. num_free' = Cardinality(Covered(list)')
  BY <1>1, <1>2, <1>5
<1>15. ListExact'
  BY <1>1, <1>7, <1>9, <1>10, <1>11, <1>12, <1>14 DEF ListExact, Blocks
<1> QED
  BY <1>5, <1>6, <1>13, <1>15 DEF PmmInv


-----------------------------------------------------------------------------
(* The promise of PageSpec.                                                *)

\* The free pages are in gaps: a gap of j pages is a block of the list with the
\* length j, for blocks next to each other have been merged.
LEMMA GapsAre ==
  ASSUME PmmConstants, PmmInv, NEW j \in Nat \ {0}, NEW b
  PROVE  b \in Promise!Gaps(j) <=> b \in Blocks(list) /\ property[b] = j
<1> DEFINE B == Blocks(list)
           P == property
           F == Covered(list)
<1>f. /\ Lengths(B, P) /\ Apart(B, P) /\ F = Cov(B, P) /\ B \subseteq F
      /\ \A c \in B : c \in Int /\ P[c] \in Int /\ P[c] > 0
  BY PmmFacts DEF ListFacts, Lengths
<1>p. \A p \in Int : p \in F <=> \E c \in B : c <= p /\ p < c + P[c]
  BY <1>f DEF Cov
<1>g. b \in Promise!Gaps(j) <=> /\ b \in F /\ b .. b + j - 1 \subseteq F
                                /\ b - 1 \notin F /\ b + j \notin F
  BY DEF Promise!Gaps, Promise!Run
<1>a. \A c, d \in B : c < d => c + P[c] < d
  BY <1>f DEF Apart
<1> HIDE DEF B, P, F
<1>1. ASSUME b \in B, P[b] = j PROVE b \in Promise!Gaps(j)
  <2>0. b \in Int /\ j \in Int /\ j > 0 /\ b \in F
    BY <1>1, <1>f
  <2>1. b .. b + j - 1 \subseteq F
    BY <1>1, <1>p, <2>0
  <2>2. ASSUME b - 1 \in F PROVE FALSE
    <3>1. PICK c \in B : c <= b - 1 /\ b - 1 < c + P[c]
      BY <1>p, <2>0, <2>2
    <3>2. c + P[c] < b
      BY <1>1, <1>a, <1>f, <2>0, <3>1
    <3> QED
      BY <1>f, <2>0, <3>1, <3>2
  <2>3. ASSUME b + j \in F PROVE FALSE
    <3>1. PICK c \in B : c <= b + j /\ b + j < c + P[c]
      BY <1>p, <2>0, <2>3
    <3>2. CASE c = b
      BY <1>1, <1>f, <2>0, <3>1, <3>2
    <3>3. CASE c < b
      BY <1>1, <1>a, <1>f, <2>0, <3>1, <3>3
    <3>4. CASE c > b
      BY <1>1, <1>a, <1>f, <2>0, <3>1, <3>4
    <3> QED
      BY <1>f, <2>0, <3>2, <3>3, <3>4
  <2> QED
    BY <1>g, <2>0, <2>1, <2>2, <2>3
<1>2. ASSUME b \in Promise!Gaps(j) PROVE b \in B /\ P[b] = j
  <2>0. /\ b \in F /\ b .. b + j - 1 \subseteq F
        /\ b - 1 \notin F /\ b + j \notin F
    BY <1>2, <1>g
  <2>1. b \in Int
    BY <1>f, <2>0 DEF Cov
  <2>2. PICK c \in B : c <= b /\ b < c + P[c]
    BY <1>p, <2>0, <2>1
  <2>3. c = b
    <3> SUFFICES ASSUME c # b PROVE FALSE
      OBVIOUS
    <3>1. c <= b - 1 /\ b - 1 < c + P[c] /\ b - 1 \in Int
      BY <1>f, <2>1, <2>2
    <3> QED
      BY <1>p, <2>0, <3>1
  <2>4. P[b] <= j
    <3> SUFFICES ASSUME ~(P[b] <= j) PROVE FALSE
      OBVIOUS
    <3>1. b + j \in Int /\ b <= b + j /\ b + j < b + P[b]
      BY <1>f, <2>1, <2>3
    <3> QED
      BY <1>p, <2>0, <2>3, <3>1
  <2>5. P[b] >= j
    <3> SUFFICES ASSUME ~(P[b] >= j) PROVE FALSE
      OBVIOUS
    <3>1. b + P[b] \in b .. b + j - 1 /\ b + P[b] \in Int
      BY <1>f, <2>1, <2>3
    <3>2. PICK d \in B : d <= b + P[b] /\ b + P[b] < d + P[d]
      BY <1>p, <2>0, <3>1
    <3>3. CASE d = b
      BY <1>f, <2>1, <3>2, <3>3
    <3>4. CASE d < b
      <4>1. d + P[d] < b /\ P[b] > 0
        BY <1>a, <1>f, <2>3, <3>4
      <4> QED
        BY <1>f, <2>1, <2>3, <3>2, <4>1
    <3>5. CASE d > b
      <4>1. b + P[b] < d
        BY <1>a, <2>3, <3>5
      <4> QED
        BY <1>f, <2>1, <2>3, <3>2, <4>1
    <3> QED
      BY <1>f, <2>1, <3>3, <3>4, <3>5
  <2> QED
    BY <1>f, <2>3, <2>4, <2>5
<1> QED
  BY <1>1, <1>2 DEF B, P


\* alloc_pages(n) gives out the front of a smallest gap that is large enough.
LEMMA AllocRefines ==
  ASSUME PmmConstants, PmmInv, NEW n \in Nat \ {0}, AllocPages(n)
  PROVE  PmmInv' /\ Promise!Alloc(n)
<1> DEFINE a == list[Best(n)]
           k == property[a]
<1>1. AllocStep(n, a)
  BY AllocIsStep
<1>2. /\ a \in Blocks(list) /\ n <= k /\ result' = a
      /\ \A b \in Blocks(list) : n <= property[b] => k <= property[b]
  BY <1>1 DEF AllocStep
<1>3. k \in 0 .. NumPages /\ k \in Int /\ NumPages \in Nat /\ a \in Pages
  BY <1>2, PmmFacts DEF ListFacts, Lengths, TypeOK, PmmConstants
<1>4. k \in n .. NumPages /\ k \in Nat \ {0}
  BY <1>2, <1>3
<1>5. a \in Promise!Gaps(k)
  BY <1>2, <1>4, GapsAre
<1>6. ASSUME NEW j \in n .. k - 1 PROVE Promise!Gaps(j) = {}
  <2> SUFFICES ASSUME NEW b, b \in Promise!Gaps(j) PROVE FALSE
    OBVIOUS
  <2>1. j \in Nat \ {0} /\ n <= j /\ j < k
    BY <1>3
  <2>2. b \in Blocks(list) /\ property[b] = j
    BY <2>1, GapsAre
  <2> QED
    BY <1>2, <1>3, <2>1, <2>2
<1>7. PmmInv' /\ Covered(list)' = Covered(list) \ Run(a, n) /\ Aside' = Aside
  BY <1>1, AllocKeeps
<1> HIDE DEF a, k
<1> QED
  BY <1>2, <1>4, <1>5, <1>6, <1>7 DEF Promise!Alloc, Promise!Run, Run

\* What looks only at the list sees no step that leaves the list alone.
LEMMA AreaKept ==
  ASSUME PmmInv, list' = list, num_free' = num_free, flag' = flag, property' = property,
         used' = used, saved' = saved, lost' = lost, result' \in {result, NULL}
  PROVE  PmmInv' /\ Covered(list)' = Covered(list) /\ Aside' = Aside
<1>1. Covered(list)' = Covered(list) /\ Aside' = Aside
  BY DEF Covered, Blocks, Aside
<1>2. TypeOK'
  BY DEF PmmInv, ListExact, TypeOK
<1>3. Merged(list)' /\ (saved' # NULL => Merged(saved.list)')
  BY DEF PmmInv, ListExact, Merged
<1>4. ListExact'
  BY <1>1, <1>2, <1>3 DEF PmmInv, ListExact, Blocks
<1> QED
  BY <1>1, <1>4 DEF PmmInv

\* It refuses only when there is no such gap; the test against num_free alone
\* turns nobody away.
LEMMA FailRefines ==
  ASSUME PmmConstants, PmmInv, NEW n \in Nat \ {0}, AllocFails(n)
  PROVE  PmmInv' /\ Promise!Refuse(n)
<1>f. /\ Covered(list) \subseteq Pages /\ NumPages \in Nat
      /\ num_free = Cardinality(Covered(list))
      /\ Covered(list) = Cov(Blocks(list), property) /\ Lengths(Blocks(list), property)
  BY PmmFacts DEF ListFacts, PmmConstants
<1>1. ASSUME NEW k \in n .. NumPages, NEW b, b \in Promise!Gaps(k) PROVE FALSE
  <2>1. k \in Nat \ {0} /\ n <= k
    BY <1>f
  <2>2. b \in Blocks(list) /\ property[b] = k
    BY <1>1, <2>1, GapsAre
  <2>3. Run(b, k) \subseteq Covered(list)
    BY <1>1 DEF Promise!Gaps, Promise!Run, Run
  <2>4. Cardinality(Run(b, k)) = k
    <3>1. b \in Int
      BY <1>f, <2>2 DEF Lengths
    <3>2. Cardinality(b .. b + k - 1) = IF b > b + k - 1 THEN 0 ELSE b + k - 1 - b + 1
      BY <2>1, <3>1, FS_Interval
    <3> QED
      BY <2>1, <3>1, <3>2 DEF Run
  <2>5. IsFiniteSet(Covered(list))
    <3>1. IsFiniteSet(Pages)
      BY <1>f, FS_Interval DEF Pages
    <3> QED
      BY <1>f, <3>1, FS_Subset
  <2>6. k <= num_free /\ num_free \in Nat
    BY <1>f, <2>3, <2>4, <2>5, FS_Subset, FS_CardinalityType
  <2>7. PICK i \in 1 .. Len(list) : b = list[i]
    BY <2>2 DEF Blocks
  <2>8. CanAlloc(n)
    BY <2>1, <2>2, <2>6, <2>7 DEF CanAlloc, Fits
  <2> QED
    BY <2>8 DEF AllocFails
<1>2. /\ list' = list /\ num_free' = num_free /\ flag' = flag /\ property' = property
      /\ used' = used /\ saved' = saved /\ lost' = lost /\ result' = NULL
  BY DEF AllocFails, area
<1>3. PmmInv' /\ Covered(list)' = Covered(list) /\ Aside' = Aside
  BY <1>2, AreaKept
<1> QED
  BY <1>1, <1>2, <1>3 DEF Promise!Refuse

\* free_pages makes free what it was given, and nothing that was free or aside.
LEMMA FreeRefines ==
  ASSUME PmmConstants, PmmInv, NEW b \in Int, NEW n \in Nat \ {0}, FreePages(b, n)
  PROVE  PmmInv' /\ b \in Pages /\ n \in 1 .. NumPages /\ Promise!Free(b, n)
<1>1. PICK prev, a : FreeStep(b, n, prev, a)
  BY FreeIsStep
<1>2. /\ PmmInv'
      /\ Run(b, n) \cap (Covered(list) \cup Aside) = {} /\ Run(b, n) \subseteq Pages
      /\ Covered(list)' = Covered(list) \cup Run(b, n) /\ Aside' = Aside
  BY <1>1, FreeKeeps
<1>3. result' = result
  BY DEF FreePages
<1>4. b \in Pages /\ n \in 1 .. NumPages
  <2>1. b \in Run(b, n) /\ b + n - 1 \in Run(b, n)
    BY DEF Run
  <2>2. b \in Pages /\ b + n - 1 \in Pages /\ NumPages \in Nat
    BY <1>2, <2>1 DEF PmmConstants
  <2> QED
    BY <2>2 DEF Pages
<1> QED
  BY <1>2, <1>3, <1>4 DEF Promise!Free, Promise!Run, Run, Pages

\* One call of the allocator, or of a test that puts the list aside or back.
Call == \/ \E n \in Sizes : AllocPages(n) \/ AllocFails(n)
        \/ \E b \in Int, n \in Nat \ {0} : FreePages(b, n)
        \/ SaveArea \/ RestoreArea

\* Every call keeps the invariant and is a step that PageSpec allows.
LEMMA CallRefines ==
  ASSUME PmmConstants, Sizes \subseteq Nat \ {0}, PmmInv, Call
  PROVE  PmmInv' /\ Promise!Next
<1>1. ASSUME NEW n \in Sizes, AllocPages(n) PROVE PmmInv' /\ Promise!Next
  BY <1>1, AllocRefines DEF Promise!Next
<1>2. ASSUME NEW n \in Sizes, AllocFails(n) PROVE PmmInv' /\ Promise!Next
  BY <1>2, FailRefines DEF Promise!Next
<1>3. ASSUME NEW b \in Int, NEW n \in Nat \ {0}, FreePages(b, n) PROVE PmmInv' /\ Promise!Next
  BY <1>3, FreeRefines DEF Promise!Next, Pages
<1>4. ASSUME SaveArea PROVE PmmInv' /\ Promise!Next
  BY <1>4, SaveKeeps DEF Promise!Next, Promise!PutAside, SaveArea
<1>5. ASSUME RestoreArea PROVE PmmInv' /\ Promise!Next
  BY <1>5, RestoreKeeps DEF Promise!Next, Promise!PutBack, RestoreArea
<1> QED
  BY <1>1, <1>2, <1>3, <1>4, <1>5 DEF Call

\* The tests of best_fit_pmm.c make nothing but such calls.
LEMMA NextIsCall == ASSUME NumPages \in Nat, Next PROVE Call
BY DEF Next, Call, Pages, TestsRestore

\* What is left alone stays as it was.
LEMMA PmmStutters == ASSUME PmmInv, UNCHANGED vars
                     PROVE  PmmInv' /\ UNCHANGED Promise!vars
BY AreaKept DEF vars, area, Promise!vars


\* The free list of best_fit_pmm.c and the flags of its pages are exact in every
\* state, for every number of pages.
THEOREM ListExactHolds == ASSUME PmmConstants, Sizes \subseteq Nat \ {0}
                          PROVE  Spec => []ListExact
<1>1. Init => PmmInv
  BY PmmInit
<1>2. PmmInv /\ [Next]_vars => PmmInv'
  <2> SUFFICES ASSUME PmmInv, [Next]_vars PROVE PmmInv'
    OBVIOUS
  <2>1. CASE Next
    BY <2>1, NextIsCall, CallRefines DEF PmmConstants
  <2>2. CASE UNCHANGED vars
    BY <2>2, PmmStutters
  <2> QED
    BY <2>1, <2>2
<1>3. PmmInv => ListExact
  BY DEF PmmInv
<1> QED
  BY <1>1, <1>2, <1>3, PTL DEF Spec

\* alloc_pages and free_pages keep the promise of PageSpec: best fit, no refusal
\* while there is a gap that is large enough, nothing free twice.
THEOREM KeepsPageSpecHolds == ASSUME PmmConstants, Sizes \subseteq Nat \ {0}
                              PROVE  Spec => KeepsPageSpec
<1>1. Init => PmmInv /\ Promise!Init
  BY PmmInit DEF Promise!Init, Init, Pages
<1>2. PmmInv /\ [Next]_vars => PmmInv' /\ [Promise!Next]_Promise!vars
  <2> SUFFICES ASSUME PmmInv, [Next]_vars PROVE PmmInv' /\ [Promise!Next]_Promise!vars
    OBVIOUS
  <2>1. CASE Next
    BY <2>1, NextIsCall, CallRefines DEF PmmConstants
  <2>2. CASE UNCHANGED vars
    BY <2>2, PmmStutters
  <2> QED
    BY <2>1, <2>2
<1> QED
  BY <1>1, <1>2, PTL DEF Spec, KeepsPageSpec, Promise!Spec
=============================================================================
