-------------------------- MODULE ProcTableProofs --------------------------
(***************************************************************************)
(* The table of processes of kernel/proc/proc.c, for every MAX_PROCESS and *)
(* size of the hash list: the pids, the two lists and the family pointers  *)
(* agree in every state, also in the scan of alloc_pid and in the loop of  *)
(* do_exit.                                                                *)
(***************************************************************************)
EXTENDS ProcTable, FiniteSetTheorems, SequenceTheorems, TLAPS

-----------------------------------------------------------------------------
(* alloc_pid alone (PidAlloc), with a scan in any order: it never gives out *)
(* a pid in use, for every MAX_PROCESS.                                    *)

\* What the counters and the scan maintain together: between calls every entry
\* counts as visited, and during a scan the candidate is below MAX_PID.
Inv == /\ TypeOK
       /\ GapFree
       /\ pc = "ready" => todo = {}
       /\ pc = "scan" => prev_pid < MAX_PID

\* The largest pid.
LEMMA MaxPid == MAX_PID \in Nat /\ MAX_PID >= 4
  BY PidAssumption DEF MAX_PID

\* The next candidate is a pid again.
LEMMA SuccType == ASSUME NEW n \in 1 .. MAX_PID
                  PROVE  Succ(n) \in 1 .. MAX_PID - 1
  BY MaxPid DEF Succ

\* Every state of alloc_pid between and during its scans satisfies Inv.
LEMMA InitInv == Init => Inv
  BY MaxPid DEF Init, Inv, TypeOK, GapFree

\* Every step of alloc_pid's scan and of do_wait keeps the invariant.
LEMMA NextInv == Inv /\ [Next]_vars => Inv'
<1> SUFFICES ASSUME Inv, [Next]_vars PROVE Inv'
  OBVIOUS
<1> USE MaxPid DEF Inv, TypeOK, GapFree
<1>1. CASE AllocPid
  <2> DEFINE prev == Succ(prev_pid)
  <2>1. prev \in 1 .. MAX_PID - 1
    BY SuccType
  <2>2. CASE MustScan(prev, next_pid)
    <3>1. /\ prev_pid' = prev /\ next_pid' = MAX_PID /\ todo' = pids /\ pc' = "scan"
          /\ pids' = pids /\ last' = last
      BY <1>1, <2>2 DEF AllocPid
    <3> HIDE DEF prev
    <3> QED
      BY <2>1, <3>1
  <2>3. CASE ~MustScan(prev, next_pid)
    <3>1. prev = prev_pid + 1 /\ prev < next_pid
      BY <2>1, <2>3 DEF MustScan, Succ
    <3>2. /\ prev_pid' = prev /\ next_pid' = next_pid /\ todo' = todo
          /\ pids' = pids \cup {prev} /\ pc' = "ready" /\ last' = prev /\ pc = "ready"
      BY <1>1, <2>3 DEF AllocPid, Return
    <3> HIDE DEF prev
    <3> QED
      BY <2>1, <3>1, <3>2
  <2> QED
    BY <2>2, <2>3
<1>2. ASSUME NEW p \in pids, ScanEntry(p) PROVE Inv'
  <2>1. /\ pc = "scan" /\ p \in todo /\ pids' = pids /\ pc' = pc /\ last' = last
    BY <1>2 DEF ScanEntry
  <2>2. CASE Collision(p)
    <3>1. CASE prev_pid + 1 >= next_pid
      <4>1. prev_pid' \in 1 .. MAX_PID - 1 /\ next_pid' = MAX_PID /\ todo' = pids
        BY <2>2, <3>1, SuccType DEF Collision
      <4> QED
        BY <2>1, <4>1
    <3>2. CASE prev_pid + 1 < next_pid
      <4>1. /\ p = prev_pid /\ prev_pid' = prev_pid + 1 /\ next_pid' = next_pid
            /\ todo' = todo \ {p}
        BY <2>2, <3>2 DEF Collision
      <4>2. \A q \in pids' \ todo' :
              ~(prev_pid' < q /\ q < next_pid') /\ q # prev_pid'
        <5> SUFFICES ASSUME NEW q \in pids, q \notin todo \/ q = p
                     PROVE  ~(prev_pid + 1 < q /\ q < next_pid) /\ q # prev_pid + 1
          BY <2>1, <4>1
        <5>1. q \in Int /\ prev_pid \in Int /\ next_pid \in Int
          OBVIOUS
        <5>2. CASE q = p
          BY <4>1, <5>1, <5>2
        <5>3. CASE q \notin todo
          <6>1. ~(prev_pid < q /\ q < next_pid) /\ q # prev_pid
            BY <2>1, <5>3
          <6> QED
            BY <3>2, <5>1, <6>1
        <5> QED
          BY <5>2, <5>3
      <4>3. TypeOK' /\ prev_pid' < MAX_PID
        BY <2>1, <3>2, <4>1
      <4>4. GapFree'
        BY <4>2
      <4> QED
        BY <2>1, <4>3, <4>4
    <3> QED
      BY <3>1, <3>2
  <2>3. CASE Narrow(p)
    BY <2>1, <2>3 DEF Narrow
  <2> QED
    BY <1>2, <2>2, <2>3 DEF ScanEntry
<1>3. CASE ScanDone
  BY <1>3 DEF ScanDone, Return
<1>4. ASSUME NEW p \in pids, Reap(p) PROVE Inv'
  BY <1>4 DEF Reap
<1>5. CASE UNCHANGED vars
  BY <1>5 DEF vars
<1> QED
  BY <1>1, <1>2, <1>3, <1>4, <1>5 DEF Next, Scan

\* The counters keep their promise in every reachable state (alloc_pid).
THEOREM GapFreeHolds == Spec => [](TypeOK /\ GapFree)
<1>1. Inv => TypeOK /\ GapFree
  BY DEF Inv
<1> QED
  BY InitInv, NextInv, <1>1, PTL DEF Spec

\* A call that returns from a state satisfying Inv returns a fresh pid.
LEMMA StepFresh == Inv /\ Next /\ Returned => prev_pid' \in (1 .. MAX_PID - 1) \ pids
<1> SUFFICES ASSUME Inv, Next, Returned PROVE prev_pid' \in (1 .. MAX_PID - 1) \ pids
  OBVIOUS
<1> USE MaxPid DEF Inv, TypeOK, GapFree
<1>1. CASE AllocPid
  <2> DEFINE prev == Succ(prev_pid)
  <2>1. prev \in 1 .. MAX_PID - 1
    BY SuccType
  <2>2. ~MustScan(prev, next_pid) /\ prev_pid' = prev /\ pc = "ready"
    BY <1>1 DEF AllocPid, Returned
  <2>3. prev = prev_pid + 1 /\ prev < next_pid
    BY <2>1, <2>2 DEF MustScan, Succ
  <2> QED
    BY <2>1, <2>2, <2>3
<1>2. ASSUME NEW p \in pids, ScanEntry(p) PROVE FALSE
  BY <1>2 DEF ScanEntry, Returned
<1>3. CASE ScanDone
  BY <1>3 DEF ScanDone, Return
<1>4. ASSUME NEW p \in pids, Reap(p) PROVE FALSE
  BY <1>4 DEF Reap, Returned
<1> QED
  BY <1>1, <1>2, <1>3, <1>4 DEF Next, Scan

\* alloc_pid: the pid do_fork gives out is in range and belongs to no live
\* process, whatever MAX_PROCESS is and whenever processes are reaped.
THEOREM UniquePidsHolds == Spec => UniquePids
<1>1. Inv /\ [Next]_vars => [Returned => prev_pid' \in (1 .. MAX_PID - 1) \ pids]_vars
  <2> SUFFICES ASSUME Inv, [Next]_vars
               PROVE  [Returned => prev_pid' \in (1 .. MAX_PID - 1) \ pids]_vars
    OBVIOUS
  <2>1. CASE Next
    BY <2>1, StepFresh
  <2>2. CASE UNCHANGED vars
    BY <2>2
  <2> QED
    BY <2>1, <2>2
<1> QED
  BY InitInv, NextInv, <1>1, PTL DEF Spec, UniquePids

-----------------------------------------------------------------------------
\* The pids a scan has stepped over, from the one given out last on, around the
\* end of the range if need be.
Passed == { x \in 1 .. MAX_PID - 1 : IF last < prev_pid THEN last < x /\ x < prev_pid
                                                        ELSE last < x \/ x < prev_pid }

\* A scan steps over live pids only, and there are too few of them to bring it
\* back to the pid it started from.
ReuseInv ==
  /\ Inv
  /\ pc = "ready" => last = 0 \/ last = prev_pid
  /\ pc = "scan" => Cardinality(pids) < MAX_PROCESS /\ (last # 0 => Passed \subseteq pids)

\* Less than half of the pids are in use.
LEMMA NotAround == ASSUME ReuseInv, pc = "scan"
                   PROVE  prev_pid # last
<1> SUFFICES ASSUME prev_pid = last PROVE FALSE
  OBVIOUS
<1> DEFINE R == 1 .. MAX_PID - 1
<1>1. MAX_PROCESS \in Nat /\ MAX_PROCESS >= 2 /\ MAX_PID = 2 * MAX_PROCESS
  BY PidAssumption DEF MAX_PID
<1>2. pids \subseteq R /\ last \in R /\ Cardinality(pids) < MAX_PROCESS /\ Passed \subseteq pids
  BY MaxPid DEF ReuseInv, Inv, TypeOK
<1>3. R \ {last} \subseteq pids
  BY <1>1, <1>2 DEF Passed
<1>4. IsFiniteSet(R) /\ Cardinality(R) = MAX_PID - 1
  BY <1>1, FS_Interval
<1>5. IsFiniteSet(R \ {last}) /\ Cardinality(R \ {last}) = MAX_PID - 2
  <2>1. IsFiniteSet(R \ {last}) /\ Cardinality(R \ {last}) = Cardinality(R) - 1
    BY <1>2, <1>4, FS_RemoveElement
  <2> QED
    BY <1>1, <1>4, <2>1
<1>6. IsFiniteSet(pids) /\ Cardinality(pids) \in Nat
  BY <1>2, <1>4, FS_Subset, FS_CardinalityType
<1>7. Cardinality(R \ {last}) <= Cardinality(pids)
  BY <1>3, <1>6, FS_Subset
<1> QED
  BY <1>1, <1>2, <1>5, <1>6, <1>7

\* A live candidate is stepped over.
LEMMA PassOne == ASSUME ReuseInv, pc = "scan", last # 0, prev_pid \in pids, pids' = pids,
                        last' = last, prev_pid' = Succ(prev_pid)
                 PROVE  Passed' \subseteq pids'
<1>1. /\ prev_pid # last /\ Passed \subseteq pids /\ last \in 1 .. MAX_PID - 1
      /\ prev_pid \in 1 .. MAX_PID - 1
  BY NotAround, MaxPid DEF ReuseInv, Inv, TypeOK
<1>2. Passed' \subseteq Passed \cup {prev_pid}
  <2> SUFFICES ASSUME NEW x \in Passed', x # prev_pid PROVE x \in Passed
    OBVIOUS
  <2>1. x \in 1 .. MAX_PID - 1
    BY DEF Passed
  <2>2. IF last < Succ(prev_pid) THEN last < x /\ x < Succ(prev_pid) ELSE last < x \/ x < Succ(prev_pid)
    BY DEF Passed
  <2>3. IF last < prev_pid THEN last < x /\ x < prev_pid ELSE last < x \/ x < prev_pid
    BY <1>1, <2>1, <2>2, MaxPid DEF Succ
  <2> QED
    BY <2>1, <2>3 DEF Passed
<1> QED
  BY <1>1, <1>2

\* Every step keeps count of the pids that were stepped over.
LEMMA ReuseStep == ReuseInv /\ [Next]_vars => ReuseInv'
<1> SUFFICES ASSUME ReuseInv, [Next]_vars PROVE ReuseInv'
  OBVIOUS
<1>0. Inv' /\ Inv
  BY NextInv DEF ReuseInv
<1>1. CASE AllocPid
  <2> DEFINE prev == Succ(prev_pid)
  <2>1. CASE MustScan(prev, next_pid)
    <3>1. /\ prev_pid' = prev /\ pids' = pids /\ last' = last /\ pc' = "scan" /\ pc = "ready"
          /\ Cardinality(pids) + 1 <= MAX_PROCESS
      BY <1>1, <2>1 DEF AllocPid
    <3>2. Cardinality(pids') < MAX_PROCESS
      <4>1. pids \subseteq 1 .. MAX_PID - 1
        BY <1>0 DEF Inv, TypeOK
      <4>3. IsFiniteSet(1 .. MAX_PID - 1)
        BY MaxPid, FS_Interval
      <4>2. Cardinality(pids) \in Nat
        BY <4>1, <4>3, FS_Subset, FS_CardinalityType
      <4> QED
        BY <3>1, <4>2, PidAssumption
    <3>3. last' # 0 => Passed' = {}
      BY <1>0, <3>1, MaxPid DEF ReuseInv, Passed, Succ, Inv, TypeOK
    <3> QED
      BY <1>0, <3>1, <3>2, <3>3 DEF ReuseInv
  <2>2. CASE ~MustScan(prev, next_pid)
    <3>1. pc' = "ready" /\ last' = prev_pid'
      BY <1>1, <2>2 DEF AllocPid, Return
    <3> QED
      BY <1>0, <3>1 DEF ReuseInv
  <2> QED
    BY <2>1, <2>2
<1>2. ASSUME NEW p \in pids, ScanEntry(p) PROVE ReuseInv'
  <2>1. pc = "scan" /\ pc' = "scan" /\ pids' = pids /\ last' = last
    BY <1>2 DEF ScanEntry
  <2>2. CASE Collision(p)
    <3>1. prev_pid' = Succ(prev_pid) /\ prev_pid \in pids
      BY <1>0, <2>2, MaxPid DEF Collision, Succ, Inv, TypeOK
    <3>2. last' # 0 => Passed' \subseteq pids'
      BY <2>1, <3>1, PassOne
    <3> QED
      BY <1>0, <2>1, <3>2 DEF ReuseInv
  <2>3. CASE Narrow(p)
    <3>1. prev_pid' = prev_pid
      BY <2>3 DEF Narrow
    <3>2. Passed' = Passed
      BY <2>1, <3>1 DEF Passed
    <3> QED
      BY <1>0, <2>1, <3>2 DEF ReuseInv
  <2> QED
    BY <1>2, <2>2, <2>3 DEF ScanEntry
<1>3. CASE ScanDone
  <2>1. pc' = "ready" /\ last' = prev_pid'
    BY <1>3 DEF ScanDone, Return
  <2> QED
    BY <1>0, <2>1 DEF ReuseInv
<1>4. ASSUME NEW p \in pids, Reap(p) PROVE ReuseInv'
  <2>1. pc = "ready" /\ pc' = pc /\ last' = last /\ prev_pid' = prev_pid
    BY <1>4 DEF Reap
  <2> QED
    BY <1>0, <2>1 DEF ReuseInv
<1>5. CASE UNCHANGED vars
  <2>1. pc' = pc /\ last' = last /\ prev_pid' = prev_pid /\ pids' = pids
    BY <1>5 DEF vars
  <2>2. Passed' = Passed
    BY <2>1 DEF Passed
  <2> QED
    BY <1>0, <2>1, <2>2 DEF ReuseInv
<1> QED
  BY <1>1, <1>2, <1>3, <1>4, <1>5 DEF Next, Scan

\* The step with which a call returns changes the pid given out last.
LEMMA StepNew == ReuseInv /\ Next /\ Returned => last' # last
<1> SUFFICES ASSUME ReuseInv, Next, Returned PROVE last' # last
  OBVIOUS
<1>0. Inv
  BY DEF ReuseInv
<1>1. CASE AllocPid
  <2>1. pc = "ready" /\ last' = Succ(prev_pid)
    BY <1>1 DEF AllocPid, Returned, Return
  <2> QED
    BY <1>0, <2>1, MaxPid DEF ReuseInv, Succ, Inv, TypeOK
<1>2. ASSUME NEW p \in pids, ScanEntry(p) PROVE FALSE
  BY <1>2 DEF ScanEntry, Returned
<1>3. CASE ScanDone
  BY <1>3, NotAround DEF ScanDone, Return
<1>4. ASSUME NEW p \in pids, Reap(p) PROVE FALSE
  BY <1>4 DEF Reap, Returned
<1> QED
  BY <1>1, <1>2, <1>3, <1>4 DEF Next, Scan

\* Two processes forked one after the other have different pids, even when the
\* first is reaped in between and the counter wraps: there are twice as many
\* pids as processes (alloc_pid, MAX_PID).
THEOREM NoImmediateReuseHolds == Spec => NoImmediateReuse
<1>1. Init => ReuseInv
  BY InitInv DEF Init, ReuseInv
<1>2. ReuseInv /\ [Next]_vars => [Returned => last' # last]_vars
  <2> SUFFICES ASSUME ReuseInv, [Next]_vars PROVE [Returned => last' # last]_vars
    OBVIOUS
  <2>1. CASE Next
    BY <2>1, StepNew
  <2>2. CASE UNCHANGED vars
    BY <2>2
  <2> QED
    BY <2>1, <2>2
<1> QED
  BY ReuseStep, <1>1, <1>2, PTL DEF Spec, NoImmediateReuse

-----------------------------------------------------------------------------
(* Facts about numbers and sequences.                                      *)

\* Every set of natural numbers has a least element: induction in a form that
\* needs no operator as a parameter.
LEMMA LeastOf == ASSUME NEW S, S \subseteq Nat, S # {}
                 PROVE  \E m \in S : \A k \in S : m <= k
<1> DEFINE R == StrictSubsetOrdering(Nat)
           T == { 0 .. k : k \in S }
<1>1. IsWellFoundedOn(R, FiniteSubsetsOf(Nat))
  BY FS_StrictSubsetOrderingWellFounded, Zenon
<1>2. T \subseteq FiniteSubsetsOf(Nat)
  <2>1. \A k \in S : IsFiniteSet(0 .. k) /\ 0 .. k \subseteq Nat
    BY FS_Interval
  <2> QED
    BY <2>1, Zenon DEF FiniteSubsetsOf
<1>3. T # {}
  OBVIOUS
<1>4. PICK x \in T : \A y \in T : ~(<<y, x>> \in R)
  <2> HIDE DEF R, T
  <2> QED
    BY <1>1, <1>2, <1>3, WFMin, Zenon
<1>5. PICK m \in S : x = 0 .. m
  OBVIOUS
<1>6. ASSUME NEW k \in S, k < m PROVE FALSE
  <2>1. 0 .. k \subseteq 0 .. m /\ 0 .. k # 0 .. m
    BY <1>6
  <2>2. <<0 .. k, 0 .. m>> \in R
    BY <2>1 DEF StrictSubsetOrdering
  <2> QED
    BY <1>4, <1>5, <2>2
<1> QED
  BY <1>6

-----------------------------------------------------------------------------
(* Children in a row.                                                      *)

\* f numbers the n processes of K in the order in which do_wait meets them: c is
\* the first, and o leads from each to the next.
Row(n, f, K, c, o) ==
  /\ n \in Nat /\ f \in [1 .. n -> K]
  /\ \A x \in K : \E i \in 1 .. n : f[i] = x
  /\ \A i, j \in 1 .. n : f[i] = f[j] => i = j
  /\ c = IF n = 0 THEN NULL ELSE f[1]
  /\ \A i \in 1 .. n : o[f[i]] = IF i = n THEN NULL ELSE f[i + 1]

\* The processes of K can be met from c along o.
InRow(K, c, o) == \E n, f : Row(n, f, K, c, o)

\* set_links puts a new child in front of the others.
LEMMA RowPush ==
  ASSUME NEW K, NEW c, NEW o, InRow(K, c, o), NEW q, q \notin K,
         NEW u, u[q] = c, \A x \in K : u[x] = o[x]
  PROVE  InRow(K \cup {q}, q, u)
<1>1. PICK n, f : Row(n, f, K, c, o)
  BY DEF InRow
<1> DEFINE g == [i \in 1 .. n + 1 |-> IF i = 1 THEN q ELSE f[i - 1]]
<1>2. n \in Nat /\ f \in [1 .. n -> K]
  BY <1>1 DEF Row
<1>3. g \in [1 .. n + 1 -> K \cup {q}]
  BY <1>2
<1>4. ASSUME NEW x \in K \cup {q} PROVE \E i \in 1 .. n + 1 : g[i] = x
  <2>1. CASE x = q
    BY <1>2, <2>1
  <2>2. CASE x \in K
    <3>1. PICK i \in 1 .. n : f[i] = x
      BY <1>1, <2>2 DEF Row
    <3>2. i + 1 \in 1 .. n + 1 /\ g[i + 1] = x
      BY <1>2, <3>1
    <3> QED
      BY <3>2
  <2> QED
    BY <2>1, <2>2
<1>5. ASSUME NEW i \in 1 .. n + 1, NEW j \in 1 .. n + 1, g[i] = g[j] PROVE i = j
  <2>1. \A k \in 2 .. n + 1 : k - 1 \in 1 .. n /\ g[k] = f[k - 1] /\ g[k] \in K
    BY <1>2
  <2>2. g[1] = q
    BY <1>2
  <2>3. CASE i = 1 \/ j = 1
    BY <1>2, <1>5, <2>1, <2>2, <2>3
  <2>4. CASE i # 1 /\ j # 1
    <3>1. f[i - 1] = f[j - 1] /\ i - 1 \in 1 .. n /\ j - 1 \in 1 .. n
      BY <1>2, <1>5, <2>1, <2>4
    <3>2. i - 1 = j - 1
      BY <1>1, <3>1 DEF Row
    <3> QED
      BY <1>2, <3>2
  <2> QED
    BY <2>3, <2>4
<1>6. ASSUME NEW i \in 1 .. n + 1 PROVE u[g[i]] = IF i = n + 1 THEN NULL ELSE g[i + 1]
  <2>1. CASE i = 1
    <3>1. u[g[i]] = IF n = 0 THEN NULL ELSE f[1]
      BY <1>1, <1>2, <2>1 DEF Row
    <3> QED
      BY <1>2, <2>1, <3>1
  <2>2. CASE i # 1
    <3>1. i - 1 \in 1 .. n /\ g[i] = f[i - 1] /\ f[i - 1] \in K
      BY <1>2, <2>2
    <3>2. u[g[i]] = IF i - 1 = n THEN NULL ELSE f[i]
      BY <1>1, <1>2, <3>1 DEF Row
    <3> QED
      BY <1>2, <2>2, <3>2
  <2> QED
    BY <2>1, <2>2
<1>7. g[1] = q /\ n + 1 \in Nat /\ n + 1 # 0
  BY <1>2
<1> HIDE DEF g
<1>8. Row(n + 1, g, K \cup {q}, q, u)
  BY <1>3, <1>4, <1>5, <1>6, <1>7 DEF Row
<1> QED
  BY <1>8 DEF InRow

\* Nobody between them, nobody else: the row stays.
LEMMA RowKeep ==
  ASSUME NEW K, NEW c, NEW o, InRow(K, c, o), NEW u, \A x \in K : u[x] = o[x]
  PROVE  InRow(K, c, u)
<1>1. PICK n, f : Row(n, f, K, c, o)
  BY DEF InRow
<1>2. Row(n, f, K, c, u)
  BY <1>1 DEF Row
<1> QED
  BY <1>2 DEF InRow

\* The i-th leaves the row, and the one before it, if any, leads to the one behind.
LEMMA RowCut ==
  ASSUME NEW K, NEW c, NEW o, NEW n, NEW f, Row(n, f, K, c, o), NEW i \in 1 .. n,
         NEW u, \A x \in K \ {f[i]} : u[x] = IF i > 1 /\ x = f[i - 1] THEN o[f[i]] ELSE o[x]
  PROVE  InRow(K \ {f[i]}, IF i = 1 THEN o[f[i]] ELSE c, u)
<1> DEFINE q == f[i]
           g == [j \in 1 .. n - 1 |-> IF j < i THEN f[j] ELSE f[j + 1]]
<1>1. n \in Nat /\ f \in [1 .. n -> K] /\ i \in Int /\ 1 <= i /\ i <= n
  BY DEF Row
<1>2. \A j, k \in 1 .. n : f[j] = f[k] => j = k
  BY DEF Row
<1>3. g \in [1 .. n - 1 -> K \ {q}]
  <2> SUFFICES ASSUME NEW j \in 1 .. n - 1 PROVE g[j] \in K \ {q}
    OBVIOUS
  <2>1. CASE j < i
    BY <1>1, <1>2, <2>1
  <2>2. CASE ~(j < i)
    <3>1. j + 1 \in 1 .. n /\ j + 1 # i /\ g[j] = f[j + 1]
      BY <1>1, <2>2
    <3> QED
      BY <1>1, <1>2, <3>1
  <2> QED
    BY <2>1, <2>2
<1>4. ASSUME NEW x \in K \ {q} PROVE \E j \in 1 .. n - 1 : g[j] = x
  <2>1. PICK j \in 1 .. n : f[j] = x
    BY DEF Row
  <2>2. CASE j < i
    <3>1. j \in 1 .. n - 1 /\ g[j] = x
      BY <1>1, <2>1, <2>2
    <3> QED
      BY <3>1
  <2>3. CASE j > i
    <3>1. j - 1 \in 1 .. n - 1 /\ g[j - 1] = x
      BY <1>1, <2>1, <2>3
    <3> QED
      BY <3>1
  <2> QED
    BY <1>1, <2>1, <2>2, <2>3
<1>5. ASSUME NEW j \in 1 .. n - 1, NEW k \in 1 .. n - 1, g[j] = g[k] PROVE j = k
  <2> DEFINE J == IF j < i THEN j ELSE j + 1
             L == IF k < i THEN k ELSE k + 1
  <2>1. J \in 1 .. n /\ L \in 1 .. n /\ g[j] = f[J] /\ g[k] = f[L]
    BY <1>1
  <2>2. J = L
    BY <1>2, <1>5, <2>1
  <2> QED
    BY <1>1, <2>2
<1>6. ASSUME NEW j \in 1 .. n - 1 PROVE u[g[j]] = IF j = n - 1 THEN NULL ELSE g[j + 1]
  <2>0. g[j] \in K \ {q}
    BY <1>3
  <2>o. \A k \in 1 .. n : o[f[k]] = IF k = n THEN NULL ELSE f[k + 1]
    BY DEF Row
  <2>1. CASE j < i - 1
    <3>1. g[j] = f[j] /\ g[j + 1] = f[j + 1] /\ j # n - 1 /\ j \in 1 .. n /\ j # n
      BY <1>1, <2>1
    <3>2. f[j] # f[i - 1] /\ i > 1
      BY <1>1, <1>2, <2>1
    <3>3. u[f[j]] = o[f[j]]
      BY <2>0, <3>1, <3>2
    <3> QED
      BY <2>o, <3>1, <3>3
  <2>2. CASE j = i - 1
    <3>1. g[j] = f[i - 1] /\ i > 1 /\ j \in 1 .. n
      BY <1>1, <2>2
    <3>2. u[f[i - 1]] = o[f[i]]
      BY <2>0, <3>1
    <3>3. o[f[i]] = IF i = n THEN NULL ELSE f[i + 1]
      BY <2>o
    <3>4. i = n <=> j = n - 1
      BY <1>1, <2>2
    <3>5. i # n => g[j + 1] = f[i + 1]
      BY <1>1, <2>2
    <3> QED
      BY <3>1, <3>2, <3>3, <3>4, <3>5
  <2>3. CASE j >= i
    <3>1. g[j] = f[j + 1] /\ j + 1 \in 1 .. n /\ j + 1 # i - 1
      BY <1>1, <2>3
    <3>2. i > 1 => f[j + 1] # f[i - 1]
      <4> SUFFICES ASSUME i > 1, f[j + 1] = f[i - 1] PROVE FALSE
        OBVIOUS
      <4>1. i - 1 \in 1 .. n
        BY <1>1
      <4> QED
        BY <1>2, <3>1, <4>1
    <3>3. u[f[j + 1]] = o[f[j + 1]]
      BY <2>0, <3>1, <3>2
    <3>4. o[f[j + 1]] = IF j + 1 = n THEN NULL ELSE f[j + 1 + 1]
      BY <2>o, <3>1
    <3>5. j # n - 1 => g[j + 1] = f[j + 1 + 1]
      BY <1>1, <2>3
    <3> QED
      BY <1>1, <3>1, <3>3, <3>4, <3>5
  <2> QED
    BY <1>1, <2>1, <2>2, <2>3
<1>7. (IF i = 1 THEN o[f[i]] ELSE c) = IF n - 1 = 0 THEN NULL ELSE g[1]
  <2>o. \A k \in 1 .. n : o[f[k]] = IF k = n THEN NULL ELSE f[k + 1]
    BY DEF Row
  <2>c. c = f[1]
    BY <1>1 DEF Row
  <2>1. CASE i = 1
    <3>1. o[f[1]] = IF 1 = n THEN NULL ELSE f[1 + 1]
      BY <1>1, <2>1, <2>o
    <3>2. n # 1 => g[1] = f[1 + 1]
      BY <1>1, <2>1
    <3> QED
      BY <1>1, <2>1, <3>1, <3>2
  <2>2. CASE i # 1
    BY <1>1, <2>2, <2>c
  <2> QED
    BY <2>1, <2>2
<1>8. n - 1 \in Nat
  BY <1>1
<1> HIDE DEF g
<1>9. Row(n - 1, g, K \ {q}, IF i = 1 THEN o[f[i]] ELSE c, u)
  BY <1>3, <1>4, <1>5, <1>6, <1>7, <1>8 DEF Row
<1> QED
  BY <1>9 DEF InRow


\* How often a loop goes round is not in doubt: there is one function that the
\* equation of Nth defines, and it is the row.
LEMMA NthOfRow ==
  ASSUME NEW m \in Nat, NEW n, NEW f, NEW K, NEW c, NEW o, Row(n, f, K, c, o), n <= m,
         NULL \notin K,
         NEW N, N = CHOOSE M : M = [i \in 1 .. m + 1 |-> IF i = 1 THEN c
                                     ELSE IF M[i - 1] = NULL THEN NULL ELSE o[M[i - 1]]]
  PROVE  \A i \in 1 .. m + 1 : N[i] = IF i <= n THEN f[i] ELSE NULL
<1> DEFINE D == 1 .. m + 1
           Eq(M) == M = [i \in D |-> IF i = 1 THEN c
                               ELSE IF M[i - 1] = NULL THEN NULL ELSE o[M[i - 1]]]
           F == [i \in D |-> IF i <= n THEN f[i] ELSE NULL]
<1>1. n \in Nat /\ f \in [1 .. n -> K] /\ c = (IF n = 0 THEN NULL ELSE f[1])
      /\ \A i \in 1 .. n : o[f[i]] = IF i = n THEN NULL ELSE f[i + 1]
  BY DEF Row
<1>2. ASSUME NEW i \in D
      PROVE  F[i] = IF i = 1 THEN c ELSE IF F[i - 1] = NULL THEN NULL ELSE o[F[i - 1]]
  <2>1. CASE i = 1
    BY <1>1, <2>1
  <2>2. CASE i # 1 /\ i - 1 <= n
    <3>1. i - 1 \in D /\ i - 1 \in 1 .. n /\ F[i - 1] = f[i - 1] /\ f[i - 1] # NULL
      BY <1>1, <2>2
    <3>2. o[f[i - 1]] = IF i - 1 = n THEN NULL ELSE f[i]
      BY <1>1, <3>1
    <3>3. F[i] = IF i <= n THEN f[i] ELSE NULL
      OBVIOUS
    <3> QED
      BY <1>1, <2>2, <3>1, <3>2, <3>3
  <2>3. CASE i # 1 /\ ~(i - 1 <= n)
    <3>1. i - 1 \in D /\ F[i - 1] = NULL /\ F[i] = NULL
      BY <1>1, <2>3
    <3> QED
      BY <2>3, <3>1
  <2> QED
    BY <2>1, <2>2, <2>3
<1>3. Eq(F)
  BY <1>2
<1>4. Eq(N)
  <2>1. N = CHOOSE M : Eq(M)
    OBVIOUS
  <2> HIDE DEF Eq, F
  <2> QED
    BY <1>3, <2>1
<1> DEFINE S == { i \in D : N[i] # F[i] }
<1>5. S = {}
  <2> SUFFICES ASSUME S # {} PROVE FALSE
    OBVIOUS
  <2>1. S \subseteq Nat
    OBVIOUS
  <2>2. PICK i \in S : \A j \in S : i <= j
    <3> HIDE DEF S
    <3> QED
      BY <2>1, LeastOf
  <2>3. i \in D /\ N[i] # F[i]
    OBVIOUS
  <2>4. N[i] = IF i = 1 THEN c ELSE IF N[i - 1] = NULL THEN NULL ELSE o[N[i - 1]]
    BY <1>4, <2>3
  <2>5. CASE i = 1
    BY <1>2, <2>3, <2>4, <2>5
  <2>6. CASE i # 1
    <3>0. i - 1 \in D /\ i \in Nat /\ ~(i <= i - 1)
      BY <2>3, <2>6
    <3>1. i - 1 \in D /\ i - 1 \notin S
      <4> HIDE DEF S
      <4> QED
        BY <2>2, <3>0
    <3>2. N[i - 1] = F[i - 1]
      BY <3>1
    <3> QED
      BY <1>2, <2>3, <2>4, <2>6, <3>2
  <2> QED
    BY <2>5, <2>6
<1>6. \A i \in D : N[i] = F[i]
  BY <1>5
<1> QED
  BY <1>6

\* Family counts with the same operator.
LEMMA SameCount == \A S : Family!Cardinality(S) = Cardinality(S)
BY DEF Family!Cardinality, Cardinality

\* The pids.
LEMMA PidsFinite == IsFiniteSet(Pids) /\ Cardinality(Pids) \in Nat /\ NULL \notin Pids /\ InitPid \in Pids
<1>1. MAX_PID \in Nat /\ MAX_PID >= 4
  BY MaxPid
<1>2. IsFiniteSet(Pids)
  BY <1>1, FS_Interval DEF Pids
<1> QED
  BY <1>1, <1>2, FS_CardinalityType DEF Pids, NULL, InitPid

\* If the children of p are in a row, do_wait meets each of them once.
LEMMA RowIsExact ==
  ASSUME pids \subseteq Pids, NEW p, InRow(Family!Children(p), child[p], older)
  PROVE  LET n == Family!Cardinality(Family!Children(p))
         IN /\ { Family!Nth(p)[i] : i \in 1 .. n } = Family!Children(p)
            /\ Family!Nth(p)[n + 1] = NULL
<1> DEFINE K == Family!Children(p)
           m == Cardinality(Pids)
<1>1. PICK n, f : Row(n, f, K, child[p], older)
  BY DEF InRow
<1>2. K \subseteq Pids /\ NULL \notin K
  BY PidsFinite DEF Family!Children
<1>3. n \in Nat /\ f \in [1 .. n -> K]
  BY <1>1 DEF Row
<1>4. Cardinality(K) = n
  <2>1. f \in Bijection(1 .. n, K)
    BY <1>1, <1>3 DEF Row, Bijection, Injection, Surjection, IsInjective
  <2>2. ExistsBijection(1 .. n, K)
    BY <2>1 DEF ExistsBijection
  <2> QED
    BY <1>3, <2>2, FS_CountingElements
<1>5. n <= m /\ m \in Nat
  BY <1>2, <1>4, PidsFinite, FS_Subset
<1>6. \A i \in 1 .. m + 1 : Family!Nth(p)[i] = IF i <= n THEN f[i] ELSE NULL
  <2> DEFINE N == Family!Nth(p)
  <2>1. N = CHOOSE M : M = [i \in 1 .. m + 1 |-> IF i = 1 THEN child[p]
                              ELSE IF M[i - 1] = NULL THEN NULL ELSE older[M[i - 1]]]
    BY SameCount DEF Family!Nth
  <2> HIDE DEF N, m, K
  <2>2. \A i \in 1 .. m + 1 : N[i] = IF i <= n THEN f[i] ELSE NULL
    BY <1>1, <1>2, <1>5, <2>1, NthOfRow
  <2> QED
    BY <2>2 DEF N
<1>7. Family!Cardinality(K) = n
  BY <1>4, SameCount
<1>8. Family!Nth(p)[n + 1] = NULL
  BY <1>3, <1>5, <1>6
<1>9. \A i \in 1 .. n : Family!Nth(p)[i] = f[i]
  BY <1>3, <1>5, <1>6
<1>10. { Family!Nth(p)[i] : i \in 1 .. n } = K
  <2>1. \A x \in K : \E i \in 1 .. n : f[i] = x
    BY <1>1 DEF Row
  <2> HIDE DEF K
  <2> QED
    BY <1>3, <1>9, <2>1
<1> QED
  BY <1>7, <1>8, <1>10


-----------------------------------------------------------------------------
(* The lists.                                                              *)

\* s lists each element of S once.
Lists(s, S) ==
  /\ s \in Seq(S)
  /\ \A x \in S : \E i \in 1 .. Len(s) : s[i] = x
  /\ \A i, j \in 1 .. Len(s) : s[i] = s[j] => i = j

\* Such a list holds S in the sense of TableExact.
LEMMA ListHolds == ASSUME NEW S, NEW s, Lists(s, S)
                   PROVE  Holds(s, S)
<1>1. s \in [1 .. Len(s) -> S] /\ Len(s) \in Nat /\ DOMAIN s = 1 .. Len(s)
  BY DEF Lists
<1>2. s \in Bijection(1 .. Len(s), S)
  BY <1>1 DEF Lists, Bijection, Injection, Surjection, IsInjective
<1>3. Cardinality(S) = Len(s)
  <2>1. ExistsBijection(1 .. Len(s), S)
    BY <1>2 DEF ExistsBijection
  <2> QED
    BY <1>1, <2>1, FS_CountingElements
<1>4. { s[i] : i \in DOMAIN s } = S
  BY <1>1 DEF Lists
<1> QED
  BY <1>3, <1>4 DEF Holds

\* hash_proc and set_links put a pcb in front.
LEMMA ListPush == ASSUME NEW S, NEW s, Lists(s, S), NEW q, q \notin S
                  PROVE  Lists(<<q>> \o s, S \cup {q})
<1> DEFINE t == <<q>> \o s
           n == Len(s)
<1>0. s \in Seq(S) /\ n \in Nat
  BY DEF Lists
<1>1. s \in Seq(S \cup {q}) /\ <<q>> \in Seq(S \cup {q})
  <2>1. s \in Seq(S \cup {q})
    BY <1>0, SeqMonotonic
  <2> QED
    BY <2>1
<1>2. /\ t \in Seq(S \cup {q}) /\ Len(t) = n + 1 /\ t[1] = q
      /\ \A i \in 2 .. n + 1 : t[i] = s[i - 1]
  BY <1>0, <1>1, ConcatProperties
<1>3. \A i \in 2 .. n + 1 : i - 1 \in 1 .. n /\ t[i] = s[i - 1] /\ s[i - 1] \in S
  BY <1>0, <1>2
<1> HIDE DEF t
<1>4. ASSUME NEW x \in S \cup {q} PROVE \E i \in 1 .. Len(t) : t[i] = x
  <2>1. CASE x = q
    BY <1>0, <1>2, <2>1
  <2>2. CASE x \in S
    <3>1. PICK i \in 1 .. n : s[i] = x
      BY <2>2 DEF Lists
    <3>2. i + 1 \in 2 .. n + 1 /\ i + 1 \in 1 .. Len(t) /\ i + 1 - 1 = i
      BY <1>0, <1>2
    <3>3. t[i + 1] = s[i + 1 - 1]
      BY <1>3, <3>2
    <3> QED
      BY <3>1, <3>2, <3>3
  <2> QED
    BY <2>1, <2>2
<1>5. ASSUME NEW i \in 1 .. Len(t), NEW j \in 1 .. Len(t), t[i] = t[j] PROVE i = j
  <2>1. CASE i = 1 \/ j = 1
    BY <1>0, <1>2, <1>3, <1>5, <2>1
  <2>2. CASE i # 1 /\ j # 1
    <3>1. i \in 2 .. n + 1 /\ j \in 2 .. n + 1
      BY <1>0, <1>2, <2>2
    <3>2. s[i - 1] = s[j - 1] /\ i - 1 \in 1 .. n /\ j - 1 \in 1 .. n
      BY <1>3, <1>5, <3>1
    <3>3. i - 1 = j - 1
      BY <3>2 DEF Lists
    <3> QED
      BY <3>1, <3>3
  <2> QED
    BY <2>1, <2>2
<1>6. Lists(t, S \cup {q})
  BY <1>2, <1>4, <1>5 DEF Lists
<1> QED
  BY <1>6 DEF t

\* del_list takes one out.
LEMMA ListCut == ASSUME NEW S, NEW s, Lists(s, S), NEW q
                 PROVE  Lists(Without(s, q), S \ {q})
<1> DEFINE n == Len(s)
<1>0. s \in Seq(S) /\ n \in Nat /\ (\A i \in 1 .. n : s[i] \in S)
      /\ \A i, j \in 1 .. n : s[i] = s[j] => i = j
  BY DEF Lists
<1>1. CASE ~\E i \in 1 .. n : s[i] = q
  <2>1. Without(s, q) = s
    BY <1>1 DEF Without
  <2>2. q \notin S
    BY <1>1 DEF Lists
  <2>3. S \ {q} = S
    BY <2>2
  <2> QED
    BY <2>1, <2>3
<1>2. CASE \E i \in 1 .. n : s[i] = q
  <2> DEFINE k == CHOOSE i \in 1 .. n : s[i] = q
             a == SubSeq(s, 1, k - 1)
             b == SubSeq(s, k + 1, n)
             t == a \o b
  <2>1. k \in 1 .. n /\ s[k] = q
    BY <1>2
  <2>2. Without(s, q) = t
    BY <1>2 DEF Without
  <2> HIDE DEF k
  <2>3. a \in Seq(S) /\ Len(a) = k - 1 /\ \A i \in 1 .. k - 1 : a[i] = s[i]
    <3>1. /\ SubSeq(s, 1, k - 1) \in Seq(S)
          /\ Len(SubSeq(s, 1, k - 1)) = IF 1 <= k - 1 THEN k - 1 - 1 + 1 ELSE 0
          /\ \A i \in 1 .. k - 1 - 1 + 1 : SubSeq(s, 1, k - 1)[i] = s[1 + i - 1]
      <4>1. \A i \in 1 .. k - 1 : s[i] \in S
        BY <1>0, <2>1
      <4> QED
        BY <2>1, <4>1, SubSeqProperties
    <3> QED
      BY <2>1, <3>1
  <2>4. b \in Seq(S) /\ Len(b) = n - k /\ \A i \in 1 .. n - k : b[i] = s[k + i]
    <3>1. /\ SubSeq(s, k + 1, n) \in Seq(S)
          /\ Len(SubSeq(s, k + 1, n)) = IF k + 1 <= n THEN n - (k + 1) + 1 ELSE 0
          /\ \A i \in 1 .. n - (k + 1) + 1 : SubSeq(s, k + 1, n)[i] = s[k + 1 + i - 1]
      <4>1. \A i \in k + 1 .. n : s[i] \in S
        BY <1>0, <2>1
      <4> QED
        BY <1>0, <2>1, <4>1, SubSeqProperties
    <3> QED
      BY <1>0, <2>1, <3>1
  <2> HIDE DEF a, b
  <2>5. /\ t \in Seq(S) /\ Len(t) = n - 1
        /\ \A i \in 1 .. n - 1 : t[i] = IF i < k THEN s[i] ELSE s[i + 1]
    <3>1. /\ a \o b \in Seq(S) /\ Len(a \o b) = k - 1 + (n - k)
          /\ \A i \in 1 .. k - 1 + (n - k) : (a \o b)[i] = IF i <= k - 1 THEN a[i] ELSE b[i - (k - 1)]
      <4>1. a \in Seq(S) /\ b \in Seq(S) /\ Len(a) = k - 1 /\ Len(b) = n - k
        BY <2>3, <2>4
      <4>2. /\ a \o b \in Seq(S) /\ Len(a \o b) = Len(a) + Len(b)
            /\ \A i \in 1 .. Len(a) + Len(b) : (a \o b)[i] = IF i <= Len(a) THEN a[i] ELSE b[i - Len(a)]
        BY <4>1, ConcatProperties
      <4> QED
        BY <4>1, <4>2
    <3>2. \A i \in 1 .. n - 1 : t[i] = IF i < k THEN s[i] ELSE s[i + 1]
      <4> TAKE i \in 1 .. n - 1
      <4>1. CASE i < k
        BY <1>0, <2>1, <2>3, <3>1, <4>1
      <4>2. CASE ~(i < k)
        <5>1. t[i] = b[i - (k - 1)] /\ i - (k - 1) \in 1 .. n - k /\ k + (i - (k - 1)) = i + 1
          BY <1>0, <2>1, <3>1, <4>2
        <5> QED
          BY <2>4, <4>2, <5>1
      <4> QED
        BY <4>1, <4>2
    <3> QED
      BY <1>0, <2>1, <3>1, <3>2
  <2> HIDE DEF t
  <2>6. \A i \in 1 .. n - 1 : t[i] \in S \ {q}
    <3> TAKE i \in 1 .. n - 1
    <3> DEFINE j == IF i < k THEN i ELSE i + 1
    <3>1. j \in 1 .. n /\ j # k /\ t[i] = s[j]
      BY <1>0, <2>1, <2>5
    <3> QED
      BY <1>0, <2>1, <3>1
  <2>7. t \in Seq(S \ {q})
    BY <1>0, <2>1, <2>5, <2>6
  <2>8. ASSUME NEW x \in S \ {q} PROVE \E i \in 1 .. Len(t) : t[i] = x
    <3>1. PICK j \in 1 .. n : s[j] = x
      BY DEF Lists
    <3> DEFINE i == IF j < k THEN j ELSE j - 1
    <3>2. j # k
      BY <2>1, <3>1
    <3>3. i \in 1 .. n - 1 /\ t[i] = x
      BY <1>0, <2>1, <2>5, <3>1, <3>2
    <3> QED
      BY <2>5, <3>3
  <2>9. ASSUME NEW i \in 1 .. Len(t), NEW j \in 1 .. Len(t), t[i] = t[j] PROVE i = j
    <3> DEFINE I == IF i < k THEN i ELSE i + 1
               J == IF j < k THEN j ELSE j + 1
    <3>1. I \in 1 .. n /\ J \in 1 .. n /\ t[i] = s[I] /\ t[j] = s[J]
      BY <1>0, <2>1, <2>5
    <3>2. I = J
      BY <1>0, <2>9, <3>1
    <3> QED
      BY <2>1, <2>5, <3>2
  <2>10. Lists(t, S \ {q})
    BY <2>7, <2>8, <2>9 DEF Lists
  <2> QED
    BY <2>2, <2>10
<1> QED
  BY <1>1, <1>2


-----------------------------------------------------------------------------
(* The family pointers.                                                    *)

Kids(p) == { q \in pids : parent[q] = p }

PointersOK == /\ parent \in [Pids -> Pids \cup {NULL}] /\ child \in [Pids -> Pids \cup {NULL}]
              /\ younger \in [Pids -> Pids \cup {NULL}] /\ older \in [Pids -> Pids \cup {NULL}]

\* Only the process in the loop of do_exit may be a zombie with children.
Parents == \A q \in pids \ {InitPid} :
             parent[q] \in pids /\ (parent[q] \in zombie => parent[q] = exiting)

\* There is no circle of parents.
Rooted == \A S \in SUBSET (pids \ {InitPid}) : S # {} => \E q \in S : parent[q] \notin S

Rows == \A p \in pids : InRow(Kids(p), child[p], older)

\* YoungerExact of ProcLinks.
BackLinks ==
  \A q \in pids \ {InitPid} :
    /\ older[q] # NULL /\ exiting # parent[q] => younger[older[q]] = q
    /\ child[parent[q]] = q /\ exiting # parent[q] => younger[q] = NULL

FamilyInv ==
  /\ pids \subseteq Pids /\ zombie \subseteq pids /\ exiting \in zombie \cup {NULL}
  /\ PointersOK
  /\ InitPid \in pids \ zombie /\ parent[InitPid] = NULL
  /\ Parents /\ Rooted /\ Rows /\ BackLinks

\* What a row says of a single process.
LEMMA RowFacts ==
  ASSUME NEW K, NEW c, NEW o, InRow(K, c, o), NULL \notin K
  PROVE  /\ c = NULL <=> K = {}
         /\ c # NULL => c \in K
         /\ \A x \in K : o[x] # NULL => o[x] \in K /\ o[x] # c /\ o[x] # x
<1>1. PICK n, f : Row(n, f, K, c, o)
  BY DEF InRow
<1>2. n \in Nat /\ f \in [1 .. n -> K] /\ c = (IF n = 0 THEN NULL ELSE f[1])
      /\ (\A i \in 1 .. n : o[f[i]] = IF i = n THEN NULL ELSE f[i + 1])
      /\ (\A x \in K : \E i \in 1 .. n : f[i] = x)
      /\ (\A i, j \in 1 .. n : f[i] = f[j] => i = j)
  BY <1>1 DEF Row
<1>3. CASE n = 0
  BY <1>2, <1>3
<1>4. CASE n # 0
  <2>1. 1 \in 1 .. n /\ c = f[1] /\ f[1] \in K
    BY <1>2, <1>4
  <2>2. ASSUME NEW x \in K, o[x] # NULL PROVE o[x] \in K /\ o[x] # c /\ o[x] # x
    <3>1. PICK i \in 1 .. n : f[i] = x
      BY <1>2
    <3>2. i # n /\ o[x] = f[i + 1] /\ i + 1 \in 1 .. n /\ i + 1 # 1 /\ i + 1 # i
      BY <1>2, <2>2, <3>1
    <3>3. f[i + 1] # f[1] /\ f[i + 1] # f[i]
      BY <1>2, <2>1, <3>2
    <3> QED
      BY <1>2, <2>1, <3>1, <3>2, <3>3
  <2> QED
    BY <2>1, <2>2
<1> QED
  BY <1>3, <1>4

\* Nobody is a row, too.
LEMMA RowEmpty == \A o : InRow({}, NULL, o)
<1> SUFFICES ASSUME NEW o PROVE InRow({}, NULL, o)
  OBVIOUS
<1> DEFINE f == [i \in 1 .. 0 |-> NULL]
<1>1. f \in [1 .. 0 -> {}] /\ 1 .. 0 = {}
  OBVIOUS
<1> HIDE DEF f
<1>2. Row(0, f, {}, NULL, o)
  BY <1>1 DEF Row
<1> QED
  BY <1>2 DEF InRow

\* What every operation on the pointers finds.
LEMMA FamilyFacts ==
  ASSUME FamilyInv
  PROVE  /\ NULL \notin Pids /\ InitPid \in Pids /\ \A p : Kids(p) \subseteq pids \ {InitPid} \/ p = NULL
         /\ \A p \in pids : child[p] = NULL <=> Kids(p) = {}
         /\ \A p \in pids : child[p] # NULL => child[p] \in pids \ {InitPid} /\ parent[child[p]] = p
         /\ \A x \in pids \ {InitPid} :
              /\ parent[x] \in pids
              /\ older[x] # NULL => /\ older[x] \in pids \ {InitPid} /\ parent[older[x]] = parent[x]
                                    /\ older[x] # child[parent[x]] /\ older[x] # x
<1>1. NULL \notin Pids /\ InitPid \in Pids /\ pids \subseteq Pids /\ NULL \notin pids
  BY PidsFinite DEF FamilyInv
<1>2. \A p : Kids(p) \subseteq pids \ {InitPid} \/ p = NULL
  BY DEF FamilyInv, Kids
<1>3. \A p \in pids : NULL \notin Kids(p) /\ InRow(Kids(p), child[p], older)
  BY <1>1 DEF FamilyInv, Rows, Kids
<1>4. \A p \in pids : /\ child[p] = NULL <=> Kids(p) = {}
                      /\ child[p] # NULL => child[p] \in Kids(p)
                      /\ \A x \in Kids(p) : older[x] # NULL =>
                           older[x] \in Kids(p) /\ older[x] # child[p] /\ older[x] # x
  BY <1>3, RowFacts
<1>5. \A p \in pids : child[p] # NULL => child[p] \in pids \ {InitPid} /\ parent[child[p]] = p
  BY <1>1, <1>2, <1>4 DEF Kids
<1>6. ASSUME NEW x \in pids \ {InitPid}
      PROVE /\ parent[x] \in pids
            /\ older[x] # NULL => /\ older[x] \in pids \ {InitPid} /\ parent[older[x]] = parent[x]
                                  /\ older[x] # child[parent[x]] /\ older[x] # x
  <2>1. parent[x] \in pids /\ x \in Kids(parent[x])
    BY DEF FamilyInv, Parents, Kids
  <2> QED
    BY <1>1, <1>2, <1>4, <2>1 DEF Kids
<1> QED
  BY <1>1, <1>2, <1>4, <1>5, <1>6

\* set_links of do_fork, for a pcb that is in no list yet.
LEMMA FamSet ==
  ASSUME FamilyInv, NEW p, NEW q \in Pids \ pids, Family!SetLinks(p, q)
  PROVE  FamilyInv'
<1>1. /\ exiting = NULL /\ p \in pids \ zombie /\ p \in Pids /\ p # q /\ p # NULL /\ q # NULL
      /\ pids \subseteq Pids /\ zombie \subseteq pids /\ InitPid \in pids \ zombie /\ q # InitPid
      /\ pids' = pids \cup {q} /\ zombie' = zombie /\ exiting' = exiting
  BY PidsFinite DEF FamilyInv, Family!SetLinks
<1>2. /\ parent' = [parent EXCEPT ![q] = p] /\ older' = [older EXCEPT ![q] = child[p]]
      /\ child' = [child EXCEPT ![p] = q, ![q] = NULL]
      /\ younger' = [x \in Pids |-> IF x = q THEN NULL ELSE IF x = child[p] THEN q ELSE younger[x]]
  BY DEF Family!SetLinks, Family!YoungerAfterFork
<1>3. PointersOK' /\ \A x \in Pids : /\ parent'[x] = IF x = q THEN p ELSE parent[x]
                                     /\ older'[x] = IF x = q THEN child[p] ELSE older[x]
                                     /\ child'[x] = IF x = q THEN NULL ELSE IF x = p THEN q ELSE child[x]
                                     /\ younger'[x] = IF x = q THEN NULL ELSE IF x = child[p] THEN q ELSE younger[x]
  BY <1>1, <1>2 DEF FamilyInv, PointersOK
<1>4. \A x \in pids : parent[x] # q
  BY <1>1 DEF FamilyInv, Parents
<1>5. \A x \in pids : Kids(x)' = IF x = p THEN Kids(x) \cup {q} ELSE Kids(x)
  BY <1>1, <1>3 DEF Kids
<1>6. Kids(q)' = {}
  BY <1>1, <1>3, <1>4 DEF Kids
<1>7. ASSUME NEW x \in pids' PROVE InRow(Kids(x)', child'[x], older')
  <2>1. CASE x = q
    BY <1>1, <1>3, <1>6, <2>1, RowEmpty
  <2>2. CASE x = p
    <3>1. InRow(Kids(p), child[p], older) /\ q \notin Kids(p) /\ Kids(p) \subseteq pids
      BY <1>1 DEF FamilyInv, Rows, Kids
    <3>2. older'[q] = child[p] /\ \A y \in Kids(p) : older'[y] = older[y]
      BY <1>1, <1>3, <3>1
    <3>3. InRow(Kids(p) \cup {q}, q, older')
      BY <3>1, <3>2, RowPush
    <3> QED
      BY <1>1, <1>3, <1>5, <2>2, <3>3
  <2>3. CASE x \in pids /\ x # p
    <3>1. InRow(Kids(x), child[x], older) /\ q \notin Kids(x) /\ Kids(x) \subseteq pids
      BY <1>1, <2>3 DEF FamilyInv, Rows, Kids
    <3>2. \A y \in Kids(x) : older'[y] = older[y]
      BY <1>1, <1>3, <3>1
    <3>3. InRow(Kids(x), child[x], older')
      BY <3>1, <3>2, RowKeep
    <3>4. child'[x] = child[x] /\ Kids(x)' = Kids(x)
      BY <1>1, <1>3, <1>5, <2>3
    <3> QED
      BY <3>3, <3>4
  <2> QED
    BY <1>1, <2>1, <2>2, <2>3
<1>8. Parents' /\ parent'[InitPid] = NULL
  BY <1>1, <1>3 DEF FamilyInv, Parents
<1>9. Rooted'
  <2> SUFFICES ASSUME NEW S \in SUBSET (pids' \ {InitPid}), S # {}
               PROVE  \E y \in S : parent'[y] \notin S
    BY DEF Rooted
  <2>1. CASE S = {q}
    BY <1>1, <1>3, <2>1
  <2>2. CASE S # {q}
    <3>1. S \ {q} \in SUBSET (pids \ {InitPid}) /\ S \ {q} # {}
      BY <1>1, <2>2
    <3>2. PICK y \in S \ {q} : parent[y] \notin S \ {q}
      BY <3>1 DEF FamilyInv, Rooted
    <3>3. y \in pids /\ parent'[y] = parent[y]
      BY <1>1, <1>3, <3>1, <3>2
    <3> QED
      BY <1>4, <3>2, <3>3
  <2> QED
    BY <2>1, <2>2
<1>10. BackLinks'
  <2> SUFFICES ASSUME NEW x \in pids' \ {InitPid}, exiting' # parent'[x]
               PROVE  /\ older'[x] # NULL => younger'[older'[x]] = x
                      /\ child'[parent'[x]] = x => younger'[x] = NULL
    BY DEF BackLinks
  <2>1. CASE x = q
    <3>1. older'[q] = child[p] /\ younger'[q] = NULL
      BY <1>3
    <3>2. child[p] # NULL => child[p] \in pids
      BY <1>1, FamilyFacts
    <3> QED
      BY <1>1, <1>3, <2>1, <3>1, <3>2
  <2>2. CASE x \in pids
    <3>1. x \in pids \ {InitPid} /\ parent'[x] = parent[x] /\ older'[x] = older[x] /\ exiting # parent[x]
      BY <1>1, <1>3, <2>2
    <3>2. /\ parent[x] \in pids
          /\ older[x] # NULL => /\ older[x] \in pids /\ parent[older[x]] = parent[x]
                                /\ older[x] # child[parent[x]]
      BY <3>1, FamilyFacts
    <3>3. /\ older[x] # NULL => younger[older[x]] = x
          /\ child[parent[x]] = x => younger[x] = NULL
      BY <3>1 DEF FamilyInv, BackLinks
    <3>4. child[p] # NULL => child[p] \in pids /\ parent[child[p]] = p
      BY <1>1, FamilyFacts
    <3>5. older[x] # NULL => older[x] # child[p]
      BY <3>2, <3>4
    <3>6. older[x] # NULL => younger'[older[x]] = younger[older[x]]
      BY <1>1, <1>3, <3>2, <3>5
    <3>7. child'[parent[x]] = x => child[parent[x]] = x /\ parent[x] # p
      BY <1>1, <1>3, <2>2, <3>2
    <3>8. parent[x] # p => x # child[p]
      BY <1>1, <2>2, <3>4, PidsFinite
    <3>9. younger'[x] = IF x = child[p] THEN q ELSE younger[x]
      BY <1>1, <1>3, <2>2
    <3> QED
      BY <3>1, <3>3, <3>6, <3>7, <3>8, <3>9
  <2> QED
    BY <1>1, <2>1, <2>2
<1>11. Rows'
  BY <1>7 DEF Rows
<1>12. pids' \subseteq Pids /\ zombie' \subseteq pids' /\ exiting' \in zombie' \cup {NULL} /\ InitPid \in pids' \ zombie'
  BY <1>1
<1> QED
  BY <1>3, <1>8, <1>9, <1>10, <1>11, <1>12 DEF FamilyInv

\* do_exit, up to its loop and behind it.
LEMMA FamExit ==
  ASSUME FamilyInv, (\E p : Family!Exit(p)) \/ Family!ExitDone
  PROVE  FamilyInv'
<1>1. /\ pids' = pids /\ parent' = parent /\ child' = child /\ younger' = younger /\ older' = older
  BY DEF Family!Exit, Family!ExitDone, Family!links
<1>2. Rooted' /\ Rows' /\ PointersOK'
  BY <1>1 DEF FamilyInv, Rooted, Rows, PointersOK, Kids
<1>3. ASSUME NEW p, Family!Exit(p) PROVE FamilyInv'
  <2>1. /\ exiting = NULL /\ p \in pids \ {InitPid} /\ exiting' = p /\ zombie' = zombie \cup {p}
    BY <1>3 DEF Family!Exit, Family!ZombieAfterExit
  <2>2. \A q \in pids \ {InitPid} : parent[q] # NULL
    BY FamilyFacts, PidsFinite DEF FamilyInv
  <2>3. BackLinks'
    BY <1>1, <2>1, <2>2 DEF FamilyInv, BackLinks
  <2>4. Parents'
    BY <1>1, <2>1, <2>2 DEF FamilyInv, Parents
  <2> QED
    BY <1>1, <1>2, <2>1, <2>3, <2>4 DEF FamilyInv
<1>4. CASE Family!ExitDone
  <2>1. exiting # NULL /\ child[exiting] = NULL /\ exiting' = NULL /\ zombie' = zombie
    BY <1>4 DEF Family!ExitDone, Family!LoopOver
  <2>2. exiting \in pids /\ Kids(exiting) = {}
    BY <2>1, FamilyFacts DEF FamilyInv
  <2>3. \A q \in pids : parent[q] # exiting
    BY <2>2 DEF Kids
  <2>4. Parents'
    BY <1>1, <2>1, <2>3 DEF FamilyInv, Parents
  <2>5. BackLinks'
    BY <1>1, <2>1, <2>3 DEF FamilyInv, BackLinks
  <2> QED
    BY <1>1, <1>2, <2>1, <2>4, <2>5 DEF FamilyInv
<1> QED
  BY <1>3, <1>4

\* A round of the loop of do_exit.
LEMMA FamMove ==
  ASSUME FamilyInv, Family!Move
  PROVE  FamilyInv'
<1> DEFINE p == exiting
           q == child[p]
           c == child[InitPid]
<1>1. /\ p \in pids /\ p # InitPid /\ p # NULL /\ q # NULL /\ q \in pids \ {InitPid} /\ parent[q] = p
      /\ pids \subseteq Pids /\ NULL \notin Pids /\ zombie \subseteq pids /\ InitPid \in pids \ zombie
      /\ pids' = pids /\ zombie' = zombie /\ exiting' = exiting
  <2>1. p # NULL /\ q # NULL /\ pids' = pids /\ zombie' = zombie /\ exiting' = exiting
    BY DEF Family!Move
  <2>2. p \in zombie /\ p \in pids
    BY <2>1 DEF FamilyInv
  <2> QED
    BY <2>1, <2>2, FamilyFacts DEF FamilyInv
<1>2. q # p
  <2>1. {q} \in SUBSET (pids \ {InitPid})
    BY <1>1
  <2>2. \E y \in {q} : parent[y] \notin {q}
    BY <2>1 DEF FamilyInv, Rooted
  <2> QED
    BY <1>1, <2>2
<1>3. /\ parent' = [parent EXCEPT ![q] = InitPid] /\ older' = [older EXCEPT ![q] = c]
      /\ child' = [child EXCEPT ![p] = older[q], ![InitPid] = q]
      /\ younger' = [x \in Pids |-> IF x = q THEN NULL ELSE IF x = c THEN q ELSE younger[x]]
  BY DEF Family!Move, Family!OlderAfterMove, Family!ChildAfterMove
<1>4. PointersOK' /\ \A x \in Pids : /\ parent'[x] = IF x = q THEN InitPid ELSE parent[x]
                                     /\ older'[x] = IF x = q THEN c ELSE older[x]
                                     /\ child'[x] = IF x = InitPid THEN q ELSE IF x = p THEN older[q] ELSE child[x]
                                     /\ younger'[x] = IF x = q THEN NULL ELSE IF x = c THEN q ELSE younger[x]
  BY <1>1, <1>3 DEF FamilyInv, PointersOK
<1>5. \A x \in pids : Kids(x)' = IF x = p THEN Kids(x) \ {q}
                                 ELSE IF x = InitPid THEN Kids(x) \cup {q} ELSE Kids(x)
  BY <1>1, <1>4 DEF Kids
<1>c. c # NULL => c \in pids \ {InitPid} /\ parent[c] = InitPid
  BY <1>1, FamilyFacts
<1> HIDE DEF p, q, c
<1>6. ASSUME NEW x \in pids PROVE InRow(Kids(x)', child'[x], older')
  <2>0. InRow(Kids(x), child[x], older) /\ Kids(x) \subseteq pids /\ Kids(x) \subseteq Pids
    BY <1>1 DEF FamilyInv, Rows, Kids
  <2>1. CASE x = p
    <3>1. PICK n, f : Row(n, f, Kids(p), q, older)
      BY <2>0, <2>1 DEF InRow, q
    <3>2. n \in Nat /\ n # 0 /\ f[1] = q /\ 1 \in 1 .. n
      BY <1>1, <3>1 DEF Row
    <3>3. \A y \in Kids(p) \ {f[1]} : older'[y] = IF 1 > 1 /\ y = f[1 - 1] THEN older[f[1]] ELSE older[y]
      BY <1>4, <2>0, <2>1, <3>2
    <3>4. InRow(Kids(p) \ {f[1]}, IF 1 = 1 THEN older[f[1]] ELSE q, older')
      BY <3>1, <3>2, <3>3, RowCut
    <3>5. child'[x] = older[q] /\ Kids(x)' = Kids(p) \ {q}
      BY <1>1, <1>4, <1>5, <2>1
    <3> QED
      BY <3>2, <3>4, <3>5
  <2>2. CASE x = InitPid
    <3>1. q \notin Kids(x) /\ older'[q] = child[x] /\ \A y \in Kids(x) : older'[y] = older[y]
      BY <1>1, <1>4, <2>0, <2>2 DEF Kids, c
    <3>2. InRow(Kids(x) \cup {q}, q, older')
      BY <2>0, <3>1, RowPush
    <3>3. child'[x] = q /\ Kids(x)' = Kids(x) \cup {q}
      BY <1>1, <1>4, <1>5, <2>2
    <3> QED
      BY <3>2, <3>3
  <2>3. CASE x # p /\ x # InitPid
    <3>1. \A y \in Kids(x) : older'[y] = older[y]
      BY <1>1, <1>4, <2>0, <2>3 DEF Kids
    <3>2. InRow(Kids(x), child[x], older')
      BY <2>0, <3>1, RowKeep
    <3>3. child'[x] = child[x] /\ Kids(x)' = Kids(x)
      BY <1>1, <1>4, <1>5, <2>3
    <3> QED
      BY <3>2, <3>3
  <2> QED
    BY <2>1, <2>2, <2>3
<1>7. Parents' /\ parent'[InitPid] = NULL
  BY <1>1, <1>4 DEF FamilyInv, Parents
<1>8. Rooted'
  <2> SUFFICES ASSUME NEW S \in SUBSET (pids' \ {InitPid}), S # {}
               PROVE  \E y \in S : parent'[y] \notin S
    BY DEF Rooted
  <2>1. CASE q \in S
    BY <1>1, <1>4, <2>1
  <2>2. CASE q \notin S
    <3>1. PICK y \in S : parent[y] \notin S
      BY <1>1 DEF FamilyInv, Rooted
    <3> QED
      BY <1>1, <1>4, <2>2, <3>1
  <2> QED
    BY <2>1, <2>2
<1>9. BackLinks'
  <2> SUFFICES ASSUME NEW x \in pids' \ {InitPid}, exiting' # parent'[x]
               PROVE  /\ older'[x] # NULL => younger'[older'[x]] = x
                      /\ child'[parent'[x]] = x => younger'[x] = NULL
    BY DEF BackLinks
  <2>1. CASE x = q
    <3>1. older'[q] = c /\ younger'[q] = NULL
      BY <1>1, <1>4
    <3>2. c # NULL => c # q
      BY <1>1, <1>c
    <3> QED
      BY <1>1, <1>4, <1>c, <2>1, <3>1, <3>2
  <2>2. CASE x # q
    <3>1. /\ x \in pids \ {InitPid} /\ x \in Pids /\ parent'[x] = parent[x] /\ older'[x] = older[x]
          /\ parent[x] # p /\ exiting # parent[x]
      BY <1>1, <1>4, <2>2 DEF p
    <3>2. /\ parent[x] \in pids
          /\ older[x] # NULL => /\ older[x] \in pids /\ parent[older[x]] = parent[x]
                                /\ older[x] # child[parent[x]]
      BY <3>1, FamilyFacts
    <3>3. /\ older[x] # NULL => younger[older[x]] = x
          /\ child[parent[x]] = x => younger[x] = NULL
      BY <3>1 DEF FamilyInv, BackLinks
    <3>4. older[x] # NULL => older[x] # c /\ older[x] # q
      BY <1>1, <1>c, <3>1, <3>2 DEF c
    <3>5. older[x] # NULL => younger'[older[x]] = younger[older[x]]
      BY <1>1, <1>4, <3>2, <3>4
    <3>6. child'[parent[x]] = x => child[parent[x]] = x /\ parent[x] # InitPid
      BY <1>1, <1>4, <2>2, <3>1, <3>2
    <3>7. parent[x] # InitPid => x # c
      BY <1>1, <1>c, <3>1
    <3>8. younger'[x] = IF x = c THEN q ELSE younger[x]
      BY <1>4, <2>2, <3>1
    <3> QED
      BY <3>1, <3>3, <3>5, <3>6, <3>7, <3>8
  <2> QED
    BY <2>1, <2>2
<1>10. Rows'
  BY <1>1, <1>6 DEF Rows
<1>11. exiting' \in zombie' \cup {NULL}
  BY <1>1 DEF FamilyInv
<1> QED
  BY <1>1, <1>4, <1>7, <1>8, <1>9, <1>10, <1>11 DEF FamilyInv

\* remove_links of do_wait.
LEMMA FamReap ==
  ASSUME FamilyInv, NEW p, NEW q, Family!Reap(p, q)
  PROVE  FamilyInv'
<1> DEFINE y == younger[q]
           o == older[q]
<1>1. /\ exiting = NULL /\ p \in pids \ zombie /\ q \in zombie /\ q \in pids \ {InitPid} /\ parent[q] = p /\ p # q
      /\ pids \subseteq Pids /\ NULL \notin Pids /\ zombie \subseteq pids /\ InitPid \in pids \ zombie
      /\ pids' = pids \ {q} /\ zombie' = zombie \ {q} /\ exiting' = exiting
  BY PidsFinite DEF FamilyInv, Family!Reap
<1>2. \A x \in pids : parent[x] # q
  BY <1>1 DEF FamilyInv, Parents
<1>3. /\ parent' = [parent EXCEPT ![q] = NULL]
      /\ older' = [x \in Pids |-> IF x = q THEN NULL ELSE IF x = y THEN o ELSE older[x]]
      /\ younger' = [x \in Pids |-> IF x = q THEN NULL ELSE IF x = o THEN y ELSE younger[x]]
      /\ child' = IF y = NULL THEN [child EXCEPT ![p] = o] ELSE child
  BY DEF Family!Reap, Family!ChildAfterReap
<1>4. PointersOK' /\ \A x \in Pids : /\ parent'[x] = IF x = q THEN NULL ELSE parent[x]
                                     /\ older'[x] = IF x = q THEN NULL ELSE IF x = y THEN o ELSE older[x]
                                     /\ child'[x] = IF x = p /\ y = NULL THEN o ELSE child[x]
                                     /\ younger'[x] = IF x = q THEN NULL ELSE IF x = o THEN y ELSE younger[x]
  BY <1>1, <1>3 DEF FamilyInv, PointersOK
<1>5. \A x \in pids \ {q} : Kids(x)' = IF x = p THEN Kids(x) \ {q} ELSE Kids(x)
  BY <1>1, <1>4 DEF Kids
<1>6. PICK n, f : Row(n, f, Kids(p), child[p], older)
  BY <1>1 DEF FamilyInv, Rows, InRow
<1>7. PICK i \in 1 .. n : f[i] = q
  BY <1>1, <1>6 DEF Row, Kids
<1>8. y = (IF i = 1 THEN NULL ELSE f[i - 1]) /\ (i # 1 => f[i - 1] \in Kids(p))
  <2>0. n \in Nat /\ f \in [1 .. n -> Kids(p)] /\ i \in Int /\ 1 <= i /\ i <= n
    BY <1>6 DEF Row
  <2>1. CASE i = 1
    <3>1. child[p] = q
      BY <1>6, <1>7, <2>0, <2>1 DEF Row
    <3>2. younger[q] = NULL
      BY <1>1, <3>1 DEF FamilyInv, BackLinks
    <3> QED
      BY <2>1, <3>2
  <2>2. CASE i # 1
    <3>1. i - 1 \in 1 .. n /\ i - 1 # n /\ i - 1 + 1 = i /\ f[i - 1] \in Kids(p)
      BY <2>0, <2>2
    <3>2. older[f[i - 1]] = q
      BY <1>6, <1>7, <3>1 DEF Row
    <3>3. f[i - 1] \in pids \ {InitPid} /\ parent[f[i - 1]] = p
      BY <1>1, <3>1 DEF Kids, FamilyInv
    <3>4. younger[q] = f[i - 1]
      BY <1>1, <3>2, <3>3 DEF FamilyInv, BackLinks
    <3> QED
      BY <2>2, <3>1, <3>4
  <2> QED
    BY <2>1, <2>2
<1>9. /\ o # NULL => o \in pids \ {InitPid} /\ parent[o] = p /\ o # q /\ younger[o] = q
      /\ y # NULL => y \in pids /\ parent[y] = p
  <2>1. o # NULL => o \in pids \ {InitPid} /\ parent[o] = p /\ o # q
    BY <1>1, FamilyFacts
  <2>2. o # NULL => younger[o] = q
    BY <1>1 DEF FamilyInv, BackLinks
  <2>3. y # NULL => y \in Kids(p)
    BY <1>8
  <2> QED
    BY <2>1, <2>2, <2>3 DEF Kids
<1>10. ASSUME NEW x \in pids' PROVE InRow(Kids(x)', child'[x], older')
  <2>0. x \in pids /\ x # q /\ InRow(Kids(x), child[x], older) /\ Kids(x) \subseteq pids /\ Kids(x) \subseteq Pids
    BY <1>1 DEF FamilyInv, Rows, Kids
  <2>1. CASE x = p
    <3>0. i \in Int /\ 1 <= i
      BY <1>6 DEF Row
    <3>1. \A z \in Kids(p) \ {f[i]} : older'[z] = IF i > 1 /\ z = f[i - 1] THEN older[f[i]] ELSE older[z]
      <4> TAKE z \in Kids(p) \ {f[i]}
      <4>1. z \in Pids /\ z # q /\ z # NULL
        BY <1>1, <1>7, <2>0, <2>1
      <4>2. z = y <=> i > 1 /\ z = f[i - 1]
        BY <1>8, <3>0, <4>1
      <4> HIDE DEF y
      <4> QED
        BY <1>4, <1>7, <4>1, <4>2
    <3>2. InRow(Kids(p) \ {f[i]}, IF i = 1 THEN older[f[i]] ELSE child[p], older')
      BY <1>6, <3>1, RowCut
    <3>3. y = NULL <=> i = 1
      BY <1>1, <1>8 DEF Kids
    <3>4. child'[x] = (IF i = 1 THEN o ELSE child[p]) /\ Kids(x)' = Kids(p) \ {q}
      <4> HIDE DEF y, o
      <4> QED
        BY <1>1, <1>4, <1>5, <2>0, <2>1, <3>3
    <3> QED
      BY <1>7, <3>2, <3>4
  <2>2. CASE x # p
    <3>1. \A z \in Kids(x) : z \in Pids /\ z # q /\ z # y
      <4> HIDE DEF y
      <4> QED
        BY <1>1, <1>9, <2>0, <2>2 DEF Kids
    <3>2. \A z \in Kids(x) : older'[z] = older[z]
      BY <1>4, <3>1
    <3>3. InRow(Kids(x), child[x], older')
      BY <2>0, <3>2, RowKeep
    <3>4. child'[x] = child[x] /\ Kids(x)' = Kids(x)
      BY <1>1, <1>4, <1>5, <2>0, <2>2
    <3> QED
      BY <3>3, <3>4
  <2> QED
    BY <2>1, <2>2
<1>11. Parents' /\ parent'[InitPid] = NULL
  BY <1>1, <1>2, <1>4 DEF FamilyInv, Parents
<1>12. Rooted'
  <2> SUFFICES ASSUME NEW S \in SUBSET (pids' \ {InitPid}), S # {}
               PROVE  \E z \in S : parent'[z] \notin S
    BY DEF Rooted
  <2>1. PICK z \in S : parent[z] \notin S
    BY <1>1 DEF FamilyInv, Rooted
  <2>2. z \in Pids /\ z # q
    BY <1>1
  <2> QED
    BY <1>4, <2>1, <2>2
<1>13. BackLinks'
  <2> SUFFICES ASSUME NEW x \in pids' \ {InitPid}
               PROVE  /\ older'[x] # NULL => younger'[older'[x]] = x
                      /\ child'[parent'[x]] = x => younger'[x] = NULL
    BY DEF BackLinks
  <2> HIDE DEF y, o
  <2>1. x \in pids \ {InitPid} /\ x \in Pids /\ x # q /\ x # NULL /\ parent'[x] = parent[x]
    BY <1>1, <1>4
  <2>2. /\ parent[x] \in pids /\ parent[x] \in Pids
        /\ older[x] # NULL => older[x] \in pids /\ older[x] \in Pids /\ parent[older[x]] = parent[x]
    BY <1>1, <2>1, FamilyFacts
  <2>3. exiting # parent[x]
    BY <1>1, <2>2
  <2>4. /\ older[x] # NULL => younger[older[x]] = x
        /\ child[parent[x]] = x => younger[x] = NULL
    BY <2>1, <2>3 DEF FamilyInv, BackLinks
  <2>5. CASE parent[x] # p
    <3>1. x # y /\ x # o /\ older'[x] = older[x] /\ younger'[x] = younger[x] /\ child'[parent[x]] = child[parent[x]]
      BY <1>4, <1>9, <2>1, <2>2, <2>5
    <3>2. older[x] # NULL => older[x] # q /\ older[x] # o
      BY <1>1, <1>9, <2>2, <2>5
    <3>3. older[x] # NULL => younger'[older[x]] = younger[older[x]]
      BY <1>4, <2>2, <3>2
    <3> QED
      BY <2>1, <2>4, <3>1, <3>3
  <2>6. CASE parent[x] = p
    <3>1. younger'[x] = (IF x = o THEN y ELSE younger[x]) /\ older'[x] = IF x = y THEN o ELSE older[x]
      BY <1>4, <2>1
    <3>2. CASE x = y
      <4>1. o # NULL => younger'[o] = y
        BY <1>1, <1>4, <1>9
      <4>2. child'[p] = child[p] /\ (x = o => younger[x] = q)
        BY <1>1, <1>4, <1>9, <2>1, <3>2
      <4> QED
        BY <1>1, <2>1, <2>4, <2>6, <3>1, <3>2, <4>1, <4>2
    <3>3. CASE x # y
      <4>1. older[x] # NULL => older[x] # q
        BY <2>4, <3>3 DEF y
      <4>2. older[x] # NULL => older[x] # o
        BY <1>9, <2>1, <2>4
      <4>3. older[x] # NULL => younger'[older[x]] = younger[older[x]]
        BY <1>4, <2>2, <4>1, <4>2
      <4>4. child'[p] = IF y = NULL THEN o ELSE child[p]
        BY <1>1, <1>4
      <4>5. child'[p] = x => younger'[x] = NULL
        <5>1. CASE y = NULL
          BY <3>1, <4>4, <5>1
        <5>2. CASE y # NULL
          BY <1>1, <1>9, <2>1, <2>4, <2>6, <3>1, <4>4, <5>2
        <5> QED
          BY <5>1, <5>2
      <4> QED
        BY <2>1, <2>4, <2>6, <3>1, <3>3, <4>3, <4>5
    <3> QED
      BY <3>2, <3>3
  <2> QED
    BY <2>5, <2>6
<1>14. Rows'
  BY <1>10 DEF Rows
<1>15. pids' \subseteq Pids /\ zombie' \subseteq pids' /\ exiting' \in zombie' \cup {NULL} /\ InitPid \in pids' \ zombie'
  BY <1>1
<1> QED
  BY <1>4, <1>11, <1>12, <1>13, <1>14, <1>15 DEF FamilyInv

-----------------------------------------------------------------------------
(* The whole table.                                                        *)

Bucket(h) == { p \in pids : pid_hash(p) = h }

ListsInv ==
  /\ Lists(g_proc_list, pids)
  /\ DOMAIN g_hash_list = Chains
  /\ \A h \in Chains : Lists(g_hash_list[h], Bucket(h))
  /\ g_num_proc = Cardinality(pids) + 1

\* The inductive invariant: the promise of the counters, the pointers, the lists,
\* and that nobody exits and no caller of alloc_pid dies while it scans.
TabInv ==
  /\ Inv /\ FamilyInv /\ ListsInv
  /\ pc = "scan" => exiting = NULL /\ forker \in pids \ zombie

\* Steps that leave the pcbs alone.
LEMMA FamKeep == FamilyInv /\ UNCHANGED <<pids, family>> => FamilyInv'
<1> SUFFICES ASSUME FamilyInv, UNCHANGED <<pids, family>> PROVE FamilyInv'
  OBVIOUS
<1>1. /\ pids' = pids /\ zombie' = zombie /\ exiting' = exiting
      /\ parent' = parent /\ child' = child /\ younger' = younger /\ older' = older
  BY DEF family
<1>2. PointersOK' /\ Rooted' /\ Rows'
  BY <1>1 DEF FamilyInv, PointersOK, Rooted, Rows, Kids
<1>3. Parents' /\ BackLinks'
  BY <1>1 DEF FamilyInv, Parents, BackLinks
<1> QED
  BY <1>1, <1>2, <1>3 DEF FamilyInv

\* Steps that leave the lists alone.
LEMMA ListsKeep == ListsInv /\ UNCHANGED <<pids, lists>> => ListsInv'
BY DEF ListsInv, lists, Bucket

\* init_proc leaves the table in order.
LEMMA TableInit == TInit => TabInv
<1> SUFFICES ASSUME TInit PROVE TabInv
  OBVIOUS
<1>0. NULL = 0 /\ InitPid = 1 /\ InitPid \in Pids /\ NULL \notin Pids
  BY PidsFinite DEF NULL, InitPid
<1>1. /\ pids = {InitPid} /\ zombie = {} /\ exiting = NULL
      /\ parent = [p \in Pids |-> NULL] /\ child = parent /\ younger = parent /\ older = parent
  BY DEF TInit, Family!Init
<1>2. Inv
  BY MaxPid, <1>0 DEF TInit, Inv, TypeOK, GapFree
<1>3. Kids(InitPid) = {} /\ child[InitPid] = NULL
  BY <1>0, <1>1 DEF Kids
<1>4. Rows
  BY <1>1, <1>3, RowEmpty DEF Rows
<1>5. FamilyInv
  BY <1>0, <1>1, <1>4 DEF FamilyInv, PointersOK, Parents, Rooted, BackLinks
<1>6. Lists(<<InitPid>>, {InitPid})
  BY DEF Lists
<1>7. Lists(<<>>, {})
  BY DEF Lists
<1>8. \A h \in Chains : Bucket(h) = IF h = pid_hash(InitPid) THEN {InitPid} ELSE {}
  BY <1>1 DEF Bucket
<1>9. g_hash_list = [h \in Chains |-> IF h = pid_hash(InitPid) THEN <<InitPid>> ELSE <<>>]
  BY DEF TInit
<1>10. \A h \in Chains : Lists(g_hash_list[h], Bucket(h))
  BY <1>6, <1>7, <1>8, <1>9
<1>11. g_num_proc = Cardinality(pids) + 1
  <2>1. Cardinality({InitPid}) = 1
    BY FS_Singleton
  <2>2. g_num_proc = 2
    BY DEF TInit
  <2> QED
    BY <1>1, <2>1, <2>2
<1>12. ListsInv
  BY <1>1, <1>6, <1>9, <1>10, <1>11 DEF ListsInv, TInit
<1> QED
  BY <1>2, <1>5, <1>12 DEF TabInv, TInit

\* hash_proc and set_links of a pcb that has a fresh pid.
LEMMA EnterKeeps ==
  ASSUME FamilyInv, ListsInv, NEW p, NEW q \in Pids \ pids, Enter(p, q)
  PROVE  FamilyInv' /\ ListsInv' /\ pids' = pids \cup {q} /\ zombie' = zombie /\ exiting' = exiting
<1>1. FamilyInv'
  BY FamSet DEF Enter
<1>2. pids' = pids \cup {q} /\ zombie' = zombie /\ exiting' = exiting
  BY DEF Enter, Family!SetLinks
<1>3. Lists(g_proc_list', pids')
  <2>1. Lists(<<q>> \o g_proc_list, pids \cup {q})
    BY ListPush DEF ListsInv
  <2> QED
    BY <1>2, <2>1 DEF Enter
<1>4. DOMAIN g_hash_list' = Chains
  BY DEF Enter, ListsInv
<1>5. ASSUME NEW h \in Chains PROVE Lists(g_hash_list'[h], Bucket(h)')
  <2>1. CASE h = pid_hash(q)
    <3>1. Bucket(h)' = Bucket(h) \cup {q} /\ q \notin Bucket(h)
      BY <1>2, <2>1 DEF Bucket
    <3>2. g_hash_list'[h] = <<q>> \o g_hash_list[h]
      BY <2>1 DEF Enter, ListsInv
    <3>3. Lists(g_hash_list[h], Bucket(h))
      BY DEF ListsInv
    <3>4. Lists(<<q>> \o g_hash_list[h], Bucket(h) \cup {q})
      BY <3>1, <3>3, ListPush
    <3> QED
      BY <3>1, <3>2, <3>4
  <2>2. CASE h # pid_hash(q)
    <3>1. Bucket(h)' = Bucket(h)
      BY <1>2, <2>2 DEF Bucket
    <3>2. g_hash_list'[h] = g_hash_list[h]
      BY <2>2 DEF Enter, ListsInv
    <3> QED
      BY <3>1, <3>2 DEF ListsInv
  <2> QED
    BY <2>1, <2>2
<1>6. g_num_proc' = Cardinality(pids') + 1
  <2>1. IsFiniteSet(pids)
    BY PidsFinite, FS_Subset DEF FamilyInv
  <2>2. Cardinality(pids \cup {q}) = Cardinality(pids) + 1 /\ Cardinality(pids) \in Nat
    BY <2>1, FS_AddElement, FS_CardinalityType
  <2> QED
    BY <1>2, <2>2 DEF Enter, ListsInv
<1>7. ListsInv'
  BY <1>3, <1>4, <1>5, <1>6 DEF ListsInv
<1> QED
  BY <1>1, <1>2, <1>7

\* do_wait takes the pcb out of both lists and out of the family.
LEMMA WaitKeeps ==
  ASSUME FamilyInv, ListsInv, NEW p, NEW q, do_wait(p, q)
  PROVE  FamilyInv' /\ ListsInv'
<1>1. FamilyInv' /\ q \in pids /\ pids' = pids \ {q}
  BY FamReap DEF do_wait, Reap
<1>2. Lists(g_proc_list', pids')
  BY <1>1, ListCut DEF do_wait, ListsInv
<1>3. g_hash_list' = [h \in Chains |-> Without(g_hash_list[h], q)]
  BY DEF do_wait, unhash_proc
<1>4. ASSUME NEW h \in Chains PROVE Lists(g_hash_list'[h], Bucket(h)')
  <2>1. Lists(g_hash_list[h], Bucket(h))
    BY DEF ListsInv
  <2>2. Lists(Without(g_hash_list[h], q), Bucket(h) \ {q})
    BY <2>1, ListCut
  <2>3. Bucket(h)' = Bucket(h) \ {q}
    BY <1>1 DEF Bucket
  <2> QED
    BY <1>3, <2>2, <2>3
<1>5. g_num_proc' = Cardinality(pids') + 1
  <2>1. IsFiniteSet(pids)
    BY PidsFinite, FS_Subset DEF FamilyInv
  <2>2. Cardinality(pids \ {q}) = Cardinality(pids) - 1 /\ Cardinality(pids) \in Nat
    BY <1>1, <2>1, FS_RemoveElement, FS_CardinalityType
  <2> QED
    BY <1>1, <2>2 DEF do_wait, ListsInv
<1>6. ListsInv'
  BY <1>2, <1>3, <1>4, <1>5 DEF ListsInv
<1> QED
  BY <1>1, <1>6

\* Every step of the table is a step of alloc_pid's, of a do_wait or none, and a
\* call that does not have to scan returns another pid than the one before.
LEMMA TablePid ==
  ASSUME TabInv, TNext
  PROVE  [Next]_vars
<1>1. ASSUME NEW p, do_fork(p) PROVE Next
  BY <1>1 DEF do_fork, Next
<1>2. ASSUME NEW p, do_exit(p) PROVE UNCHANGED vars
  BY <1>2 DEF do_exit, Family!Exit, vars
<1>3. ASSUME NEW p, NEW q, do_wait(p, q) PROVE Next
  BY <1>3 DEF do_wait, Next, Reap
<1>4. CASE ScanGoesOn
  <2> DEFINE y == Youngest(todo)
  <2>1. ScanEntry(y)
    BY <1>4 DEF ScanGoesOn
  <2> HIDE DEF y
  <2>2. y \in pids
    BY <2>1 DEF ScanEntry, TabInv, Inv, TypeOK
  <2> QED
    BY <2>1, <2>2 DEF Next, Scan
<1>5. CASE ScanReturns
  BY <1>5 DEF ScanReturns, Next, Scan
<1>6. CASE ExitLoop
  BY <1>6 DEF ExitLoop, Family!Move, Family!ExitDone, vars
<1> QED
  BY <1>1, <1>2, <1>3, <1>4, <1>5, <1>6 DEF TNext, InKernel

\* Every step keeps the table.
LEMMA TableStep == TabInv /\ [TNext]_tvars => TabInv' /\ [Next]_vars
<1> SUFFICES ASSUME TabInv, [TNext]_tvars PROVE TabInv' /\ [Next]_vars
  OBVIOUS
<1>0. Inv /\ FamilyInv /\ ListsInv /\ pids \subseteq Pids /\ exiting \in zombie \cup {NULL}
  BY DEF TabInv, FamilyInv
<1>1. CASE UNCHANGED tvars
  <2>1. UNCHANGED <<pids, family>> /\ UNCHANGED <<pids, lists>> /\ UNCHANGED vars
    BY <1>1 DEF tvars, vars
  <2>2. Inv'
    BY <1>0, <2>1, NextInv
  <2>3. FamilyInv' /\ ListsInv'
    BY <1>0, <2>1, FamKeep, ListsKeep
  <2>4. pc' = pc /\ exiting' = exiting /\ forker' = forker /\ pids' = pids /\ zombie' = zombie
    BY <1>1 DEF tvars, vars, family
  <2> QED
    BY <2>1, <2>2, <2>3, <2>4 DEF TabInv
<1>2. CASE TNext
  <2>1. [Next]_vars
    BY <1>2, TablePid
  <2>2. Inv'
    BY <1>0, <2>1, NextInv
  <2>9. ASSUME FamilyInv', ListsInv', pc' = "scan" => exiting' = NULL /\ forker' \in pids' \ zombie'
        PROVE  TabInv'
    BY <2>2, <2>9 DEF TabInv
  <2>3. ASSUME NEW p \in Pids, do_fork(p) PROVE TabInv'
    <3>1. AllocPid /\ pc = "ready" /\ exiting = NULL /\ p \in pids \ zombie
      BY <2>3 DEF do_fork, AllocPid
    <3>2. CASE pc' = "scan"
      <4>1. forker' = p /\ UNCHANGED <<family, lists>>
        BY <2>3, <3>2 DEF do_fork
      <4>2. pids' = pids
        BY <3>1, <3>2 DEF AllocPid, Return
      <4>3. FamilyInv' /\ ListsInv'
        BY <1>0, <4>1, <4>2, FamKeep, ListsKeep
      <4>4. exiting' = exiting /\ zombie' = zombie
        BY <4>1 DEF family
      <4> QED
        BY <2>2, <3>1, <4>1, <4>2, <4>3, <4>4 DEF TabInv
    <3>3. CASE pc' # "scan"
      <4>1. Enter(p, prev_pid')
        BY <2>3, <3>3 DEF do_fork
      <4>2. pc' = "ready" /\ prev_pid' = Succ(prev_pid)
        BY <3>1, <3>3 DEF AllocPid, Return
      <4>3. prev_pid' # prev_pid
        BY <1>0, <4>2, MaxPid DEF Succ, Inv, TypeOK
      <4>4. Next /\ Returned
        BY <3>1, <4>2, <4>3 DEF Next, Returned
      <4>5. prev_pid' \in Pids \ pids
        BY <1>0, <4>4, StepFresh DEF Pids
      <4>6. FamilyInv' /\ ListsInv'
        BY <1>0, <4>1, <4>5, EnterKeeps
      <4> QED
        BY <2>2, <4>2, <4>6 DEF TabInv
    <3> QED
      BY <3>2, <3>3
  <2>4. ASSUME NEW p \in Pids, do_exit(p) PROVE TabInv'
    <3>1. FamilyInv'
      BY <1>0, <2>4, FamExit DEF do_exit
    <3>2. pids' = pids /\ UNCHANGED lists /\ pc = "ready" /\ pc' = "ready"
      BY <2>4 DEF do_exit, Family!Exit
    <3>3. ListsInv'
      BY <1>0, <3>2, ListsKeep
    <3> QED
      BY <2>2, <3>1, <3>2, <3>3 DEF TabInv
  <2>5. ASSUME NEW p \in Pids, NEW q \in Pids, do_wait(p, q) PROVE TabInv'
    <3>1. FamilyInv' /\ ListsInv'
      BY <1>0, <2>5, WaitKeeps
    <3>2. pc' = "ready"
      BY <2>5 DEF do_wait, Reap
    <3> QED
      BY <2>2, <3>1, <3>2 DEF TabInv
  <2>6. CASE ScanGoesOn
    <3>1. UNCHANGED <<family, lists, forker>> /\ pids' = pids /\ pc' = pc
      BY <2>6 DEF ScanGoesOn, ScanEntry
    <3>2. FamilyInv' /\ ListsInv'
      BY <1>0, <3>1, FamKeep, ListsKeep
    <3>3. exiting' = exiting /\ zombie' = zombie /\ forker' = forker
      BY <3>1 DEF family
    <3>4. pc = "scan" => exiting = NULL /\ forker \in pids \ zombie
      BY DEF TabInv
    <3> QED
      BY <2>1, <2>9, <3>1, <3>2, <3>3, <3>4
  <2>7. CASE ScanReturns
    <3>1. ScanDone /\ pc = "scan" /\ pc' = "ready" /\ prev_pid' = prev_pid /\ Enter(forker, prev_pid)
      BY <2>7 DEF ScanReturns, ScanDone, Return
    <3>2. Next /\ Returned
      BY <3>1 DEF Next, Scan, Returned
    <3>3. prev_pid \in Pids \ pids
      BY <1>0, <3>1, <3>2, StepFresh DEF Pids
    <3>4. FamilyInv' /\ ListsInv'
      BY <1>0, <3>1, <3>3, EnterKeeps
    <3> QED
      BY <2>1, <2>9, <3>1, <3>4
  <2>8. CASE ExitLoop
    <3>1. FamilyInv'
      BY <1>0, <2>8, FamMove, FamExit DEF ExitLoop
    <3>2. pids' = pids /\ UNCHANGED lists /\ pc' = pc /\ exiting # NULL
      BY <2>8 DEF ExitLoop, Family!Move, Family!ExitDone
    <3>3. ListsInv'
      BY <1>0, <3>2, ListsKeep
    <3>4. pc' # "scan"
      BY <3>2 DEF TabInv
    <3> QED
      BY <2>1, <2>9, <3>1, <3>3, <3>4
  <2> QED
    BY <1>2, <2>1, <2>3, <2>4, <2>5, <2>6, <2>7, <2>8 DEF TNext, InKernel
<1> QED
  BY <1>1, <1>2

\* When nobody exits and init has no child, init is alone.
LEMMA InitAlone == FamilyInv /\ exiting = NULL /\ child[InitPid] = NULL => pids = {InitPid}
<1> SUFFICES ASSUME FamilyInv, child[InitPid] = NULL, pids # {InitPid} PROVE FALSE
  OBVIOUS
<1>1. InitPid \in pids /\ Kids(InitPid) = {}
  BY FamilyFacts DEF FamilyInv
<1> DEFINE S == pids \ {InitPid}
<1>2. S # {}
  BY <1>1
<1>3. PICK q \in S : parent[q] \notin S
  BY <1>2 DEF FamilyInv, Rooted
<1>4. parent[q] \in pids
  BY <1>3 DEF FamilyInv, Parents
<1>5. parent[q] = InitPid
  BY <1>3, <1>4
<1> QED
  BY <1>1, <1>5 DEF Kids

\* The chain of a pid is one of the hash list's.
LEMMA Powers == ASSUME HASH_SHIFT \in 1 .. 16
                PROVE  /\ 2^HASH_SHIFT \in Nat /\ 2^(16 - HASH_SHIFT) \in Nat \ {0}
                       /\ 2^HASH_SHIFT * 2^(16 - HASH_SHIFT) = 65536
<1>1. CASE HASH_SHIFT = 1
  BY <1>1
<1>2. CASE HASH_SHIFT = 2
  BY <1>2
<1>3. CASE HASH_SHIFT = 3
  BY <1>3
<1>4. CASE HASH_SHIFT = 4
  BY <1>4
<1>5. CASE HASH_SHIFT = 5
  BY <1>5
<1>6. CASE HASH_SHIFT = 6
  BY <1>6
<1>7. CASE HASH_SHIFT = 7
  BY <1>7
<1>8. CASE HASH_SHIFT = 8
  BY <1>8
<1>9. CASE HASH_SHIFT = 9
  BY <1>9
<1>10. CASE HASH_SHIFT = 10
  BY <1>10
<1>11. CASE HASH_SHIFT = 11
  BY <1>11
<1>12. CASE HASH_SHIFT = 12
  BY <1>12
<1>13. CASE HASH_SHIFT = 13
  BY <1>13
<1>14. CASE HASH_SHIFT = 14
  BY <1>14
<1>15. CASE HASH_SHIFT = 15
  BY <1>15
<1>16. CASE HASH_SHIFT = 16
  BY <1>16
<1> QED
  BY <1>1, <1>2, <1>3, <1>4, <1>5, <1>6, <1>7, <1>8, <1>9, <1>10, <1>11, <1>12, <1>13, <1>14, <1>15, <1>16

LEMMA Quotient == ASSUME NEW a \in Nat, NEW b \in Nat \ {0}, NEW c \in Nat, c * b > a
                  PROVE  a \div b \in 0 .. c - 1
OBVIOUS

LEMMA HashInRange == ASSUME NEW p \in Pids PROVE pid_hash(p) \in Chains
<1>1. p \in Nat
  BY MaxPid DEF Pids
<1>2. (p * 40503) % 2^16 \in Nat /\ (p * 40503) % 2^16 < 65536
  BY <1>1
<1> DEFINE r == (p * 40503) % 2^16
           b == 2^(16 - HASH_SHIFT)
           c == 2^HASH_SHIFT
<1>3. b \in Nat \ {0} /\ c \in Nat /\ c * b = 65536
  <2>1. HASH_SHIFT \in 1 .. 16
    BY TableAssumption
  <2> QED
    BY <2>1, Powers
<1>4. r \in Nat /\ c * b > r
  <2>1. r \in Nat /\ r < 65536
    BY <1>2
  <2> HIDE DEF r, b, c
  <2> QED
    BY <1>3, <2>1
<1> HIDE DEF r, b, c
<1>5. r \div b \in 0 .. c - 1
  BY <1>3, <1>4, Quotient
<1> QED
  BY <1>5 DEF r, b, c, pid_hash, hash32, Chains

\* What the invariant says of the lists, in the terms of TableExact.
LEMMA TableIsExact == TabInv => TableExact
<1> SUFFICES ASSUME TabInv PROVE TableExact
  OBVIOUS
<1>1. ListsInv /\ FamilyInv
  BY DEF TabInv
<1>2. Holds(g_proc_list, pids)
  BY <1>1, ListHolds DEF ListsInv
<1>3. ASSUME NEW h \in Chains PROVE Holds(g_hash_list[h], { p \in pids : pid_hash(p) = h })
  <2>1. Lists(g_hash_list[h], Bucket(h))
    BY <1>1 DEF ListsInv
  <2>2. Holds(g_hash_list[h], Bucket(h))
    BY <2>1, ListHolds
  <2> QED
    BY <2>2 DEF Bucket
<1>4. g_num_proc = Cardinality(pids) + 1
  BY <1>1 DEF ListsInv
<1>5. ASSUME exiting = NULL, child[InitPid] = NULL
      PROVE  g_proc_list = <<InitPid>> /\ g_num_proc = 2
  <2>1. pids = {InitPid}
    BY <1>1, <1>5, InitAlone
  <2>2. Cardinality({InitPid}) = 1
    BY FS_Singleton
  <2>3. Len(g_proc_list) = 1 /\ g_proc_list \in Seq({InitPid})
    BY <1>1, <1>2, <2>1, <2>2 DEF Holds, ListsInv, Lists
  <2>4. g_proc_list = <<InitPid>>
    BY <2>3
  <2> QED
    BY <1>4, <2>1, <2>2, <2>4
<1>6. \A p \in pids : pid_hash(p) \in Chains
  BY <1>1, HashInRange DEF FamilyInv
<1> QED
  BY <1>2, <1>3, <1>4, <1>5, <1>6 DEF TableExact

\* What it says of the pointers, in the terms of LinksExact and NoOrphans.
LEMMA LinksAreExact == TabInv => LinksExact /\ NoOrphans
<1> SUFFICES ASSUME TabInv PROVE LinksExact /\ NoOrphans
  OBVIOUS
<1>1. FamilyInv
  BY DEF TabInv
<1>2. Family!TypeOK
  BY <1>1 DEF FamilyInv, PointersOK, Family!TypeOK, Family!Pointer
<1>3. Family!YoungerExact
  BY <1>1 DEF FamilyInv, BackLinks, Family!YoungerExact
<1>4. Family!ChildrenExact
  <2> SUFFICES ASSUME NEW p \in pids
               PROVE  LET n == Family!Cardinality(Family!Children(p))
                      IN /\ { Family!Nth(p)[i] : i \in 1 .. n } = Family!Children(p)
                         /\ Family!Nth(p)[n + 1] = NULL
    BY DEF Family!ChildrenExact
  <2>1. InRow(Family!Children(p), child[p], older) /\ pids \subseteq Pids
    BY <1>1 DEF FamilyInv, Rows, Kids, Family!Children
  <2> QED
    BY <2>1, RowIsExact
<1>5. Family!NoOrphans
  <2> SUFFICES ASSUME exiting = NULL, NEW q \in pids \ {InitPid} PROVE parent[q] \in pids \ zombie
    BY DEF Family!NoOrphans
  <2>1. parent[q] \in pids /\ parent[q] # NULL
    BY <1>1, PidsFinite DEF FamilyInv, Parents
  <2> QED
    BY <1>1, <2>1 DEF FamilyInv, Parents
<1> QED
  BY <1>2, <1>3, <1>4, <1>5 DEF LinksExact, NoOrphans, Family!LinksExact

\* Whatever processes fork, exit and are reaped in which order: each live pid is
\* once in g_proc_list and once in the chain of its hash, no freed pcb is in a
\* list, g_num_proc counts, and init is alone when its last do_wait fails.
THEOREM TableExactHolds == TSpec => []TableExact
BY TableInit, TableStep, TableIsExact, PTL DEF TSpec

\* do_wait meets exactly the children of a process, also in the middle of the
\* loop of do_exit, and remove_links finds the way back (set_links,
\* remove_links, do_exit).
THEOREM LinksExactHolds == TSpec => []LinksExact
BY TableInit, TableStep, LinksAreExact, PTL DEF TSpec

\* After do_exit every process has a parent that lives and can wait for it.
THEOREM NoOrphansHolds == TSpec => []NoOrphans
BY TableInit, TableStep, LinksAreExact, PTL DEF TSpec

\* The counters of alloc_pid keep their promise also when the scan goes through
\* g_proc_list in its order and pcbs come and go as the table has it.
THEOREM TableGapFree == TSpec => []GapFree
<1>1. TabInv => GapFree
  BY DEF TabInv, Inv
<1> QED
  BY TableInit, TableStep, <1>1, PTL DEF TSpec

\* do_fork gives no live process's pid to a new one.
THEOREM TableUniquePids == TSpec => UniquePids
<1>1. TabInv /\ [TNext]_tvars => [Returned => prev_pid' \in (1 .. MAX_PID - 1) \ pids]_vars
  <2> SUFFICES ASSUME TabInv, [TNext]_tvars
               PROVE  [Returned => prev_pid' \in (1 .. MAX_PID - 1) \ pids]_vars
    OBVIOUS
  <2>1. Inv /\ [Next]_vars
    BY TableStep DEF TabInv
  <2>2. CASE Next
    BY <2>1, <2>2, StepFresh
  <2>3. CASE UNCHANGED vars
    BY <2>3
  <2> QED
    BY <2>1, <2>2, <2>3
<1> QED
  BY TableInit, TableStep, <1>1, PTL DEF TSpec, UniquePids

\* Two processes forked one after the other have different pids.
THEOREM TableNoImmediateReuse == TSpec => NoImmediateReuse
<1>1. TInit => ReuseInv
  <2>1. TInit => Inv
    BY TableInit DEF TabInv
  <2> QED
    BY <2>1 DEF TInit, ReuseInv
<1>2. ReuseInv /\ [Next]_vars => [Returned => last' # last]_vars
  <2> SUFFICES ASSUME ReuseInv, [Next]_vars PROVE [Returned => last' # last]_vars
    OBVIOUS
  <2>1. CASE Next
    BY <2>1, StepNew
  <2>2. CASE UNCHANGED vars
    BY <2>2
  <2> QED
    BY <2>1, <2>2
<1> QED
  BY TableInit, TableStep, ReuseStep, <1>1, <1>2, PTL DEF TSpec, NoImmediateReuse
=============================================================================
