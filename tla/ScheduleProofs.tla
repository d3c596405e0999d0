--------------------------- MODULE ScheduleProofs ---------------------------
(***************************************************************************)
(* The two structures behind schedule.c.  The timers, for any timers and   *)
(* durations: the ASSERT of run_timers, and the refinement of TimerSpec.   *)
(* The stride scheduler, for any finite set of processes, any range of     *)
(* strides and any priorities: the skew heap, whom it picks, and, where    *)
(* nobody blocks or is forked later, how far the strides lie apart.        *)
(***************************************************************************)
EXTENDS Timers, Stride, SequenceTheorems, FiniteSetTheorems, TLAPS

-----------------------------------------------------------------------------
(* Timers.                                                                 *)

\* The first timer has ticks left except while run_timers takes timers off; the
\* timer add_timer is inserting is not listed, has its full duration as long as
\* the loop has passed nobody, and never less than none.
Inv ==
  /\ TypeOK
  /\ op # "run" /\ list # <<>> => expires[list[1]] > 0
  /\ HeadDue
  /\ op # "add" => at = 1
  /\ op = "add" => ~Listed(adding) /\ (at = 1 => expires[adding] > 0)

\* A function on 1 .. n is a sequence of length n.
LEMMA FunctionIsSeq ==
  ASSUME NEW S, NEW n \in Nat, NEW f \in [1 .. n -> S]
  PROVE  f \in Seq(S) /\ Len(f) = n
<1>1. f \in Seq(S)
  BY SeqDef, Zenon
<1>2. 1 .. n = 1 .. Len(f) /\ Len(f) \in Nat
  BY <1>1, LenProperties
<1> QED
  BY <1>1, <1>2

\* Inserting a new element, or removing one, keeps the elements distinct.
LEMMA InsertInjective ==
  ASSUME NEW n \in Nat, NEW f, NEW t,
         \A a, b \in 1 .. n : f[a] = f[b] => a = b,
         \A a \in 1 .. n : f[a] # t,
         NEW i \in 1 .. n + 1, NEW j \in 1 .. n + 1, NEW k \in 1 .. n + 1, j < k
  PROVE  (IF j < i THEN f[j] ELSE IF j = i THEN t ELSE f[j - 1]) #
         (IF k < i THEN f[k] ELSE IF k = i THEN t ELSE f[k - 1])
<1>1. CASE k < i
  <2>1. j \in 1 .. n /\ k \in 1 .. n /\ j < i /\ j # k
    BY <1>1
  <2> QED
    BY <1>1, <2>1
<1>2. CASE j < i /\ k = i
  <2>1. j \in 1 .. n
    BY <1>2
  <2> QED
    BY <1>2, <2>1
<1>3. CASE j < i /\ k > i
  <2>1. j \in 1 .. n /\ k - 1 \in 1 .. n /\ j # k - 1 /\ ~(k < i) /\ k # i
    BY <1>3
  <2> QED
    BY <1>3, <2>1
<1>4. CASE j = i
  <2>1. k - 1 \in 1 .. n /\ ~(k < i) /\ k # i /\ ~(j < i)
    BY <1>4
  <2> QED
    BY <1>4, <2>1
<1>5. CASE j > i
  <2>1. j - 1 \in 1 .. n /\ k - 1 \in 1 .. n /\ j - 1 # k - 1 /\ ~(k < i) /\ k # i /\ ~(j < i) /\ j # i
    BY <1>5
  <2> QED
    BY <2>1
<1> QED
  BY <1>1, <1>2, <1>3, <1>4, <1>5
\* Taking an entry out of a list without repetition leaves one.
LEMMA RemoveInjective ==
  ASSUME NEW n \in Nat, NEW f,
         \A a, b \in 1 .. n : f[a] = f[b] => a = b,
         NEW i \in 1 .. n, NEW j \in 1 .. n - 1, NEW k \in 1 .. n - 1, j < k
  PROVE  (IF j < i THEN f[j] ELSE f[j + 1]) # (IF k < i THEN f[k] ELSE f[k + 1])
<1>1. CASE k < i
  <2>1. j \in 1 .. n /\ k \in 1 .. n /\ j < i /\ j # k
    BY <1>1
  <2> QED
    BY <1>1, <2>1
<1>2. CASE j < i /\ k >= i
  <2>1. j \in 1 .. n /\ k + 1 \in 1 .. n /\ j # k + 1 /\ ~(k < i)
    BY <1>2
  <2> QED
    BY <1>2, <2>1
<1>3. CASE j >= i
  <2>1. j + 1 \in 1 .. n /\ k + 1 \in 1 .. n /\ j + 1 # k + 1 /\ ~(k < i) /\ ~(j < i)
    BY <1>3
  <2> QED
    BY <2>1
<1> QED
  BY <1>1, <1>2, <1>3

\* What Inserted and Removed return, in a state that satisfies TypeOK.
LEMMA InsertedType ==
  ASSUME TypeOK, NEW t \in Timer, ~Listed(t), NEW i \in 1 .. Len(list) + 1
  PROVE  /\ Inserted(t, i) \in Seq(Timer)
         /\ Len(Inserted(t, i)) = Len(list) + 1
         /\ \A j \in 1 .. Len(list) + 1 : Inserted(t, i)[j] =
              IF j < i THEN list[j] ELSE IF j = i THEN t ELSE list[j - 1]
         /\ \A j, k \in 1 .. Len(list) + 1 :
              Inserted(t, i)[j] = Inserted(t, i)[k] => j = k
<1> DEFINE n == Len(list)
           g == Inserted(t, i)
<1>1. /\ n \in Nat /\ n + 1 \in Nat /\ \A j \in 1 .. n : list[j] \in Timer
      /\ \A j, k \in 1 .. n : list[j] = list[k] => j = k
      /\ \A j \in 1 .. n : list[j] # t
  BY DEF TypeOK, Listed
<1>2. g \in [1 .. n + 1 -> Timer]
  BY <1>1 DEF Inserted
<1>3. g \in Seq(Timer) /\ Len(g) = n + 1
  BY <1>1, <1>2, FunctionIsSeq, Zenon
<1>4. \A j \in 1 .. n + 1 : g[j] =
        IF j < i THEN list[j] ELSE IF j = i THEN t ELSE list[j - 1]
  BY <1>1 DEF Inserted
<1> HIDE DEF g, n
<1>5. ASSUME NEW j \in 1 .. n + 1, NEW k \in 1 .. n + 1, j < k PROVE g[j] # g[k]
  <2>1. i \in 1 .. n + 1
    BY DEF n
  <2> QED
    BY <1>1, <1>4, <1>5, <2>1, InsertInjective
<1>6. \A j, k \in 1 .. n + 1 : g[j] = g[k] => j = k
  BY <1>1, <1>5
<1> QED
  BY <1>3, <1>4, <1>6 DEF g, n

\* del_timer leaves a list of timers.
LEMMA RemovedType ==
  ASSUME TypeOK, NEW i \in 1 .. Len(list)
  PROVE  /\ Removed(i) \in Seq(Timer)
         /\ Len(Removed(i)) = Len(list) - 1
         /\ \A j \in 1 .. Len(list) - 1 :
              Removed(i)[j] = IF j < i THEN list[j] ELSE list[j + 1]
         /\ \A j, k \in 1 .. Len(list) - 1 : Removed(i)[j] = Removed(i)[k] => j = k
<1> DEFINE n == Len(list)
           g == Removed(i)
<1>1. /\ n \in Nat /\ n - 1 \in Nat /\ \A j \in 1 .. n : list[j] \in Timer
      /\ \A j, k \in 1 .. n : list[j] = list[k] => j = k
  BY DEF TypeOK
<1>2. g \in [1 .. n - 1 -> Timer]
  BY <1>1 DEF Removed
<1>3. g \in Seq(Timer) /\ Len(g) = n - 1
  BY <1>1, <1>2, FunctionIsSeq, Zenon
<1>4. \A j \in 1 .. n - 1 : g[j] = IF j < i THEN list[j] ELSE list[j + 1]
  BY <1>1 DEF Removed
<1> HIDE DEF g, n
<1>5. ASSUME NEW j \in 1 .. n - 1, NEW k \in 1 .. n - 1, j < k PROVE g[j] # g[k]
  <2>1. i \in 1 .. n
    BY DEF n
  <2> QED
    BY <1>1, <1>4, <1>5, <2>1, RemoveInjective
<1>6. \A j, k \in 1 .. n - 1 : g[j] = g[k] => j = k
  BY <1>1, <1>5
<1> QED
  BY <1>3, <1>4, <1>6 DEF g, n

\* The empty list satisfies the invariant.
LEMMA InitInv == Init => Inv
  BY DEF Init, Inv, TypeOK, HeadDue, Listed

\* add_timer, del_timer and run_timers keep the invariant.
LEMMA NextInv == Inv /\ [Next]_vars => Inv'
<1> SUFFICES ASSUME Inv, [Next]_vars PROVE Inv'
  OBVIOUS
<1>0. /\ Len(list) \in Nat /\ \A j \in 1 .. Len(list) : list[j] \in Timer
      /\ \A t \in Timer : expires[t] \in Nat
      /\ list # <<>> <=> Len(list) > 0
  BY DEF Inv, TypeOK
<1> USE DEF Inv, HeadDue
<1>1. ASSUME NEW t \in Timer, NEW n \in Durations, AddTimer(t, n) PROVE Inv'
  BY <1>0, <1>1, TimersAssumption DEF AddTimer, TypeOK, Listed
<1>2. CASE AddWalks
  <2>1. expires[adding] >= expires[list[at]] /\ at \in 1 .. Len(list)
    BY <1>0, <1>2 DEF AddWalks, AddStops, TypeOK
  <2>2. expires[adding] - expires[list[at]] \in Nat
    BY <1>0, <2>1 DEF TypeOK
  <2> QED
    BY <1>0, <1>2, <2>1, <2>2 DEF AddWalks, TypeOK, Listed
<1>3. CASE AddInserts
  <2>1. /\ list' = Inserted(adding, at) /\ op' = "none" /\ at' = 1 /\ adding' = adding
        /\ expires' = FollowerShortened /\ ~Listed(adding)
    BY <1>3 DEF AddInserts
  <2>2. expires' \in [Timer -> Nat]
    BY <1>0, <2>1 DEF FollowerShortened, AddStops, TypeOK
  <2>0. /\ Len(list') = Len(list) + 1 /\ list' \in Seq(Timer)
        /\ \A j \in 1 .. Len(list) + 1 : list'[j] =
             IF j < at THEN list[j] ELSE IF j = at THEN adding ELSE list[j - 1]
        /\ \A j, k \in 1 .. Len(list) + 1 : list'[j] = list'[k] => j = k
    <3>1. adding \in Timer /\ at \in 1 .. Len(list) + 1
      BY DEF TypeOK
    <3> QED
      BY <2>1, <3>1, InsertedType
  <2>3. TypeOK'
    BY <1>0, <2>1, <2>2, <2>0 DEF TypeOK
  <2>4. expires'[list'[1]] > 0
    <3>1. CASE at = 1
      <4>1. list'[1] = adding
        BY <1>0, <3>1, <2>0 DEF TypeOK
      <4>2. expires'[adding] = expires[adding]
        BY <1>0, <2>1 DEF FollowerShortened, AddStops, TypeOK, Listed
      <4> QED
        BY <1>3, <3>1, <4>1, <4>2 DEF AddInserts
    <3>2. CASE at > 1
      <4>1. list'[1] = list[1] /\ Len(list) > 0
        BY <1>0, <3>2, <2>0 DEF TypeOK
      <4>2. AddStops => list[at] # list[1]
        BY <1>0, <3>2 DEF AddStops, TypeOK
      <4>3. expires'[list[1]] = expires[list[1]]
        BY <1>0, <2>1, <4>1, <4>2 DEF FollowerShortened, AddStops, TypeOK
      <4> QED
        BY <1>0, <1>3, <4>1, <4>3 DEF AddInserts
    <3> QED
      BY <3>1, <3>2 DEF TypeOK
  <2> QED
    BY <2>1, <2>3, <2>4
<1>4. ASSUME NEW t \in Timer, DelTimer(t) PROVE Inv'
  <2>1. PICK i \in 1 .. Len(list) :
          list[i] = t /\ expires' = FollowerLengthened(i) /\ list' = Removed(i)
    BY <1>4 DEF DelTimer
  <2>2. op = "none" /\ op' = op /\ adding' = adding /\ at' = at /\ at = 1
    BY <1>4 DEF DelTimer
  <2>0. /\ Len(list') = Len(list) - 1 /\ list' \in Seq(Timer)
        /\ \A j \in 1 .. Len(list) - 1 : list'[j] = IF j < i THEN list[j] ELSE list[j + 1]
        /\ \A j, k \in 1 .. Len(list) - 1 : list'[j] = list'[k] => j = k
    <3>1. TypeOK
      OBVIOUS
    <3> HIDE DEF Inv
    <3> QED
      BY <2>1, <3>1, RemovedType, Zenon
  <2>3. expires' \in [Timer -> Nat]
    BY <1>0, <2>1 DEF FollowerLengthened, TypeOK
  <2>4. TypeOK'
    <3>1. adding \in Timer /\ op \in {"none", "add", "run"} /\ 1 \in 1 .. Len(list')  + 1
      BY <1>0, <2>0 DEF TypeOK
    <3> QED
      BY <2>2, <2>3, <2>0, <3>1 DEF TypeOK
  <2>5. ASSUME list' # <<>> PROVE expires'[list'[1]] > 0
    <3>1. Len(list) > 1 /\ list'[1] = IF 1 < i THEN list[1] ELSE list[2]
      BY <1>0, <2>5, <2>0
    <3>2. CASE i = 1
      BY <1>0, <2>1, <2>2, <3>1, <3>2 DEF FollowerLengthened, TypeOK
    <3>3. CASE i > 1
      <4>1. i < Len(list) => list[i + 1] # list[1]
        <5>1. i < Len(list) => i + 1 \in 1 .. Len(list) /\ 1 \in 1 .. Len(list) /\ i + 1 # 1
          BY <1>0, <3>3
        <5> QED
          BY <5>1 DEF TypeOK
      <4> QED
        BY <1>0, <2>1, <2>2, <3>1, <3>3, <4>1 DEF FollowerLengthened, TypeOK
    <3> QED
      BY <3>2, <3>3
  <2> QED
    BY <2>2, <2>4, <2>5
<1>5. CASE RunTimers
  BY <1>0, <1>5 DEF RunTimers, TypeOK
<1>6. CASE RunFires
  <2>1. Len(list) > 0 /\ list' = Removed(1) /\ expires' = expires /\ adding' = adding /\ at' = at
    BY <1>0, <1>6 DEF RunFires
  <2>2. op' = IF MoreDue THEN "run" ELSE "none"
    BY <1>6 DEF RunFires
  <2>3. /\ Len(list') = Len(list) - 1 /\ list' \in Seq(Timer)
        /\ \A j \in 1 .. Len(list) - 1 : list'[j] = IF j < 1 THEN list[j] ELSE list[j + 1]
        /\ \A j, k \in 1 .. Len(list) - 1 : list'[j] = list'[k] => j = k
    <3>1. 1 \in 1 .. Len(list)
      BY <1>0, <2>1
    <3> QED
      <4>1. TypeOK
        OBVIOUS
      <4> HIDE DEF Inv
      <4> QED
        BY <2>1, <3>1, <4>1, RemovedType, Zenon
  <2>4. TypeOK' /\ at = 1
    BY <1>0, <1>6, <2>1, <2>2, <2>3 DEF TypeOK, RunFires
  <2>5. Len(list) > 1 => list'[1] = list[2] /\ expires[list[2]] \in Nat
    BY <1>0, <2>3
  <2>6. list' # <<>> <=> Len(list) > 1
    BY <1>0, <2>3
  <2> QED
    BY <1>0, <2>1, <2>2, <2>4, <2>5, <2>6 DEF MoreDue
<1>7. CASE UNCHANGED vars
  BY <1>7 DEF vars, TypeOK, Listed
<1> QED
  BY <1>1, <1>2, <1>3, <1>4, <1>5, <1>6, <1>7 DEF Next

\* run_timers never meets a first timer at zero when it starts, so the unsigned
\* decrement cannot wrap.
THEOREM HeadNotExpiredHolds == Spec => [](TypeOK /\ HeadNotExpired)
<1>1. Inv => TypeOK /\ HeadNotExpired
  BY DEF Inv, HeadNotExpired
<1> QED
  BY InitInv, NextInv, <1>1, PTL DEF Spec

-----------------------------------------------------------------------------
(* The refinement of TimerSpec.  Facts about sums along the list are found *)
(* by their least counterexample.                                          *)

\* needs no operator as a parameter.
LEMMA Least == ASSUME NEW S, S \subseteq Nat, S # {}
               PROVE  \E m \in S : \A k \in S : m <= k
<1> DEFINE R == StrictSubsetOrdering(Nat)
           T == { 0 .. k : k \in S }
<1>1. IsWellFoundedOn(R, FiniteSubsetsOf(Nat))
  BY FS_StrictSubsetOrderingWellFounded, Zenon
<1>2. T \subseteq FiniteSubsetsOf(Nat)
  <2>1. \A k \in S : IsFiniteSet(0 .. k) /\ 0 .. k \subseteq Nat
    BY FS_Interval
  <2> QED
    BY <2>1, Zenon DEF FiniteSubsetsOf
<1>3. T # {}
  OBVIOUS
<1>4. PICK x \in T : \A y \in T : ~(<<y, x>> \in R)
  <2> HIDE DEF R, T
  <2> QED
    BY <1>1, <1>2, <1>3, WFMin, Zenon
<1>5. PICK m \in S : x = 0 .. m
  OBVIOUS
<1>6. ASSUME NEW k \in S, k < m PROVE FALSE
  <2>1. 0 .. k \subseteq 0 .. m /\ 0 .. k # 0 .. m
    BY <1>6
  <2>2. <<0 .. k, 0 .. m>> \in R
    BY <2>1 DEF StrictSubsetOrdering
  <2> QED
    BY <1>4, <1>5, <2>2
<1> QED
  BY <1>6

\* f holds the sums of the first so many of d.
Sums(n, d, f) == f = [i \in 0 .. n |-> IF i = 0 THEN 0 ELSE f[i - 1] + d[i]]

LEMMA SumsAt == ASSUME NEW n \in Nat, NEW d, NEW f, Sums(n, d, f)
                PROVE  /\ DOMAIN f = 0 .. n /\ f = [i \in 0 .. n |-> f[i]]
                       /\ f[0] = 0 /\ \A i \in 1 .. n : f[i] = f[i - 1] + d[i]
<1>1. DOMAIN f = 0 .. n /\ f = [i \in 0 .. n |-> f[i]]
  BY DEF Sums
<1>2. \A i \in 0 .. n : f[i] = IF i = 0 THEN 0 ELSE f[i - 1] + d[i]
  BY DEF Sums
<1>3. f[0] = 0
  BY <1>2
<1>4. ASSUME NEW i \in 1 .. n PROVE f[i] = f[i - 1] + d[i]
  <2>1. i \in 0 .. n /\ i # 0
    OBVIOUS
  <2> QED
    BY <1>2, <2>1
<1> QED
  BY <1>1, <1>3, <1>4

\* There are such sums, and they are numbers.
LEMMA SumsExist == ASSUME NEW n \in Nat, NEW d, \A i \in 1 .. n : d[i] \in Nat
                   PROVE  \E f \in [0 .. n -> Nat] : Sums(n, d, f)
<1> DEFINE B == { k \in 0 .. n : ~ \E f \in [0 .. k -> Nat] : Sums(k, d, f) }
<1>1. SUFFICES ASSUME B # {} PROVE FALSE
  <2>1. n \notin B
    BY <1>1
  <2> QED
    BY <2>1
<1>2. PICK k \in B : \A j \in B : k <= j
  <2>1. B \subseteq Nat
    OBVIOUS
  <2> HIDE DEF B
  <2> QED
    BY <1>1, <2>1, Least, Zenon
<1>3. k \in 0 .. n /\ ~ \E f \in [0 .. k -> Nat] : Sums(k, d, f)
  BY <1>2
<1>4. k # 0
  <2>1. Sums(0, d, [i \in 0 .. 0 |-> 0]) /\ [i \in 0 .. 0 |-> 0] \in [0 .. 0 -> Nat]
    BY DEF Sums
  <2> QED
    BY <1>3, <2>1
<1>5. k - 1 \in 0 .. n /\ k - 1 \notin B
  BY <1>2, <1>3, <1>4
<1>6. PICK g \in [0 .. k - 1 -> Nat] : Sums(k - 1, d, g)
  BY <1>5
<1> HIDE DEF B
<1>7. /\ g[0] = 0 /\ d[k] \in Nat /\ k - 1 \in Nat
      /\ \A i \in 1 .. k - 1 : g[i] = g[i - 1] + d[i]
  BY <1>3, <1>4, <1>6, SumsAt
<1> DEFINE f == [i \in 0 .. k |-> IF i = k THEN g[k - 1] + d[k] ELSE g[i]]
<1>8. f \in [0 .. k -> Nat]
  BY <1>3, <1>4, <1>6, <1>7
<1>9. \A i \in 0 .. k : f[i] = IF i = 0 THEN 0 ELSE f[i - 1] + d[i]
  BY <1>3, <1>4, <1>6, <1>7
<1>10. Sums(k, d, f)
  <2>1. f = [i \in 0 .. k |-> f[i]]
    BY <1>8
  <2> HIDE DEF f
  <2> QED
    BY <1>9, <2>1 DEF Sums
<1> QED
  BY <1>3, <1>8, <1>10

\* There is only one way to add up.
LEMMA SumsUnique == ASSUME NEW n \in Nat, NEW d, NEW f, NEW g, Sums(n, d, f), Sums(n, d, g)
                    PROVE  f = g
<1> DEFINE B == { k \in 0 .. n : f[k] # g[k] }
<1>0. /\ f = [i \in 0 .. n |-> f[i]] /\ g = [i \in 0 .. n |-> g[i]]
      /\ f[0] = 0 /\ \A i \in 1 .. n : f[i] = f[i - 1] + d[i]
      /\ g[0] = 0 /\ \A i \in 1 .. n : g[i] = g[i - 1] + d[i]
  BY SumsAt
<1>1. SUFFICES ASSUME B # {} PROVE FALSE
  <2>1. \A k \in 0 .. n : f[k] = g[k]
    BY <1>1
  <2> QED
    BY <1>0, <2>1
<1>2. PICK k \in B : \A j \in B : k <= j
  <2>1. B \subseteq Nat
    OBVIOUS
  <2> HIDE DEF B
  <2> QED
    BY <1>1, <2>1, Least, Zenon
<1>3. k \in 1 .. n
  BY <1>0, <1>2
<1>4. k - 1 \notin B /\ k - 1 \in 0 .. n
  BY <1>2, <1>3
<1>5. f[k - 1] = g[k - 1]
  BY <1>4
<1> QED
  BY <1>0, <1>2, <1>3, <1>5

Deltas(l, e) == [i \in 1 .. Len(l) |-> e[l[i]]]

\* UpTo as a function of the list and the ticks of each timer.
Total(l, e) == LET U[i \in 0 .. Len(l)] == IF i = 0 THEN 0 ELSE U[i - 1] + e[l[i]] IN U

LEMMA TotalIs == ASSUME NEW l, NEW e, Len(l) \in Nat, \A i \in 1 .. Len(l) : e[l[i]] \in Nat
                 PROVE  /\ Sums(Len(l), Deltas(l, e), Total(l, e))
                        /\ Total(l, e) \in [0 .. Len(l) -> Nat]
<1> DEFINE n == Len(l)
           R(f) == f = [i \in 0 .. n |-> IF i = 0 THEN 0 ELSE f[i - 1] + e[l[i]]]
<1>0. ASSUME NEW f PROVE R(f) <=> Sums(n, Deltas(l, e), f)
  <2>1. \A i \in 0 .. n : i # 0 => Deltas(l, e)[i] = e[l[i]]
    BY DEF Deltas
  <2> QED
    BY <2>1 DEF Sums
<1>1. PICK f \in [0 .. n -> Nat] : Sums(n, Deltas(l, e), f)
  BY SumsExist DEF Deltas
<1>3. Total(l, e) = CHOOSE U : R(U)
  BY DEF Total
<1>4. R(Total(l, e))
  <2>1. R(f)
    BY <1>0, <1>1
  <2> HIDE DEF R
  <2> QED
    BY <2>1, <1>3
<1>5. Sums(n, Deltas(l, e), Total(l, e))
  BY <1>0, <1>4
<1>6. Total(l, e) = f
  BY <1>1, <1>5, SumsUnique
<1> QED
  BY <1>1, <1>5, <1>6

\* What is left of t, as a function of the list and the ticks.
LeftOf(l, e, t) == IF \E i \in 1 .. Len(l) : l[i] = t
                   THEN Total(l, e)[CHOOSE i \in 1 .. Len(l) : l[i] = t] ELSE 0

LEMMA LeftOfAt == ASSUME NEW l, NEW e, NEW i \in 1 .. Len(l),
                         \A j, k \in 1 .. Len(l) : l[j] = l[k] => j = k
                  PROVE  LeftOf(l, e, l[i]) = Total(l, e)[i]
<1>1. (CHOOSE j \in 1 .. Len(l) : l[j] = l[i]) = i
  OBVIOUS
<1> QED
  BY <1>1 DEF LeftOf

LEMMA SameLeft == /\ UpTo = Total(list, expires) /\ UpTo' = Total(list', expires')
                  /\ \A t : Left(t) = LeftOf(list, expires, t)
                  /\ \A t : Left(t)' = LeftOf(list', expires', t)
<1>1. UpTo = Total(list, expires) /\ UpTo' = Total(list', expires')
  BY DEF UpTo, Total
<1> QED
  BY <1>1 DEF Left, LeftOf, Listed

\* What the list says of the sums, of each listed timer and of the others.
Known(l, e, u, lf) ==
  /\ Len(l) \in Nat /\ u \in [0 .. Len(l) -> Nat] /\ u[0] = 0
  /\ \A i \in 1 .. Len(l) : l[i] \in Timer /\ u[i] = u[i - 1] + e[l[i]] /\ lf[l[i]] = u[i]
  /\ \A i, j \in 1 .. Len(l) : l[i] = l[j] => i = j
  /\ \A t \in Timer : (~ \E i \in 1 .. Len(l) : l[i] = t) => lf[t] = 0
  /\ Len(l) > 0 => \A i \in 1 .. Len(l) : u[i] >= e[l[1]]

LEMMA KnownAt ==
  ASSUME NEW l \in Seq(Timer), NEW e \in [Timer -> Nat],
         \A i, j \in 1 .. Len(l) : l[i] = l[j] => i = j
  PROVE  Known(l, e, Total(l, e), [t \in Timer |-> LeftOf(l, e, t)])
<1> DEFINE u == Total(l, e)
           n == Len(l)
<1>1. n \in Nat /\ \A i \in 1 .. n : l[i] \in Timer /\ e[l[i]] \in Nat
  OBVIOUS
<1>2. Sums(n, Deltas(l, e), u) /\ u \in [0 .. n -> Nat]
  BY <1>1, TotalIs
<1>3. u[0] = 0 /\ \A i \in 1 .. n : u[i] = u[i - 1] + e[l[i]]
  <2>1. \A i \in 1 .. n : Deltas(l, e)[i] = e[l[i]]
    BY DEF Deltas
  <2> HIDE DEF u, n
  <2>2. u[0] = 0 /\ \A i \in 1 .. n : u[i] = u[i - 1] + Deltas(l, e)[i]
    BY <1>1, <1>2, SumsAt
  <2> QED
    BY <2>1, <2>2
<1>4. \A i \in 1 .. n : LeftOf(l, e, l[i]) = u[i]
  BY LeftOfAt
<1>5. \A t \in Timer : (~ \E i \in 1 .. n : l[i] = t) => LeftOf(l, e, t) = 0
  BY DEF LeftOf
<1>6. ASSUME n > 0 PROVE \A i \in 1 .. n : u[i] >= e[l[1]]
  <2> DEFINE B == { k \in 1 .. n : u[k] < e[l[1]] }
  <2> HIDE DEF u, n
  <2>0. \A k \in 1 .. n : u[k] \in Nat /\ e[l[k]] \in Nat /\ u[k - 1] \in Nat
    <3>1. \A k \in 1 .. n : k \in 0 .. n /\ k - 1 \in 0 .. n
      BY <1>1
    <3> QED
      BY <1>1, <1>2, <3>1
  <2>n. n \in Nat /\ 1 \in 1 .. n /\ e[l[1]] \in Nat
    BY <1>6, <1>1
  <2>1. SUFFICES ASSUME B # {} PROVE FALSE
    <3>1. \A i \in 1 .. n : ~(u[i] < e[l[1]])
      BY <2>1
    <3> QED
      BY <2>0, <2>n, <3>1
  <2>2. PICK k \in B : \A j \in B : k <= j
    <3>1. B \subseteq Nat
      OBVIOUS
    <3> HIDE DEF B
    <3> QED
      BY <2>1, <3>1, Least, Zenon
  <2>3. k \in 1 .. n /\ u[k] < e[l[1]] /\ u[k] = u[k - 1] + e[l[k]]
    BY <1>3, <2>2
  <2>4. k # 1
    BY <1>3, <2>0, <2>3
  <2>5. k - 1 \notin B /\ k - 1 \in 1 .. n
    BY <2>2, <2>3, <2>4, <2>n
  <2>6. u[k - 1] >= e[l[1]]
    BY <2>0, <2>5, <2>n
  <2> QED
    BY <2>0, <2>3, <2>6, <2>n
<1> QED
  BY <1>1, <1>2, <1>3, <1>4, <1>5, <1>6 DEF Known

left == [t \in Timer |-> Left(t)]
due  == { t \in Timer : Listed(t) /\ Left(t) = 0 }

\* Both states of a step at once.
LEMMA KnownBoth == ASSUME TypeOK, TypeOK'
                   PROVE  Known(list, expires, UpTo, left) /\ Known(list', expires', UpTo', left')
<1>1. /\ left = [t \in Timer |-> LeftOf(list, expires, t)]
      /\ left' = [t \in Timer |-> LeftOf(list', expires', t)]
  BY SameLeft DEF left
<1> QED
  BY <1>1, SameLeft, KnownAt DEF TypeOK

\* How the sums of the new list follow from those of the old.
LEMMA SumsAre == ASSUME TypeOK', NEW g \in [0 .. Len(list') -> Nat], g[0] = 0,
                        \A i \in 1 .. Len(list') : g[i] = g[i - 1] + expires'[list'[i]]
                 PROVE  UpTo' = g
<1> DEFINE n == Len(list')
           d == Deltas(list', expires')
<1>1. n \in Nat /\ \A i \in 1 .. n : d[i] = expires'[list'[i]] /\ d[i] \in Nat
  BY DEF TypeOK, Deltas
<1>2. Sums(n, d, UpTo')
  BY <1>1, TotalIs, SameLeft DEF Deltas
<1>3. Sums(n, d, g)
  <2>1. g = [i \in 0 .. n |-> g[i]]
    OBVIOUS
  <2>2. \A i \in 0 .. n : g[i] = IF i = 0 THEN 0 ELSE g[i - 1] + d[i]
    BY <1>1
  <2> QED
    BY <2>1, <2>2 DEF Sums
<1> QED
  BY <1>1, <1>2, <1>3, SumsUnique

\* The timer being inserted has its whole duration, counted from the head.
RefInv == Inv /\ (op = "add" => UpTo[at - 1] + expires[adding] \in Durations)

\* Nothing is due but in run_timers' loop.
LEMMA NothingDue == ASSUME Inv, op # "run", Known(list, expires, UpTo, left)
                    PROVE  due = {} /\ \A i \in 1 .. Len(list) : UpTo[i] > 0
<1>1. ASSUME NEW i \in 1 .. Len(list) PROVE UpTo[i] > 0
  <2>1. Len(list) > 0 /\ list # <<>> /\ list[1] \in Timer /\ UpTo[i] >= expires[list[1]]
    BY DEF Inv, TypeOK, Known
  <2>2. expires[list[1]] \in Nat /\ UpTo[i] \in Nat /\ expires[list[1]] > 0
    BY <2>1 DEF Inv, TypeOK, Known
  <2> QED
    BY <2>1, <2>2
<1>2. ASSUME NEW t \in Timer, Listed(t) PROVE Left(t) # 0
  <2>1. PICK i \in 1 .. Len(list) : list[i] = t
    BY <1>2 DEF Listed
  <2>2. left[t] = UpTo[i]
    BY <2>1 DEF Known
  <2> QED
    BY <1>1, <2>2 DEF left
<1> QED
  BY <1>1, <1>2 DEF due

\* Where neither the list nor the ticks of a listed timer change, nothing does.
LEMMA Rests == ASSUME TypeOK, TypeOK', list' = list,
                      \A i \in 1 .. Len(list) : expires'[list[i]] = expires[list[i]]
               PROVE  UpTo' = UpTo /\ left' = left /\ due' = due
<1>1. Known(list, expires, UpTo, left) /\ Known(list', expires', UpTo', left')
  BY KnownBoth
<1>2. UpTo' = UpTo
  <2>1. /\ UpTo \in [0 .. Len(list') -> Nat] /\ UpTo[0] = 0
        /\ \A i \in 1 .. Len(list') : UpTo[i] = UpTo[i - 1] + expires'[list'[i]]
    BY <1>1 DEF Known
  <2> QED
    BY <2>1, SumsAre
<1>3. ASSUME NEW t \in Timer PROVE left'[t] = left[t]
  BY <1>1, <1>2 DEF Known
<1>4. left' = left
  <2>1. \A t \in Timer : left'[t] = Left(t)' /\ left[t] = Left(t)
    BY DEF left
  <2> QED
    BY <1>3, <2>1 DEF left
<1>5. \A t \in Timer : Left(t)' = Left(t) /\ Listed(t)' = Listed(t)
  BY <1>3 DEF left, Listed
<1> QED
  BY <1>2, <1>4, <1>5 DEF due

\* add_timer ends: the new timer has its duration left, the others what they had.
LEMMA InsertsLeft == ASSUME RefInv, Inv', AddInserts
                     PROVE  /\ due = {} /\ due' = {} /\ left[adding] = 0
                            /\ left' = [left EXCEPT ![adding] = UpTo[at - 1] + expires[adding]]
<1> DEFINE n == Len(list)
           e == expires
           w == UpTo[at - 1] + e[adding]
           g == [j \in 0 .. n + 1 |-> IF j < at THEN UpTo[j]
                                      ELSE IF j = at THEN w ELSE UpTo[j - 1]]
<1>1. Known(list, expires, UpTo, left) /\ Known(list', expires', UpTo', left')
  BY KnownBoth DEF RefInv, Inv
<1>2. /\ op = "add" /\ op' = "none" /\ list' = Inserted(adding, at) /\ ~Listed(adding)
      /\ adding \in Timer /\ at \in 1 .. n + 1 /\ e \in [Timer -> Nat] /\ TypeOK
      /\ (at > n \/ AddStops) /\ expires' = FollowerShortened /\ TypeOK'
  BY DEF RefInv, Inv, TypeOK, AddInserts
<1>3. /\ n \in Nat /\ Len(list') = n + 1
      /\ \A j \in 1 .. n + 1 : list'[j] =
           IF j < at THEN list[j] ELSE IF j = at THEN adding ELSE list[j - 1]
  <2>1. n \in Nat
    BY <1>1 DEF Known
  <2>2. TypeOK /\ adding \in Timer /\ ~Listed(adding) /\ at \in 1 .. Len(list) + 1
    BY <1>2
  <2>3. /\ Len(Inserted(adding, at)) = Len(list) + 1
        /\ \A j \in 1 .. Len(list) + 1 : Inserted(adding, at)[j] =
             IF j < at THEN list[j] ELSE IF j = at THEN adding ELSE list[j - 1]
    BY <2>2, InsertedType, Zenon
  <2> QED
    BY <1>2, <2>1, <2>3
<1>4. /\ UpTo \in [0 .. n -> Nat] /\ UpTo[0] = 0
      /\ \A i \in 1 .. n : list[i] \in Timer /\ UpTo[i] = UpTo[i - 1] + e[list[i]]
      /\ \A i, j \in 1 .. n : list[i] = list[j] => i = j
      /\ \A i \in 1 .. n : list[i] # adding
  BY <1>1, <1>2 DEF Known, Listed
<1>5. /\ expires'[adding] = e[adding]
      /\ \A i \in 1 .. n : expires'[list[i]] = IF i = at THEN e[list[i]] - e[adding] ELSE e[list[i]]
  <2>1. CASE at > n
    BY <1>2, <1>3, <1>4, <2>1 DEF FollowerShortened, AddStops
  <2>2. CASE at <= n
    <3>1. at \in 1 .. n /\ expires' = [e EXCEPT ![list[at]] = @ - e[adding]]
      BY <1>2, <1>3, <2>2 DEF FollowerShortened
    <3> QED
      BY <1>2, <1>4, <3>1
  <2> QED
    BY <1>2, <1>3, <2>1, <2>2
<1>6. w \in Nat /\ at - 1 \in 0 .. n
  <2>1. at - 1 \in 0 .. n
    BY <1>2, <1>3
  <2>2. UpTo[at - 1] \in Nat /\ e[adding] \in Nat
    BY <1>2, <1>4, <2>1
  <2> QED
    BY <2>1, <2>2
<1>7. UpTo' = g
  <2>1. g \in [0 .. n + 1 -> Nat]
    <3>1. \A j \in 0 .. n + 1 : (j < at => j \in 0 .. n) /\ (j > at => j - 1 \in 0 .. n)
      BY <1>2, <1>3
    <3>a. \A j \in 0 .. n : UpTo[j] \in Nat
      BY <1>4
    <3>2. \A j \in 0 .. n + 1 : (IF j < at THEN UpTo[j] ELSE IF j = at THEN w ELSE UpTo[j - 1]) \in Nat
      <4> HIDE DEF w, n
      <4> QED
        BY <1>2, <1>3, <1>6, <3>1, <3>a
    <3> QED
      BY <3>2
  <2>2. g[0] = 0
    BY <1>2, <1>3, <1>4
  <2>3. ASSUME NEW i \in 1 .. n + 1 PROVE g[i] = g[i - 1] + expires'[list'[i]]
    <3> HIDE DEF n, e, w
    <3>1. CASE i < at
      <4>1. i \in 1 .. n /\ list'[i] = list[i] /\ expires'[list[i]] = e[list[i]]
        BY <1>2, <1>3, <1>5, <3>1
      <4>2. g[i] = UpTo[i] /\ g[i - 1] = UpTo[i - 1]
        BY <1>2, <1>3, <3>1
      <4> QED
        BY <1>4, <4>1, <4>2
    <3>2. CASE i = at
      BY <1>2, <1>3, <1>5, <3>2 DEF w
    <3>3. CASE i = at + 1
      <4>1. at \in 1 .. n /\ list'[i] = list[at] /\ expires'[list[at]] = e[list[at]] - e[adding]
        BY <1>2, <1>3, <1>5, <3>3
      <4>2. UpTo[at] = UpTo[at - 1] + e[list[at]] /\ UpTo[at - 1] \in Nat /\ e[list[at]] \in Nat
        BY <1>2, <1>4, <1>6, <4>1
      <4>3. g[i] = UpTo[at] /\ g[i - 1] = w
        BY <1>2, <1>3, <3>3
      <4> QED
        BY <1>2, <4>1, <4>2, <4>3 DEF w
    <3>4. CASE i > at + 1
      <4>1. i - 1 \in 1 .. n /\ i - 1 # at /\ list'[i] = list[i - 1]
        BY <1>2, <1>3, <3>4
      <4>2. expires'[list'[i]] = e[list[i - 1]] /\ UpTo[i - 1] = UpTo[i - 1 - 1] + e[list[i - 1]]
        BY <1>4, <1>5, <4>1
      <4>3. g[i] = UpTo[i - 1] /\ g[i - 1] = UpTo[i - 1 - 1]
        BY <1>2, <1>3, <3>4
      <4> QED
        BY <4>2, <4>3
    <3> QED
      BY <1>2, <1>3, <3>1, <3>2, <3>3, <3>4
  <2> HIDE DEF g, n
  <2> QED
    BY <1>2, <1>3, <2>1, <2>2, <2>3, SumsAre
<1> HIDE DEF w
<1>8. ASSUME NEW t \in Timer PROVE left'[t] = IF t = adding THEN w ELSE left[t]
  <2>1. CASE t = adding
    <3>1. list'[at] = adding /\ at \in 1 .. Len(list')
      BY <1>2, <1>3
    <3>2. left'[adding] = UpTo'[at]
      BY <1>1, <3>1 DEF Known
    <3> QED
      BY <1>2, <1>3, <1>7, <2>1, <3>2
  <2>2. CASE t # adding /\ ~Listed(t)
    <3>1. ~ \E i \in 1 .. Len(list') : list'[i] = t
      <4>1. ASSUME NEW i \in 1 .. n + 1, list'[i] = t PROVE FALSE
        <5>1. (i < at => i \in 1 .. n) /\ (i > at => i - 1 \in 1 .. n)
          BY <1>2, <1>3
        <5> QED
          BY <1>2, <1>3, <2>2, <4>1, <5>1 DEF Listed
      <4> QED
        BY <1>3, <4>1
    <3> QED
      BY <1>1, <2>2, <3>1 DEF Known, Listed
  <2>3. CASE t # adding /\ Listed(t)
    <3>1. PICK i \in 1 .. n : list[i] = t
      BY <2>3 DEF Listed
    <3>2. left[t] = UpTo[i]
      BY <1>1, <3>1 DEF Known
    <3> DEFINE k == IF i < at THEN i ELSE i + 1
    <3>3. k \in 1 .. n + 1 /\ list'[k] = t /\ g[k] = UpTo[i]
      BY <1>2, <1>3, <3>1
    <3>4. left'[t] = UpTo'[k]
      BY <1>1, <1>3, <3>3 DEF Known
    <3> QED
      BY <1>7, <2>3, <3>2, <3>3, <3>4
  <2> QED
    BY <2>1, <2>2, <2>3
<1>9. left' = [left EXCEPT ![adding] = w]
  <2>1. /\ left = [t \in Timer |-> left[t]] /\ left' = [t \in Timer |-> left'[t]]
    BY DEF left
  <2> QED
    BY <1>8, <2>1
<1>10. due = {}
  BY <1>1, <1>2, NothingDue DEF RefInv
<1>11. due' = {}
  <2>1. ASSUME NEW t \in Timer, Listed(t)' PROVE Left(t)' # 0
    <3>1. PICK i \in 1 .. Len(list') : list'[i] = t
      BY <2>1 DEF Listed
    <3>2. left'[t] = UpTo'[i] /\ UpTo'[i] >= expires'[list'[1]] /\ UpTo'[i] \in Nat
      BY <1>1, <1>3, <3>1 DEF Known
    <3>3. expires'[list'[1]] > 0 /\ expires'[list'[1]] \in Nat
      BY <1>2, <1>3 DEF Inv, TypeOK
    <3> QED
      BY <3>2, <3>3 DEF left
  <2> QED
    BY <2>1 DEF due
<1>12. left[adding] = 0
  BY <1>1, <1>2 DEF Known, Listed
<1> QED
  BY <1>9, <1>10, <1>11, <1>12 DEF w

\* A timer leaves the list and its ticks go to the one that follows; those of a
\* timer that has run out are none.
LEMMA RemovesLeft ==
  ASSUME TypeOK, TypeOK', NEW i \in 1 .. Len(list), list' = Removed(i),
         expires' = FollowerLengthened(i) \/ (expires' = expires /\ expires[list[i]] = 0)
  PROVE  /\ left' = [left EXCEPT ![list[i]] = 0]
         /\ \A t \in Timer : Listed(t)' <=> Listed(t) /\ t # list[i]
<1> DEFINE n == Len(list)
           e == expires
           g == [j \in 0 .. n - 1 |-> IF j < i THEN UpTo[j] ELSE UpTo[j + 1]]
<1>1. Known(list, expires, UpTo, left) /\ Known(list', expires', UpTo', left')
  BY KnownBoth
<1>3. /\ n \in Nat /\ n > 0 /\ Len(list') = n - 1
      /\ \A j \in 1 .. n - 1 : list'[j] = IF j < i THEN list[j] ELSE list[j + 1]
  <2>1. n \in Nat /\ n > 0
    BY <1>1 DEF Known
  <2>2. /\ Len(Removed(i)) = Len(list) - 1
        /\ \A j \in 1 .. Len(list) - 1 : Removed(i)[j] = IF j < i THEN list[j] ELSE list[j + 1]
    BY RemovedType, Zenon
  <2> QED
    BY <2>1, <2>2
<1>4. /\ UpTo \in [0 .. n -> Nat] /\ UpTo[0] = 0 /\ e \in [Timer -> Nat]
      /\ \A j \in 1 .. n : list[j] \in Timer /\ UpTo[j] = UpTo[j - 1] + e[list[j]]
      /\ \A j, k \in 1 .. n : list[j] = list[k] => j = k
  BY <1>1 DEF Known, TypeOK
<1>5. \A j \in 1 .. n : j # i => expires'[list[j]] = IF j = i + 1 THEN e[list[j]] + e[list[i]] ELSE e[list[j]]
  <2>1. CASE expires' = expires /\ expires[list[i]] = 0
    BY <1>4, <2>1
  <2>2. CASE expires' = FollowerLengthened(i)
    <3>1. CASE i < n
      <4>1. i + 1 \in 1 .. n /\ expires' = [e EXCEPT ![list[i + 1]] = @ + e[list[i]]]
        BY <1>3, <2>2, <3>1 DEF FollowerLengthened
      <4> QED
        BY <1>4, <4>1
    <3>2. CASE ~(i < n)
      <4>1. expires' = e /\ \A j \in 1 .. n : j # i + 1
        BY <1>3, <2>2, <3>2 DEF FollowerLengthened
      <4> QED
        BY <4>1
    <3> QED
      BY <3>1, <3>2
  <2> QED
    BY <2>1, <2>2
<1>6. \A j \in 0 .. n : UpTo[j] \in Nat
  BY <1>4
<1>7. UpTo' = g
  <2>1. g \in [0 .. n - 1 -> Nat]
    BY <1>3, <1>6
  <2>2. g[0] = 0
    BY <1>3, <1>4
  <2>3. ASSUME NEW k \in 1 .. n - 1 PROVE g[k] = g[k - 1] + expires'[list'[k]]
    <3> HIDE DEF n, e
    <3>1. CASE k < i
      <4>1. k \in 1 .. n /\ k # i /\ k # i + 1 /\ list'[k] = list[k]
        BY <1>3, <3>1
      <4>2. g[k] = UpTo[k] /\ g[k - 1] = UpTo[k - 1]
        BY <1>3, <3>1
      <4> QED
        BY <1>4, <1>5, <4>1, <4>2
    <3>2. CASE k = i
      <4>1. k + 1 \in 1 .. n /\ k + 1 # i /\ k + 1 = i + 1 /\ list'[k] = list[k + 1] /\ k \in 1 .. n
        BY <1>3, <3>2
      <4>2. g[k] = UpTo[k + 1] /\ g[k - 1] = UpTo[k - 1]
        BY <1>3, <3>2
      <4>3. /\ UpTo[k + 1] = UpTo[k] + e[list[k + 1]] /\ UpTo[k] = UpTo[k - 1] + e[list[k]]
            /\ expires'[list[k + 1]] = e[list[k + 1]] + e[list[i]] /\ e[list[k + 1]] \in Nat
            /\ e[list[i]] \in Nat /\ UpTo[k - 1] \in Nat
        <5>1. k - 1 \in 0 .. n /\ k + 1 - 1 = k
          BY <4>1, <1>3
        <5> QED
          BY <1>4, <1>5, <1>6, <4>1, <5>1
      <4> QED
        BY <3>2, <4>1, <4>2, <4>3
    <3>3. CASE k > i
      <4>1. k + 1 \in 1 .. n /\ k + 1 # i /\ k + 1 # i + 1 /\ list'[k] = list[k + 1] /\ k + 1 - 1 = k
        BY <1>3, <3>3
      <4>2. g[k] = UpTo[k + 1] /\ g[k - 1] = UpTo[k]
        BY <1>3, <3>3
      <4> QED
        BY <1>4, <1>5, <4>1, <4>2
    <3> QED
      BY <1>3, <3>1, <3>2, <3>3
  <2> HIDE DEF g, n
  <2> QED
    BY <1>3, <2>1, <2>2, <2>3, SumsAre
<1>8. ASSUME NEW t \in Timer PROVE Listed(t)' <=> Listed(t) /\ t # list[i]
  <2>1. ASSUME NEW k \in 1 .. n - 1, list'[k] = t PROVE Listed(t) /\ t # list[i]
    <3> DEFINE j == IF k < i THEN k ELSE k + 1
    <3>1. j \in 1 .. n /\ list[j] = t /\ j # i
      BY <1>3, <2>1
    <3> QED
      BY <1>4, <3>1 DEF Listed
  <2>2. ASSUME NEW j \in 1 .. n, list[j] = t, t # list[i] PROVE \E k \in 1 .. n - 1 : list'[k] = t
    <3> DEFINE k == IF j < i THEN j ELSE j - 1
    <3>1. k \in 1 .. n - 1 /\ list'[k] = t
      BY <1>3, <2>2
    <3> QED
      BY <3>1
  <2> QED
    BY <1>3, <2>1, <2>2 DEF Listed
<1>9. ASSUME NEW t \in Timer PROVE left'[t] = IF t = list[i] THEN 0 ELSE left[t]
  <2>1. CASE ~Listed(t)'
    <3>1. left'[t] = 0 /\ (t # list[i] => left[t] = 0)
      BY <1>1, <1>8, <2>1 DEF Known, Listed
    <3> QED
      BY <3>1
  <2>2. CASE Listed(t)'
    <3>1. PICK k \in 1 .. n - 1 : list'[k] = t
      BY <1>3, <2>2 DEF Listed
    <3> DEFINE j == IF k < i THEN k ELSE k + 1
    <3>2. j \in 1 .. n /\ list[j] = t /\ g[k] = UpTo[j]
      BY <1>3, <3>1
    <3>3. left'[t] = UpTo'[k] /\ left[t] = UpTo[j]
      BY <1>1, <1>3, <3>1, <3>2 DEF Known
    <3> QED
      BY <1>7, <1>8, <2>2, <3>2, <3>3
  <2> QED
    BY <2>1, <2>2
<1>10. left' = [left EXCEPT ![list[i]] = 0]
  <2>1. /\ left = [t \in Timer |-> left[t]] /\ left' = [t \in Timer |-> left'[t]]
    BY DEF left
  <2> QED
    BY <1>9, <2>1
<1> QED
  BY <1>8, <1>10

\* The first timer counts down, and with it all that follow.
LEMMA TickLeft ==
  ASSUME Inv, Inv', RunTimers
  PROVE  /\ due = {}
         /\ left' = [t \in Timer |-> IF left[t] > 0 THEN left[t] - 1 ELSE 0]
         /\ due' = { t \in Timer : left[t] = 1 }
<1> DEFINE n == Len(list)
           g == [j \in 0 .. n |-> IF j = 0 THEN 0 ELSE UpTo[j] - 1]
<1>1. Known(list, expires, UpTo, left) /\ Known(list', expires', UpTo', left')
  BY KnownBoth DEF Inv
<1>2. /\ op = "none" /\ list' = list /\ TypeOK' /\ n \in Nat /\ n > 0
      /\ expires' = [expires EXCEPT ![list[1]] = @ - 1] /\ expires \in [Timer -> Nat]
  BY DEF RunTimers, Inv, TypeOK
<1>3. due = {} /\ \A j \in 1 .. n : UpTo[j] > 0
  BY <1>1, <1>2, NothingDue
<1>4. /\ UpTo \in [0 .. n -> Nat] /\ UpTo[0] = 0
      /\ \A j \in 1 .. n : list[j] \in Timer /\ UpTo[j] = UpTo[j - 1] + expires[list[j]]
      /\ \A j, k \in 1 .. n : list[j] = list[k] => j = k
  BY <1>1 DEF Known
<1>5. \A j \in 1 .. n : expires'[list[j]] = IF j = 1 THEN expires[list[j]] - 1 ELSE expires[list[j]]
  <2>1. 1 \in 1 .. n /\ list[1] \in Timer
    BY <1>2, <1>4
  <2> QED
    BY <1>2, <1>4, <2>1
<1>6. \A j \in 0 .. n : UpTo[j] \in Nat
  BY <1>4
<1>7. UpTo' = g
  <2>1. g \in [0 .. n -> Nat] /\ g[0] = 0
    BY <1>2, <1>3, <1>6
  <2>2. ASSUME NEW j \in 1 .. n PROVE g[j] = g[j - 1] + expires'[list'[j]]
    <3>1. CASE j = 1
      <4>1. g[j] = UpTo[1] - 1 /\ g[j - 1] = 0 /\ UpTo[1] = 0 + expires[list[1]]
        BY <1>2, <1>4, <3>1
      <4>2. expires'[list'[j]] = expires[list[1]] - 1 /\ expires[list[1]] \in Nat
        BY <1>2, <1>4, <1>5, <3>1
      <4> QED
        BY <4>1, <4>2
    <3>2. CASE j # 1
      <4>1. g[j] = UpTo[j] - 1 /\ g[j - 1] = UpTo[j - 1] - 1 /\ j - 1 \in 0 .. n
        BY <1>2, <3>2
      <4>2. /\ expires'[list'[j]] = expires[list[j]] /\ UpTo[j] = UpTo[j - 1] + expires[list[j]]
            /\ expires[list[j]] \in Nat /\ UpTo[j - 1] \in Nat
        BY <1>2, <1>4, <1>5, <1>6, <3>2, <4>1
      <4> QED
        BY <4>1, <4>2
    <3> QED
      BY <3>1, <3>2
  <2> HIDE DEF g, n
  <2>3. n = Len(list')
    BY <1>2 DEF n
  <2> QED
    BY <1>2, <2>1, <2>2, <2>3, SumsAre
<1>8. ASSUME NEW t \in Timer
      PROVE  /\ left'[t] = (IF left[t] > 0 THEN left[t] - 1 ELSE 0)
             /\ Listed(t)' /\ left'[t] = 0 <=> left[t] = 1
  <2>1. CASE Listed(t)
    <3>1. PICK j \in 1 .. n : list[j] = t
      BY <2>1 DEF Listed
    <3>2. left[t] = UpTo[j] /\ left'[t] = UpTo'[j] /\ UpTo[j] \in Nat
      BY <1>1, <1>2, <1>6, <3>1 DEF Known
    <3>3. UpTo'[j] = UpTo[j] - 1 /\ UpTo[j] > 0 /\ Listed(t)'
      BY <1>2, <1>3, <1>7, <2>1, <3>1 DEF Listed
    <3> QED
      BY <3>2, <3>3
  <2>2. CASE ~Listed(t)
    <3>1. left[t] = 0 /\ left'[t] = 0 /\ ~Listed(t)'
      BY <1>1, <1>2, <2>2 DEF Known, Listed
    <3> QED
      BY <3>1
  <2> QED
    BY <2>1, <2>2
<1>9. left' = [t \in Timer |-> IF left[t] > 0 THEN left[t] - 1 ELSE 0]
  <2>1. left' = [t \in Timer |-> left'[t]]
    BY DEF left
  <2> QED
    BY <1>8, <2>1
<1>10. due' = { t \in Timer : left[t] = 1 }
  <2>1. due' = { t \in Timer : Listed(t)' /\ left'[t] = 0 }
    BY DEF due, left
  <2> QED
    BY <1>8, <2>1
<1> QED
  BY <1>3, <1>9, <1>10

\* Every step keeps the invariant and is a step of TimerSpec, or none.
LEMMA NextKeeps == ASSUME RefInv, [Next]_vars
                   PROVE  RefInv' /\ [Abstract!Next]_(Abstract!vars)
<1>1. Inv' /\ TypeOK /\ TypeOK' /\ Inv
  BY NextInv DEF RefInv, Inv
<1>2. Known(list, expires, UpTo, left) /\ Known(list', expires', UpTo', left')
  BY <1>1, KnownBoth
<1>m. /\ left = [t \in Timer |-> Left(t)]
      /\ due = { t \in Timer : Listed(t) /\ Left(t) = 0 }
  BY DEF left, due
<1>q. ASSUME left' = left, due' = due PROVE [Abstract!Next]_(Abstract!vars)
  BY <1>q DEF Abstract!vars, left, due
<1>3. ASSUME NEW t \in Timer, NEW d \in Durations, AddTimer(t, d)
      PROVE  RefInv' /\ [Abstract!Next]_(Abstract!vars)
  <2>1. /\ list' = list /\ op' = "add" /\ adding' = t /\ at' = 1 /\ ~Listed(t)
        /\ expires' = [expires EXCEPT ![t] = d]
    BY <1>3 DEF AddTimer
  <2>2. \A i \in 1 .. Len(list) : expires'[list[i]] = expires[list[i]]
    BY <1>1, <2>1 DEF TypeOK, Listed
  <2>3. UpTo' = UpTo /\ left' = left /\ due' = due
    BY <1>1, <2>1, <2>2, Rests
  <2>4. UpTo'[at' - 1] + expires'[adding'] = d
    <3>1. UpTo[0] = 0 /\ expires'[t] = d /\ d \in Nat
      BY <1>1, <1>2, <2>1, TimersAssumption DEF Known, TypeOK
    <3> QED
      BY <2>1, <2>3, <3>1
  <2> QED
    BY <1>1, <1>q, <2>3, <2>4 DEF RefInv
<1>4. ASSUME AddWalks PROVE RefInv' /\ [Abstract!Next]_(Abstract!vars)
  <2>1. /\ list' = list /\ op = "add" /\ op' = op /\ adding' = adding /\ at' = at + 1
        /\ at \in 1 .. Len(list) /\ ~Listed(adding) /\ adding \in Timer
        /\ expires' = [expires EXCEPT ![adding] = @ - expires[list[at]]]
    BY <1>1, <1>4 DEF AddWalks, Inv, TypeOK
  <2>2. \A i \in 1 .. Len(list) : expires'[list[i]] = expires[list[i]]
    BY <1>1, <2>1 DEF TypeOK, Listed
  <2>3. UpTo' = UpTo /\ left' = left /\ due' = due
    BY <1>1, <2>1, <2>2, Rests
  <2>4. UpTo'[at' - 1] + expires'[adding'] = UpTo[at - 1] + expires[adding]
    <3>1. at - 1 \in 0 .. Len(list) /\ at + 1 - 1 = at
      BY <2>1
    <3>2. UpTo[at] = UpTo[at - 1] + expires[list[at]] /\ UpTo[at - 1] \in Nat
      BY <1>2, <2>1, <3>1 DEF Known
    <3>3. /\ expires'[adding] = expires[adding] - expires[list[at]]
          /\ expires[adding] \in Nat /\ expires[list[at]] \in Nat
      BY <1>1, <2>1 DEF TypeOK
    <3> QED
      BY <2>1, <2>3, <3>1, <3>2, <3>3
  <2> QED
    BY <1>1, <1>q, <2>1, <2>3, <2>4 DEF RefInv
<1>5. ASSUME AddInserts PROVE RefInv' /\ [Abstract!Next]_(Abstract!vars)
  <2> DEFINE w == UpTo[at - 1] + expires[adding]
  <2>1. /\ due = {} /\ due' = {} /\ left[adding] = 0 /\ left' = [left EXCEPT ![adding] = w]
    BY <1>1, <1>5, InsertsLeft
  <2>2. op' = "none" /\ w \in Durations /\ adding \in Timer
    BY <1>1, <1>5 DEF AddInserts, RefInv, TypeOK
  <2> HIDE DEF w
  <2>3. Abstract!Add(adding, w)
    BY <2>1 DEF Abstract!Add, left, due
  <2> QED
    BY <1>1, <2>2, <2>3 DEF RefInv, Abstract!Next
<1>6. ASSUME NEW t \in Timer, DelTimer(t) PROVE RefInv' /\ [Abstract!Next]_(Abstract!vars)
  <2>1. PICK i \in 1 .. Len(list) :
          list[i] = t /\ expires' = FollowerLengthened(i) /\ list' = Removed(i)
    BY <1>6 DEF DelTimer
  <2>2. op = "none" /\ op' = "none"
    BY <1>6 DEF DelTimer
  <2>3. left' = [left EXCEPT ![t] = 0] /\ \A s \in Timer : Listed(s)' <=> Listed(s) /\ s # t
    BY <1>1, <2>1, RemovesLeft
  <2>4. due = {}
    BY <1>1, <1>2, <2>2, NothingDue
  <2>5. due' = {}
    <3>1. \A s \in Timer : Listed(s)' => Left(s)' = Left(s) /\ Listed(s)
      BY <2>3 DEF left
    <3> QED
      BY <2>4, <3>1 DEF due
  <2>6. Abstract!Del(t)
    BY <2>3, <2>4, <2>5 DEF Abstract!Del, left, due
  <2> QED
    BY <1>1, <2>2, <2>6 DEF RefInv, Abstract!Next
<1>7. ASSUME RunTimers PROVE RefInv' /\ [Abstract!Next]_(Abstract!vars)
  <2>1. /\ due = {}
        /\ left' = [t \in Timer |-> IF left[t] > 0 THEN left[t] - 1 ELSE 0]
        /\ due' = { t \in Timer : left[t] = 1 }
    BY <1>1, <1>7, TickLeft
  <2>2. Abstract!Tick
    BY <2>1 DEF Abstract!Tick, left, due
  <2>3. op' # "add"
    BY <1>7 DEF RunTimers
  <2> QED
    BY <1>1, <2>2, <2>3 DEF RefInv, Abstract!Next
<1>8. ASSUME RunFires PROVE RefInv' /\ [Abstract!Next]_(Abstract!vars)
  <2>1. /\ op = "run" /\ list' = Removed(1) /\ expires' = expires /\ op' # "add"
        /\ Len(list) \in Nat /\ Len(list) > 0 /\ expires[list[1]] = 0
    BY <1>1, <1>8 DEF RunFires, Inv, HeadDue, TypeOK
  <2>2. 1 \in 1 .. Len(list) /\ list[1] \in Timer
    BY <1>2, <2>1 DEF Known
  <2>3. left' = [left EXCEPT ![list[1]] = 0] /\ \A s \in Timer : Listed(s)' <=> Listed(s) /\ s # list[1]
    BY <1>1, <2>1, <2>2, RemovesLeft
  <2>4. left[list[1]] = 0
    <3>1. left[list[1]] = UpTo[1] /\ UpTo[1] = UpTo[1 - 1] + expires[list[1]] /\ UpTo[0] = 0
      BY <1>2, <2>2 DEF Known
    <3> QED
      BY <2>1, <3>1
  <2>5. left' = left
    <3>1. left = [t \in Timer |-> left[t]]
      BY DEF left
    <3> QED
      BY <2>3, <2>4, <3>1
  <2>6. list[1] \in due
    BY <2>2, <2>4 DEF due, left, Listed
  <2>7. due' = due \ {list[1]}
    <3>1. \A s \in Timer : Left(s)' = Left(s)
      BY <2>5 DEF left
    <3> QED
      BY <2>3, <3>1 DEF due
  <2>8. Abstract!Wake(list[1])
    BY <2>5, <2>6, <2>7 DEF Abstract!Wake, left, due
  <2> QED
    BY <1>1, <2>1, <2>2, <2>8 DEF RefInv, Abstract!Next
<1>9. ASSUME UNCHANGED vars PROVE RefInv' /\ [Abstract!Next]_(Abstract!vars)
  <2>1. list' = list /\ expires' = expires /\ op' = op /\ at' = at /\ adding' = adding
    BY <1>9 DEF vars
  <2>2. UpTo' = UpTo /\ left' = left /\ due' = due
    BY <1>1, <2>1, Rests
  <2> QED
    BY <1>1, <1>q, <2>1, <2>2 DEF RefInv
<1> QED
  BY <1>3, <1>4, <1>5, <1>6, <1>7, <1>8, <1>9 DEF Next

\* The delta list implements independent countdowns: for any timers and any
\* durations add_timer, del_timer and run_timers wake each sleeper at its own tick.
THEOREM KeepsTimerSpecHolds == Spec => KeepsTimerSpec
<1>1. Init => RefInv
  BY InitInv DEF Init, RefInv
<1>2. Init => Abstract!Init
  <2> SUFFICES ASSUME Init PROVE Abstract!Init
    OBVIOUS
  <2>1. list = <<>> /\ Len(list) = 0
    BY DEF Init
  <2>2. \A t \in Timer : ~Listed(t)
    BY <2>1 DEF Listed
  <2> QED
    BY <2>2 DEF Abstract!Init, Left
<1>3. RefInv /\ [Next]_vars => RefInv'
  BY NextKeeps
<1>4. RefInv /\ [Next]_vars => [Abstract!Next]_(Abstract!vars)
  BY NextKeeps
<1> QED
  BY <1>1, <1>2, <1>3, <1>4, PTL DEF Spec, KeepsTimerSpec, Abstract!Spec

-----------------------------------------------------------------------------
(* The stride scheduler.                                                   *)

\* A set of numbers that has 0 and the next of each has all.
LEMMA Upward == ASSUME NEW N \in Nat, NEW S \in SUBSET (0 .. N), 0 \in S,
                       \A i \in S : i < N => i + 1 \in S
                PROVE  N \in S
<1> DEFINE B == (0 .. N) \ S
<1>1. SUFFICES ASSUME B # {} PROVE FALSE
  OBVIOUS
<1>2. PICK k \in B : \A j \in B : k <= j
  <2>1. B \subseteq Nat
    OBVIOUS
  <2> HIDE DEF B
  <2> QED
    BY <1>1, <2>1, Least, Zenon
<1>3. k \in 0 .. N /\ k \notin S /\ k # 0
  BY <1>2
<1>4. k - 1 \in 0 .. N /\ k - 1 < N /\ k - 1 + 1 = k /\ ~(k <= k - 1)
  BY <1>3
<1>5. k - 1 \in S
  BY <1>2, <1>4
<1> QED
  BY <1>3, <1>4, <1>5

Half == Modulus \div 2

\* How far stride a is ahead of stride b.
Gap(a, b) == (a + Modulus - b) % Modulus

LEMMA HalfIs == Half \in Nat \ {0} /\ Modulus = 2 * Half /\ Modulus \in Nat \ {0} /\ BIG_STRIDE \in Nat
BY StrideAssumption DEF Half, BIG_STRIDE

LEMMA ModIs == ASSUME NEW x \in Nat, x < 2 * Modulus
               PROVE  x % Modulus = IF x < Modulus THEN x ELSE x - Modulus
<1> DEFINE M == Modulus
           q == x \div M
<1>1. M \in Nat \ {0}
  BY HalfIs
<1> HIDE DEF M
<1>2. q \in Nat /\ M * q <= x /\ x < M * q + M /\ x % M = x - M * q
  BY <1>1
<1>3. x < 2 * M
  BY DEF M
<1> HIDE DEF q
<1>4. q = 0 \/ q = 1 \/ q >= 2
  BY <1>2
<1>5. CASE q = 0
  BY <1>1, <1>2, <1>5 DEF M
<1>6. CASE q = 1
  BY <1>1, <1>2, <1>6 DEF M
<1>7. CASE q >= 2
  <2>1. M * q >= M * 2
    BY <1>1, <1>2, <1>7
  <2> QED
    BY <1>1, <1>2, <1>3, <2>1
<1> QED
  BY <1>4, <1>5, <1>6, <1>7

LEMMA GapIs == ASSUME NEW a \in 0 .. Modulus - 1, NEW b \in 0 .. Modulus - 1
               PROVE  Gap(a, b) = IF b <= a THEN a - b ELSE a + Modulus - b
<1>1. Modulus \in Nat \ {0}
  BY HalfIs
<1>2. a + Modulus - b \in Nat /\ a + Modulus - b < 2 * Modulus
  BY <1>1
<1> QED
  BY <1>1, <1>2, ModIs DEF Gap

\* Of two strides one is not too far ahead of the other.
LEMMA GapsOf == ASSUME NEW a \in 0 .. Modulus - 1, NEW b \in 0 .. Modulus - 1
                PROVE  /\ Gap(a, b) \in 0 .. Modulus - 1
                       /\ Gap(a, b) >= Half => Gap(b, a) <= Half
                       /\ Gap(a, b) < Half /\ Gap(b, a) <= Half => a = b
<1> DEFINE H == Half
           M == Modulus
           g == Gap(a, b)
           f == Gap(b, a)
<1>1. H \in Nat \ {0} /\ M = 2 * H
  BY HalfIs
<1>2. /\ g = IF b <= a THEN a - b ELSE a + M - b
      /\ f = IF a <= b THEN b - a ELSE b + M - a
  BY GapIs
<1>3. a \in 0 .. M - 1 /\ b \in 0 .. M - 1
  OBVIOUS
<1> HIDE DEF H, M, f, g
<1>4. /\ g \in 0 .. M - 1
      /\ g >= H => f <= H
      /\ g < H /\ f <= H => a = b
  BY <1>1, <1>2, <1>3
<1> QED
  BY <1>4 DEF H, M, f, g

-----------------------------------------------------------------------------
(* Heaps.                                                                  *)

\* q is a child of p.
Kid(h, p, q) == q # NULL /\ (q = h.left[p] \/ q = h.right[p])

\* The nodes S are trees with the roots T.  A rank c falls from parent to child, so
\* that there are no circles; no child is before its parent.
Forest(h, s, S, T, c) ==
  /\ T \subseteq S
  /\ \A p \in S : \A q \in Node : Kid(h, p, q) =>
       /\ q \in S /\ q \notin T /\ h.parent[q] = p /\ c[q] < c[p]
       /\ Gap(s[q], s[p]) <= Half
  /\ \A p \in S : h.left[p] = h.right[p] => h.left[p] = NULL
  /\ \A q \in S : q \notin T => h.parent[q] \in S /\ Kid(h, h.parent[q], q)

Ranks   == [Procs -> Nat \ {0}]
Strides == [Procs -> 0 .. Modulus - 1]

\* Up from a node of U one gets out of it.
LEMMA Climb ==
  ASSUME NEW h, NEW s, NEW S \in SUBSET Procs, NEW T, NEW c \in Ranks, Forest(h, s, S, T, c),
         NEW U \in SUBSET S, U # {}, U \cap T = {}
  PROVE  \E p \in U : h.parent[p] \in S \ U /\ Kid(h, h.parent[p], p)
<1> DEFINE A(p) == { q \in S : c[q] > c[p] }
           R == StrictSubsetOrdering(Procs)
           F == { A(p) : p \in U }
<1>1. IsWellFoundedOn(R, FiniteSubsetsOf(Procs))
  BY FS_StrictSubsetOrderingWellFounded, Zenon
<1>2. F \subseteq FiniteSubsetsOf(Procs)
  <2>1. ASSUME NEW p \in U PROVE A(p) \in FiniteSubsetsOf(Procs)
    <3>1. A(p) \subseteq Procs
      OBVIOUS
    <3>2. IsFiniteSet(A(p))
      BY <3>1, StrideAssumption, FS_Subset
    <3> QED
      BY <3>1, <3>2 DEF FiniteSubsetsOf
  <2> QED
    BY <2>1
<1>3. F # {}
  OBVIOUS
<1>4. PICK x \in F : \A y \in F : ~(<<y, x>> \in R)
  <2> HIDE DEF R, F
  <2> QED
    BY <1>1, <1>2, <1>3, WFMin, Zenon
<1>5. PICK p \in U : x = A(p)
  OBVIOUS
<1> DEFINE q == h.parent[p]
<1>6. q \in S /\ Kid(h, q, p)
  BY DEF Forest
<1>7. c[p] < c[q]
  BY <1>6 DEF Forest, Node
<1>8. q \notin U
  <2>1. SUFFICES ASSUME q \in U PROVE FALSE
    OBVIOUS
  <2>2. A(q) \in F
    BY <2>1
  <2>3. A(q) \subseteq A(p) /\ q \in A(p) /\ q \notin A(q)
    <3>1. \A r \in S : c[r] \in Nat
      BY DEF Ranks
    <3> QED
      BY <1>6, <1>7, <3>1
  <2>4. <<A(q), A(p)>> \in R
    <3>1. A(q) \in SUBSET Procs /\ A(p) \in SUBSET Procs /\ A(q) # A(p)
      BY <2>3
    <3> HIDE DEF A
    <3> QED
      BY <2>3, <3>1, Zenon DEF StrictSubsetOrdering
  <2> QED
    BY <1>4, <1>5, <2>2, <2>4
<1> QED
  BY <1>6, <1>8

\* The processes a tree with no root holds.
LEMMA NoRoot ==
  ASSUME NEW h, NEW s, NEW S \in SUBSET Procs, NEW c \in Ranks, Forest(h, s, S, {}, c)
  PROVE  S = {}
BY Climb

\* Links outside S do not matter.
LEMMA SameForest ==
  ASSUME NEW h, NEW k, NEW s, NEW t, NEW S \in SUBSET Procs, NEW T, NEW c,
         Forest(h, s, S, T, c),
         \A p \in S : /\ k.left[p] = h.left[p] /\ k.right[p] = h.right[p]
                      /\ p \notin T => k.parent[p] = h.parent[p]
                      /\ t[p] = s[p]
  PROVE  Forest(k, t, S, T, c)
<1>1. \A p \in S : \A q \in Node : Kid(k, p, q) <=> Kid(h, p, q)
  BY DEF Kid
<1>2. ASSUME NEW p \in S, NEW q \in Node, Kid(k, p, q)
      PROVE  /\ q \in S /\ q \notin T /\ k.parent[q] = p /\ c[q] < c[p]
             /\ Gap(t[q], t[p]) <= Half
  <2>1. /\ q \in S /\ q \notin T /\ h.parent[q] = p /\ c[q] < c[p]
        /\ Gap(s[q], s[p]) <= Half
    BY <1>1, <1>2 DEF Forest
  <2> QED
    BY <2>1
<1>3. ASSUME NEW q \in S, q \notin T PROVE k.parent[q] \in S /\ Kid(k, k.parent[q], q)
  <2>1. h.parent[q] \in S /\ Kid(h, h.parent[q], q) /\ k.parent[q] = h.parent[q]
    BY <1>3 DEF Forest
  <2> QED
    BY <1>1, <2>1 DEF Node
<1>4. \A p \in S : k.left[p] = k.right[p] => k.left[p] = NULL
  BY DEF Forest
<1>5. T \subseteq S
  BY DEF Forest
<1> QED
  BY <1>2, <1>3, <1>4, <1>5 DEF Forest

-----------------------------------------------------------------------------
(* merge_skew_heap.                                                        *)

Opt(x) == {x} \ {NULL}
Weight(c, x) == IF x = NULL THEN 0 ELSE c[x]

\* x and y are the roots of two of the trees of S; T has the other roots.
Apart(h, s, S, T, c, x, y) ==
  /\ x \in Node /\ y \in Node /\ x \notin T /\ y \notin T
  /\ x = y => x = NULL
  /\ Forest(h, s, S, T \cup Opt(x) \cup Opt(y), c)

\* m is the two trees x and y made one.
Joined(h, s, S, T, c, x, y, m) ==
  /\ m.heap \in Links /\ m.root \in {x, y}
  /\ m.root = NULL => x = NULL /\ y = NULL
  /\ m.root # NULL => m.heap.parent[m.root] = h.parent[m.root]
  /\ \A t \in T : m.heap.parent[t] = h.parent[t]
  /\ \A p \in Procs \ S : /\ m.heap.left[p] = h.left[p] /\ m.heap.right[p] = h.right[p]
                          /\ m.heap.parent[p] = h.parent[p]
  /\ \E d \in Ranks : /\ Forest(m.heap, s, S, T \cup Opt(m.root), d)
                      /\ \A t \in T : d[t] = c[t]
                      /\ m.root # NULL => d[m.root] <= Weight(c, x) + Weight(c, y)

LEMMA JoinedSwaps ==
  ASSUME NEW h, NEW s, NEW S, NEW T, NEW c \in Ranks, NEW x \in Node, NEW y \in Node, NEW m,
         Joined(h, s, S, T, c, x, y, m)
  PROVE  Joined(h, s, S, T, c, y, x, m)
<1>1. Weight(c, x) + Weight(c, y) = Weight(c, y) + Weight(c, x)
  <2>1. Weight(c, x) \in Nat /\ Weight(c, y) \in Nat
    BY DEF Weight, Ranks, Node
  <2> QED
    BY <2>1
<1>2. {x, y} = {y, x}
  OBVIOUS
<1> QED
  BY <1>1, <1>2, Zenon DEF Joined

\* The tree x without its top.
LEMMA TopOff ==
  ASSUME NEW h \in Links, NEW s, NEW S \in SUBSET Procs, NEW T \in SUBSET Procs, NEW c \in Ranks,
         NEW x \in Procs, NEW y \in Procs, Apart(h, s, S, T, c, x, y)
  PROVE  Apart(h, s, S \ {x}, T \cup Opt(h.left[x]), c, h.right[x], y)
<1> DEFINE l == h.left[x]
           r == h.right[x]
           W == T \cup Opt(x) \cup Opt(y)
           V == (T \cup Opt(l)) \cup Opt(r) \cup Opt(y)
<1>1. l \in Node /\ r \in Node /\ NULL \notin Procs
  BY StrideAssumption DEF Links
<1>2. /\ x \notin T /\ y \notin T /\ x # y /\ Forest(h, s, S, W, c)
      /\ x \in S /\ x \in W /\ y \in S /\ y \in W /\ T \subseteq S /\ T \subseteq W
  BY <1>1 DEF Apart, Forest, Opt
<1>3. /\ l = r => l = NULL
      /\ l # NULL => l \in S /\ l \notin W /\ h.parent[l] = x
      /\ r # NULL => r \in S /\ r \notin W /\ h.parent[r] = x
  BY <1>1, <1>2 DEF Forest, Kid
<1>4. Forest(h, s, S \ {x}, V, c)
  <2>1. V \subseteq S \ {x}
    BY <1>1, <1>2, <1>3 DEF Opt
  <2>2. ASSUME NEW p \in S \ {x}, NEW q \in Node, Kid(h, p, q)
        PROVE  /\ q \in S \ {x} /\ q \notin V /\ h.parent[q] = p /\ c[q] < c[p]
               /\ Gap(s[q], s[p]) <= Half
    <3>1. /\ q \in S /\ q \notin W /\ h.parent[q] = p /\ c[q] < c[p]
          /\ Gap(s[q], s[p]) <= Half
      BY <1>2, <2>2 DEF Forest
    <3>2. q # l /\ q # r
      BY <1>3, <2>2, <3>1 DEF Kid
    <3> QED
      BY <1>2, <3>1, <3>2 DEF Opt
  <2>3. \A p \in S \ {x} : h.left[p] = h.right[p] => h.left[p] = NULL
    BY <1>2 DEF Forest
  <2>4. ASSUME NEW q \in S \ {x}, q \notin V PROVE h.parent[q] \in S \ {x} /\ Kid(h, h.parent[q], q)
    <3>1. q \notin W
      BY <2>4, <1>1 DEF Opt
    <3>2. h.parent[q] \in S /\ Kid(h, h.parent[q], q)
      BY <1>2, <2>4, <3>1 DEF Forest
    <3>3. h.parent[q] # x
      BY <2>4, <3>2 DEF Kid, Opt
    <3> QED
      BY <3>2, <3>3
  <2> HIDE DEF V
  <2> QED
    BY <2>1, <2>2, <2>3, <2>4 DEF Forest
<1>5. r \notin T \cup Opt(l) /\ y \notin T \cup Opt(l) /\ (r = y => r = NULL)
  BY <1>1, <1>2, <1>3 DEF Opt
<1> QED
  BY <1>1, <1>4, <1>5 DEF Apart, Node

\* The heap that Merged makes of what the call inside it returns.
Topped(h, m, x) ==
  [heap |-> [left   |-> [m.heap.left EXCEPT ![x] = m.root],
             right  |-> [m.heap.right EXCEPT ![x] = h.left[x]],
             parent |-> [m.heap.parent EXCEPT ![m.root] = x]],
   root |-> x]

LEMMA ToppedIs ==
  ASSUME NEW h \in Links, NEW m, m.heap \in Links, m.root \in Procs, NEW x \in Procs
  PROVE  /\ Topped(h, m, x).heap \in Links /\ Topped(h, m, x).root = x
         /\ \A p \in Procs :
              /\ Topped(h, m, x).heap.left[p] = IF p = x THEN m.root ELSE m.heap.left[p]
              /\ Topped(h, m, x).heap.right[p] = IF p = x THEN h.left[x] ELSE m.heap.right[p]
              /\ Topped(h, m, x).heap.parent[p] = IF p = m.root THEN x ELSE m.heap.parent[p]
<1>1. /\ m.heap.left \in [Procs -> Node] /\ m.heap.right \in [Procs -> Node]
      /\ m.heap.parent \in [Procs -> Node] /\ h.left[x] \in Node /\ x \in Node /\ m.root \in Node
  BY DEF Links, Node
<1> DEFINE k == Topped(h, m, x).heap
<1>2. /\ k = [left   |-> [m.heap.left EXCEPT ![x] = m.root],
              right  |-> [m.heap.right EXCEPT ![x] = h.left[x]],
              parent |-> [m.heap.parent EXCEPT ![m.root] = x]]
      /\ Topped(h, m, x).root = x
  BY DEF Topped
<1> HIDE DEF k
<1>3. k \in Links
  <2>1. /\ [m.heap.left EXCEPT ![x] = m.root] \in [Procs -> Node]
        /\ [m.heap.right EXCEPT ![x] = h.left[x]] \in [Procs -> Node]
        /\ [m.heap.parent EXCEPT ![m.root] = x] \in [Procs -> Node]
    BY <1>1
  <2> QED
    BY <1>2, <2>1 DEF Links
<1>4. /\ k.left = [m.heap.left EXCEPT ![x] = m.root]
      /\ k.right = [m.heap.right EXCEPT ![x] = h.left[x]]
      /\ k.parent = [m.heap.parent EXCEPT ![m.root] = x]
  BY <1>2
<1>5. \A p \in Procs : /\ k.left[p] = IF p = x THEN m.root ELSE m.heap.left[p]
                       /\ k.right[p] = IF p = x THEN h.left[x] ELSE m.heap.right[p]
                       /\ k.parent[p] = IF p = m.root THEN x ELSE m.heap.parent[p]
  BY <1>1, <1>4
<1> QED
  BY <1>2, <1>3, <1>5 DEF k

\* x is put on top of what is left of its tree and the tree y.
LEMMA TopOn ==
  ASSUME NEW h \in Links, NEW s, NEW S \in SUBSET Procs, NEW T \in SUBSET Procs, NEW c \in Ranks,
         NEW x \in Procs, NEW y \in Procs, Apart(h, s, S, T, c, x, y), Gap(s[y], s[x]) <= Half,
         NEW m, Joined(h, s, S \ {x}, T \cup Opt(h.left[x]), c, h.right[x], y, m)
  PROVE  Joined(h, s, S, T, c, x, y, Topped(h, m, x))
<1> DEFINE l == h.left[x]
           r == h.right[x]
           W == T \cup Opt(x) \cup Opt(y)
           V == T \cup Opt(l)
           o == m.root
           n == Topped(h, m, x)
           k == n.heap
<1>1. l \in Node /\ r \in Node /\ NULL \notin Procs /\ y # NULL /\ x # NULL
  BY StrideAssumption DEF Links
<1>2. /\ x \notin T /\ y \notin T /\ x # y /\ Forest(h, s, S, W, c)
      /\ x \in S /\ x \in W /\ y \in S /\ y \in W /\ T \subseteq S /\ T \subseteq W
  BY <1>1 DEF Apart, Forest, Opt
<1>3. /\ l = r => l = NULL
      /\ l # NULL => l \in S /\ l \notin W /\ h.parent[l] = x /\ c[l] < c[x] /\ Gap(s[l], s[x]) <= Half
      /\ r # NULL => r \in S /\ r \notin W /\ h.parent[r] = x /\ c[r] < c[x] /\ Gap(s[r], s[x]) <= Half
  BY <1>1, <1>2 DEF Forest, Kid
<1>4. /\ m.heap \in Links /\ o \in {r, y} /\ o # NULL
      /\ m.heap.parent[o] = h.parent[o]
      /\ \A t \in V : m.heap.parent[t] = h.parent[t]
      /\ \A p \in Procs : p \notin S \/ p = x =>
           m.heap.left[p] = h.left[p] /\ m.heap.right[p] = h.right[p] /\ m.heap.parent[p] = h.parent[p]
  BY <1>1 DEF Joined
<1>5. PICK d \in Ranks : /\ Forest(m.heap, s, S \ {x}, V \cup Opt(o), d)
                         /\ \A t \in V : d[t] = c[t]
                         /\ d[o] <= Weight(c, r) + Weight(c, y)
  BY <1>4 DEF Joined
<1>6. /\ o \in Procs /\ o \in S /\ o # x /\ o \notin V /\ o # l
      /\ Gap(s[o], s[x]) <= Half
  BY <1>1, <1>2, <1>3, <1>4 DEF Opt, Node
<1>7. /\ n.heap \in Links /\ n.root = x
      /\ \A p \in Procs : /\ k.left[p] = IF p = x THEN o ELSE m.heap.left[p]
                          /\ k.right[p] = IF p = x THEN l ELSE m.heap.right[p]
                          /\ k.parent[p] = IF p = o THEN x ELSE m.heap.parent[p]
  BY <1>4, <1>6, ToppedIs
<1> DEFINE e == [d EXCEPT ![x] = c[x] + c[y]]
<1>8. /\ c[x] \in Nat \ {0} /\ c[y] \in Nat \ {0} /\ c[x] + c[y] \in Nat \ {0} /\ e \in Ranks
      /\ e[x] = c[x] + c[y] /\ \A p \in Procs : p # x => e[p] = d[p]
  <2>1. c[x] \in Nat \ {0} /\ c[y] \in Nat \ {0}
    BY DEF Ranks
  <2>2. c[x] + c[y] \in Nat \ {0}
    BY <2>1
  <2> QED
    BY <2>1, <2>2 DEF Ranks
<1>9. d[o] < e[x] /\ (l # NULL => d[l] < e[x])
  <2>1. Weight(c, y) = c[y] /\ Weight(c, r) \in Nat /\ Weight(c, r) < c[x]
    <3>1. r # NULL => c[r] \in Nat
      BY <1>1 DEF Ranks, Node
    <3> QED
      BY <1>1, <1>3, <1>8, <3>1 DEF Weight
  <2>2. d[o] \in Nat
    BY <1>6 DEF Ranks
  <2>3. d[o] < e[x]
    BY <1>5, <1>8, <2>1, <2>2
  <2>4. l # NULL => d[l] = c[l] /\ c[l] \in Nat
    BY <1>1, <1>5 DEF Opt, Ranks, Node
  <2> QED
    BY <1>3, <1>8, <2>3, <2>4
<1> HIDE DEF e, k, n, o
<1>10. \A q \in Node : Kid(k, x, q) <=> q = o \/ (q = l /\ q # NULL)
  BY <1>4, <1>7 DEF Kid
<1>11. \A p \in Procs : p # x => \A q \in Node : Kid(k, p, q) <=> Kid(m.heap, p, q)
  BY <1>7 DEF Kid
<1>12. Forest(k, s, S, T \cup Opt(x), e)
  <2>1. T \cup Opt(x) \subseteq S
    BY <1>2 DEF Opt
  <2>2. ASSUME NEW p \in S, NEW q \in Node, Kid(k, p, q)
        PROVE  /\ q \in S /\ q \notin T \cup Opt(x) /\ k.parent[q] = p /\ e[q] < e[p]
               /\ Gap(s[q], s[p]) <= Half
    <3>1. CASE p = x /\ q = o
      <4>1. k.parent[o] = x /\ e[o] = d[o] /\ o \notin T
        BY <1>6, <1>7, <1>8
      <4> QED
        BY <1>6, <1>9, <3>1, <4>1 DEF Opt
    <3>2. CASE p = x /\ q = l /\ q # NULL
      <4>1. l \in S /\ l \in V /\ l \notin W /\ l # x /\ l # o /\ h.parent[l] = x /\ l \in Procs
        BY <1>2, <1>3, <1>6, <3>2 DEF Opt
      <4>2. k.parent[l] = x /\ e[l] = d[l]
        BY <1>4, <1>7, <1>8, <4>1
      <4> QED
        BY <1>2, <1>3, <1>9, <3>2, <4>1, <4>2 DEF Opt
    <3>3. CASE p # x
      <4>1. Kid(m.heap, p, q)
        BY <1>11, <2>2, <3>3
      <4>2. /\ q \in S \ {x} /\ q \notin V \cup Opt(o) /\ m.heap.parent[q] = p /\ d[q] < d[p]
            /\ Gap(s[q], s[p]) <= Half
        BY <1>5, <3>3, <4>1 DEF Forest
      <4>3. q # o /\ q # x /\ q \in Procs /\ q \notin T
        BY <1>6, <1>1, <4>2 DEF Opt
      <4>4. k.parent[q] = p /\ e[q] = d[q] /\ e[p] = d[p]
        BY <1>7, <1>8, <3>3, <4>2, <4>3
      <4> QED
        BY <4>2, <4>3, <4>4 DEF Opt
    <3> QED
      BY <1>10, <2>2, <3>1, <3>2, <3>3
  <2>3. ASSUME NEW p \in S, k.left[p] = k.right[p] PROVE k.left[p] = NULL
    <3>1. CASE p = x
      BY <1>6, <1>7, <2>3, <3>1
    <3>2. CASE p # x
      <4>1. m.heap.left[p] = m.heap.right[p] => m.heap.left[p] = NULL
        BY <1>5, <3>2 DEF Forest
      <4> QED
        BY <1>7, <2>3, <3>2, <4>1
    <3> QED
      BY <3>1, <3>2
  <2>4. ASSUME NEW q \in S, q \notin T \cup Opt(x)
        PROVE  k.parent[q] \in S /\ Kid(k, k.parent[q], q)
    <3>0. q # x /\ q \notin T /\ q \in Node /\ q # NULL
      BY <1>1, <2>4 DEF Opt, Node
    <3>1. CASE q = o
      BY <1>2, <1>6, <1>7, <1>10, <3>0, <3>1
    <3>2. CASE q = l /\ q # o
      <4>1. k.parent[q] = m.heap.parent[q] /\ q \in V /\ h.parent[q] = x
        BY <1>3, <1>7, <3>0, <3>2 DEF Opt
      <4> QED
        BY <1>2, <1>4, <1>10, <3>0, <3>2, <4>1
    <3>3. CASE q # o /\ q # l
      <4>1. q \in S \ {x} /\ q \notin V \cup Opt(o)
        BY <3>0, <3>3 DEF Opt
      <4>2. m.heap.parent[q] \in S \ {x} /\ Kid(m.heap, m.heap.parent[q], q)
        BY <1>5, <4>1 DEF Forest
      <4>3. k.parent[q] = m.heap.parent[q]
        BY <1>7, <3>3
      <4> QED
        BY <1>11, <3>0, <4>2, <4>3
    <3> QED
      BY <3>1, <3>2, <3>3
  <2> QED
    BY <2>1, <2>2, <2>3, <2>4 DEF Forest
<1>13. \A t \in T : e[t] = c[t] /\ k.parent[t] = h.parent[t]
  <2>1. ASSUME NEW t \in T PROVE e[t] = c[t] /\ k.parent[t] = h.parent[t]
    <3>1. t \in V /\ t # x /\ t # o /\ t \in Procs
      BY <1>2, <1>6
    <3> QED
      BY <1>4, <1>5, <1>7, <1>8, <3>1
  <2> QED
    BY <2>1
<1>14. e[x] <= Weight(c, x) + Weight(c, y)
  BY <1>1, <1>8 DEF Weight
<1>15. \A p \in Procs \ S : /\ k.left[p] = h.left[p] /\ k.right[p] = h.right[p]
                            /\ k.parent[p] = h.parent[p]
  <2>1. ASSUME NEW p \in Procs \ S PROVE /\ k.left[p] = h.left[p] /\ k.right[p] = h.right[p]
                                         /\ k.parent[p] = h.parent[p]
    <3>1. p # x /\ p # o
      BY <1>2, <1>6
    <3> QED
      BY <1>4, <1>7, <3>1
  <2> QED
    BY <2>1
<1>16. k.parent[x] = h.parent[x]
  BY <1>4, <1>6, <1>7
<1>17. n.heap = k /\ n.root = x /\ k \in Links
  BY <1>7 DEF k
<1>18. \E f \in Ranks : /\ Forest(k, s, S, T \cup Opt(x), f)
                        /\ \A t \in T : f[t] = c[t]
                        /\ f[x] <= Weight(c, x) + Weight(c, y)
  BY <1>8, <1>12, <1>13, <1>14
<1> HIDE DEF V, W, l, r
<1>19. Joined(h, s, S, T, c, x, y, n)
  BY <1>1, <1>13, <1>15, <1>16, <1>17, <1>18 DEF Joined
<1> QED
  BY <1>19 DEF n

\* A turn of the recursion of merge_skew_heap, and of the one in HeapSound.
BelowIn(h, V) == { q \in Procs : \E p \in V : q = h.left[p] \/ q = h.right[p] }

Round(j, v, h, s) ==
  IF j = 1 THEN [t \in Node \X Node |-> Merged(v, h, s, t[1], t[2])] ELSE v \cup BelowIn(h, v)

Rounds(N, M, j, z, h, s) == M = [k \in 0 .. N |-> IF k = 0 THEN z ELSE Round(j, M[k - 1], h, s)]

LEMMA RoundsAt ==
  ASSUME NEW N \in Nat, NEW M, NEW j, NEW z, NEW h, NEW s, Rounds(N, M, j, z, h, s)
  PROVE  M[0] = z /\ \A k \in 0 .. N - 1 : M[k + 1] = Round(j, M[k], h, s)
<1>1. \A k \in 0 .. N : M[k] = IF k = 0 THEN z ELSE Round(j, M[k - 1], h, s)
  BY DEF Rounds
<1>2. ASSUME NEW k \in 0 .. N - 1 PROVE M[k + 1] = Round(j, M[k], h, s)
  <2>1. k + 1 \in 0 .. N /\ k + 1 # 0 /\ k + 1 - 1 = k
    OBVIOUS
  <2> QED
    BY <1>1, <2>1
<1>3. M[0] = z
  BY <1>1
<1> QED
  BY <1>2, <1>3

LEMMA RoundsExist == ASSUME NEW N \in Nat, NEW j, NEW z, NEW h, NEW s
                     PROVE  \E M : Rounds(N, M, j, z, h, s)
<1> DEFINE K == { k \in 0 .. N : \E M : Rounds(k, M, j, z, h, s) }
<1>1. 0 \in K
  <2> DEFINE M == [k \in 0 .. 0 |-> z]
  <2>1. M = [k \in 0 .. 0 |-> IF k = 0 THEN z ELSE Round(j, M[k - 1], h, s)]
    OBVIOUS
  <2>2. Rounds(0, M, j, z, h, s)
    BY <2>1 DEF Rounds
  <2> QED
    BY <2>2
<1>2. ASSUME NEW k \in K, k < N PROVE k + 1 \in K
  <2>1. PICK C : Rounds(k, C, j, z, h, s)
    OBVIOUS
  <2>2. k \in Nat /\ k + 1 \in 0 .. N
    BY <1>2
  <2> HIDE DEF K
  <2>3. C[0] = z /\ \A i \in 0 .. k - 1 : C[i + 1] = Round(j, C[i], h, s)
    BY <2>1, <2>2, RoundsAt
  <2> DEFINE M == [i \in 0 .. k + 1 |-> IF i = k + 1 THEN Round(j, C[k], h, s) ELSE C[i]]
  <2>4. ASSUME NEW i \in 0 .. k + 1
        PROVE  M[i] = IF i = 0 THEN z ELSE Round(j, M[i - 1], h, s)
    <3>1. CASE i = 0
      BY <2>2, <2>3, <3>1
    <3>2. CASE i = k + 1
      <4>1. i - 1 = k /\ i - 1 \in 0 .. k + 1 /\ i - 1 # k + 1 /\ i # 0
        BY <2>2, <3>2
      <4> QED
        BY <3>2, <4>1
    <3>3. CASE i # 0 /\ i # k + 1
      <4>1. /\ i - 1 \in 0 .. k - 1 /\ i - 1 \in 0 .. k + 1 /\ i - 1 # k + 1
            /\ i - 1 + 1 = i
        BY <2>2, <3>3
      <4>2. C[i] = Round(j, C[i - 1], h, s)
        BY <2>3, <4>1
      <4> QED
        BY <3>3, <4>1, <4>2
    <3> QED
      BY <3>1, <3>2, <3>3
  <2>5. M = [i \in 0 .. k + 1 |-> M[i]]
    OBVIOUS
  <2>6. Rounds(k + 1, M, j, z, h, s)
    <3> HIDE DEF M
    <3> QED
      BY <2>4, <2>5 DEF Rounds
  <2> QED
    BY <2>2, <2>6 DEF K
<1>3. K \in SUBSET (0 .. N)
  OBVIOUS
<1>4. N \in K
  <2> HIDE DEF K
  <2> QED
    BY <1>1, <1>2, <1>3, Upward
<1> QED
  BY <1>4

NoNodes(h) == [t \in Node \X Node |-> [heap |-> h, root |-> NULL]]

LEMMA ProcsSize == Cardinality(Procs) \in Nat
BY StrideAssumption, FS_CardinalityType

LEMMA MergeRounds ==
  ASSUME NEW h, NEW s, NEW a, NEW b
  PROVE  \E M : /\ Rounds(Cardinality(Procs), M, 1, NoNodes(h), h, s)
                /\ merge_skew_heap(h, s, a, b) = M[Cardinality(Procs)][<<a, b>>]
<1> DEFINE L(M) == M = [k \in 0 .. Cardinality(Procs) |->
                          IF k = 0 THEN [t \in Node \X Node |-> [heap |-> h, root |-> NULL]]
                          ELSE [t \in Node \X Node |-> Merged(M[k - 1], h, s, t[1], t[2])]]
<1>1. merge_skew_heap(h, s, a, b) = (CHOOSE M : L(M))[Cardinality(Procs)][<<a, b>>]
  BY DEF merge_skew_heap
<1>2. ASSUME NEW M PROVE L(M) <=> Rounds(Cardinality(Procs), M, 1, NoNodes(h), h, s)
  BY DEF Rounds, Round, NoNodes
<1> HIDE DEF L
<1>3. \E M : L(M)
  BY <1>2, RoundsExist, ProcsSize
<1>4. L(CHOOSE M : L(M))
  BY <1>3
<1> QED
  BY <1>1, <1>2, <1>4

\* A tree with nothing stays what it is.
LEMMA Alone ==
  ASSUME NEW h \in Links, NEW s, NEW S \in SUBSET Procs, NEW T \in SUBSET Procs, NEW c \in Ranks,
         NEW x \in Node, Apart(h, s, S, T, c, NULL, x)
  PROVE  Joined(h, s, S, T, c, NULL, x, [heap |-> h, root |-> x])
<1> DEFINE m == [heap |-> h, root |-> x]
<1>1. m.heap = h /\ m.root = x
  OBVIOUS
<1> HIDE DEF m
<1>2. T \cup Opt(NULL) \cup Opt(x) = T \cup Opt(x)
  BY DEF Opt
<1>3. Forest(h, s, S, T \cup Opt(x), c)
  BY <1>2 DEF Apart
<1>4. x # NULL => c[x] <= Weight(c, NULL) + Weight(c, x)
  <2>1. x # NULL => c[x] \in Nat
    BY DEF Ranks, Node
  <2> QED
    BY <2>1 DEF Weight
<1>5. Joined(h, s, S, T, c, NULL, x, m)
  BY <1>1, <1>3, <1>4 DEF Joined
<1> QED
  BY <1>5 DEF m

LEMMA ApartSwaps ==
  ASSUME NEW h, NEW s, NEW S, NEW T, NEW c, NEW x, NEW y, Apart(h, s, S, T, c, x, y)
  PROVE  Apart(h, s, S, T, c, y, x)
<1>1. T \cup Opt(x) \cup Opt(y) = T \cup Opt(y) \cup Opt(x)
  OBVIOUS
<1> QED
  BY <1>1 DEF Apart

\* A call of merge_skew_heap, if those inside it do what they should for smaller trees.
LEMMA MergesOne ==
  ASSUME NEW h \in Links, NEW s \in Strides, NEW f, NEW k \in Nat,
         \A S, T \in SUBSET Procs, c \in Ranks, x, y \in Node :
           Apart(h, s, S, T, c, x, y) /\ Cardinality(S) <= k => Joined(h, s, S, T, c, x, y, f[<<x, y>>]),
         NEW S \in SUBSET Procs, NEW T \in SUBSET Procs, NEW c \in Ranks, NEW x \in Node, NEW y \in Node,
         Apart(h, s, S, T, c, x, y), Cardinality(S) <= k + 1
  PROVE  Joined(h, s, S, T, c, x, y, Merged(f, h, s, x, y))
<1>1. CASE x = NULL
  BY <1>1, Alone DEF Merged
<1>2. CASE x # NULL /\ y = NULL
  <2>1. Joined(h, s, S, T, c, y, x, [heap |-> h, root |-> x])
    BY <1>2, Alone, ApartSwaps
  <2> QED
    BY <1>2, <2>1, JoinedSwaps DEF Merged
<1>3. CASE x # NULL /\ y # NULL
  <2>1. x \in Procs /\ y \in Procs /\ x # y /\ T \subseteq S /\ x \in S /\ y \in S
    BY <1>3 DEF Node, Apart, Forest, Opt
  <2>2. \A p \in S : Cardinality(S \ {p}) <= k
    <3>1. IsFiniteSet(S)
      BY StrideAssumption, FS_Subset
    <3>2. ASSUME NEW p \in S PROVE Cardinality(S \ {p}) <= k
      <4>1. Cardinality(S) \in Nat /\ Cardinality(S \ {p}) = Cardinality(S) - 1
        BY <3>1, FS_RemoveElement, FS_CardinalityType
      <4> QED
        BY <4>1
    <3> QED
      BY <3>2
  <2>3. ASSUME NEW u \in S, NEW v \in S, Apart(h, s, S, T, c, u, v), Gap(s[v], s[u]) <= Half,
               NEW g, g = <<h.right[u], v>> \/ g = <<v, h.right[u]>>
        PROVE  Joined(h, s, S, T, c, u, v, Topped(h, f[g], u))
    <3>1. /\ h.left[u] \in Node /\ h.right[u] \in Node /\ u \in Procs /\ v \in Node /\ v \in Procs
          /\ S \ {u} \in SUBSET Procs /\ T \cup Opt(h.left[u]) \in SUBSET Procs
      BY <2>1 DEF Links, Node, Opt
    <3>2. Apart(h, s, S \ {u}, T \cup Opt(h.left[u]), c, h.right[u], v)
      BY <2>3, <3>1, TopOff
    <3>3. Joined(h, s, S \ {u}, T \cup Opt(h.left[u]), c, h.right[u], v, f[g])
      <4>1. CASE g = <<h.right[u], v>>
        BY <2>2, <3>1, <3>2, <4>1
      <4>2. CASE g = <<v, h.right[u]>>
        <5>1. Apart(h, s, S \ {u}, T \cup Opt(h.left[u]), c, v, h.right[u])
          BY <3>2, ApartSwaps
        <5>2. Joined(h, s, S \ {u}, T \cup Opt(h.left[u]), c, v, h.right[u], f[g])
          BY <2>2, <3>1, <4>2, <5>1
        <5> QED
          BY <3>1, <5>2, JoinedSwaps
      <4> QED
        BY <2>3, <4>1, <4>2
    <3> QED
      BY <2>3, <3>1, <3>3, TopOn
  <2>4. /\ Before(s, x, y) => Gap(s[y], s[x]) <= Half
        /\ ~Before(s, x, y) => Gap(s[x], s[y]) <= Half
    <3>1. s[x] \in 0 .. Modulus - 1 /\ s[y] \in 0 .. Modulus - 1
      BY <2>1 DEF Strides
    <3>2. Before(s, x, y) <=> Gap(s[x], s[y]) >= Half
      BY DEF Before, Gap, Half
    <3>3. Gap(s[x], s[y]) \in 0 .. Modulus - 1 /\ (Gap(s[x], s[y]) >= Half => Gap(s[y], s[x]) <= Half)
      BY <3>1, GapsOf
    <3> QED
      BY <3>2, <3>3, HalfIs
  <2>5. CASE Before(s, x, y)
    <3>1. Merged(f, h, s, x, y) = Topped(h, f[<<h.right[x], y>>], x)
      BY <1>3, <2>5 DEF Merged, Topped
    <3> QED
      BY <2>1, <2>3, <2>4, <2>5, <3>1
  <2>6. CASE ~Before(s, x, y)
    <3>1. Merged(f, h, s, x, y) = Topped(h, f[<<x, h.right[y]>>], y)
      BY <1>3, <2>1, <2>6 DEF Merged, Topped
    <3>2. Apart(h, s, S, T, c, y, x)
      BY ApartSwaps
    <3>3. Joined(h, s, S, T, c, y, x, Topped(h, f[<<x, h.right[y]>>], y))
      BY <2>1, <2>3, <2>4, <2>6, <3>2
    <3> QED
      BY <3>1, <3>3, JoinedSwaps
  <2> QED
    BY <2>5, <2>6
<1> QED
  BY <1>1, <1>2, <1>3

\* merge_skew_heap makes one tree of two.
LEMMA Merges ==
  ASSUME NEW h \in Links, NEW s \in Strides, NEW S \in SUBSET Procs, NEW c \in Ranks,
         NEW x \in Node, NEW y \in Node, Apart(h, s, S, {}, c, x, y)
  PROVE  Joined(h, s, S, {}, c, x, y, merge_skew_heap(h, s, x, y))
<1> DEFINE N == Cardinality(Procs)
<1>0. N \in Nat
  BY ProcsSize
<1>1. PICK M : /\ Rounds(N, M, 1, NoNodes(h), h, s)
               /\ merge_skew_heap(h, s, x, y) = M[N][<<x, y>>]
  BY MergeRounds
<1> DEFINE Good(k) == \A A, T \in SUBSET Procs, e \in Ranks, u, v \in Node :
                        Apart(h, s, A, T, e, u, v) /\ Cardinality(A) <= k =>
                          Joined(h, s, A, T, e, u, v, M[k][<<u, v>>])
           K == { k \in 0 .. N : Good(k) }
<1> HIDE DEF N
<1>2. M[0] = NoNodes(h) /\ \A k \in 0 .. N - 1 : M[k + 1] = Round(1, M[k], h, s)
  <2>1. Rounds(N, M, 1, NoNodes(h), h, s)
    BY <1>1
  <2> HIDE DEF Good, K
  <2> QED
    BY <1>0, <2>1, RoundsAt
<1>3. 0 \in K
  <2>1. ASSUME NEW A \in SUBSET Procs, NEW T \in SUBSET Procs, NEW e \in Ranks, NEW u \in Node, NEW v \in Node,
               Apart(h, s, A, T, e, u, v), Cardinality(A) <= 0
        PROVE  Joined(h, s, A, T, e, u, v, M[0][<<u, v>>])
    <3>1. A = {}
      <4>1. IsFiniteSet(A)
        BY StrideAssumption, FS_Subset
      <4>2. Cardinality(A) \in Nat /\ (Cardinality(A) = 0 <=> A = {})
        BY <4>1, FS_CardinalityType, FS_EmptySet
      <4> QED
        BY <2>1, <4>2
    <3>2. u = NULL /\ v = NULL
      BY <2>1, <3>1 DEF Apart, Forest, Opt
    <3>3. M[0][<<u, v>>] = [heap |-> h, root |-> v]
      BY <1>2, <3>2 DEF NoNodes
    <3> QED
      BY <2>1, <3>2, <3>3, Alone
  <2>2. Good(0)
    BY <2>1
  <2> HIDE DEF Good
  <2> QED
    BY <1>0, <2>2
<1>4. ASSUME NEW k \in K, k < N PROVE k + 1 \in K
  <2>1. k \in Nat /\ k + 1 \in 0 .. N /\ k \in 0 .. N - 1 /\ Good(k)
    BY <1>0, <1>4
  <2>2. \A u, v \in Node : M[k + 1][<<u, v>>] = Merged(M[k], h, s, u, v)
    <3>1. M[k + 1] = [t \in Node \X Node |-> Merged(M[k], h, s, t[1], t[2])]
      BY <1>2, <2>1 DEF Round
    <3> QED
      BY <3>1
  <2>3. ASSUME NEW A \in SUBSET Procs, NEW T \in SUBSET Procs, NEW e \in Ranks, NEW u \in Node, NEW v \in Node,
               Apart(h, s, A, T, e, u, v), Cardinality(A) <= k + 1
        PROVE  Joined(h, s, A, T, e, u, v, M[k + 1][<<u, v>>])
    <3>1. Joined(h, s, A, T, e, u, v, Merged(M[k], h, s, u, v))
      <4> HIDE DEF K
      <4> QED
        BY <2>1, <2>3, MergesOne
    <3> QED
      BY <2>2, <3>1
  <2>4. Good(k + 1)
    BY <2>3
  <2> HIDE DEF Good
  <2> QED
    BY <2>1, <2>4
<1>5. N \in K
  <2>1. K \in SUBSET (0 .. N)
    OBVIOUS
  <2> HIDE DEF K
  <2> QED
    BY <1>0, <1>3, <1>4, <2>1, Upward
<1>6. IsFiniteSet(S) /\ Cardinality(S) <= N
  BY StrideAssumption, FS_Subset DEF N
<1>7. Joined(h, s, S, {}, c, x, y, M[N][<<x, y>>])
  BY <1>5, <1>6
<1> QED
  BY <1>1, <1>7

-----------------------------------------------------------------------------
(* The queue.                                                              *)

\* The heap h with root r holds the processes Q.
Heaped(h, s, r, Q) ==
  /\ r # NULL => h.parent[r] = NULL
  /\ \E c \in Ranks : Forest(h, s, Q, Opt(r), c)

LEMMA InitsNode ==
  ASSUME NEW h \in Links, NEW p \in Procs
  PROVE  /\ init_skew_heap(h, p) \in Links
         /\ init_skew_heap(h, p).left[p] = NULL /\ init_skew_heap(h, p).right[p] = NULL
         /\ init_skew_heap(h, p).parent[p] = NULL
         /\ \A q \in Procs \ {p} : /\ init_skew_heap(h, p).left[q] = h.left[q]
                                   /\ init_skew_heap(h, p).right[q] = h.right[q]
                                   /\ init_skew_heap(h, p).parent[q] = h.parent[q]
<1>1. /\ h.left \in [Procs -> Node] /\ h.right \in [Procs -> Node] /\ h.parent \in [Procs -> Node]
      /\ NULL \in Node
  BY DEF Links, Node
<1>2. /\ [h.left EXCEPT ![p] = NULL] \in [Procs -> Node]
      /\ [h.right EXCEPT ![p] = NULL] \in [Procs -> Node]
      /\ [h.parent EXCEPT ![p] = NULL] \in [Procs -> Node]
  BY <1>1
<1>3. init_skew_heap(h, p) \in Links
  BY <1>2 DEF init_skew_heap, Links
<1> QED
  BY <1>1, <1>3 DEF init_skew_heap

LEMMA Adds ==
  ASSUME NEW h \in Links, NEW s \in Strides, NEW Q \in SUBSET Procs, NEW r \in Node, NEW p \in Procs,
         Heaped(h, s, r, Q), p \notin Q
  PROVE  LET a == add_skew_heap(h, s, r, p)
         IN a.heap \in Links /\ a.root \in Procs /\ Heaped(a.heap, s, a.root, Q \cup {p})
<1> DEFINE k == init_skew_heap(h, p)
           a == add_skew_heap(h, s, r, p)
           A == Q \cup {p}
<1>0. NULL \notin Procs /\ r # p /\ (r # NULL => r \in Q)
  BY StrideAssumption DEF Heaped, Forest, Opt
<1>1. PICK c \in Ranks : Forest(h, s, Q, Opt(r), c)
  BY DEF Heaped
<1>2. /\ k \in Links /\ k.left[p] = NULL /\ k.right[p] = NULL /\ k.parent[p] = NULL
      /\ \A q \in Procs \ {p} : k.left[q] = h.left[q] /\ k.right[q] = h.right[q] /\ k.parent[q] = h.parent[q]
  BY InitsNode
<1> HIDE DEF k
<1>3. Forest(k, s, Q, Opt(r), c)
  BY <1>1, <1>2, SameForest
<1>4. Forest(k, s, A, {} \cup Opt(r) \cup Opt(p), c)
  <2>1. {} \cup Opt(r) \cup Opt(p) = Opt(r) \cup {p}
    BY <1>0 DEF Opt
  <2>2. Opt(r) \cup {p} \subseteq A
    BY <1>0 DEF Opt
  <2>3. ASSUME NEW q \in A, NEW u \in Node, Kid(k, q, u)
        PROVE  /\ u \in A /\ u \notin Opt(r) \cup {p} /\ k.parent[u] = q /\ c[u] < c[q]
               /\ Gap(s[u], s[q]) <= Half
    <3>1. q # p
      BY <1>2, <2>3 DEF Kid
    <3>2. /\ u \in Q /\ u \notin Opt(r) /\ k.parent[u] = q /\ c[u] < c[q]
          /\ Gap(s[u], s[q]) <= Half
      BY <1>3, <2>3, <3>1 DEF Forest
    <3> QED
      BY <3>2
  <2>4. \A q \in A : k.left[q] = k.right[q] => k.left[q] = NULL
    BY <1>2, <1>3 DEF Forest
  <2>5. \A q \in A : q \notin Opt(r) \cup {p} => k.parent[q] \in A /\ Kid(k, k.parent[q], q)
    BY <1>3 DEF Forest
  <2>6. Forest(k, s, A, Opt(r) \cup {p}, c)
    BY <2>2, <2>3, <2>4, <2>5 DEF Forest
  <2> QED
    BY <2>1, <2>6
<1>5. p \in Node /\ Apart(k, s, A, {}, c, r, p)
  BY <1>0, <1>4 DEF Apart, Node
<1>6. a = merge_skew_heap(k, s, r, p)
  BY DEF add_skew_heap, k
<1>7. Joined(k, s, A, {}, c, r, p, a)
  BY <1>2, <1>5, <1>6, Merges
<1> HIDE DEF a, A
<1>8. a.heap \in Links /\ a.root \in {r, p} /\ a.root # NULL /\ a.heap.parent[a.root] = k.parent[a.root]
  BY <1>0, <1>7 DEF Joined
<1>9. a.heap.parent[a.root] = NULL
  BY <1>0, <1>2, <1>8 DEF Heaped, Node
<1>10. \E d \in Ranks : Forest(a.heap, s, A, Opt(a.root), d)
  <2>1. {} \cup Opt(a.root) = Opt(a.root)
    OBVIOUS
  <2> QED
    BY <1>7, <2>1 DEF Joined
<1>11. Heaped(a.heap, s, a.root, A)
  BY <1>9, <1>10 DEF Heaped
<1>12. a.root \in Procs
  BY <1>8 DEF Node
<1> QED
  BY <1>8, <1>11, <1>12 DEF a, A

LEMMA Removes ==
  ASSUME NEW h \in Links, NEW s \in Strides, NEW t \in Strides, NEW Q \in SUBSET Procs, NEW r \in Q,
         Heaped(h, s, r, Q), \A q \in Q \ {r} : t[q] = s[q]
  PROVE  LET d == del_skew_heap(h, t, r, r)
         IN /\ d.root \in Node /\ init_skew_heap(d.heap, r) \in Links
            /\ Heaped(init_skew_heap(d.heap, r), t, d.root, Q \ {r})
<1> DEFINE A == Q \ {r}
           x == h.left[r]
           y == h.right[r]
           m == merge_skew_heap(h, t, x, y)
           n == IF m.root = NULL THEN m.heap
                ELSE [left   |-> m.heap.left, right |-> m.heap.right,
                      parent |-> [m.heap.parent EXCEPT ![m.root] = NULL]]
           k == init_skew_heap(n, r)
<1>0. NULL \notin Procs /\ r # NULL /\ r \in Procs /\ x \in Node /\ y \in Node
  BY StrideAssumption DEF Links
<1>1. PICK c \in Ranks : Forest(h, s, Q, {r}, c)
  <2>1. Opt(r) = {r}
    BY <1>0 DEF Opt
  <2> QED
    BY <2>1 DEF Heaped
<1>2. /\ x = y => x = NULL
      /\ x # NULL => x \in A /\ h.parent[x] = r
      /\ y # NULL => y \in A /\ h.parent[y] = r
  BY <1>0, <1>1 DEF Forest, Kid
<1>3. Apart(h, t, A, {}, c, x, y)
  <2> DEFINE V == {} \cup Opt(x) \cup Opt(y)
  <2>1. V \subseteq A
    BY <1>2 DEF Opt
  <2>2. ASSUME NEW p \in A, NEW q \in Node, Kid(h, p, q)
        PROVE  /\ q \in A /\ q \notin V /\ h.parent[q] = p /\ c[q] < c[p]
               /\ Gap(t[q], t[p]) <= Half
    <3>1. /\ q \in A /\ h.parent[q] = p /\ c[q] < c[p]
          /\ Gap(s[q], s[p]) <= Half
      BY <1>1, <2>2 DEF Forest
    <3>2. q # x /\ q # y
      BY <1>2, <2>2, <3>1 DEF Kid
    <3> QED
      BY <3>1, <3>2 DEF Opt
  <2>3. \A p \in A : h.left[p] = h.right[p] => h.left[p] = NULL
    BY <1>1 DEF Forest
  <2>4. ASSUME NEW q \in A, q \notin V PROVE h.parent[q] \in A /\ Kid(h, h.parent[q], q)
    <3>1. h.parent[q] \in Q /\ Kid(h, h.parent[q], q)
      BY <1>1 DEF Forest
    <3>2. h.parent[q] # r
      BY <2>4, <3>1 DEF Kid, Opt
    <3> QED
      BY <3>1, <3>2
  <2> HIDE DEF V
  <2>5. Forest(h, t, A, V, c)
    BY <2>1, <2>2, <2>3, <2>4 DEF Forest
  <2> QED
    BY <1>0, <1>2, <2>5 DEF Apart, V
<1>4. Joined(h, t, A, {}, c, x, y, m)
  BY <1>0, <1>3, Merges
<1> HIDE DEF m
<1>5. /\ m.heap \in Links /\ m.root \in {x, y} /\ m.root \in Node
      /\ m.root # NULL => m.root \in A /\ m.root \in Procs
  BY <1>0, <1>2, <1>4 DEF Joined
<1>6. PICK d \in Ranks : Forest(m.heap, t, A, Opt(m.root), d)
  <2>1. {} \cup Opt(m.root) = Opt(m.root)
    OBVIOUS
  <2> QED
    BY <1>4, <2>1 DEF Joined
<1>7. /\ n \in Links
      /\ \A q \in Procs : /\ n.left[q] = m.heap.left[q] /\ n.right[q] = m.heap.right[q]
                          /\ q # m.root => n.parent[q] = m.heap.parent[q]
      /\ m.root # NULL => n.parent[m.root] = NULL
  <2>1. CASE m.root = NULL
    BY <1>5, <2>1
  <2>2. CASE m.root # NULL
    <3>1. /\ m.heap.left \in [Procs -> Node] /\ m.heap.right \in [Procs -> Node]
          /\ m.heap.parent \in [Procs -> Node] /\ NULL \in Node
      BY <1>5 DEF Links, Node
    <3> DEFINE f == [m.heap.parent EXCEPT ![m.root] = NULL]
    <3>2. f \in [Procs -> Node] /\ f[m.root] = NULL /\ \A q \in Procs : q # m.root => f[q] = m.heap.parent[q]
      BY <1>5, <2>2, <3>1
    <3> HIDE DEF f
    <3>3. n = [left |-> m.heap.left, right |-> m.heap.right, parent |-> f]
      BY <2>2 DEF f
    <3> QED
      BY <3>1, <3>2, <3>3 DEF Links
  <2> QED
    BY <2>1, <2>2
<1> HIDE DEF n
<1>8. /\ k \in Links
      /\ \A q \in Procs \ {r} : k.left[q] = n.left[q] /\ k.right[q] = n.right[q] /\ k.parent[q] = n.parent[q]
  BY <1>0, <1>7, InitsNode
<1> HIDE DEF k
<1>9. Forest(k, t, A, Opt(m.root), d)
  <2>1. A \in SUBSET Procs
    OBVIOUS
  <2>2. \A p \in A : /\ k.left[p] = m.heap.left[p] /\ k.right[p] = m.heap.right[p]
                     /\ p \notin Opt(m.root) => k.parent[p] = m.heap.parent[p]
                     /\ t[p] = t[p]
    BY <1>0, <1>7, <1>8 DEF Opt
  <2> HIDE DEF A
  <2> QED
    BY <1>6, <2>1, <2>2, SameForest
<1>10. m.root # NULL => k.parent[m.root] = NULL
  BY <1>5, <1>7, <1>8
<1>11. Heaped(k, t, m.root, A)
  BY <1>9, <1>10 DEF Heaped
<1>12. del_skew_heap(h, t, r, r) = [heap |-> n, root |-> m.root]
  <2>1. h.parent[r] = NULL
    BY <1>0 DEF Heaped
  <2>2. [m.heap EXCEPT !.parent[m.root] = NULL]
          = [left   |-> m.heap.left, right |-> m.heap.right,
             parent |-> [m.heap.parent EXCEPT ![m.root] = NULL]]
    BY <1>5 DEF Links
  <2>3. n = IF m.root = NULL THEN m.heap ELSE [m.heap EXCEPT !.parent[m.root] = NULL]
    BY <2>2 DEF n
  <2> QED
    BY <2>1, <2>3 DEF del_skew_heap, m
<1> QED
  BY <1>5, <1>8, <1>11, <1>12 DEF k

\* The root is least, if the comparison can tell.
LEMMA RootLeast ==
  ASSUME NEW h \in Links, NEW s \in Strides, NEW Q \in SUBSET Procs, NEW r \in Node, Heaped(h, s, r, Q),
         NEW q \in Q, \A p \in Q : Gap(s[p], s[q]) < Half
  PROVE  r \in Q /\ s[r] = s[q]
<1> DEFINE U == { p \in Q : s[p] = s[q] }
<1>1. PICK c \in Ranks : Forest(h, s, Q, Opt(r), c)
  BY DEF Heaped
<1>2. SUFFICES ASSUME r \notin U PROVE FALSE
  OBVIOUS
<1>3. U \in SUBSET Q /\ U # {} /\ U \cap Opt(r) = {}
  BY <1>2 DEF Opt
<1>4. PICK p \in U : h.parent[p] \in Q \ U /\ Kid(h, h.parent[p], p)
  <2> HIDE DEF U
  <2> QED
    BY <1>1, <1>3, Climb
<1> DEFINE o == h.parent[p]
<1>5. o \in Q /\ s[o] # s[q] /\ s[p] = s[q] /\ Kid(h, o, p)
  BY <1>4
<1>6. Gap(s[q], s[o]) <= Half
  <2>1. p \in Node
    BY <1>4 DEF Node
  <2>2. Gap(s[p], s[o]) <= Half
    BY <1>1, <1>5, <2>1 DEF Forest
  <2> QED
    BY <1>5, <2>2
<1>7. Gap(s[o], s[q]) < Half
  BY <1>5
<1>8. s[o] \in 0 .. Modulus - 1 /\ s[q] \in 0 .. Modulus - 1
  BY <1>5 DEF Strides
<1> QED
  BY <1>5, <1>6, <1>7, <1>8, GapsOf

-----------------------------------------------------------------------------
(* The invariant.                                                          *)

SchedInv ==
  /\ STypeOK
  /\ \A p \in Procs : where[p] = "cpu" <=> p = curr
  /\ Heaped(heap, stride, root, Queued)

LEMMA SchedInit == SInit => SchedInv
<1> SUFFICES ASSUME SInit PROVE SchedInv
  OBVIOUS
<1>0. NULL \in Node /\ NULL \notin Procs /\ 0 \in 0 .. Modulus - 1
  BY StrideAssumption, HalfIs DEF Node
<1>1. STypeOK
  <2>1. [p \in Procs |-> NULL] \in [Procs -> Node]
    BY <1>0
  <2>2. heap \in Links
    BY <2>1, Zenon DEF SInit, Links
  <2>3. /\ [p \in Procs |-> 0] \in [Procs -> 0 .. Modulus - 1]
        /\ [p \in Procs |-> 1] \in [Procs -> Nat \ {0}]
        /\ [p \in Procs |-> "new"] \in [Procs -> {"new", "queue", "cpu", "asleep"}]
    BY <1>0
  <2> QED
    BY <1>0, <2>2, <2>3, Zenon DEF SInit, STypeOK
<1>2. \A p \in Procs : where[p] = "cpu" <=> p = curr
  BY <1>0 DEF SInit
<1>3. Heaped(heap, stride, root, Queued)
  <2>1. Queued = {} /\ root = NULL /\ Opt(NULL) = {}
    BY DEF SInit, Queued, Opt
  <2>2. [p \in Procs |-> 1] \in Ranks
    BY DEF Ranks
  <2>3. \A c \in Ranks : Forest(heap, stride, {}, {}, c)
    BY DEF Forest
  <2> QED
    BY <2>1, <2>2, <2>3 DEF Heaped
<1> QED
  BY <1>1, <1>2, <1>3 DEF SchedInv

LEMMA TypesIn == ASSUME SchedInv
                 PROVE  /\ heap \in Links /\ stride \in Strides /\ root \in Node /\ Queued \in SUBSET Procs
                        /\ curr \in Node /\ NULL \notin Procs
                        /\ curr # NULL => curr \in Procs \ Queued
<1>1. /\ heap \in Links /\ stride \in Strides /\ root \in Node /\ Queued \in SUBSET Procs
      /\ curr \in Node /\ NULL \notin Procs
  BY StrideAssumption DEF SchedInv, STypeOK, Strides, Queued
<1>2. curr # NULL => curr \in Procs \ Queued
  BY <1>1 DEF SchedInv, Queued, Node
<1> QED
  BY <1>1, <1>2

LEMMA EnqueueStep ==
  ASSUME SchedInv, NEW p \in Procs, where[p] \in {"new", "asleep"}, where' = [where EXCEPT ![p] = "queue"],
         Enqueue(p), UNCHANGED <<stride, priority, curr, wrapped>>
  PROVE  SchedInv'
<1>1. p \notin Queued
  BY DEF Queued
<1>2. heap' \in Links /\ root' \in Procs /\ Heaped(heap', stride, root', Queued \cup {p})
  <2>1. heap \in Links /\ stride \in Strides /\ Queued \in SUBSET Procs /\ root \in Node
        /\ Heaped(heap, stride, root, Queued)
    BY TypesIn DEF SchedInv
  <2> DEFINE a == add_skew_heap(heap, stride, root, p)
  <2>2. a.heap \in Links /\ a.root \in Procs /\ Heaped(a.heap, stride, a.root, Queued \cup {p})
    BY <1>1, <2>1, Adds
  <2>3. heap' = a.heap /\ root' = a.root
    BY DEF Enqueue
  <2> QED
    BY <2>2, <2>3
<1>3. Queued' = Queued \cup {p} /\ where' \in [Procs -> {"new", "queue", "cpu", "asleep"}]
  BY DEF Queued, SchedInv, STypeOK
<1>4. STypeOK'
  BY <1>2, <1>3 DEF SchedInv, STypeOK, Node
<1>5. \A q \in Procs : where'[q] = "cpu" <=> q = curr'
  BY DEF SchedInv, STypeOK
<1>6. Heaped(heap, stride, root, Queued)'
  BY <1>2, <1>3
<1> QED
  BY <1>4, <1>5, <1>6 DEF SchedInv

\* The processes schedule() can take, and the heap it takes one from.
Ready(blocks) == Queued \cup (IF curr = NULL \/ blocks THEN {} ELSE {curr})
Requeued(blocks) == IF curr = NULL \/ blocks THEN [heap |-> heap, root |-> root]
                    ELSE add_skew_heap(heap, stride, root, curr)

LEMMA ReadyIs ==
  ASSUME SchedInv, NEW blocks \in BOOLEAN
  PROVE  /\ Ready(blocks) \in SUBSET Procs
         /\ Requeued(blocks).heap \in Links /\ Requeued(blocks).root \in Node
         /\ Heaped(Requeued(blocks).heap, stride, Requeued(blocks).root, Ready(blocks))
         /\ Requeued(blocks).root # NULL => Requeued(blocks).root \in Ready(blocks)
         /\ Requeued(blocks).root = NULL => /\ Ready(blocks) = {} /\ (curr = NULL \/ blocks)
                                            /\ Requeued(blocks).heap = heap /\ root = NULL
<1> DEFINE o == Requeued(blocks)
           Q == Ready(blocks)
<1>1. CASE curr = NULL \/ blocks
  <2>1. o.heap = heap /\ o.root = root /\ Q = Queued
    BY <1>1 DEF Requeued, Ready
  <2>2. Heaped(heap, stride, root, Queued)
    BY DEF SchedInv
  <2> HIDE DEF o, Q
  <2>3. root = NULL => Queued = {}
    <3>1. Opt(NULL) = {}
      BY DEF Opt
    <3> QED
      BY <2>2, <3>1, NoRoot, TypesIn DEF Heaped
  <2>4. root # NULL => root \in Queued
    BY <2>2 DEF Heaped, Forest, Opt
  <2> QED
    BY <1>1, <2>1, <2>2, <2>3, <2>4, TypesIn DEF o, Q
<1>2. CASE curr # NULL /\ ~blocks
  <2>1. o = add_skew_heap(heap, stride, root, curr) /\ Q = Queued \cup {curr}
    BY <1>2 DEF Requeued, Ready
  <2>2. curr \in Procs /\ curr \notin Queued /\ NULL \notin Procs
    BY <1>2, TypesIn
  <2> HIDE DEF o, Q
  <2>3. o.heap \in Links /\ o.root \in Procs /\ Heaped(o.heap, stride, o.root, Q)
    BY <2>1, <2>2, TypesIn, Adds DEF SchedInv
  <2>4. o.root \in Q
    BY <2>2, <2>3 DEF Heaped, Forest, Opt
  <2> QED
    BY <2>1, <2>2, <2>3, <2>4, TypesIn DEF o, Q, Node
<1> QED
  BY <1>1, <1>2

LEMMA PaidIs == ASSUME SchedInv, NEW p \in Procs PROVE Paid(p) \in 0 .. Modulus - 1
<1>1. stride[p] \in Nat /\ priority[p] \in Nat \ {0} /\ BIG_STRIDE \in Nat /\ Modulus \in Nat \ {0}
  BY HalfIs DEF SchedInv, STypeOK
<1>2. Pass(p) \in Nat
  BY <1>1 DEF Pass
<1> QED
  BY <1>1, <1>2 DEF Paid

LEMMA ScheduleStep ==
  ASSUME SchedInv, NEW blocks \in BOOLEAN, Schedule(blocks)
  PROVE  SchedInv'
<1> DEFINE o == Requeued(blocks)
           Q == Ready(blocks)
           n == o.root
           after == IF curr = NULL THEN where
                    ELSE [where EXCEPT ![curr] = IF blocks THEN "asleep" ELSE "queue"]
           paid == [stride EXCEPT ![n] = Paid(n)]
           rest == del_skew_heap(o.heap, paid, n, n)
<1>1. /\ curr' = n /\ priority' = priority
      /\ n = NULL => where' = after /\ UNCHANGED <<stride, heap, root, wrapped>>
      /\ n # NULL => /\ where' = [after EXCEPT ![n] = "cpu"]
                     /\ stride' = paid /\ heap' = init_skew_heap(rest.heap, n) /\ root' = rest.root
                     /\ wrapped' = (wrapped \/ stride[n] + Pass(n) >= Modulus)
  BY DEF Schedule, Requeued
<1>2. /\ Q \in SUBSET Procs /\ o.heap \in Links /\ n \in Node /\ Heaped(o.heap, stride, n, Q)
      /\ n # NULL => n \in Q
      /\ n = NULL => Q = {}
  BY ReadyIs
<1>3. /\ after \in [Procs -> {"new", "queue", "cpu", "asleep"}]
      /\ \A p \in Procs : after[p] = "queue" <=> p \in Q
      /\ \A p \in Procs : after[p] # "cpu"
  <2>1. where \in [Procs -> {"new", "queue", "cpu", "asleep"}]
    BY DEF SchedInv, STypeOK
  <2>2. \A p \in Procs : where[p] = "cpu" <=> p = curr
    BY DEF SchedInv
  <2>3. \A p \in Procs : where[p] = "queue" <=> p \in Queued
    BY DEF Queued
  <2>4. CASE curr = NULL
    BY <2>1, <2>2, <2>3, <2>4, TypesIn DEF Ready
  <2>5. CASE curr # NULL
    <3>1. curr \in Procs /\ curr \notin Queued
      BY <2>5, TypesIn
    <3>2. after = [where EXCEPT ![curr] = IF blocks THEN "asleep" ELSE "queue"]
      BY <2>5
    <3>3. \A p \in Procs : after[p] = IF p = curr THEN (IF blocks THEN "asleep" ELSE "queue") ELSE where[p]
      BY <2>1, <3>2
    <3>4. after \in [Procs -> {"new", "queue", "cpu", "asleep"}]
      BY <2>1, <3>2
    <3>5. Q = IF blocks THEN Queued ELSE Queued \cup {curr}
      BY <2>5 DEF Ready
    <3> HIDE DEF after, Q
    <3> QED
      BY <2>2, <2>3, <3>1, <3>3, <3>4, <3>5
  <2> QED
    BY <2>4, <2>5
<1> HIDE DEF o, Q, after, rest
<1>4. CASE n = NULL
  <2>1. Queued' = Queued /\ Queued = {}
    <3>1. Queued' = {}
      BY <1>1, <1>2, <1>3, <1>4 DEF Queued
    <3>2. Queued \subseteq Q
      BY DEF Q, Ready
    <3> QED
      BY <1>2, <1>4, <3>1, <3>2
  <2>2. STypeOK'
    BY <1>1, <1>2, <1>3, <1>4 DEF SchedInv, STypeOK
  <2>3. \A p \in Procs : where'[p] = "cpu" <=> p = curr'
    BY <1>1, <1>3, <1>4, TypesIn
  <2>4. Heaped(heap, stride, root, Queued)'
    BY <1>1, <1>4, <2>1 DEF SchedInv
  <2> QED
    BY <2>2, <2>3, <2>4 DEF SchedInv
<1>5. CASE n # NULL
  <2>1. n \in Procs /\ n \in Q
    BY <1>2, <1>5
  <2>2. paid \in Strides /\ \A p \in Q \ {n} : paid[p] = stride[p]
    <3>1. stride \in [Procs -> 0 .. Modulus - 1] /\ Paid(n) \in 0 .. Modulus - 1
      BY <2>1, TypesIn, PaidIs DEF Strides
    <3> QED
      BY <1>2, <2>1, <3>1 DEF Strides
  <2> HIDE DEF paid
  <2>3. /\ rest.root \in Node /\ init_skew_heap(rest.heap, n) \in Links
        /\ Heaped(init_skew_heap(rest.heap, n), paid, rest.root, Q \ {n})
    <3> HIDE DEF n
    <3> QED
      BY <1>2, <2>1, <2>2, TypesIn, Removes DEF rest
  <2>4. where' = [after EXCEPT ![n] = "cpu"]
    BY <1>1, <1>5
  <2>5. \A p \in Procs : where'[p] = IF p = n THEN "cpu" ELSE after[p]
    BY <1>3, <2>4
  <2>6. Queued' = Q \ {n}
    BY <1>2, <1>3, <2>5 DEF Queued
  <2>7. stride' \in [Procs -> 0 .. Modulus - 1] /\ heap' \in Links /\ root' \in Node /\ curr' \in Node
    BY <1>1, <1>2, <1>5, <2>2, <2>3 DEF Strides
  <2>8. wrapped' \in BOOLEAN
    BY <1>1, <1>5 DEF SchedInv, STypeOK
  <2>9. STypeOK'
    <3>1. where' \in [Procs -> {"new", "queue", "cpu", "asleep"}]
      BY <1>3, <2>4
    <3> QED
      BY <1>1, <2>7, <2>8, <3>1 DEF SchedInv, STypeOK
  <2>10. \A p \in Procs : where'[p] = "cpu" <=> p = curr'
    BY <1>1, <1>3, <2>5
  <2>11. Heaped(heap, stride, root, Queued)'
    BY <1>1, <1>5, <2>3, <2>6
  <2> QED
    BY <2>9, <2>10, <2>11 DEF SchedInv
<1> QED
  BY <1>4, <1>5

LEMMA SchedNext == SchedInv /\ [SNext]_svars => SchedInv'
<1> SUFFICES ASSUME SchedInv, [SNext]_svars PROVE SchedInv'
  OBVIOUS
<1>1. ASSUME NEW p \in Procs, Fork(p) PROVE SchedInv'
  BY <1>1, EnqueueStep DEF Fork
<1>2. ASSUME NEW p \in Procs, Wakeup(p) PROVE SchedInv'
  BY <1>2, EnqueueStep DEF Wakeup
<1>3. ASSUME NEW n \in Priorities, SetPriority(n) PROVE SchedInv'
  <2>1. n \in Nat /\ UNCHANGED <<stride, heap, root, curr, where, wrapped>>
        /\ priority' = [priority EXCEPT ![curr] = IF n = 0 THEN 1 ELSE n]
    BY <1>3, StrideAssumption DEF SetPriority
  <2>2. priority' \in [Procs -> Nat \ {0}]
    <3>1. priority \in [Procs -> Nat \ {0}] /\ (IF n = 0 THEN 1 ELSE n) \in Nat \ {0}
      BY <2>1 DEF SchedInv, STypeOK
    <3> QED
      BY <2>1, <3>1
  <2>3. Queued' = Queued
    BY <2>1 DEF Queued
  <2>4. STypeOK'
    BY <2>1, <2>2 DEF SchedInv, STypeOK
  <2> QED
    BY <2>1, <2>3, <2>4 DEF SchedInv
<1>4. ASSUME NEW blocks \in BOOLEAN, Schedule(blocks) PROVE SchedInv'
  BY <1>4, ScheduleStep
<1>5. CASE UNCHANGED svars
  <2>1. Queued' = Queued
    BY <1>5 DEF Queued, svars
  <2> QED
    BY <1>5, <2>1 DEF SchedInv, STypeOK, svars
<1> QED
  BY <1>1, <1>2, <1>3, <1>4, <1>5 DEF SNext

LEMMA SchedAlways == SSpec => []SchedInv
BY SchedInit, SchedNext, PTL DEF SSpec

\* What is met from the root along left and right is the queue.
LEMMA Reached ==
  ASSUME SchedInv, NEW R, Rounds(Cardinality(Procs), R, 2, Opt(root), heap, stride)
  PROVE  R[Cardinality(Procs)] = Queued
<1> DEFINE N == Cardinality(Procs)
<1>0. N \in Nat /\ Queued \in SUBSET Procs /\ NULL \notin Procs
  BY ProcsSize, TypesIn
<1>1. PICK c \in Ranks : Forest(heap, stride, Queued, Opt(root), c)
  BY DEF SchedInv, Heaped
<1>2. R[0] = Opt(root) /\ \A k \in 0 .. N - 1 : R[k + 1] = R[k] \cup BelowIn(heap, R[k])
  <2>1. R[0] = Opt(root) /\ \A k \in 0 .. N - 1 : R[k + 1] = Round(2, R[k], heap, stride)
    BY <1>0, RoundsAt
  <2> QED
    BY <2>1 DEF Round
<1>3. \A V \in SUBSET Queued : BelowIn(heap, V) \in SUBSET Queued
  BY <1>0, <1>1 DEF BelowIn, Forest, Kid, Node
<1> HIDE DEF N
<1>4. CASE root = NULL
  <2> DEFINE K == { k \in 0 .. N : R[k] = {} }
  <2>1. Queued = {}
    <3>1. Opt(NULL) = {}
      BY DEF Opt
    <3> QED
      BY <1>0, <1>1, <1>4, <3>1, NoRoot
  <2>2. 0 \in K
    BY <1>0, <1>2, <1>4 DEF Opt
  <2>3. ASSUME NEW k \in K, k < N PROVE k + 1 \in K
    <3>1. k \in 0 .. N - 1 /\ k + 1 \in 0 .. N /\ R[k] = {}
      BY <1>0, <2>3
    <3>2. R[k + 1] = {}
      BY <1>2, <3>1 DEF BelowIn
    <3> QED
      BY <3>1, <3>2
  <2>4. N \in K
    <3>1. K \in SUBSET (0 .. N)
      OBVIOUS
    <3> HIDE DEF K
    <3> QED
      BY <1>0, <2>2, <2>3, <3>1, Upward
  <2> QED
    BY <2>1, <2>4 DEF N
<1>5. CASE root # NULL
  <2> DEFINE Closed(V) == BelowIn(heap, V) \subseteq V
             K == { k \in 0 .. N : /\ R[k] \in SUBSET Queued /\ root \in R[k]
                                   /\ Closed(R[k]) \/ Cardinality(R[k]) >= k + 1 }
  <2>1. R[0] = {root} /\ root \in Queued
    BY <1>1, <1>2, <1>5 DEF Opt, Forest
  <2>2. \A V \in SUBSET Procs : IsFiniteSet(V) /\ Cardinality(V) \in Nat /\ Cardinality(V) <= N
    BY StrideAssumption, FS_Subset, FS_CardinalityType DEF N
  <2>3. 0 \in K
    <3>1. Cardinality({root}) = 1
      BY FS_Singleton
    <3>2. Cardinality(R[0]) >= 0 + 1
      BY <2>1, <3>1
    <3> HIDE DEF Closed
    <3> QED
      BY <1>0, <2>1, <3>2
  <2>4. ASSUME NEW k \in K, k < N PROVE k + 1 \in K
    <3>1. k \in Nat /\ k \in 0 .. N - 1 /\ k + 1 \in 0 .. N /\ R[k] \in SUBSET Queued /\ root \in R[k]
      BY <1>0, <2>4
    <3>2. Closed(R[k]) \/ Cardinality(R[k]) >= k + 1
      BY <2>4
    <3>3. R[k + 1] = R[k] \cup BelowIn(heap, R[k])
      BY <1>2, <3>1
    <3>4. R[k + 1] \in SUBSET Queued /\ root \in R[k + 1]
      BY <1>3, <3>1, <3>3
    <3>5. CASE Closed(R[k])
      <4>1. R[k + 1] = R[k]
        BY <3>3, <3>5
      <4>2. Closed(R[k + 1])
        BY <3>5, <4>1
      <4> HIDE DEF Closed
      <4> QED
        BY <3>1, <3>4, <4>2
    <3>6. CASE ~Closed(R[k])
      <4>1. Cardinality(R[k]) >= k + 1
        BY <3>2, <3>6
      <4>2. R[k] \subseteq R[k + 1] /\ R[k] # R[k + 1]
        BY <3>3, <3>6
      <4>3. Cardinality(R[k]) \in Nat /\ Cardinality(R[k + 1]) \in Nat
        BY <1>0, <2>2, <3>1, <3>4
      <4>4. Cardinality(R[k]) < Cardinality(R[k + 1])
        <5>1. IsFiniteSet(R[k + 1])
          BY <1>0, <2>2, <3>4
        <5>2. Cardinality(R[k]) <= Cardinality(R[k + 1]) /\ Cardinality(R[k + 1]) # Cardinality(R[k])
          BY <4>2, <5>1, FS_Subset
        <5> QED
          BY <4>3, <5>2
      <4>5. Cardinality(R[k + 1]) >= (k + 1) + 1
        BY <3>1, <4>1, <4>3, <4>4
      <4> HIDE DEF Closed
      <4> QED
        BY <3>1, <3>4, <4>5
    <3> QED
      BY <3>5, <3>6
  <2>5. N \in K
    <3>1. K \in SUBSET (0 .. N)
      OBVIOUS
    <3> HIDE DEF K
    <3> QED
      BY <1>0, <2>3, <2>4, <3>1, Upward
  <2>6. R[N] \in SUBSET Queued /\ root \in R[N] /\ Closed(R[N])
    <3>1. Cardinality(R[N]) \in Nat /\ Cardinality(R[N]) <= N
      BY <1>0, <2>2, <2>5
    <3> HIDE DEF Closed
    <3> QED
      BY <1>0, <2>5, <3>1
  <2> HIDE DEF K
  <2> DEFINE U == Queued \ R[N]
  <2>7. SUFFICES ASSUME U # {} PROVE FALSE
    BY <2>6 DEF N
  <2>8. U \in SUBSET Queued /\ U \cap Opt(root) = {}
    BY <2>6 DEF Opt
  <2>9. PICK p \in U : heap.parent[p] \in Queued \ U /\ Kid(heap, heap.parent[p], p)
    <3> HIDE DEF U
    <3> QED
      BY <1>0, <1>1, <2>7, <2>8, Climb
  <2>10. heap.parent[p] \in R[N] /\ p \in Procs
    BY <1>0, <2>9
  <2>11. p \in BelowIn(heap, R[N])
    BY <2>9, <2>10 DEF BelowIn, Kid
  <2> QED
    BY <2>6, <2>9, <2>11
<1> QED
  BY <1>4, <1>5

LEMMA InvHeapSound == SchedInv => HeapSound
<1> SUFFICES ASSUME SchedInv PROVE HeapSound
  OBVIOUS
<1> DEFINE N == Cardinality(Procs)
           L(R) == R = [k \in 0 .. N |-> IF k = 0 THEN {root} \ {NULL} ELSE R[k - 1] \cup Below(R[k - 1])]
<1>1. ASSUME NEW R PROVE L(R) <=> Rounds(N, R, 2, Opt(root), heap, stride)
  BY DEF Rounds, Round, Opt, Below, BelowIn
<1>2. \E R : L(R)
  <2> HIDE DEF L
  <2> QED
    BY <1>1, RoundsExist, ProcsSize
<1>3. L(CHOOSE R : L(R))
  <2> HIDE DEF L
  <2> QED
    BY <1>2
<1>4. (CHOOSE R : L(R))[N] = Queued
  <2> HIDE DEF L
  <2>1. Rounds(N, CHOOSE R : L(R), 2, Opt(root), heap, stride)
    BY <1>1, <1>3
  <2> QED
    BY <2>1, Reached
<1>5. PICK c \in Ranks : Forest(heap, stride, Queued, Opt(root), c)
  BY DEF SchedInv, Heaped
<1>6. root # NULL => heap.parent[root] = NULL
  BY DEF SchedInv, Heaped
<1>7. ASSUME NEW p \in Queued, NEW q \in {heap.left[p], heap.right[p]} \ {NULL} PROVE heap.parent[q] = p
  <2>1. q \in Node /\ Kid(heap, p, q)
    BY TypesIn DEF Kid, Links
  <2> QED
    BY <1>5, <2>1 DEF Forest
<1>8. \A p \in Queued : heap.left[p] = heap.right[p] => heap.left[p] = NULL
  BY <1>5 DEF Forest
<1> QED
  BY <1>4, <1>6, <1>7, <1>8 DEF HeapSound, SchedInv

\* The skew heap holds exactly the queued processes, and its parent pointers agree
\* with the children, through every merge of stride_enqueue and stride_dequeue.
THEOREM HeapSoundHolds == SSpec => []HeapSound
BY SchedAlways, InvHeapSound, PTL

LEMMA PicksStep ==
  ASSUME SchedInv, [SNext]_svars, NEW p \in Procs, stride'[p] # stride[p],
         NEW q \in Queued \cup { u \in Procs : u = curr /\ where'[u] # "asleep" },
         \A r \in Queued \cup { u \in Procs : u = curr /\ where'[u] # "asleep" } :
           Ahead(r, q) < Modulus \div 2
  PROVE  stride[p] = stride[q]
<1>1. PICK blocks \in BOOLEAN : Schedule(blocks)
  <2>1. stride' # stride
    OBVIOUS
  <2> QED
    BY <2>1 DEF SNext, svars, Fork, Wakeup, SetPriority
<1> DEFINE o == Requeued(blocks)
           n == o.root
           after == IF curr = NULL THEN where
                    ELSE [where EXCEPT ![curr] = IF blocks THEN "asleep" ELSE "queue"]
<1>2. /\ n # NULL /\ stride' = [stride EXCEPT ![n] = Paid(n)] /\ where' = [after EXCEPT ![n] = "cpu"]
      /\ blocks => curr \in Sleepers
  BY <1>1 DEF Schedule, Requeued
<1>3. stride \in [Procs -> 0 .. Modulus - 1] /\ where \in [Procs -> {"new", "queue", "cpu", "asleep"}]
  BY DEF SchedInv, STypeOK
<1>4. p = n
  BY <1>2, <1>3
<1>5. /\ Ready(blocks) \in SUBSET Procs /\ o.heap \in Links /\ n \in Node
      /\ Heaped(o.heap, stride, n, Ready(blocks)) /\ n \in Ready(blocks)
  BY <1>2, ReadyIs
<1>6. Queued \cup { u \in Procs : u = curr /\ where'[u] # "asleep" } = Ready(blocks)
  <2>1. CASE curr = NULL
    BY <2>1, TypesIn DEF Ready
  <2>2. CASE curr # NULL
    <3>1. curr \in Procs /\ curr \notin Queued
      BY <2>2, TypesIn
    <3>2. after[curr] = IF blocks THEN "asleep" ELSE "queue"
      BY <1>3, <2>2, <3>1
    <3>3. where'[curr] # "asleep" <=> ~blocks
      <4>1. curr \in DOMAIN after
        BY <1>3, <2>2, <3>1
      <4>2. where'[curr] = IF curr = n THEN "cpu" ELSE after[curr]
        <5> HIDE DEF after, n
        <5> QED
          BY <1>2, <4>1
      <4>3. blocks => curr # n
        BY <1>5, <3>1 DEF Ready
      <4> HIDE DEF after, n
      <4> QED
        BY <3>2, <4>2, <4>3
    <3> QED
      BY <2>2, <3>1, <3>3 DEF Ready
  <2> QED
    BY <2>1, <2>2
<1>7. \A r \in Ready(blocks) : Gap(stride[r], stride[q]) < Half
  BY <1>6 DEF Ahead, Gap, Half
<1>8. q \in Ready(blocks)
  BY <1>6
<1> HIDE DEF o, n
<1>9. stride[n] = stride[q]
  BY <1>5, <1>7, <1>8, RootLeast, TypesIn
<1> QED
  BY <1>4, <1>9

\* stride_pick_next takes a process of least stride wherever the sign of a difference
\* of wrapped strides can tell which is least.
THEOREM PicksLeastHolds == SSpec => PicksLeast
<1>1. SchedInv /\ [SNext]_svars =>
        [\A p \in Procs : stride'[p] # stride[p] =>
           LET ready == Queued \cup { q \in Procs : q = curr /\ where'[q] # "asleep" }
           IN \A q \in ready :
                (\A r \in ready : Ahead(r, q) < Modulus \div 2) => stride[p] = stride[q]]_svars
  BY PicksStep
<1> QED
  BY <1>1, SchedAlways, PTL DEF SSpec, PicksLeast

-----------------------------------------------------------------------------
(* Processes that are all there from the start and never block.            *)

LEMMA Quarter == /\ Modulus = 4 * BIG_STRIDE /\ Half = 2 * BIG_STRIDE
                 /\ BIG_STRIDE \in Nat \ {0} /\ Modulus \in Nat \ {0}
BY StrideAssumption DEF BIG_STRIDE, Half

LEMMA GapLess ==
  ASSUME NEW a \in 0 .. Modulus - 1, NEW b \in 0 .. Modulus - 1, NEW c \in 0 .. Modulus - 1,
         Gap(b, c) <= Gap(a, c)
  PROVE  Gap(a, b) = Gap(a, c) - Gap(b, c)
<1>1. /\ Gap(a, b) = IF b <= a THEN a - b ELSE a + Modulus - b
      /\ Gap(a, c) = IF c <= a THEN a - c ELSE a + Modulus - c
      /\ Gap(b, c) = IF c <= b THEN b - c ELSE b + Modulus - c
  BY GapIs
<1>2. Modulus \in Nat
  BY HalfIs
<1> QED
  BY <1>1, <1>2

\* What a process pays is at most one BIG_STRIDE.
LEMMA PassIs == ASSUME NEW p \in Procs, priority[p] \in Nat \ {0}
                PROVE  Pass(p) \in 0 .. BIG_STRIDE
<1> DEFINE k == priority[p]
           q == BIG_STRIDE \div k
<1>1. k \in Nat \ {0} /\ BIG_STRIDE \in Nat
  BY Quarter
<1> HIDE DEF k
<1>2. q \in Nat /\ k * q <= BIG_STRIDE
  BY <1>1
<1> HIDE DEF q
<1>3. k * q >= 1 * q
  BY <1>1, <1>2
<1>4. q \in 0 .. BIG_STRIDE
  BY <1>1, <1>2, <1>3
<1> QED
  BY <1>4 DEF Pass, q, k

LEMMA PaysPass ==
  ASSUME NEW a \in 0 .. Modulus - 1, NEW d \in 0 .. BIG_STRIDE, NEW u, u = a + d
  PROVE  u % Modulus \in 0 .. Modulus - 1 /\ Gap(u % Modulus, a) = d
<1> DEFINE x == u % Modulus
<1>1. u \in Nat /\ u < 2 * Modulus
  BY Quarter
<1>2. x = IF u < Modulus THEN u ELSE u - Modulus
  BY <1>1, ModIs
<1> HIDE DEF x
<1>3. x \in 0 .. Modulus - 1
  BY <1>1, <1>2, Quarter
<1>4. Gap(x, a) = IF a <= x THEN x - a ELSE x + Modulus - a
  BY <1>3, GapIs
<1>5. Gap(x, a) = d
  BY <1>1, <1>2, <1>3, <1>4, Quarter
<1> QED
  BY <1>3, <1>5 DEF x

\* Nobody is more than one BIG_STRIDE ahead of some stride z.
Within(s, z) == \A p \in Procs : Gap(s[p], z) <= BIG_STRIDE

\* If so, nobody is of the process that is least ahead of z.
LEMMA SomeoneLeast ==
  ASSUME NEW s \in Strides, NEW z \in 0 .. Modulus - 1, Within(s, z), Procs # {}
  PROVE  \E q \in Procs : Within(s, s[q])
<1> DEFINE S == { Gap(s[p], z) : p \in Procs }
<1>1. \A p \in Procs : s[p] \in 0 .. Modulus - 1 /\ Gap(s[p], z) \in 0 .. Modulus - 1
  BY GapsOf DEF Strides
<1>2. S \subseteq Nat /\ S # {}
  BY <1>1
<1>3. PICK g \in S : \A k \in S : g <= k
  <2> HIDE DEF S
  <2> QED
    BY <1>2, Least, Zenon
<1>4. PICK q \in Procs : g = Gap(s[q], z)
  BY <1>3
<1>5. ASSUME NEW p \in Procs PROVE Gap(s[p], s[q]) <= BIG_STRIDE
  <2>1. Gap(s[q], z) <= Gap(s[p], z)
    BY <1>3, <1>4
  <2>2. Gap(s[p], s[q]) = Gap(s[p], z) - Gap(s[q], z)
    BY <1>1, <2>1, GapLess
  <2>3. Gap(s[p], z) <= BIG_STRIDE /\ Gap(s[p], z) \in Nat /\ Gap(s[q], z) \in Nat
    BY <1>1 DEF Within
  <2> QED
    BY <2>2, <2>3, Quarter
<1> QED
  BY <1>5 DEF Within

\* Nobody sleeps, and nobody is more than one BIG_STRIDE ahead of some process.
SpreadInv ==
  /\ SchedInv
  /\ \A p \in Procs : where[p] # "asleep"
  /\ Procs # {} => \E q \in Procs : Within(stride, stride[q])

LEMMA SpreadInit == SInit => SpreadInv
<1> SUFFICES ASSUME SInit PROVE SpreadInv
  OBVIOUS
<1>1. SchedInv
  BY SchedInit
<1>2. \A p, q \in Procs : Gap(stride[p], stride[q]) <= BIG_STRIDE
  <2>1. 0 \in 0 .. Modulus - 1
    BY Quarter
  <2>2. Gap(0, 0) = 0
    BY <2>1, GapIs
  <2> QED
    BY <2>2, Quarter DEF SInit
<1>3. \A p \in Procs : where[p] # "asleep"
  BY DEF SInit
<1> QED
  BY <1>1, <1>2, <1>3 DEF SpreadInv, Within

\* schedule() takes a process of least stride, and that one pays.
LEMMA SpreadSchedule ==
  ASSUME First = Procs, Sleepers = {}, SpreadInv, NEW blocks \in BOOLEAN, Schedule(blocks)
  PROVE  /\ \A p \in Procs : where'[p] # "asleep"
         /\ Procs # {} => \E q \in Procs : Within(stride', stride'[q])
<1> DEFINE o == Requeued(blocks)
           n == o.root
           after == IF curr = NULL THEN where
                    ELSE [where EXCEPT ![curr] = IF blocks THEN "asleep" ELSE "queue"]
<1>0. SchedInv /\ ~blocks /\ \A p \in Procs : where[p] \notin {"new", "asleep"}
  BY DEF SpreadInv, Schedule
<1>1. /\ n = NULL => where' = after /\ UNCHANGED stride
      /\ n # NULL => /\ where' = [after EXCEPT ![n] = "cpu"]
                     /\ stride' = [stride EXCEPT ![n] = Paid(n)]
  BY DEF Schedule, Requeued
<1>2. /\ stride \in Strides /\ where \in [Procs -> {"new", "queue", "cpu", "asleep"}]
      /\ priority \in [Procs -> Nat \ {0}]
  BY <1>0 DEF SchedInv, STypeOK, Strides
<1>3. /\ Ready(blocks) = Procs /\ o.heap \in Links /\ n \in Node
      /\ Heaped(o.heap, stride, n, Ready(blocks))
      /\ n # NULL => n \in Procs
      /\ n = NULL => Procs = {}
  <2>1. \A p \in Procs : p \in Queued \/ (p = curr /\ curr # NULL)
    BY <1>0, <1>2, TypesIn DEF Queued, SchedInv
  <2>2. Ready(blocks) = Procs
    BY <1>0, <2>1, TypesIn DEF Ready
  <2> HIDE DEF o
  <2>3. /\ o.heap \in Links /\ n \in Node /\ Heaped(o.heap, stride, n, Ready(blocks))
        /\ n # NULL => n \in Ready(blocks)
        /\ n = NULL => Ready(blocks) = {}
    BY <1>0, ReadyIs DEF o
  <2> QED
    BY <2>2, <2>3
<1>4. \A p \in Procs : where'[p] # "asleep"
  <2>1. after \in [Procs -> {"new", "queue", "cpu", "asleep"}] /\ \A p \in Procs : after[p] # "asleep"
    BY <1>0, <1>2
  <2> HIDE DEF after, n
  <2> QED
    BY <1>1, <2>1
<1> HIDE DEF o, n
<1>5. ASSUME Procs # {} PROVE \E q \in Procs : Within(stride', stride'[q])
  <2>1. n \in Procs /\ stride' = [stride EXCEPT ![n] = Paid(n)]
    BY <1>1, <1>3, <1>5
  <2>2. PICK q \in Procs : Within(stride, stride[q])
    BY <1>5 DEF SpreadInv
  <2>3. stride[n] = stride[q]
    <3>1. \A p \in Ready(blocks) : Gap(stride[p], stride[q]) < Half
      <4>1. ASSUME NEW p \in Procs PROVE Gap(stride[p], stride[q]) < Half
        <5>1. Gap(stride[p], stride[q]) \in Nat /\ Gap(stride[p], stride[q]) <= BIG_STRIDE
          BY <1>2, <2>2, GapsOf DEF Within, Strides
        <5> QED
          BY <5>1, Quarter
      <4> QED
        BY <1>3, <4>1
    <3> DEFINE h == o.heap
               Q == Ready(blocks)
    <3>2. /\ h \in Links /\ n \in Node /\ Heaped(h, stride, n, Q) /\ Q \in SUBSET Procs /\ q \in Q
          /\ \A p \in Q : Gap(stride[p], stride[q]) < Half
      BY <1>3, <3>1
    <3> HIDE DEF h, Q
    <3> QED
      BY <1>2, <3>2, RootLeast
  <2>4. stride[n] \in 0 .. Modulus - 1 /\ Pass(n) \in 0 .. BIG_STRIDE
    BY <1>2, <2>1, PassIs DEF Strides
  <2>5. Paid(n) \in 0 .. Modulus - 1 /\ Gap(Paid(n), stride[n]) <= BIG_STRIDE
    <3> DEFINE a == stride[n]
               d == Pass(n)
               u == a + d
               x == u % Modulus
    <3>1. a \in 0 .. Modulus - 1 /\ d \in 0 .. BIG_STRIDE
      BY <2>4
    <3>2. u = a + d
      OBVIOUS
    <3> HIDE DEF a, d, u
    <3>3. x \in 0 .. Modulus - 1 /\ Gap(x, a) = d
      BY <3>1, <3>2, PaysPass
    <3> HIDE DEF x
    <3>4. Gap(x, a) <= BIG_STRIDE
      BY <3>1, <3>3, Quarter
    <3> QED
      BY <3>3, <3>4 DEF Paid, x, u, a, d
  <2>6. stride' \in Strides
    BY <1>2, <2>1, <2>5 DEF Strides
  <2>7. Within(stride', stride[n])
    BY <1>2, <2>1, <2>2, <2>3, <2>5 DEF Within, Strides
  <2> QED
    BY <1>5, <2>4, <2>6, <2>7, SomeoneLeast
<1> QED
  BY <1>4, <1>5

LEMMA SpreadNext ==
  ASSUME First = Procs, Sleepers = {}, SpreadInv, [SNext]_svars PROVE SpreadInv'
<1>1. SchedInv'
  BY SchedNext DEF SpreadInv
<1>2. SUFFICES /\ \A p \in Procs : where'[p] # "asleep"
               /\ Procs # {} => \E q \in Procs : Within(stride', stride'[q])
  BY <1>1 DEF SpreadInv
<1>3. ASSUME NEW blocks \in BOOLEAN, Schedule(blocks)
      PROVE  /\ \A p \in Procs : where'[p] # "asleep"
             /\ Procs # {} => \E q \in Procs : Within(stride', stride'[q])
  BY <1>3, SpreadSchedule
<1>4. ASSUME NEW p \in Procs, where' = [where EXCEPT ![p] = "queue"], stride' = stride
      PROVE  /\ \A q \in Procs : where'[q] # "asleep"
             /\ Procs # {} => \E q \in Procs : Within(stride', stride'[q])
  <2>1. where \in [Procs -> {"new", "queue", "cpu", "asleep"}]
    BY DEF SpreadInv, SchedInv, STypeOK
  <2> QED
    BY <1>4, <2>1 DEF SpreadInv
<1>5. CASE where' = where /\ stride' = stride
  BY <1>5 DEF SpreadInv
<1>6. (\E p \in Procs : Fork(p) \/ Wakeup(p)) =>
        \E p \in Procs : where' = [where EXCEPT ![p] = "queue"] /\ stride' = stride
  BY DEF Fork, Wakeup
<1>7. (\E k \in Priorities : SetPriority(k)) \/ UNCHANGED svars => where' = where /\ stride' = stride
  BY DEF SetPriority, svars
<1> QED
  BY <1>3, <1>4, <1>5, <1>6, <1>7 DEF SNext

LEMMA SpreadIs == ASSUME SpreadInv PROVE Spread
<1>1. SUFFICES ASSUME NEW p \in Procs, NEW r \in Procs
               PROVE  Ahead(p, r) <= BIG_STRIDE \/ Ahead(r, p) <= BIG_STRIDE
  BY DEF Spread
<1>2. PICK q \in Procs : Within(stride, stride[q])
  BY DEF SpreadInv
<1>3. stride \in [Procs -> 0 .. Modulus - 1]
  BY DEF SpreadInv, SchedInv, STypeOK
<1> DEFINE z == stride[q]
<1>4. /\ z \in 0 .. Modulus - 1 /\ stride[p] \in 0 .. Modulus - 1 /\ stride[r] \in 0 .. Modulus - 1
      /\ Gap(stride[p], z) <= BIG_STRIDE /\ Gap(stride[r], z) <= BIG_STRIDE
  BY <1>2, <1>3 DEF Within
<1> HIDE DEF z
<1>5. Gap(stride[p], z) \in Nat /\ Gap(stride[r], z) \in Nat
  <2>1. \A a \in 0 .. Modulus - 1 : Gap(a, z) \in 0 .. Modulus - 1
    BY <1>4, GapsOf
  <2> QED
    BY <1>4, <2>1
<1>6. CASE Gap(stride[r], z) <= Gap(stride[p], z)
  <2>1. Gap(stride[p], stride[r]) = Gap(stride[p], z) - Gap(stride[r], z)
    BY <1>4, <1>6, GapLess
  <2> QED
    BY <1>4, <1>5, <2>1, Quarter DEF Ahead, Gap
<1>7. CASE Gap(stride[p], z) <= Gap(stride[r], z)
  <2>1. Gap(stride[r], stride[p]) = Gap(stride[r], z) - Gap(stride[p], z)
    BY <1>4, <1>7, GapLess
  <2> QED
    BY <1>4, <1>5, <2>1, Quarter DEF Ahead, Gap
<1> QED
  BY <1>5, <1>6, <1>7

\* Of processes that are all there before the first schedule() and never block, none
\* is more than one BIG_STRIDE ahead of another, whatever priorities they set and
\* however often strides wrap: the comparison of stride_comp_fn orders them.
THEOREM SpreadHolds == ASSUME First = Procs, Sleepers = {} PROVE SSpec => []Spread
<1>1. SInit => SpreadInv
  BY SpreadInit
<1>2. SpreadInv /\ [SNext]_svars => SpreadInv'
  BY SpreadNext
<1>3. SpreadInv => Spread
  BY SpreadIs
<1> QED
  BY <1>1, <1>2, <1>3, PTL DEF SSpec
=============================================================================
