--------------------------- MODULE TestPhiProofs ---------------------------
(***************************************************************************)
(* The philosopher tests of kernel/sync/test_phi.c, for every number of    *)
(* philosophers and rounds.                                                *)
(***************************************************************************)
EXTENDS TestPhi, Integers, FiniteSetTheorems, TLAPS

-----------------------------------------------------------------------------
(* The table.                                                              *)

States == {"THINKING", "HUNGRY", "EATING"}

\* No two neighbours eat, in the states s.
Apart(s) == \A i \in Phi : s[i] = "EATING" => s[right(i)] # "EATING"

\* The invariant that keeps neighbours from eating: it needs no semaphore, for
\* nobody is made EATING but after a look at both neighbours.
TableInv == state \in [Phi -> States] /\ Apart(state)

\* Where the neighbours sit.
LEMMA Seats == ASSUME NEW i \in Phi
               PROVE  /\ left(i) \in Phi /\ right(i) \in Phi /\ right(i) # i
                      /\ left(i) # i /\ right(left(i)) = i /\ left(right(i)) = i
                      /\ \A k \in Phi : right(k) = i => k = left(i)
<1>1. NUM_PHI \in Nat /\ NUM_PHI > 1 /\ i \in Int /\ 0 <= i /\ i < NUM_PHI
  BY DinersAssumption DEF Phi
<1>m. \A b \in 0 .. 2 * NUM_PHI - 1 : b % NUM_PHI = IF b < NUM_PHI THEN b ELSE b - NUM_PHI
  <2>1. ASSUME NEW b \in 0 .. NUM_PHI - 1 PROVE b % NUM_PHI = b
    BY <1>1
  <2>2. ASSUME NEW b \in NUM_PHI .. 2 * NUM_PHI - 1 PROVE b % NUM_PHI = b - NUM_PHI
    BY <1>1
  <2> QED
    BY <1>1, <2>1, <2>2
<1>2. \A k \in Phi : left(k) = IF k = 0 THEN NUM_PHI - 1 ELSE k - 1
  <2> TAKE k \in Phi
  <2>1. k \in Int /\ 0 <= k /\ k < NUM_PHI /\ k + NUM_PHI - 1 \in 0 .. 2 * NUM_PHI - 1
    BY <1>1 DEF Phi
  <2> QED
    BY <1>1, <1>m, <2>1 DEF left
<1>3. \A k \in Phi : right(k) = IF k = NUM_PHI - 1 THEN 0 ELSE k + 1
  <2> TAKE k \in Phi
  <2>1. k \in Int /\ 0 <= k /\ k < NUM_PHI /\ k + 1 \in 0 .. 2 * NUM_PHI - 1
    BY <1>1 DEF Phi
  <2> QED
    BY <1>1, <1>m, <2>1 DEF right
<1> QED
  BY <1>1, <1>2, <1>3 DEF Phi

\* Who may eat does, and the neighbours do not.
LEMMA EatKeeps ==
  ASSUME NEW s \in [Phi -> States], Apart(s), NEW i \in Phi, CanEat(s, i)
  PROVE  /\ [s EXCEPT ![i] = "EATING"] \in [Phi -> States] /\ Apart([s EXCEPT ![i] = "EATING"])
<1> DEFINE t == [s EXCEPT ![i] = "EATING"]
<1>1. t \in [Phi -> States] /\ t[i] = "EATING" /\ \A k \in Phi : k # i => t[k] = s[k]
  BY DEF States
<1>2. right(i) \in Phi /\ right(i) # i /\ left(i) \in Phi
      /\ s[left(i)] # "EATING" /\ s[right(i)] # "EATING"
  BY Seats DEF CanEat
<1>3. ASSUME NEW k \in Phi, t[k] = "EATING" PROVE t[right(k)] # "EATING"
  <2>1. CASE k = i
    BY <1>1, <1>2, <2>1
  <2>2. CASE k # i
    <3>1. s[k] = "EATING" /\ s[right(k)] # "EATING" /\ right(k) \in Phi
      BY <1>1, <1>3, <2>2, Seats DEF Apart
    <3>2. right(k) # i
      <4> SUFFICES ASSUME right(k) = i PROVE FALSE
        OBVIOUS
      <4>1. k = left(i)
        BY Seats
      <4> QED
        BY <1>2, <3>1, <4>1
    <3> QED
      BY <1>1, <3>1, <3>2
  <2> QED
    BY <2>1, <2>2
<1> HIDE DEF t
<1>4. Apart(t)
  BY <1>3 DEF Apart
<1> QED
  BY <1>1, <1>4 DEF t

\* Whoever stops eating, or has not begun, is in nobody's way.
LEMMA RestKeeps ==
  ASSUME NEW s \in [Phi -> States], Apart(s), NEW i \in Phi, NEW x \in {"THINKING", "HUNGRY"}
  PROVE  [s EXCEPT ![i] = x] \in [Phi -> States] /\ Apart([s EXCEPT ![i] = x])
<1>1. right(i) \in Phi
  BY Seats
<1>2. \A k \in Phi : right(k) \in Phi
  BY Seats
<1> QED
  BY <1>1, <1>2 DEF Apart, States

\* phi_test_sem.
LEMMA PhiTestSemKeeps ==
  ASSUME NEW d, d.state \in [Phi -> States], Apart(d.state), NEW i \in Phi
  PROVE  /\ BySem!phi_test_sem(d, i).state \in [Phi -> States]
         /\ Apart(BySem!phi_test_sem(d, i).state)
<1>1. CASE CanEat(d.state, i)
  <2>1. BySem!phi_test_sem(d, i).state = [d.state EXCEPT ![i] = "EATING"]
    BY <1>1 DEF BySem!phi_test_sem, BySem!CanEat, CanEat, BySem!left, left, BySem!right, right
  <2> QED
    BY <1>1, <2>1, EatKeeps
<1>2. CASE ~CanEat(d.state, i)
  <2>1. BySem!phi_test_sem(d, i) = d
    BY <1>2 DEF BySem!phi_test_sem, BySem!CanEat, CanEat, BySem!left, left, BySem!right, right
  <2> QED
    BY <2>1
<1> QED
  BY <1>1, <1>2


\* The steps of test_phi_sem.
LEMMA SemTable == ASSUME TableInv, NEW i \in Phi, BySem!Step(i) PROVE TableInv'
<1> USE DEF TableInv
<1>1. CASE BySem!Sleep(i) \/ BySem!Enter(i)
  BY <1>1 DEF BySem!Sleep, BySem!Enter, Apart
<1>2. CASE BySem!TakeForks(i)
  <2> DEFINE s == [state EXCEPT ![i] = "HUNGRY"]
             d == [state |-> s, sem |-> sem]
  <2>1. state' = BySem!phi_test_sem(d, i).state
    BY <1>2 DEF BySem!TakeForks
  <2>2. d.state \in [Phi -> States] /\ Apart(d.state)
    BY RestKeeps
  <2> HIDE DEF d
  <2>3. state' \in [Phi -> States] /\ Apart(state')
    BY <2>1, <2>2, PhiTestSemKeeps
  <2> QED
    BY <2>3 DEF Apart
<1>3. CASE BySem!PutForks(i)
  <2> DEFINE s == [state EXCEPT ![i] = "THINKING"]
             d == [state |-> s, sem |-> sem]
             e == BySem!phi_test_sem(d, left(i))
  <2>1. state' = BySem!phi_test_sem(e, right(i)).state
    BY <1>3 DEF BySem!PutForks, BySem!TestNeighbours, BySem!left, left, BySem!right, right
  <2>2. d.state \in [Phi -> States] /\ Apart(d.state)
    BY RestKeeps
  <2>3. left(i) \in Phi /\ right(i) \in Phi
    BY Seats
  <2> HIDE DEF d
  <2>4. e.state \in [Phi -> States] /\ Apart(e.state)
    BY <2>2, <2>3, PhiTestSemKeeps
  <2> HIDE DEF e
  <2>5. state' \in [Phi -> States] /\ Apart(state')
    BY <2>1, <2>3, <2>4, PhiTestSemKeeps
  <2> QED
    BY <2>5 DEF Apart
<1> QED
  BY <1>1, <1>2, <1>3 DEF BySem!Step

\* phi_test_cond.
LEMMA PhiTestCondKeeps ==
  ASSUME NEW s \in [Phi -> States], Apart(s), NEW i, NEW j \in Phi, NEW after, NEW back,
         ByCond!PhiTestCond(i, j, s, after, back)
  PROVE  TableInv'
<1>1. CASE CanEat(s, j)
  <2>1. state' = [s EXCEPT ![j] = "EATING"]
    BY <1>1 DEF ByCond!PhiTestCond, ByCond!CanEat, CanEat, ByCond!left, left, ByCond!right, right
  <2>2. state' \in [Phi -> States] /\ Apart(state')
    BY <1>1, <2>1, EatKeeps
  <2> QED
    BY <2>2 DEF TableInv, Apart
<1>2. CASE ~CanEat(s, j)
  <2>1. state' = s
    BY <1>2 DEF ByCond!PhiTestCond, ByCond!CanEat, CanEat, ByCond!left, left, ByCond!right, right
  <2> QED
    BY <2>1 DEF TableInv, Apart
<1> QED
  BY <1>1, <1>2

\* The steps of test_phi_cond.
LEMMA CondTable == ASSUME TableInv, NEW i \in Phi, ByCond!Step(i) PROVE TableInv'
<1> USE DEF TableInv
<1>1. CASE \/ ByCond!Sleep(i) \/ ByCond!Enter(i) \/ ByCond!WaitCondReturns(i)
           \/ ByCond!SignalReturns(i) \/ ByCond!Leave(i)
  BY <1>1 DEF ByCond!Sleep, ByCond!Enter, ByCond!WaitCondReturns, ByCond!SignalReturns,
     ByCond!Leave, Apart
<1>2. CASE ByCond!TakeForks(i)
  <2> DEFINE s == [state EXCEPT ![i] = "HUNGRY"]
  <2>1. state' = [s EXCEPT ![i] = "EATING"] /\ CanEat(s, i)
    BY <1>2 DEF ByCond!TakeForks, ByCond!CanEat, CanEat, ByCond!left, left, ByCond!right, right
  <2>2. s \in [Phi -> States] /\ Apart(s)
    BY RestKeeps
  <2> HIDE DEF s
  <2>3. state' \in [Phi -> States] /\ Apart(state')
    BY <2>1, <2>2, EatKeeps
  <2> QED
    BY <2>3 DEF Apart
<1>3. CASE ByCond!WaitCond(i)
  <2>1. state' = [state EXCEPT ![i] = "HUNGRY"]
    BY <1>3 DEF ByCond!WaitCond
  <2>2. state' \in [Phi -> States] /\ Apart(state')
    BY <2>1, RestKeeps
  <2> QED
    BY <2>2 DEF Apart
<1>4. CASE ByCond!TestLeft(i)
  <2> DEFINE s == [state EXCEPT ![i] = "THINKING"]
  <2>1. ByCond!PhiTestCond(i, left(i), s, "right", "left_back") /\ left(i) \in Phi
    BY <1>4, Seats DEF ByCond!TestLeft, ByCond!left, left
  <2>2. s \in [Phi -> States] /\ Apart(s)
    BY RestKeeps
  <2> HIDE DEF s
  <2> QED
    BY <2>1, <2>2, PhiTestCondKeeps
<1>5. CASE ByCond!TestRight(i)
  <2>1. ByCond!PhiTestCond(i, right(i), state, "leave_put", "right_back") /\ right(i) \in Phi
    BY <1>5, Seats DEF ByCond!TestRight, ByCond!right, right
  <2> QED
    BY <2>1, PhiTestCondKeeps
<1> QED
  BY <1>1, <1>2, <1>3, <1>4, <1>5 DEF ByCond!Step

\* Both tests, and the passage from one to the other.
LEMMA TableNext == ASSUME TableInv, [Next]_vars PROVE TableInv'
<1>1. ASSUME NEW i \in Phi, SemStep(i) \/ CondStep(i) PROVE TableInv'
  BY <1>1, SemTable, CondTable DEF SemStep, CondStep
<1>2. ASSUME NEW i \in Phi, Resumes(i) \/ Wakes(i) PROVE TableInv'
  BY <1>2 DEF Resumes, Wakes, Resume, Wake, TableInv, Apart
<1>3. CASE NextTest
  BY <1>3, Seats DEF NextTest, TableInv, Apart, States
<1>4. CASE Succeed \/ UNCHANGED vars
  BY <1>4 DEF Succeed, vars, dvars, TableInv, Apart
<1> QED
  BY <1>1, <1>2, <1>3, <1>4 DEF Next

\* In both tests of test_phi.c, with any number of philosophers, no two neighbours
\* ever eat at the same time.
THEOREM NeighboursNotEatingHolds == Spec => []NeighboursNotEating
<1>1. Init => TableInv
  BY Seats DEF Init, BySem!Init, BySem!DinersInit, TableInv, Apart, States, Phi, BySem!Phi
<1>2. TableInv /\ [Next]_vars => TableInv'
  BY TableNext
<1>3. TableInv => NeighboursNotEating
  BY DEF TableInv, Apart, NeighboursNotEating
<1> QED
  BY <1>1, <1>2, <1>3, PTL DEF Spec

-----------------------------------------------------------------------------
(* The queues.                                                             *)

\* The semaphores S and the philosophers, as Sem.tla has them.
SemRecord(S) ==
  [prev : [S \cup Phi -> S \cup Phi], next : [S \cup Phi -> S \cup Phi], value : [S -> Nat],
   wait_state : [Phi -> {"NONE", "SEM"}], wakeup_state : [Phi -> {"INT", "SEM"}], panic : BOOLEAN]

\* The queue of s holds a, which up wakes next, and b, its last, or only one; at
\* says where everyone waits.
Pair(m, at, s, a, b) ==
  /\ m.wait_state[a] = "SEM" /\ at[a] = s /\ m.wait_state[b] = "SEM" /\ at[b] = s
  /\ m.next[s] = a /\ m.prev[s] = b /\ m.prev[a] = s /\ m.next[b] = s
  /\ a # b => m.next[a] = b /\ m.prev[b] = a

Queue(m, at, s) == \/ m.next[s] = s /\ m.prev[s] = s
                   \/ \E a, b \in Phi : Pair(m, at, s, a, b)

\* What up and down find: a third waiter makes the queue forget the first of the
\* two, so that no queue is ever longer and none of the links up follows is stale.
SemInv(S, m, at) ==
  /\ m \in SemRecord(S) /\ ~m.panic
  /\ at \in [Phi -> S]
  /\ \A s \in S : Queue(m, at, s)
  /\ \A i \in Phi : m.wait_state[i] = "NONE" => m.next[i] = i /\ m.prev[i] = i


\* What down writes when there is no unit.
LEMMA DownEffect ==
  ASSUME NEW S, NEW m \in SemRecord(S), NEW s \in S, NEW i \in Phi, ~(m.value[s] > 0)
  PROVE  /\ down(m, s, i) \in SemRecord(S)
         /\ down(m, s, i).value = m.value /\ down(m, s, i).panic = m.panic
         /\ \A x \in Phi : /\ down(m, s, i).wait_state[x] = IF x = i THEN "SEM" ELSE m.wait_state[x]
                           /\ down(m, s, i).wakeup_state[x] = IF x = i THEN "INT" ELSE m.wakeup_state[x]
         /\ \A x \in S \cup Phi :
              /\ down(m, s, i).next[x] = IF x = i THEN m.prev[s] ELSE IF x = s THEN i ELSE m.next[x]
              /\ down(m, s, i).prev[x] = IF x = i THEN s ELSE IF x = m.prev[s] THEN i ELSE m.prev[x]
<1> DEFINE r == [prev |-> [m.prev EXCEPT ![m.prev[s]] = i, ![i] = s],
                 next |-> [m.next EXCEPT ![s] = i, ![i] = m.prev[s]],
                 value |-> m.value,
                 wait_state |-> [m.wait_state EXCEPT ![i] = "SEM"],
                 wakeup_state |-> [m.wakeup_state EXCEPT ![i] = "INT"],
                 panic |-> m.panic]
<1>1. down(m, s, i) = r
  BY DEF down, HasUnit, add_curr_wait, add_list, Waiting, SemRecord
<1>2. r \in SemRecord(S)
  BY DEF SemRecord
<1>3. m.prev[s] \in S \cup Phi /\ i \in S \cup Phi /\ s \in S \cup Phi
  BY DEF SemRecord
<1>4. \A x \in S \cup Phi :
        /\ r.next[x] = IF x = i THEN m.prev[s] ELSE IF x = s THEN i ELSE m.next[x]
        /\ r.prev[x] = IF x = i THEN s ELSE IF x = m.prev[s] THEN i ELSE m.prev[x]
  BY <1>3 DEF SemRecord
<1>5. \A x \in Phi : /\ r.wait_state[x] = IF x = i THEN "SEM" ELSE m.wait_state[x]
                     /\ r.wakeup_state[x] = IF x = i THEN "INT" ELSE m.wakeup_state[x]
  BY DEF SemRecord
<1>6. r.value = m.value /\ r.panic = m.panic
  OBVIOUS
<1> HIDE DEF r
<1> QED
  BY <1>1, <1>2, <1>4, <1>5, <1>6

\* What up writes when somebody waits.
LEMMA UpEffect ==
  ASSUME NEW S, NEW m \in SemRecord(S), NEW s \in S, NEW w \in Phi, m.next[s] = w, w # s
  PROVE  /\ up(m, s) \in SemRecord(S)
         /\ up(m, s).value = m.value
         /\ up(m, s).panic = (m.panic \/ list_empty(m, w) \/ m.wait_state[w] # "SEM")
         /\ \A x \in Phi : /\ up(m, s).wait_state[x] = IF x = w THEN "NONE" ELSE m.wait_state[x]
                           /\ up(m, s).wakeup_state[x] = IF x = w THEN "SEM" ELSE m.wakeup_state[x]
         /\ \A x \in S \cup Phi :
              /\ up(m, s).next[x] = IF x = w THEN w ELSE IF x = m.prev[w] THEN m.next[w] ELSE m.next[x]
              /\ up(m, s).prev[x] = IF x = w THEN w ELSE IF x = m.next[w] THEN m.prev[w] ELSE m.prev[x]
<1> DEFINE r == [prev |-> [m.prev EXCEPT ![m.next[w]] = m.prev[w], ![w] = w],
                 next |-> [m.next EXCEPT ![m.prev[w]] = m.next[w], ![w] = w],
                 value |-> m.value,
                 wait_state |-> [m.wait_state EXCEPT ![w] = "NONE"],
                 wakeup_state |-> [m.wakeup_state EXCEPT ![w] = "SEM"],
                 panic |-> m.panic \/ list_empty(m, w) \/ m.wait_state[w] # "SEM"]
<1> DEFINE v == [m EXCEPT !.value[s] = UpValue(m, s)]
<1>1. v = m
  BY DEF UpValue, SemRecord
<1>2. up(m, s) = [del_wait_queue(m, w) EXCEPT !.wakeup_state[w] = "SEM", !.wait_state[w] = "NONE",
                                              !.panic = @ \/ m.wait_state[w] # "SEM"]
  BY <1>1 DEF up
<1>3. up(m, s) = r
  BY <1>2 DEF del_wait_queue, SemRecord
<1>4. r \in SemRecord(S)
  BY DEF SemRecord
<1>5. m.prev[w] \in S \cup Phi /\ m.next[w] \in S \cup Phi
  BY DEF SemRecord
<1>6. \A x \in S \cup Phi :
        /\ r.next[x] = IF x = w THEN w ELSE IF x = m.prev[w] THEN m.next[w] ELSE m.next[x]
        /\ r.prev[x] = IF x = w THEN w ELSE IF x = m.next[w] THEN m.prev[w] ELSE m.prev[x]
  BY <1>5 DEF SemRecord
<1>7. \A x \in Phi : /\ r.wait_state[x] = IF x = w THEN "NONE" ELSE m.wait_state[x]
                     /\ r.wakeup_state[x] = IF x = w THEN "SEM" ELSE m.wakeup_state[x]
  BY DEF SemRecord
<1>8. r.value = m.value /\ r.panic = (m.panic \/ list_empty(m, w) \/ m.wait_state[w] # "SEM")
  OBVIOUS
<1> HIDE DEF r
<1> QED
  BY <1>3, <1>4, <1>6, <1>7, <1>8

\* down of a philosopher that has to wait: however many wait, the queue ends up
\* with it as the next to be woken, and with at most one other.
LEMMA DownWaits ==
  ASSUME NEW S, S \cap Phi = {}, NEW m \in SemRecord(S), NEW at, SemInv(S, m, at), NEW s \in S, NEW i \in Phi,
         m.wait_state[i] = "NONE", ~(m.value[s] > 0),
         NEW at2 \in [Phi -> S], at2[i] = s, \A k \in Phi : k # i => at2[k] = at[k]
  PROVE  /\ SemInv(S, down(m, s, i), at2)
         /\ down(m, s, i).next[s] = i
         /\ \A t \in S : t # s => down(m, s, i).next[t] = m.next[t]
<1> DEFINE r == down(m, s, i)
           z == m.prev[s]
<1>1. m \in SemRecord(S) /\ ~m.panic /\ i \notin S /\ s \notin Phi
  BY DEF SemInv
<1>2. m.next \in [S \cup Phi -> S \cup Phi] /\ m.prev \in [S \cup Phi -> S \cup Phi]
      /\ m.wait_state \in [Phi -> {"NONE", "SEM"}]
  BY <1>1 DEF SemRecord
<1>3. /\ r \in SemRecord(S) /\ r.panic = m.panic
      /\ \A x \in S \cup Phi : /\ r.next[x] = IF x = i THEN z ELSE IF x = s THEN i ELSE m.next[x]
                               /\ r.prev[x] = IF x = i THEN s ELSE IF x = z THEN i ELSE m.prev[x]
      /\ \A x \in Phi : r.wait_state[x] = IF x = i THEN "SEM" ELSE m.wait_state[x]
  BY <1>1, DownEffect
<1>4. z \in S \cup Phi
  BY <1>2
<1>5. \/ m.next[s] = s /\ z = s
      \/ z \in Phi /\ m.wait_state[z] = "SEM" /\ at[z] = s /\ m.next[z] = s
  BY DEF SemInv, Queue, Pair
<1> HIDE DEF r, z
<1>6. z # i
  BY <1>1, <1>5
<1>7. /\ \A x \in S \cup Phi : r.next[x] = IF x = i THEN z ELSE IF x = s THEN i ELSE m.next[x]
      /\ \A x \in S \cup Phi : r.prev[x] = IF x = i THEN s ELSE IF x = z THEN i ELSE m.prev[x]
      /\ \A x \in Phi : r.wait_state[x] = IF x = i THEN "SEM" ELSE m.wait_state[x]
  BY <1>3
<1>8. Queue(r, at2, s)
  <2>1. CASE m.next[s] = s /\ z = s
    <3>1. Pair(r, at2, s, i, i)
      BY <1>1, <1>7, <2>1 DEF Pair
    <3> QED
      BY <3>1 DEF Queue
  <2>2. CASE z \in Phi /\ m.wait_state[z] = "SEM" /\ at[z] = s /\ m.next[z] = s
    <3>1. r.next[s] = i /\ r.next[i] = z /\ r.prev[z] = i /\ r.prev[i] = s
      BY <1>1, <1>4, <1>6, <1>7
    <3>2. r.prev[s] = z /\ r.next[z] = s
      BY <1>1, <1>4, <1>6, <1>7, <2>2 DEF z
    <3>3. at2[z] = s /\ r.wait_state[z] = "SEM" /\ r.wait_state[i] = "SEM"
      BY <1>6, <1>7, <2>2
    <3>4. Pair(r, at2, s, i, z)
      BY <3>1, <3>2, <3>3 DEF Pair
    <3> QED
      BY <2>2, <3>4 DEF Queue
  <2> QED
    BY <1>5, <2>1, <2>2
<1>9. ASSUME NEW t \in S, t # s PROVE Queue(r, at2, t) /\ r.next[t] = m.next[t]
  <2>1. t # i /\ t # z /\ t \notin Phi
    BY <1>1, <1>5, <1>9
  <2>2. r.next[t] = m.next[t] /\ r.prev[t] = m.prev[t]
    BY <1>7, <1>9, <2>1
  <2>3. CASE m.next[t] = t /\ m.prev[t] = t
    BY <2>2, <2>3 DEF Queue
  <2>4. ASSUME NEW a \in Phi, NEW b \in Phi, Pair(m, at, t, a, b) PROVE Pair(r, at2, t, a, b)
    <3>1. a # i /\ b # i /\ a # z /\ b # z /\ a # s /\ b # s
      BY <1>1, <1>5, <1>9, <2>4 DEF Pair
    <3>2. /\ r.next[a] = m.next[a] /\ r.prev[a] = m.prev[a] /\ r.next[b] = m.next[b] /\ r.prev[b] = m.prev[b]
          /\ r.wait_state[a] = m.wait_state[a] /\ r.wait_state[b] = m.wait_state[b]
          /\ at2[a] = at[a] /\ at2[b] = at[b]
      BY <1>7, <3>1
    <3> QED
      BY <2>2, <2>4, <3>2 DEF Pair
  <2>5. Queue(m, at, t)
    BY DEF SemInv
  <2> QED
    BY <2>2, <2>3, <2>4, <2>5 DEF Queue
<1>10. ASSUME NEW k \in Phi, r.wait_state[k] = "NONE" PROVE r.next[k] = k /\ r.prev[k] = k
  <2>1. k # i /\ m.wait_state[k] = "NONE" /\ k # s /\ k # z
    BY <1>1, <1>5, <1>7, <1>10
  <2>2. m.next[k] = k /\ m.prev[k] = k
    BY <2>1 DEF SemInv
  <2> QED
    BY <1>7, <2>1, <2>2
<1>11. SemInv(S, r, at2)
  BY <1>1, <1>3, <1>8, <1>9, <1>10 DEF SemInv
<1> QED
  BY <1>1, <1>7, <1>9, <1>11 DEF r

\* Whom up would wake does wait there.
LEMMA FirstWaits ==
  ASSUME NEW S, NEW m, NEW at, SemInv(S, m, at), NEW s \in S, m.next[s] # s
  PROVE  m.next[s] \in Phi /\ m.wait_state[m.next[s]] = "SEM" /\ at[m.next[s]] = s
<1>1. PICK a \in Phi, b \in Phi : Pair(m, at, s, a, b)
  BY DEF SemInv, Queue
<1> QED
  BY <1>1 DEF Pair

\* up of a semaphore with a waiter: no ASSERT fails, and the queue holds the others
\* it held.
LEMMA UpWakes ==
  ASSUME NEW S, S \cap Phi = {}, NEW m \in SemRecord(S), NEW at, SemInv(S, m, at), NEW s \in S,
         NEW w \in Phi, m.next[s] = w
  PROVE  /\ SemInv(S, up(m, s), at)
         /\ up(m, s).value = m.value
         /\ \A x \in Phi : /\ up(m, s).wait_state[x] = IF x = w THEN "NONE" ELSE m.wait_state[x]
                           /\ up(m, s).wakeup_state[x] = IF x = w THEN "SEM" ELSE m.wakeup_state[x]
         /\ \A t \in S : t # s => up(m, s).next[t] = m.next[t]
<1> DEFINE r == up(m, s)
           z == m.next[w]
<1>1. m \in SemRecord(S) /\ ~m.panic /\ s \notin Phi /\ w # s
  BY DEF SemInv
<1>2. m.next \in [S \cup Phi -> S \cup Phi] /\ m.prev \in [S \cup Phi -> S \cup Phi]
      /\ m.wait_state \in [Phi -> {"NONE", "SEM"}]
  BY <1>1 DEF SemRecord
<1>3. PICK a \in Phi, b \in Phi : Pair(m, at, s, a, b)
  BY DEF SemInv, Queue
<1>4. /\ w = a /\ w \in Phi /\ w # s /\ m.wait_state[w] = "SEM" /\ at[w] = s /\ m.prev[w] = s
      /\ m.wait_state[b] = "SEM" /\ at[b] = s /\ m.next[b] = s /\ m.prev[s] = b
      /\ z = (IF w = b THEN s ELSE b)
      /\ w # b => m.prev[b] = w
  BY <1>1, <1>3 DEF Pair
<1>5. /\ r \in SemRecord(S) /\ r.value = m.value
      /\ r.panic = (m.panic \/ list_empty(m, w) \/ m.wait_state[w] # "SEM")
      /\ \A x \in Phi : /\ r.wait_state[x] = IF x = w THEN "NONE" ELSE m.wait_state[x]
                        /\ r.wakeup_state[x] = IF x = w THEN "SEM" ELSE m.wakeup_state[x]
      /\ \A x \in S \cup Phi :
           /\ r.next[x] = IF x = w THEN w ELSE IF x = s THEN z ELSE m.next[x]
           /\ r.prev[x] = IF x = w THEN w ELSE IF x = z THEN s ELSE m.prev[x]
  BY <1>1, <1>4, UpEffect
<1>6. ~r.panic
  BY <1>1, <1>4, <1>5 DEF list_empty
<1> HIDE DEF r, z
<1>7. /\ \A x \in S \cup Phi : r.next[x] = IF x = w THEN w ELSE IF x = s THEN z ELSE m.next[x]
      /\ \A x \in S \cup Phi : r.prev[x] = IF x = w THEN w ELSE IF x = z THEN s ELSE m.prev[x]
      /\ \A x \in Phi : r.wait_state[x] = IF x = w THEN "NONE" ELSE m.wait_state[x]
  BY <1>5
<1>8. Queue(r, at, s)
  <2>1. CASE w = b
    BY <1>4, <1>7, <2>1 DEF Queue
  <2>2. CASE w # b
    <3>1. Pair(r, at, s, b, b)
      BY <1>1, <1>4, <1>7, <2>2 DEF Pair
    <3> QED
      BY <3>1 DEF Queue
  <2> QED
    BY <2>1, <2>2
<1>9. ASSUME NEW t \in S, t # s PROVE Queue(r, at, t) /\ r.next[t] = m.next[t]
  <2>1. t # w /\ t # z /\ t \notin Phi
    BY <1>4, <1>9
  <2>2. r.next[t] = m.next[t] /\ r.prev[t] = m.prev[t]
    BY <1>7, <1>9, <2>1
  <2>3. CASE m.next[t] = t /\ m.prev[t] = t
    BY <2>2, <2>3 DEF Queue
  <2>4. ASSUME NEW c \in Phi, NEW d \in Phi, Pair(m, at, t, c, d) PROVE Pair(r, at, t, c, d)
    <3>1. c # w /\ d # w /\ c # z /\ d # z /\ c # s /\ d # s
      BY <1>1, <1>4, <1>9, <2>4 DEF Pair
    <3>2. /\ r.next[c] = m.next[c] /\ r.prev[c] = m.prev[c] /\ r.next[d] = m.next[d] /\ r.prev[d] = m.prev[d]
          /\ r.wait_state[c] = m.wait_state[c] /\ r.wait_state[d] = m.wait_state[d]
      BY <1>7, <3>1
    <3> QED
      BY <2>2, <2>4, <3>2 DEF Pair
  <2>5. Queue(m, at, t)
    BY DEF SemInv
  <2> QED
    BY <2>2, <2>3, <2>4, <2>5 DEF Queue
<1>10. ASSUME NEW k \in Phi, r.wait_state[k] = "NONE" PROVE r.next[k] = k /\ r.prev[k] = k
  <2>1. CASE k = w
    BY <1>4, <1>7, <2>1
  <2>2. CASE k # w
    <3>1. m.wait_state[k] = "NONE" /\ k # s /\ k # z
      BY <1>1, <1>4, <1>7, <1>10, <2>2
    <3>2. m.next[k] = k /\ m.prev[k] = k
      BY <3>1 DEF SemInv
    <3> QED
      BY <1>7, <2>2, <3>1, <3>2
  <2> QED
    BY <2>1, <2>2
<1>11. SemInv(S, r, at)
  BY <1>5, <1>6, <1>8, <1>9, <1>10 DEF SemInv
<1> QED
  BY <1>4, <1>5, <1>9, <1>11 DEF r

\* Units come and go without a change to a queue, and it does not matter where
\* somebody would wait who does not.
LEMMA UnitsKeep ==
  ASSUME NEW S, NEW m \in SemRecord(S), NEW at, SemInv(S, m, at), NEW r \in SemRecord(S),
         r.next = m.next, r.prev = m.prev, r.panic = m.panic, r.wait_state = m.wait_state,
         NEW at2 \in [Phi -> S], \A k \in Phi : m.wait_state[k] = "SEM" => at2[k] = at[k]
  PROVE  SemInv(S, r, at2)
<1>1. \A s \in S : Queue(r, at2, s)
  BY DEF SemInv, Queue, Pair
<1> QED
  BY <1>1 DEF SemInv

\* up when nobody waits.
LEMMA UpFree ==
  ASSUME NEW S, NEW m \in SemRecord(S), NEW at, SemInv(S, m, at), NEW s \in S, m.next[s] = s
  PROVE  /\ SemInv(S, up(m, s), at)
         /\ \A t \in S : up(m, s).value[t] = IF t = s THEN m.value[s] + 1 ELSE m.value[t]
         /\ up(m, s).next = m.next /\ up(m, s).wait_state = m.wait_state
         /\ up(m, s).wakeup_state = m.wakeup_state
<1> DEFINE r == [prev |-> m.prev, next |-> m.next, value |-> [m.value EXCEPT ![s] = m.value[s] + 1],
                 wait_state |-> m.wait_state, wakeup_state |-> m.wakeup_state, panic |-> m.panic]
<1>1. m \in SemRecord(S) /\ at \in [Phi -> S]
  BY DEF SemInv
<1>2. up(m, s) = r
  BY <1>1 DEF up, UpValue, SemRecord
<1>3. r \in SemRecord(S)
  BY <1>1 DEF SemRecord
<1>4. /\ r.next = m.next /\ r.prev = m.prev /\ r.panic = m.panic /\ r.wait_state = m.wait_state
      /\ r.wakeup_state = m.wakeup_state
  OBVIOUS
<1>5. \A t \in S : r.value[t] = IF t = s THEN m.value[s] + 1 ELSE m.value[t]
  BY <1>1 DEF SemRecord
<1> HIDE DEF r
<1>6. SemInv(S, r, at)
  BY <1>1, <1>3, <1>4, UnitsKeep
<1> QED
  BY <1>2, <1>4, <1>5, <1>6

\* down when there is a unit.
LEMMA DownTakes ==
  ASSUME NEW S, NEW m \in SemRecord(S), NEW at, SemInv(S, m, at), NEW s \in S, m.value[s] > 0, NEW i
  PROVE  /\ SemInv(S, down(m, s, i), at)
         /\ \A t \in S : down(m, s, i).value[t] = IF t = s THEN m.value[s] - 1 ELSE m.value[t]
         /\ down(m, s, i).next = m.next /\ down(m, s, i).wait_state = m.wait_state
         /\ down(m, s, i).wakeup_state = m.wakeup_state
<1> DEFINE r == [prev |-> m.prev, next |-> m.next, value |-> [m.value EXCEPT ![s] = m.value[s] - 1],
                 wait_state |-> m.wait_state, wakeup_state |-> m.wakeup_state, panic |-> m.panic]
<1>1. m \in SemRecord(S) /\ at \in [Phi -> S]
  BY DEF SemInv
<1>2. down(m, s, i) = r
  BY <1>1 DEF down, HasUnit, SemRecord
<1>3. r \in SemRecord(S)
  BY <1>1 DEF SemRecord
<1>4. /\ r.next = m.next /\ r.prev = m.prev /\ r.panic = m.panic /\ r.wait_state = m.wait_state
      /\ r.wakeup_state = m.wakeup_state
  OBVIOUS
<1>5. \A t \in S : r.value[t] = IF t = s THEN m.value[s] - 1 ELSE m.value[t]
  BY <1>1 DEF SemRecord
<1> HIDE DEF r
<1>6. SemInv(S, r, at)
  BY <1>1, <1>3, <1>4, UnitsKeep
<1> QED
  BY <1>2, <1>4, <1>5, <1>6

\* Where those would wait who do not may change at will.
LEMMA AtKeeps ==
  ASSUME NEW S, NEW m \in SemRecord(S), NEW at, SemInv(S, m, at),
         NEW at2 \in [Phi -> S], \A k \in Phi : m.wait_state[k] = "SEM" => at2[k] = at[k]
  PROVE  SemInv(S, m, at2)
BY UnitsKeep

-----------------------------------------------------------------------------
(* The two tests: what is true of every state between two steps.           *)

\* Where a philosopher can be, in both tests.
PhiPCs == {"think", "take", "hungry", "eat", "put", "full", "quit", "waited", "leave", "left_back",
           "right", "right_back", "leave_put"}

\* Of both tests: who sleeps in down, and who is on the CPU.
Downs ==
  /\ pc \in [Phi -> PhiPCs]
  /\ curr \in Phi \cup {NONE} /\ sleeping \subseteq Phi /\ in_down \subseteq Phi
  /\ \A i \in Phi : sem.wait_state[i] = "SEM" => i \in in_down
  /\ \A i \in in_down : sem.wait_state[i] = "NONE" => sem.wakeup_state[i] = "SEM"
  /\ curr # NONE => sem.wait_state[curr] = "NONE" /\ curr \notin in_down

\* Nobody gets up from the table but by phi_put_forks.
Seated == \A i \in Phi : pc[i] \in {"think", "take", "hungry", "quit", "left_back", "right",
                                    "right_back", "leave_put"} => state[i] = "THINKING"

AtSem == [i \in Phi |-> IF pc[i] = "eat" THEN BySem!PhiSemOf(i) ELSE BySem!PhiMutex]

SemTestInv ==
  /\ SemInv(BySem!Sems, sem, AtSem) /\ Downs /\ Seated
  /\ \A i \in Phi :
       /\ pc[i] \in {"hungry", "full"} => curr = i
       /\ sem.wait_state[i] = "SEM" <=> state[i] = "HUNGRY"
       /\ sem.wait_state[i] = "SEM" => pc[i] = "eat" /\ sem.next[BySem!PhiSemOf(i)] = i
       /\ sem.value[BySem!PhiSemOf(i)] = 0
       /\ ~CanEat(state, i)
  /\ \A i \in in_down : pc[i] = "eat"
  /\ sem.value[BySem!PhiMutex] = IF curr # NONE /\ pc[curr] \in {"hungry", "full"} THEN 0 ELSE 1
  /\ next_count = 0 /\ count = [i \in Phi |-> 0]

Back == {"left_back", "right_back"}
AtCond == [i \in Phi |-> IF pc[i] = "waited" THEN ByCond!CondSem(i)
                         ELSE IF pc[i] \in Back THEN ByCond!NextSem ELSE ByCond!MutexSem]

\* The monitor is free, or exactly one philosopher is active in it.
Owned == \/ sem.value[ByCond!MutexSem] = 1 /\ ByCond!Active = {}
         \/ sem.value[ByCond!MutexSem] = 0 /\ \E i \in Phi : ByCond!Active = {i}

\* A signaller that waits has handed the monitor to one that leaves it next.
Signals ==
  \/ next_count = 0 /\ \A k \in Phi : pc[k] \notin Back
  \/ /\ next_count = 1
     /\ \E k \in Phi :
          /\ \A x \in Phi : pc[x] \in Back <=> x = k
          /\ sem.wait_state[k] = "SEM" => \E i \in ByCond!Active : pc[i] \in {"waited", "leave"}

\* Of the philosopher i: where it waits, that it is not counted wrongly, and that
\* if it could eat, the one to its left is about to look.
CondEach(i) ==
  /\ sem.wait_state[i] = "SEM" => pc[i] \in {"hungry", "full", "waited"} \cup Back
  /\ sem.value[ByCond!CondSem(i)] = 0
  /\ count[i] = IF pc[i] = "waited" THEN 1 ELSE 0
  /\ sem.wait_state[i] = "SEM" /\ pc[i] = "waited" => sem.next[ByCond!CondSem(i)] = i
  /\ sem.wait_state[i] = "SEM" /\ pc[i] \in Back => sem.next[ByCond!NextSem] = i
  /\ CanEat(state, i) => pc[left(i)] \in {"left_back", "right"}

CondTestInv ==
  /\ SemInv(ByCond!Sems, sem, AtCond) /\ Downs /\ Seated /\ Owned /\ Signals
  /\ sem.value[ByCond!NextSem] = 0
  /\ count \in [Phi -> Nat]
  /\ \A i \in Phi : CondEach(i)

PhiInv == \/ test = "sem" /\ SemTestInv
          \/ test = "cond" /\ CondTestInv

\* The operators the two tests share are those of Diners and Sem.
LEMMA SameOps ==
  /\ BySem!Phi = Phi /\ ByCond!Phi = Phi
  /\ \A i : BySem!left(i) = left(i) /\ BySem!right(i) = right(i)
  /\ \A i : ByCond!left(i) = left(i) /\ ByCond!right(i) = right(i)
BY DEF BySem!Phi, ByCond!Phi, Phi, BySem!left, left, BySem!right, right, ByCond!left, ByCond!right

LEMMA SameEat == \A s, i : BySem!CanEat(s, i) <=> CanEat(s, i)
BY SameOps DEF BySem!CanEat, CanEat

LEMMA SameEatCond == \A s, i : ByCond!CanEat(s, i) <=> CanEat(s, i)
BY SameOps DEF ByCond!CanEat, CanEat

LEMMA SameUp == ASSUME NEW m, NEW s PROVE BySem!up(m, s) = up(m, s) /\ ByCond!up(m, s) = up(m, s)
<1>1. BySem!up(m, s) = up(m, s)
  BY DEF BySem!up, up, BySem!UpValue, UpValue, BySem!del_wait_queue, del_wait_queue,
     BySem!list_empty, list_empty
<1>2. ByCond!up(m, s) = up(m, s)
  BY DEF ByCond!up, up, ByCond!UpValue, UpValue, ByCond!del_wait_queue, del_wait_queue,
     ByCond!list_empty, list_empty
<1> QED
  BY <1>1, <1>2

LEMMA SameDown == ASSUME NEW m, NEW s, NEW i
                  PROVE BySem!down(m, s, i) = down(m, s, i) /\ ByCond!down(m, s, i) = down(m, s, i)
<1>1. BySem!down(m, s, i) = down(m, s, i)
  BY DEF BySem!down, down, BySem!HasUnit, HasUnit, BySem!add_curr_wait, add_curr_wait,
     BySem!add_list, add_list, BySem!Waiting, Waiting
<1>2. ByCond!down(m, s, i) = down(m, s, i)
  BY DEF ByCond!down, down, ByCond!HasUnit, HasUnit, ByCond!add_curr_wait, add_curr_wait,
     ByCond!add_list, add_list, ByCond!Waiting, Waiting
<1> QED
  BY <1>1, <1>2

\* The semaphores of test_phi_sem are as many as they look.
LEMMA SemNames ==
  /\ BySem!Sems \cap Phi = {} /\ BySem!PhiMutex \in BySem!Sems
  /\ \A i \in Phi : BySem!PhiSemOf(i) \in BySem!Sems /\ BySem!PhiSemOf(i) # BySem!PhiMutex
  /\ \A i, k \in Phi : BySem!PhiSemOf(i) = BySem!PhiSemOf(k) => i = k
<1>1. NUM_PHI \in Nat
  BY DinersAssumption
<1> QED
  BY <1>1 DEF BySem!Sems, BySem!PhiMutex, BySem!PhiSemOf, Phi

\* So are those of the monitor.
LEMMA CondNames ==
  /\ ByCond!Sems \cap Phi = {} /\ ByCond!MutexSem \in ByCond!Sems /\ ByCond!NextSem \in ByCond!Sems
  /\ ByCond!MutexSem # ByCond!NextSem
  /\ \A i \in Phi : /\ ByCond!CondSem(i) \in ByCond!Sems /\ ByCond!CondSem(i) # ByCond!MutexSem
                    /\ ByCond!CondSem(i) # ByCond!NextSem
  /\ \A i, k \in Phi : ByCond!CondSem(i) = ByCond!CondSem(k) => i = k
<1>1. NUM_PHI \in Nat
  BY DinersAssumption
<1> QED
  BY <1>1 DEF ByCond!Sems, ByCond!MutexSem, ByCond!NextSem, ByCond!CondSem, Phi

-----------------------------------------------------------------------------
(* The steps of test_phi_sem.                                              *)

\* The states s and the semaphores m agree on who waits for its forks.
Fits(s, m) ==
  /\ s \in [Phi -> States]
  /\ SemInv(BySem!Sems, m, AtSem)
  /\ \A k \in Phi :
       /\ m.wait_state[k] = "SEM" <=> s[k] = "HUNGRY"
       /\ m.wait_state[k] = "SEM" => /\ pc[k] = "eat" /\ k \in in_down
                                     /\ m.next[BySem!PhiSemOf(k)] = k
       /\ k \in in_down /\ m.wait_state[k] = "NONE" => m.wakeup_state[k] = "SEM"
       /\ m.value[BySem!PhiSemOf(k)] = 0

\* phi_test_sem(j) of phi_put_forks_sem lets j eat if it can, and nobody else.
LEMMA PutTest ==
  ASSUME NEW d, Fits(d.state, d.sem), NEW j \in Phi
  PROVE  /\ Fits(BySem!phi_test_sem(d, j).state, BySem!phi_test_sem(d, j).sem)
         /\ BySem!phi_test_sem(d, j).sem.value = d.sem.value
         /\ ~CanEat(BySem!phi_test_sem(d, j).state, j)
         /\ \A k \in Phi : CanEat(BySem!phi_test_sem(d, j).state, k) => CanEat(d.state, k)
         /\ \A k \in Phi : d.state[k] # "HUNGRY" => BySem!phi_test_sem(d, j).state[k] = d.state[k]
         /\ \A k \in Phi : d.sem.wait_state[k] = "NONE" => BySem!phi_test_sem(d, j).sem.wait_state[k] = "NONE"
<1> DEFINE s == d.state
           m == d.sem
           p == BySem!PhiSemOf(j)
           e == BySem!phi_test_sem(d, j)
<1>1. CASE ~CanEat(d.state, j)
  <2>1. e = d
    BY <1>1, SameEat DEF BySem!phi_test_sem
  <2> QED
    BY <1>1, <2>1
<1>2. CASE CanEat(d.state, j)
  <2>1. e.state = [s EXCEPT ![j] = "EATING"] /\ e.sem = up(m, p)
    BY <1>2, SameEat, SameUp DEF BySem!phi_test_sem
  <2>2. /\ BySem!Sems \cap Phi = {} /\ p \in BySem!Sems /\ j # p /\ m.next[p] = j
        /\ m.wait_state[j] = "SEM" /\ SemInv(BySem!Sems, m, AtSem)
    BY <1>2, SemNames DEF Fits, CanEat
  <2>3. /\ SemInv(BySem!Sems, e.sem, AtSem) /\ e.sem.value = m.value
        /\ \A x \in Phi : /\ e.sem.wait_state[x] = IF x = j THEN "NONE" ELSE m.wait_state[x]
                          /\ e.sem.wakeup_state[x] = IF x = j THEN "SEM" ELSE m.wakeup_state[x]
        /\ \A t \in BySem!Sems : t # p => e.sem.next[t] = m.next[t]
    <3> HIDE DEF e, m, p
    <3>1. m \in SemRecord(BySem!Sems)
      BY <2>2 DEF SemInv
    <3> QED
      BY <2>1, <2>2, <3>1, UpWakes
  <2>4. /\ s \in [Phi -> States] /\ e.state \in [Phi -> States]
        /\ \A x \in Phi : e.state[x] = IF x = j THEN "EATING" ELSE s[x]
    BY <2>1 DEF Fits, States
  <2>5. \A k \in Phi :
          /\ m.wait_state[k] = "SEM" <=> s[k] = "HUNGRY"
          /\ m.wait_state[k] = "SEM" => /\ pc[k] = "eat" /\ k \in in_down
                                        /\ m.next[BySem!PhiSemOf(k)] = k
          /\ k \in in_down /\ m.wait_state[k] = "NONE" => m.wakeup_state[k] = "SEM"
          /\ m.value[BySem!PhiSemOf(k)] = 0
    BY DEF Fits
  <2> HIDE DEF e, m, s
  <2>6. \A k \in Phi : k # j => /\ BySem!PhiSemOf(k) # p /\ BySem!PhiSemOf(k) \in BySem!Sems
    BY SemNames
  <2>7. ASSUME NEW k \in Phi
        PROVE  /\ e.sem.wait_state[k] = "SEM" <=> e.state[k] = "HUNGRY"
               /\ e.sem.wait_state[k] = "SEM" => /\ pc[k] = "eat" /\ k \in in_down
                                                 /\ e.sem.next[BySem!PhiSemOf(k)] = k
               /\ k \in in_down /\ e.sem.wait_state[k] = "NONE" => e.sem.wakeup_state[k] = "SEM"
               /\ e.sem.value[BySem!PhiSemOf(k)] = 0
    <3>1. CASE k = j
      BY <2>3, <2>4, <2>5, <3>1
    <3>2. CASE k # j
      BY <2>3, <2>4, <2>5, <2>6, <3>2
    <3> QED
      BY <3>1, <3>2
  <2>8. Fits(e.state, e.sem)
    BY <2>3, <2>4, <2>7 DEF Fits
  <2>9. ASSUME NEW k \in Phi PROVE CanEat(e.state, k) => CanEat(s, k)
    BY <2>4, Seats DEF CanEat
  <2>10. ~CanEat(e.state, j)
    BY <2>4 DEF CanEat
  <2>11. s[j] = "HUNGRY"
    BY <1>2 DEF CanEat, s
  <2>12. \A k \in Phi : m.wait_state[k] = "NONE" => e.sem.wait_state[k] = "NONE"
    BY <2>3
  <2>13. \A k \in Phi : s[k] # "HUNGRY" => e.state[k] = s[k]
    BY <2>4, <2>11
  <2> QED
    BY <2>3, <2>8, <2>9, <2>10, <2>12, <2>13 DEF e, s, m
<1> QED
  BY <1>1, <1>2

\* Nobody waits for the mutex, and only i for the semaphore of i.
LEMMA SemQueues ==
  ASSUME SemTestInv
  PROVE  /\ sem.next[BySem!PhiMutex] = BySem!PhiMutex
         /\ \A i \in Phi : sem.wait_state[i] = "NONE" =>
                             sem.next[BySem!PhiSemOf(i)] = BySem!PhiSemOf(i)
<1>1. /\ \A s \in BySem!Sems : Queue(sem, AtSem, s)
      /\ \A k \in Phi : sem.wait_state[k] = "SEM" => AtSem[k] = BySem!PhiSemOf(k)
  BY DEF SemTestInv, SemInv, AtSem
<1>2. sem.next[BySem!PhiMutex] = BySem!PhiMutex
  BY <1>1, SemNames DEF Queue, Pair
<1>3. ASSUME NEW i \in Phi, sem.wait_state[i] = "NONE"
      PROVE  sem.next[BySem!PhiSemOf(i)] = BySem!PhiSemOf(i)
  <2>1. Queue(sem, AtSem, BySem!PhiSemOf(i))
    BY <1>1, SemNames
  <2>2. ASSUME NEW a \in Phi, NEW b \in Phi, Pair(sem, AtSem, BySem!PhiSemOf(i), a, b) PROVE FALSE
    <3>1. sem.wait_state[a] = "SEM" /\ AtSem[a] = BySem!PhiSemOf(i)
      BY <2>2 DEF Pair
    <3>2. a = i
      BY <1>1, <3>1, SemNames
    <3> QED
      BY <1>3, <3>1, <3>2
  <2> QED
    BY <2>1, <2>2 DEF Queue
<1> QED
  BY <1>2, <1>3

\* What is used of SemTestInv in every step.
LEMMA SemFacts ==
  ASSUME SemTestInv
  PROVE  /\ sem \in SemRecord(BySem!Sems) /\ SemInv(BySem!Sems, sem, AtSem) /\ ~sem.panic
         /\ sem.wait_state \in [Phi -> {"NONE", "SEM"}]
         /\ pc \in [Phi -> PhiPCs]
         /\ AtSem \in [Phi -> BySem!Sems]
         /\ \A k \in Phi : AtSem[k] = IF pc[k] = "eat" THEN BySem!PhiSemOf(k) ELSE BySem!PhiMutex
<1>1. sem \in SemRecord(BySem!Sems) /\ SemInv(BySem!Sems, sem, AtSem) /\ ~sem.panic
  BY DEF SemTestInv, SemInv
<1>2. sem.wait_state \in [Phi -> {"NONE", "SEM"}]
  BY <1>1 DEF SemRecord
<1>3. AtSem \in [Phi -> BySem!Sems]
  BY SemNames DEF AtSem
<1> QED
  BY <1>1, <1>2, <1>3 DEF SemTestInv, Downs, AtSem

\* down(&g_phi_mutex) never waits: a critical section has no schedule() in it.
LEMMA SemEnter ==
  ASSUME SemTestInv, NEW i \in Phi, BySem!Enter(i), UNCHANGED <<next_count, count>>
  PROVE  SemTestInv'
<1> DEFINE M == BySem!PhiMutex
           S == BySem!Sems
<1>1. /\ curr = i /\ curr # NONE
      /\ \/ pc[i] = "take" /\ pc' = [pc EXCEPT ![i] = "hungry"]
         \/ pc[i] = "put" /\ pc' = [pc EXCEPT ![i] = "full"]
      /\ state' = state /\ sleeping' = sleeping
  BY DinersAssumption DEF BySem!Enter, BySem!At, BySem!Goto, Phi
<1>2. sem.value[M] = 1
  BY <1>1 DEF SemTestInv
<1>3. sem' = down(sem, M, i) /\ in_down' = in_down /\ curr' = curr
  BY <1>2, SameDown DEF BySem!Enter, BySem!Down, BySem!HasUnit
<1>4. /\ SemInv(S, sem', AtSem)
      /\ \A t \in S : sem'.value[t] = IF t = M THEN 0 ELSE sem.value[t]
      /\ sem'.next = sem.next /\ sem'.wait_state = sem.wait_state
      /\ sem'.wakeup_state = sem.wakeup_state
  BY <1>2, <1>3, SemFacts, SemNames, DownTakes
<1>5. /\ pc' \in [Phi -> PhiPCs]
      /\ pc'[i] \in {"hungry", "full"} /\ pc[i] \in {"take", "put"}
      /\ pc[i] = "take" => pc'[i] = "hungry"
      /\ pc[i] = "put" => pc'[i] = "full"
      /\ \A k \in Phi : k # i => pc'[k] = pc[k]
  BY <1>1, SemFacts DEF PhiPCs
<1>6. AtSem' = AtSem
  BY <1>5 DEF AtSem
<1>7. Downs'
  BY <1>1, <1>3, <1>4, <1>5 DEF Downs, SemTestInv
<1>8. Seated'
  BY <1>1, <1>5 DEF Seated, SemTestInv
<1>9. \A k \in Phi :
       /\ pc'[k] \in {"hungry", "full"} => curr' = k
       /\ sem'.wait_state[k] = "SEM" <=> state'[k] = "HUNGRY"
       /\ sem'.wait_state[k] = "SEM" => pc'[k] = "eat" /\ sem'.next[BySem!PhiSemOf(k)] = k
       /\ sem'.value[BySem!PhiSemOf(k)] = 0
       /\ ~CanEat(state', k)
  BY <1>1, <1>3, <1>4, <1>5, SemNames DEF SemTestInv
<1>10. \A k \in in_down' : pc'[k] = "eat"
  BY <1>3, <1>5 DEF SemTestInv, Downs
<1>11. sem'.value[M] = 0 /\ curr' # NONE /\ pc'[curr'] \in {"hungry", "full"}
  BY <1>1, <1>3, <1>4, <1>5, SemNames
<1> QED
  BY <1>4, <1>6, <1>7, <1>8, <1>9, <1>10, <1>11 DEF SemTestInv, CanEat, left, right

\* do_sleep.
LEMMA SemSleep ==
  ASSUME SemTestInv, NEW i \in Phi, BySem!Sleep(i), UNCHANGED <<next_count, count>>
  PROVE  SemTestInv'
<1> DEFINE M == BySem!PhiMutex
           S == BySem!Sems
<1>1. /\ curr = i /\ curr # NONE /\ curr' = NONE
      /\ \/ pc[i] = "think" /\ pc' = [pc EXCEPT ![i] = "take"]
         \/ pc[i] = "eat" /\ pc' = [pc EXCEPT ![i] = "put"]
      /\ state' = state /\ sleeping' = sleeping \cup {i} /\ sem' = sem /\ in_down' = in_down
  BY DinersAssumption DEF BySem!Sleep, BySem!At, BySem!Goto, Phi
<1>2. sem.value[M] = 1 /\ sem.wait_state[i] = "NONE" /\ i \notin in_down
  BY <1>1 DEF SemTestInv, Downs
<1>5. /\ pc' \in [Phi -> PhiPCs]
      /\ pc'[i] \in {"take", "put"} /\ pc[i] \in {"think", "eat"}
      /\ pc[i] = "think" => pc'[i] = "take"
      /\ pc[i] = "eat" => pc'[i] = "put"
      /\ \A k \in Phi : k # i => pc'[k] = pc[k]
  BY <1>1, SemFacts DEF PhiPCs
<1>6. SemInv(S, sem', AtSem')
  <2>1. AtSem' \in [Phi -> S] /\ \A k \in Phi : k # i => AtSem'[k] = AtSem[k]
    BY <1>5, SemNames DEF AtSem
  <2>2. \A k \in Phi : sem.wait_state[k] = "SEM" => AtSem'[k] = AtSem[k]
    BY <1>2, <2>1
  <2> QED
    BY <1>1, <2>1, <2>2, SemFacts, AtKeeps
<1>7. Downs'
  BY <1>1, <1>5 DEF Downs, SemTestInv
<1>8. Seated'
  BY <1>1, <1>5 DEF Seated, SemTestInv
<1>9. \A k \in Phi :
       /\ pc'[k] \in {"hungry", "full"} => curr' = k
       /\ sem'.wait_state[k] = "SEM" <=> state'[k] = "HUNGRY"
       /\ sem'.wait_state[k] = "SEM" => pc'[k] = "eat" /\ sem'.next[BySem!PhiSemOf(k)] = k
       /\ sem'.value[BySem!PhiSemOf(k)] = 0
       /\ ~CanEat(state', k)
  BY <1>1, <1>2, <1>5, SemNames DEF SemTestInv
<1>10. \A k \in in_down' : pc'[k] = "eat"
  BY <1>1, <1>2, <1>5 DEF SemTestInv, Downs
<1> QED
  BY <1>1, <1>2, <1>6, <1>7, <1>8, <1>9, <1>10 DEF SemTestInv, CanEat, left, right

\* phi_take_forks_sem: the philosopher has its forks, and its own up to go on with,
\* or waits in its semaphore.
LEMMA SemTake ==
  ASSUME SemTestInv, TableInv, NEW i \in Phi, BySem!TakeForks(i), UNCHANGED <<next_count, count>>
  PROVE  SemTestInv'
<1> DEFINE M == BySem!PhiMutex
           S == BySem!Sems
           P == BySem!PhiSemOf(i)
           h == [state EXCEPT ![i] = "HUNGRY"]
           d == BySem!phi_test_sem([state |-> h, sem |-> sem], i)
<1>1. /\ curr = i /\ curr # NONE /\ pc[i] = "hungry" /\ pc' = [pc EXCEPT ![i] = "eat"]
      /\ sleeping' = sleeping
  BY DinersAssumption DEF BySem!TakeForks, BySem!At, BySem!Goto, Phi
<1>2. /\ sem.value[M] = 0 /\ sem.wait_state[i] = "NONE" /\ i \notin in_down /\ state[i] = "THINKING"
      /\ sem.value[P] = 0
  BY <1>1 DEF SemTestInv, Downs, Seated
<1>3. /\ state' = d.state
      /\ sem' = down(up(d.sem, M), P, i)
      /\ in_down' = IF up(d.sem, M).value[P] > 0 THEN in_down ELSE in_down \cup {i}
      /\ curr' = IF up(d.sem, M).value[P] > 0 THEN curr ELSE NONE
  BY SameDown, SameUp DEF BySem!TakeForks, BySem!Down, BySem!HasUnit
<1>4. /\ S \cap Phi = {} /\ M \in S /\ P \in S /\ P # M /\ sem.next[M] = M /\ sem.next[P] = P
  BY <1>2, SemNames, SemQueues
<1>5. /\ pc' \in [Phi -> PhiPCs] /\ pc'[i] = "eat"
      /\ \A k \in Phi : k # i => pc'[k] = pc[k]
  BY <1>1, SemFacts DEF PhiPCs
<1>6. /\ AtSem' \in [Phi -> S] /\ AtSem'[i] = P /\ \A k \in Phi : k # i => AtSem'[k] = AtSem[k]
  BY <1>5, SemNames DEF AtSem
<1>7. /\ h \in [Phi -> States] /\ \A k \in Phi : h[k] = IF k = i THEN "HUNGRY" ELSE state[k]
      /\ state \in [Phi -> States]
  BY DEF TableInv, States
<1>8. \A k \in Phi : k # i => ~CanEat(h, k)
  BY <1>2, <1>7, Seats DEF CanEat, SemTestInv
<1>9. ASSUME NEW m \in SemRecord(S), NEW at, SemInv(S, m, at), NEW at2 \in [Phi -> S],
             m.wait_state = sem.wait_state, \A k \in Phi : k # i => at2[k] = at[k]
      PROVE  SemInv(S, m, at2)
  BY <1>2, <1>9, AtKeeps
<1> HIDE DEF h
<1>10. CASE CanEat(h, i)
  <2> DEFINE m == up(sem, P)
             n == up(m, M)
  <2>1. d.state = [h EXCEPT ![i] = "EATING"] /\ d.sem = m
    BY <1>10, SameEat, SameUp DEF BySem!phi_test_sem
  <2>2. /\ SemInv(S, m, AtSem) /\ m.next = sem.next /\ m.wait_state = sem.wait_state
        /\ m.wakeup_state = sem.wakeup_state
        /\ \A t \in S : m.value[t] = IF t = P THEN sem.value[P] + 1 ELSE sem.value[t]
    BY <1>4, SemFacts, UpFree
  <2> HIDE DEF m
  <2>3. m \in SemRecord(S)
    BY <2>2 DEF SemInv
  <2>4. /\ SemInv(S, n, AtSem) /\ n.next = sem.next /\ n.wait_state = sem.wait_state
        /\ n.wakeup_state = sem.wakeup_state
        /\ \A t \in S : n.value[t] = IF t = M THEN m.value[M] + 1 ELSE m.value[t]
    BY <1>4, <2>2, <2>3, UpFree
  <2> HIDE DEF n
  <2>5. n \in SemRecord(S)
    BY <2>4 DEF SemInv
  <2>6. n.value[P] = 1 /\ n.value[M] = 1
    BY <1>2, <1>4, <2>2, <2>4
  <2>7. sem' = down(n, P, i) /\ in_down' = in_down /\ curr' = i
    BY <1>1, <1>3, <2>1, <2>6 DEF n
  <2>8. /\ SemInv(S, sem', AtSem) /\ sem'.next = n.next /\ sem'.wait_state = n.wait_state
        /\ sem'.wakeup_state = n.wakeup_state
        /\ \A t \in S : sem'.value[t] = IF t = P THEN n.value[P] - 1 ELSE n.value[t]
    BY <1>4, <2>4, <2>5, <2>6, <2>7, DownTakes
  <2>9. \A t \in S : sem'.value[t] = IF t = M THEN 1 ELSE sem.value[t]
    BY <1>2, <1>4, <2>2, <2>4, <2>6, <2>8
  <2>10. sem' \in SemRecord(S)
    BY <2>8 DEF SemInv
  <2>11. SemInv(S, sem', AtSem')
    BY <1>6, <1>9, <2>4, <2>8, <2>10
  <2>12. state' \in [Phi -> States] /\ \A k \in Phi : state'[k] = IF k = i THEN "EATING" ELSE state[k]
    BY <1>3, <1>7, <2>1 DEF States
  <2>13. Downs'
    BY <1>1, <1>2, <1>5, <2>4, <2>7, <2>8 DEF Downs, SemTestInv
  <2>14. Seated'
    BY <1>5, <2>12 DEF Seated, SemTestInv
  <2>15. \A k \in Phi : ~CanEat(state', k)
    <3>1. \A k \in Phi : state'[k] = IF k = i THEN "EATING" ELSE h[k]
      BY <1>7, <2>12
    <3> QED
      BY <1>8, <3>1, Seats DEF CanEat
  <2>16. \A k \in Phi :
           /\ pc'[k] \in {"hungry", "full"} => curr' = k
           /\ sem'.wait_state[k] = "SEM" <=> state'[k] = "HUNGRY"
           /\ sem'.wait_state[k] = "SEM" => pc'[k] = "eat" /\ sem'.next[BySem!PhiSemOf(k)] = k
           /\ sem'.value[BySem!PhiSemOf(k)] = 0
    BY <1>1, <1>2, <1>5, <2>4, <2>7, <2>8, <2>9, <2>12, SemNames DEF SemTestInv
  <2>17. \A k \in in_down' : pc'[k] = "eat"
    BY <1>5, <2>7 DEF SemTestInv, Downs
  <2>18. sem'.value[M] = 1 /\ pc'[curr'] = "eat"
    BY <1>4, <1>5, <2>7, <2>9
  <2> QED
    BY <2>11, <2>13, <2>14, <2>15, <2>16, <2>17, <2>18 DEF SemTestInv, CanEat, left, right
<1>11. CASE ~CanEat(h, i)
  <2> DEFINE n == up(sem, M)
  <2>1. d.state = h /\ d.sem = sem
    BY <1>11, SameEat DEF BySem!phi_test_sem
  <2>2. /\ SemInv(S, n, AtSem) /\ n.next = sem.next /\ n.wait_state = sem.wait_state
        /\ n.wakeup_state = sem.wakeup_state
        /\ \A t \in S : n.value[t] = IF t = M THEN sem.value[M] + 1 ELSE sem.value[t]
    BY <1>4, SemFacts, UpFree
  <2> HIDE DEF n
  <2>3. n \in SemRecord(S)
    BY <2>2 DEF SemInv
  <2>4. ~(n.value[P] > 0) /\ n.value[M] = 1
    BY <1>2, <1>4, <2>2
  <2>5. sem' = down(n, P, i) /\ in_down' = in_down \cup {i} /\ curr' = NONE
    BY <1>3, <2>1, <2>4 DEF n
  <2>6. /\ SemInv(S, sem', AtSem') /\ sem'.next[P] = i
        /\ \A t \in S : t # P => sem'.next[t] = n.next[t]
    BY <1>2, <1>4, <1>6, <2>2, <2>3, <2>4, <2>5, DownWaits
  <2>7. /\ sem'.value = n.value
        /\ \A x \in Phi : /\ sem'.wait_state[x] = IF x = i THEN "SEM" ELSE n.wait_state[x]
                          /\ sem'.wakeup_state[x] = IF x = i THEN "INT" ELSE n.wakeup_state[x]
    BY <1>4, <2>3, <2>4, <2>5, DownEffect
  <2>12. state' \in [Phi -> States] /\ \A k \in Phi : state'[k] = h[k]
    BY <1>3, <1>7, <2>1
  <2>13. Downs'
    BY <1>1, <1>2, <1>5, <2>2, <2>5, <2>7 DEF Downs, SemTestInv
  <2>14. Seated'
    BY <1>5, <1>7, <2>12 DEF Seated, SemTestInv
  <2>15. \A k \in Phi : ~CanEat(state', k)
    BY <1>8, <1>11, <1>3, <2>1
  <2>16. \A k \in Phi :
           /\ pc'[k] \in {"hungry", "full"} => curr' = k
           /\ sem'.wait_state[k] = "SEM" <=> state'[k] = "HUNGRY"
           /\ sem'.wait_state[k] = "SEM" => pc'[k] = "eat" /\ sem'.next[BySem!PhiSemOf(k)] = k
           /\ sem'.value[BySem!PhiSemOf(k)] = 0
    <3> TAKE k \in Phi
    <3>1. CASE k = i
      BY <1>4, <1>5, <1>7, <2>2, <2>6, <2>7, <2>12, <3>1, <1>2
    <3>2. CASE k # i
      BY <1>1, <1>4, <1>5, <1>7, <2>2, <2>6, <2>7, <2>12, <3>2, SemNames DEF SemTestInv
    <3> QED
      BY <3>1, <3>2
  <2>17. \A k \in in_down' : pc'[k] = "eat"
    BY <1>5, <2>5 DEF SemTestInv, Downs
  <2>18. sem'.value[M] = 1 /\ curr' = NONE
    BY <2>4, <2>5, <2>7
  <2> QED
    BY <2>6, <2>13, <2>14, <2>15, <2>16, <2>17, <2>18 DEF SemTestInv, CanEat, left, right
<1> QED
  BY <1>10, <1>11

\* phi_put_forks_sem tests both neighbours, and nobody else could begin to eat.
LEMMA SemPut ==
  ASSUME SemTestInv, TableInv, NEW i \in Phi, BySem!PutForks(i), UNCHANGED <<next_count, count>>
  PROVE  SemTestInv'
<1> DEFINE M == BySem!PhiMutex
           S == BySem!Sems
           h == [state EXCEPT ![i] = "THINKING"]
           c == [state |-> h, sem |-> sem]
           d == BySem!phi_test_sem(c, left(i))
           e == BySem!phi_test_sem(d, right(i))
<1>1. /\ curr = i /\ curr # NONE /\ pc[i] = "full" /\ sleeping' = sleeping /\ in_down' = in_down
      /\ \/ pc' = [pc EXCEPT ![i] = "quit"] /\ curr' = NONE
         \/ pc' = [pc EXCEPT ![i] = "think"] /\ curr' = curr
  BY DinersAssumption DEF BySem!PutForks, BySem!At, BySem!EndRound, BySem!Goto, Phi
<1>2. /\ sem.value[M] = 0 /\ sem.wait_state[i] = "NONE" /\ i \notin in_down
  BY <1>1 DEF SemTestInv, Downs
<1>3. state' = e.state /\ sem' = up(e.sem, M)
  BY SameOps, SameUp DEF BySem!PutForks, BySem!TestNeighbours
<1>4. /\ S \cap Phi = {} /\ M \in S /\ left(i) \in Phi /\ right(i) \in Phi
      /\ sem.next[M] = M
  BY SemNames, SemQueues, Seats
<1>5. /\ h \in [Phi -> States] /\ \A k \in Phi : h[k] = IF k = i THEN "THINKING" ELSE state[k]
      /\ state \in [Phi -> States] /\ c.state = h /\ c.sem = sem
  BY DEF TableInv, States
<1> HIDE DEF h, c
<1>6. \A k \in Phi : CanEat(h, k) => k = left(i) \/ k = right(i)
  <2> SUFFICES ASSUME NEW k \in Phi, CanEat(h, k), k # left(i), k # right(i) PROVE FALSE
    OBVIOUS
  <2>1. k # i /\ right(k) # i /\ left(k) # i /\ left(k) \in Phi /\ right(k) \in Phi
    BY <1>5, Seats DEF CanEat
  <2>2. CanEat(state, k)
    BY <1>5, <2>1 DEF CanEat
  <2> QED
    BY <2>2 DEF SemTestInv
<1>7. Fits(c.state, c.sem)
  BY <1>1, <1>2, <1>5, SemFacts DEF Fits, SemTestInv, Downs
<1>8. /\ Fits(d.state, d.sem) /\ d.sem.value = sem.value /\ ~CanEat(d.state, left(i))
      /\ \A k \in Phi : CanEat(d.state, k) => CanEat(h, k)
      /\ \A k \in Phi : h[k] # "HUNGRY" => d.state[k] = h[k]
      /\ \A k \in Phi : sem.wait_state[k] = "NONE" => d.sem.wait_state[k] = "NONE"
  <2>1. /\ Fits(d.state, d.sem) /\ d.sem.value = c.sem.value /\ ~CanEat(d.state, left(i))
        /\ \A k \in Phi : CanEat(d.state, k) => CanEat(c.state, k)
        /\ \A k \in Phi : c.state[k] # "HUNGRY" => d.state[k] = c.state[k]
        /\ \A k \in Phi : c.sem.wait_state[k] = "NONE" => d.sem.wait_state[k] = "NONE"
    BY <1>4, <1>7, PutTest
  <2> QED
    BY <1>5, <2>1
<1> HIDE DEF d
<1>9. /\ Fits(e.state, e.sem) /\ e.sem.value = d.sem.value /\ ~CanEat(e.state, right(i))
      /\ \A k \in Phi : CanEat(e.state, k) => CanEat(d.state, k)
      /\ \A k \in Phi : d.state[k] # "HUNGRY" => e.state[k] = d.state[k]
      /\ \A k \in Phi : d.sem.wait_state[k] = "NONE" => e.sem.wait_state[k] = "NONE"
  BY <1>4, <1>8, PutTest
<1> HIDE DEF e
<1>10. /\ SemInv(S, e.sem, AtSem) /\ e.sem \in SemRecord(S) /\ e.sem.next[M] = M
       /\ e.sem.value = sem.value
  <2>1. SemInv(S, e.sem, AtSem) /\ e.sem \in SemRecord(S)
    BY <1>9 DEF Fits, SemInv
  <2>2. ASSUME e.sem.next[M] # M PROVE FALSE
    <3>1. e.sem.next[M] \in Phi /\ e.sem.wait_state[e.sem.next[M]] = "SEM" /\ AtSem[e.sem.next[M]] = M
      BY <1>4, <2>1, <2>2, FirstWaits
    <3>2. \A k \in Phi : e.sem.wait_state[k] = "SEM" => pc[k] = "eat"
      BY <1>9 DEF Fits
    <3> QED
      BY <3>1, <3>2, SemFacts, SemNames
  <2> QED
    BY <1>8, <1>9, <2>1, <2>2
<1>11. /\ SemInv(S, sem', AtSem) /\ sem'.next = e.sem.next /\ sem'.wait_state = e.sem.wait_state
       /\ sem'.wakeup_state = e.sem.wakeup_state
       /\ \A t \in S : sem'.value[t] = IF t = M THEN e.sem.value[M] + 1 ELSE e.sem.value[t]
  BY <1>3, <1>4, <1>10, UpFree
<1>12. /\ pc' \in [Phi -> PhiPCs] /\ pc'[i] \in {"quit", "think"} /\ \A k \in Phi : k # i => pc'[k] = pc[k]
  BY <1>1, SemFacts DEF PhiPCs
<1>13. AtSem' = AtSem
  BY <1>1, <1>12 DEF AtSem
<1>14. /\ sem'.value[M] = 1 /\ curr' \in {i, NONE} /\ sem'.wait_state[i] = "NONE"
       /\ curr' # NONE => pc'[curr'] = "think"
  BY <1>1, <1>2, <1>4, <1>8, <1>9, <1>10, <1>11, SemFacts
<1>15. \A k \in Phi :
         /\ pc'[k] \in {"hungry", "full"} => curr' = k
         /\ sem'.wait_state[k] = "SEM" <=> state'[k] = "HUNGRY"
         /\ sem'.wait_state[k] = "SEM" => /\ pc'[k] = "eat" /\ k \in in_down
                                          /\ sem'.next[BySem!PhiSemOf(k)] = k
         /\ k \in in_down /\ sem'.wait_state[k] = "NONE" => sem'.wakeup_state[k] = "SEM"
         /\ sem'.value[BySem!PhiSemOf(k)] = 0
  <2> TAKE k \in Phi
  <2>1. /\ e.sem.wait_state[k] = "SEM" <=> e.state[k] = "HUNGRY"
        /\ e.sem.wait_state[k] = "SEM" => /\ pc[k] = "eat" /\ k \in in_down
                                          /\ e.sem.next[BySem!PhiSemOf(k)] = k
        /\ k \in in_down /\ e.sem.wait_state[k] = "NONE" => e.sem.wakeup_state[k] = "SEM"
        /\ e.sem.value[BySem!PhiSemOf(k)] = 0
    BY <1>9 DEF Fits
  <2>2. pc[k] \in {"hungry", "full"} => k = i
    BY <1>1 DEF SemTestInv
  <2> QED
    BY <1>1, <1>3, <1>11, <1>12, <2>1, <2>2, SemNames
<1>16. Downs'
  BY <1>1, <1>2, <1>12, <1>14, <1>15 DEF Downs, SemTestInv
<1>17. Seated'
  <2> SUFFICES ASSUME NEW k \in Phi,
                      pc'[k] \in {"think", "take", "hungry", "quit", "left_back", "right",
                                  "right_back", "leave_put"}
               PROVE  state'[k] = "THINKING"
    BY DEF Seated
  <2>1. h[k] = "THINKING"
    BY <1>5, <1>12 DEF SemTestInv, Seated
  <2> QED
    BY <1>3, <1>8, <1>9, <2>1
<1>18. \A k \in Phi : ~CanEat(state', k)
  BY <1>3, <1>6, <1>8, <1>9
<1>19. \A k \in in_down' : pc'[k] = "eat"
  BY <1>1, <1>2, <1>12 DEF SemTestInv, Downs
<1> QED
  BY <1>11, <1>13, <1>14, <1>15, <1>16, <1>17, <1>18, <1>19 DEF SemTestInv, CanEat, left, right

\* down has nothing left to do for whoever was woken by up.
LEMMA ResumeSem ==
  ASSUME NEW S, SemInv(S, sem, AtSem) \/ SemInv(S, sem, AtCond), Downs, NEW i \in Phi, Resume(i)
  PROVE  /\ sem' = sem /\ curr = NONE /\ curr' = i /\ in_down' = in_down \ {i}
         /\ sem.wait_state[i] = "NONE" /\ curr' # NONE
         /\ state' = state /\ pc' = pc /\ sleeping' = sleeping
<1>1. sem \in SemRecord(S) /\ ~sem.panic /\ sem.wait_state[i] = "NONE"
      /\ sem.next[i] = i /\ sem.prev[i] = i
  BY DEF SemInv, Resume
<1>2. i \in in_down => sem.wakeup_state[i] = "SEM"
  BY <1>1 DEF Downs
<1>3. i \in in_down => down_returns(sem, i) = [sem EXCEPT !.panic = FALSE]
  BY <1>1, <1>2 DEF down_returns, list_empty
<1>4. [sem EXCEPT !.panic = FALSE] = sem
  BY <1>1 DEF SemRecord
<1>5. i # NONE
  BY DinersAssumption DEF Phi
<1> QED
  BY <1>1, <1>3, <1>4, <1>5 DEF Resume

\* schedule() and the timers, during test_phi_sem.
LEMMA SemRest ==
  ASSUME SemTestInv, NEW i \in Phi, Resume(i) \/ Wake(i), UNCHANGED <<next_count, count>>
  PROVE  SemTestInv'
<1>1. CASE Resume(i)
  <2>1. /\ sem' = sem /\ curr = NONE /\ curr' = i /\ in_down' = in_down \ {i}
        /\ sem.wait_state[i] = "NONE" /\ curr' # NONE
        /\ state' = state /\ pc' = pc /\ sleeping' = sleeping
    BY <1>1, ResumeSem, SemFacts DEF SemTestInv
  <2>2. Downs'
    BY <2>1 DEF Downs, SemTestInv
  <2>3. pc[i] \notin {"hungry", "full"}
    BY <2>1 DEF SemTestInv
  <2>4. AtSem' = AtSem
    BY <2>1 DEF AtSem
  <2>5. \A k \in Phi : pc'[k] \in {"hungry", "full"} => curr' = k
    BY <2>1, DinersAssumption DEF SemTestInv, Phi
  <2> QED
    BY <2>1, <2>2, <2>3, <2>4, <2>5 DEF SemTestInv, Seated, CanEat, left, right
<1>2. CASE Wake(i)
  BY <1>2 DEF Wake, SemTestInv, Downs, Seated, AtSem, CanEat, left, right
<1> QED
  BY <1>1, <1>2

-----------------------------------------------------------------------------
(* The steps of test_phi_cond.                                             *)

\* What is used of CondTestInv in every step.
LEMMA CondFacts ==
  ASSUME CondTestInv
  PROVE  /\ sem \in SemRecord(ByCond!Sems) /\ SemInv(ByCond!Sems, sem, AtCond) /\ ~sem.panic
         /\ sem.wait_state \in [Phi -> {"NONE", "SEM"}]
         /\ pc \in [Phi -> PhiPCs]
         /\ AtCond \in [Phi -> ByCond!Sems]
         /\ \A k \in Phi : AtCond[k] = IF pc[k] = "waited" THEN ByCond!CondSem(k)
                                       ELSE IF pc[k] \in Back THEN ByCond!NextSem ELSE ByCond!MutexSem
<1>1. sem \in SemRecord(ByCond!Sems) /\ SemInv(ByCond!Sems, sem, AtCond) /\ ~sem.panic
  BY DEF CondTestInv, SemInv
<1>2. sem.wait_state \in [Phi -> {"NONE", "SEM"}]
  BY <1>1 DEF SemRecord
<1>3. AtCond \in [Phi -> ByCond!Sems]
  BY CondNames DEF AtCond
<1> QED
  BY <1>1, <1>2, <1>3 DEF CondTestInv, Downs, AtCond

\* Where a philosopher is inside the monitor.
Inside == {"hungry", "full", "waited", "leave", "left_back", "right", "right_back", "leave_put"}

LEMMA ActiveIs == ByCond!Active = { i \in Phi : pc[i] \in Inside /\ sem.wait_state[i] = "NONE" }
BY SameOps DEF ByCond!Active, Inside

\* Who is active in the monitor is so alone, and unless it was signalled itself
\* no signaller waits.
LEMMA Alone ==
  ASSUME CondTestInv, NEW i \in Phi, pc[i] \in Inside, sem.wait_state[i] = "NONE"
  PROVE  /\ sem.value[ByCond!MutexSem] = 0 /\ ByCond!Active = {i}
         /\ \A k \in Phi : k # i /\ pc[k] \in Inside => sem.wait_state[k] = "SEM"
         /\ pc[i] \notin {"waited", "leave"} \cup Back => next_count = 0 /\ \A k \in Phi : pc[k] \notin Back
         /\ pc[i] \in Back => next_count = 1 /\ \A k \in Phi : pc[k] \in Back <=> k = i
<1>1. i \in ByCond!Active
  BY ActiveIs
<1>2. sem.value[ByCond!MutexSem] = 0 /\ ByCond!Active = {i}
  BY <1>1 DEF CondTestInv, Owned
<1>3. \A k \in Phi : k # i /\ pc[k] \in Inside => sem.wait_state[k] = "SEM"
  BY <1>2, ActiveIs, CondFacts
<1>4. ASSUME pc[i] \notin {"waited", "leave"} \cup Back
      PROVE  next_count = 0 /\ \A k \in Phi : pc[k] \notin Back
  BY <1>2, <1>3, <1>4 DEF CondTestInv, Signals, Back, Inside
<1>5. ASSUME pc[i] \in Back PROVE next_count = 1 /\ \A k \in Phi : pc[k] \in Back <=> k = i
  BY <1>5 DEF CondTestInv, Signals
<1> QED
  BY <1>2, <1>3, <1>4, <1>5

\* Who waits where.
LEMMA CondQueues ==
  ASSUME CondTestInv, NEW s \in ByCond!Sems, NEW w, sem.next[s] = w, w # s
  PROVE  /\ w \in Phi /\ sem.wait_state[w] = "SEM"
         /\ s = ByCond!MutexSem => pc[w] \in {"hungry", "full"}
         /\ s = ByCond!NextSem => pc[w] \in Back
<1>1. w \in Phi /\ sem.wait_state[w] = "SEM" /\ AtCond[w] = s
  BY CondFacts, FirstWaits
<1>2. pc[w] \in {"hungry", "full", "waited"} \cup Back
  BY <1>1 DEF CondTestInv, CondEach
<1> QED
  BY <1>1, <1>2, CondFacts, CondNames DEF Back

\* do_sleep.
LEMMA CondSleep ==
  ASSUME CondTestInv, NEW i \in Phi, ByCond!Sleep(i), UNCHANGED <<next_count, count>>
  PROVE  CondTestInv'
<1>1. /\ curr = i /\ curr # NONE /\ curr' = NONE
      /\ \/ pc[i] = "think" /\ pc' = [pc EXCEPT ![i] = "take"]
         \/ pc[i] = "eat" /\ pc' = [pc EXCEPT ![i] = "put"]
      /\ state' = state /\ sleeping' = sleeping \cup {i} /\ sem' = sem /\ in_down' = in_down
  BY DinersAssumption DEF ByCond!Sleep, ByCond!At, ByCond!Goto, Phi
<1>2. sem.wait_state[i] = "NONE" /\ i \notin in_down
  BY <1>1 DEF CondTestInv, Downs
<1>3. /\ pc' \in [Phi -> PhiPCs]
      /\ pc'[i] \in {"take", "put"} /\ pc[i] \in {"think", "eat"}
      /\ pc[i] = "think" => pc'[i] = "take"
      /\ pc[i] = "eat" => pc'[i] = "put"
      /\ \A k \in Phi : k # i => pc'[k] = pc[k]
  BY <1>1, CondFacts DEF PhiPCs
<1>4. AtCond' = AtCond
  BY <1>3 DEF AtCond, Back
<1>5. Downs'
  BY <1>1, <1>3 DEF Downs, CondTestInv
<1>6. Seated'
  BY <1>1, <1>3 DEF Seated, CondTestInv
<1>7. ByCond!Active' = ByCond!Active
  BY <1>1, <1>3, SameOps DEF ByCond!Active
<1>8. Owned'
  BY <1>1, <1>7 DEF Owned, CondTestInv
<1>9. Signals'
  BY <1>1, <1>3, <1>7, ActiveIs DEF Signals, CondTestInv, Back
<1>10. \A k \in Phi : CondEach(k)'
  BY <1>1, <1>2, <1>3, Seats DEF CondTestInv, CondEach, Back, CanEat, left, right
<1> QED
  BY <1>1, <1>4, <1>5, <1>6, <1>8, <1>9, <1>10 DEF CondTestInv

\* down(&mutex): the philosopher gets the free monitor, or waits outside.
LEMMA CondEnter ==
  ASSUME CondTestInv, NEW i \in Phi, ByCond!Enter(i)
  PROVE  CondTestInv'
<1> DEFINE M == ByCond!MutexSem
           S == ByCond!Sems
<1>1. /\ curr = i /\ curr # NONE
      /\ \/ pc[i] = "take" /\ pc' = [pc EXCEPT ![i] = "hungry"]
         \/ pc[i] = "put" /\ pc' = [pc EXCEPT ![i] = "full"]
      /\ state' = state /\ sleeping' = sleeping /\ next_count' = next_count /\ count' = count
  BY DinersAssumption DEF ByCond!Enter, ByCond!At, ByCond!Goto, Phi
<1>2. sem.wait_state[i] = "NONE" /\ i \notin in_down
  BY <1>1 DEF CondTestInv, Downs
<1>3. /\ pc' \in [Phi -> PhiPCs]
      /\ pc'[i] \in {"hungry", "full"} /\ pc[i] \in {"take", "put"}
      /\ pc[i] = "take" => pc'[i] = "hungry"
      /\ \A k \in Phi : k # i => pc'[k] = pc[k]
  BY <1>1, CondFacts DEF PhiPCs
<1>4. AtCond' = AtCond /\ AtCond[i] = M
  BY <1>3 DEF AtCond, Back
<1>5. Seated'
  BY <1>1, <1>3 DEF Seated, CondTestInv
<1>6. /\ sem' = down(sem, M, i)
      /\ in_down' = IF sem.value[M] > 0 THEN in_down ELSE in_down \cup {i}
      /\ curr' = IF sem.value[M] > 0 THEN curr ELSE NONE
  BY SameDown DEF ByCond!Enter, ByCond!Down, ByCond!HasUnit
<1>7. M \in S /\ \A k \in Phi : ByCond!CondSem(k) \in S /\ ByCond!CondSem(k) # M
  BY CondNames
<1>8. ByCond!NextSem \in S /\ ByCond!NextSem # M
  BY CondNames
<1>9. \A k \in Phi : CanEat(state', k) => pc'[left(k)] \in {"left_back", "right"}
  <2> SUFFICES ASSUME NEW k \in Phi, CanEat(state, k) PROVE pc'[left(k)] \in {"left_back", "right"}
    BY <1>1
  <2>1. pc[left(k)] \in {"left_back", "right"} /\ left(k) \in Phi
    BY Seats DEF CondTestInv, CondEach
  <2> QED
    BY <1>3, <2>1
<1>10. CASE sem.value[M] = 1 /\ ByCond!Active = {}
  <2>1. /\ SemInv(S, sem', AtCond)
        /\ \A t \in S : sem'.value[t] = IF t = M THEN sem.value[M] - 1 ELSE sem.value[t]
        /\ sem'.next = sem.next /\ sem'.wait_state = sem.wait_state
        /\ sem'.wakeup_state = sem.wakeup_state
    BY <1>6, <1>7, <1>10, CondFacts, DownTakes
  <2>2. in_down' = in_down /\ curr' = curr
    BY <1>6, <1>10
  <2>3. Downs'
    BY <1>1, <1>3, <2>1, <2>2 DEF Downs, CondTestInv
  <2>4. \A k \in Phi : ~(pc[k] \in Inside /\ sem.wait_state[k] = "NONE")
    BY <1>10, ActiveIs
  <2>5. ByCond!Active' = {i}
    BY <1>2, <1>3, <2>1, <2>4, SameOps DEF ByCond!Active, Inside
  <2>6. Owned'
    BY <1>7, <1>10, <2>1, <2>5 DEF Owned
  <2>7. Signals'
    BY <1>1, <1>3, <1>10, <2>1, <2>4 DEF Signals, CondTestInv, Back
  <2>8. \A k \in Phi : CondEach(k)'
    BY <1>1, <1>2, <1>3, <1>7, <1>8, <1>9, <2>1 DEF CondTestInv, CondEach, Back, CanEat, left, right
  <2>9. sem'.value[ByCond!NextSem] = 0
    BY <1>8, <2>1 DEF CondTestInv
  <2> QED
    BY <1>1, <1>4, <1>5, <2>1, <2>3, <2>6, <2>7, <2>8, <2>9 DEF CondTestInv
<1>11. CASE sem.value[M] = 0 /\ \E k \in Phi : ByCond!Active = {k}
  <2>1. ~(sem.value[M] > 0)
    BY <1>11
  <2>2. /\ SemInv(S, sem', AtCond')
        /\ \A t \in S : t # M => sem'.next[t] = sem.next[t]
    BY <1>2, <1>4, <1>6, <1>7, <2>1, CondFacts, CondNames, DownWaits
  <2>3. /\ sem'.value = sem.value
        /\ \A x \in Phi : /\ sem'.wait_state[x] = IF x = i THEN "SEM" ELSE sem.wait_state[x]
                          /\ sem'.wakeup_state[x] = IF x = i THEN "INT" ELSE sem.wakeup_state[x]
    BY <1>6, <1>7, <2>1, CondFacts, DownEffect
  <2>4. in_down' = in_down \cup {i} /\ curr' = NONE
    BY <1>6, <2>1
  <2>5. Downs'
    BY <1>1, <1>3, <2>3, <2>4 DEF Downs, CondTestInv
  <2>6. ByCond!Active' = ByCond!Active
    BY <1>3, <2>3, SameOps DEF ByCond!Active
  <2>7. Owned'
    BY <1>11, <2>3, <2>6 DEF Owned
  <2>8. Signals'
    BY <1>1, <1>3, <2>3, <2>6, ActiveIs DEF Signals, CondTestInv, Back
  <2>9. \A k \in Phi : CondEach(k)'
    BY <1>1, <1>2, <1>3, <1>7, <1>8, <1>9, <2>2, <2>3 DEF CondTestInv, CondEach, Back, CanEat, left, right
  <2> QED
    BY <1>1, <1>5, <2>2, <2>3, <2>5, <2>7, <2>8, <2>9 DEF CondTestInv
<1> QED
  BY <1>10, <1>11 DEF CondTestInv, Owned

\* phi_take_forks_cond with both forks free.
LEMMA CondTake ==
  ASSUME CondTestInv, TableInv, NEW i \in Phi, ByCond!TakeForks(i)
  PROVE  CondTestInv'
<1>1. /\ curr = i /\ curr # NONE /\ pc[i] = "hungry" /\ pc' = [pc EXCEPT ![i] = "leave"]
      /\ sem' = sem /\ curr' = curr /\ in_down' = in_down
      /\ sleeping' = sleeping /\ next_count' = next_count /\ count' = count
      /\ state' = [[state EXCEPT ![i] = "HUNGRY"] EXCEPT ![i] = "EATING"]
  BY DinersAssumption DEF ByCond!TakeForks, ByCond!At, ByCond!Goto, Phi
<1>2. sem.wait_state[i] = "NONE" /\ i \notin in_down
  BY <1>1 DEF CondTestInv, Downs
<1>3. pc' \in [Phi -> PhiPCs] /\ pc'[i] = "leave" /\ \A k \in Phi : k # i => pc'[k] = pc[k]
  BY <1>1, CondFacts DEF PhiPCs
<1>4. AtCond' = AtCond
  BY <1>1, <1>3 DEF AtCond, Back
<1>5. \A k \in Phi : state'[k] = IF k = i THEN "EATING" ELSE state[k]
  BY <1>1 DEF TableInv
<1>6. Seated'
  BY <1>3, <1>5 DEF Seated, CondTestInv
<1>7. Downs'
  BY <1>1, <1>3 DEF Downs, CondTestInv
<1>8. ByCond!Active' = ByCond!Active
  BY <1>1, <1>3, SameOps DEF ByCond!Active
<1>9. Owned'
  BY <1>1, <1>8 DEF Owned, CondTestInv
<1>10. Signals'
  BY <1>1, <1>2, <1>3, Alone DEF Signals, Back, Inside
<1>11. \A k \in Phi : CanEat(state', k) => pc'[left(k)] \in {"left_back", "right"}
  <2> SUFFICES ASSUME NEW k \in Phi, CanEat(state', k) PROVE pc'[left(k)] \in {"left_back", "right"}
    OBVIOUS
  <2>1. CanEat(state, k) /\ left(k) \in Phi
    BY <1>5, Seats DEF CanEat
  <2>2. pc[left(k)] \in {"left_back", "right"}
    BY <2>1 DEF CondTestInv, CondEach
  <2> QED
    BY <1>1, <1>3, <2>1, <2>2
<1>12. \A k \in Phi : CondEach(k)'
  <2>1. sem' = sem /\ count' = count /\ pc[i] = "hungry"
    BY <1>1
  <2> QED
    BY <1>2, <1>3, <1>11, <2>1 DEF CondTestInv, CondEach, Back, CanEat, left, right
<1> QED
  BY <1>1, <1>4, <1>6, <1>7, <1>9, <1>10, <1>12 DEF CondTestInv

\* wait_cond after its down.
LEMMA CondWaited ==
  ASSUME CondTestInv, NEW i \in Phi, ByCond!WaitCondReturns(i)
  PROVE  CondTestInv'
<1>1. /\ curr = i /\ curr # NONE /\ pc[i] = "waited" /\ pc' = [pc EXCEPT ![i] = "leave"]
      /\ sem' = sem /\ curr' = curr /\ in_down' = in_down /\ state' = state
      /\ sleeping' = sleeping /\ next_count' = next_count /\ count' = [count EXCEPT ![i] = count[i] - 1]
  BY DinersAssumption DEF ByCond!WaitCondReturns, ByCond!At, ByCond!Goto, Phi
<1>2. sem.wait_state[i] = "NONE" /\ i \notin in_down /\ count[i] = 1 /\ count \in [Phi -> Nat]
  BY <1>1 DEF CondTestInv, CondEach, Downs
<1>3. pc' \in [Phi -> PhiPCs] /\ pc'[i] = "leave" /\ \A k \in Phi : k # i => pc'[k] = pc[k]
  BY <1>1, CondFacts DEF PhiPCs
<1>4. SemInv(ByCond!Sems, sem', AtCond')
  <2>1. AtCond' \in [Phi -> ByCond!Sems] /\ \A k \in Phi : k # i => AtCond'[k] = AtCond[k]
    BY <1>3, CondNames DEF AtCond
  <2> QED
    BY <1>1, <1>2, <2>1, CondFacts, AtKeeps
<1>5. count' \in [Phi -> Nat] /\ count'[i] = 0 /\ \A k \in Phi : k # i => count'[k] = count[k]
  BY <1>1, <1>2
<1>6. Seated'
  BY <1>1, <1>3 DEF Seated, CondTestInv
<1>7. Downs'
  BY <1>1, <1>3 DEF Downs, CondTestInv
<1>8. ByCond!Active' = ByCond!Active
  BY <1>1, <1>3, SameOps DEF ByCond!Active
<1>9. Owned'
  BY <1>1, <1>8 DEF Owned, CondTestInv
<1>10. Signals'
  BY <1>1, <1>3, <1>8, ActiveIs DEF Signals, CondTestInv, Back
<1>11. \A k \in Phi : CondEach(k)'
  BY <1>1, <1>2, <1>3, <1>5, Seats DEF CondTestInv, CondEach, Back, CanEat, left, right
<1> QED
  BY <1>1, <1>4, <1>5, <1>6, <1>7, <1>9, <1>10, <1>11 DEF CondTestInv

\* signal_cond after its down(&next).
LEMMA CondSignalled ==
  ASSUME CondTestInv, NEW i \in Phi, ByCond!SignalReturns(i)
  PROVE  CondTestInv'
<1>1. /\ curr = i /\ curr # NONE
      /\ \/ pc[i] = "left_back" /\ pc' = [pc EXCEPT ![i] = "right"]
         \/ pc[i] = "right_back" /\ pc' = [pc EXCEPT ![i] = "leave_put"]
      /\ sem' = sem /\ curr' = curr /\ in_down' = in_down /\ state' = state
      /\ sleeping' = sleeping /\ next_count' = next_count - 1 /\ count' = count
  BY DinersAssumption DEF ByCond!SignalReturns, ByCond!At, ByCond!Goto, Phi
<1>2. sem.wait_state[i] = "NONE" /\ i \notin in_down
  BY <1>1 DEF CondTestInv, Downs
<1>3. /\ pc' \in [Phi -> PhiPCs] /\ \A k \in Phi : k # i => pc'[k] = pc[k]
      /\ pc[i] \in {"left_back", "right_back"} /\ pc'[i] \in {"right", "leave_put"}
      /\ pc[i] = "left_back" => pc'[i] = "right"
  BY <1>1, CondFacts DEF PhiPCs
<1>4. SemInv(ByCond!Sems, sem', AtCond')
  <2>1. AtCond' \in [Phi -> ByCond!Sems] /\ \A k \in Phi : k # i => AtCond'[k] = AtCond[k]
    BY <1>3, CondNames DEF AtCond
  <2> QED
    BY <1>1, <1>2, <2>1, CondFacts, AtKeeps
<1>5. Seated'
  BY <1>1, <1>3 DEF Seated, CondTestInv
<1>6. Downs'
  BY <1>1, <1>3 DEF Downs, CondTestInv
<1>7. ByCond!Active' = ByCond!Active
  BY <1>1, <1>3, SameOps DEF ByCond!Active
<1>8. Owned'
  BY <1>1, <1>7 DEF Owned, CondTestInv
<1>9. next_count = 1 /\ \A k \in Phi : pc[k] \in Back <=> k = i
  BY <1>2, <1>3, Alone DEF Inside, Back
<1>10. Signals'
  BY <1>1, <1>3, <1>9 DEF Signals, Back
<1>11. \A k \in Phi : CanEat(state', k) => pc'[left(k)] \in {"left_back", "right"}
  BY <1>1, <1>3, Seats DEF CondTestInv, CondEach
<1>12. \A k \in Phi : CondEach(k)'
  BY <1>1, <1>2, <1>3, <1>11 DEF CondTestInv, CondEach, Back, CanEat, left, right
<1> QED
  BY <1>1, <1>4, <1>5, <1>6, <1>8, <1>10, <1>12 DEF CondTestInv

\* schedule() and the timers, during test_phi_cond.
LEMMA CondRest ==
  ASSUME CondTestInv, NEW i \in Phi, Resume(i) \/ Wake(i), UNCHANGED <<next_count, count>>
  PROVE  CondTestInv'
<1>1. /\ sem' = sem /\ state' = state /\ pc' = pc /\ next_count' = next_count /\ count' = count
      /\ Downs'
  <2>1. CASE Resume(i)
    <3>1. /\ sem' = sem /\ curr = NONE /\ curr' = i /\ in_down' = in_down \ {i}
          /\ sem.wait_state[i] = "NONE" /\ curr' # NONE
          /\ state' = state /\ pc' = pc /\ sleeping' = sleeping
      BY <2>1, ResumeSem, CondFacts DEF CondTestInv
    <3>2. Downs'
      BY <3>1 DEF Downs, CondTestInv
    <3> QED
      BY <3>1, <3>2
  <2>2. CASE Wake(i)
    BY <2>2 DEF Wake, CondTestInv, Downs
  <2> QED
    BY <2>1, <2>2
<1>2. AtCond' = AtCond /\ ByCond!Active' = ByCond!Active
  BY <1>1 DEF AtCond, ByCond!Active
<1>3. Owned' /\ Signals' /\ Seated'
  BY <1>1, <1>2 DEF Owned, Signals, Seated, CondTestInv
<1>4. \A k \in Phi : CondEach(k)'
  BY <1>1 DEF CondTestInv, CondEach, CanEat, left, right
<1> QED
  BY <1>1, <1>2, <1>3, <1>4 DEF CondTestInv

\* up(&mutex) by the one in the monitor: w gets it, or nobody wants it.
LEMMA GiveMutex ==
  ASSUME CondTestInv, NEW i \in Phi, pc[i] \in Inside, sem.wait_state[i] = "NONE",
         NEW m, m = up(sem, ByCond!MutexSem)
  PROVE  /\ m \in SemRecord(ByCond!Sems) /\ SemInv(ByCond!Sems, m, AtCond)
         /\ \A t \in ByCond!Sems : t # ByCond!MutexSem => m.next[t] = sem.next[t] /\ m.value[t] = sem.value[t]
         /\ \E w \in Phi \cup {NONE} :
              /\ w # i
              /\ w # NONE => sem.wait_state[w] = "SEM" /\ pc[w] \in {"hungry", "full"}
              /\ m.value[ByCond!MutexSem] = IF w = NONE THEN 1 ELSE 0
              /\ \A x \in Phi : m.wait_state[x] = IF x = w THEN "NONE" ELSE sem.wait_state[x]
              /\ \A x \in Phi : m.wakeup_state[x] = IF x = w THEN "SEM" ELSE sem.wakeup_state[x]
<1> DEFINE M == ByCond!MutexSem
           S == ByCond!Sems
<1>1. M \in S /\ S \cap Phi = {} /\ sem.value[M] = 0 /\ sem \in SemRecord(S) /\ SemInv(S, sem, AtCond)
  BY CondNames, Alone, CondFacts
<1>2. CASE sem.next[M] = M
  <2>1. /\ SemInv(S, m, AtCond)
        /\ \A t \in S : m.value[t] = IF t = M THEN sem.value[M] + 1 ELSE sem.value[t]
        /\ m.next = sem.next /\ m.wait_state = sem.wait_state
        /\ m.wakeup_state = sem.wakeup_state
    BY <1>1, <1>2, UpFree
  <2>2. NONE \notin Phi
    BY DinersAssumption DEF Phi
  <2>3. m \in SemRecord(S)
    BY <2>1 DEF SemInv
  <2>4. m.value[M] = 1
    BY <1>1, <2>1
  <2>5. /\ \A x \in Phi : m.wait_state[x] = IF x = NONE THEN "NONE" ELSE sem.wait_state[x]
        /\ \A x \in Phi : m.wakeup_state[x] = IF x = NONE THEN "SEM" ELSE sem.wakeup_state[x]
        /\ NONE # i
    BY <2>1, <2>2
  <2> QED
    BY <2>1, <2>3, <2>4, <2>5
<1>3. CASE sem.next[M] # M
  <2>1. PICK w \in Phi : /\ sem.next[M] = w /\ sem.wait_state[w] = "SEM" /\ pc[w] \in {"hungry", "full"}
    BY <1>1, <1>3, CondQueues
  <2>2. /\ SemInv(S, m, AtCond) /\ m.value = sem.value
        /\ \A x \in Phi : /\ m.wait_state[x] = IF x = w THEN "NONE" ELSE sem.wait_state[x]
                          /\ m.wakeup_state[x] = IF x = w THEN "SEM" ELSE sem.wakeup_state[x]
        /\ \A t \in S : t # M => m.next[t] = sem.next[t]
    BY <1>1, <2>1, UpWakes
  <2>3. m \in SemRecord(S)
    BY <2>2 DEF SemInv
  <2>4. w # NONE /\ w # i
    BY <2>1, DinersAssumption DEF Phi
  <2> QED
    BY <1>1, <2>1, <2>2, <2>3, <2>4
<1> QED
  BY <1>2, <1>3

\* wait_cond: the monitor is given up before the philosopher waits.
LEMMA CondWait ==
  ASSUME CondTestInv, TableInv, NEW i \in Phi, ByCond!WaitCond(i)
  PROVE  CondTestInv'
<1> DEFINE M == ByCond!MutexSem
           N == ByCond!NextSem
           S == ByCond!Sems
           C == ByCond!CondSem(i)
           m == up(sem, M)
           h == [state EXCEPT ![i] = "HUNGRY"]
<1>1. /\ curr = i /\ curr # NONE /\ pc[i] = "hungry" /\ pc' = [pc EXCEPT ![i] = "waited"]
      /\ sleeping' = sleeping /\ next_count' = next_count /\ count' = [count EXCEPT ![i] = count[i] + 1]
      /\ state' = h /\ ~CanEat(h, i)
  BY DinersAssumption, SameEatCond DEF ByCond!WaitCond, ByCond!At, ByCond!Goto, Phi
<1>2. /\ sem.wait_state[i] = "NONE" /\ i \notin in_down /\ count[i] = 0 /\ count \in [Phi -> Nat]
      /\ sem.value[C] = 0 /\ sem.value[N] = 0 /\ state[i] = "THINKING"
  BY <1>1 DEF CondTestInv, CondEach, Downs, Seated
<1>3. pc' \in [Phi -> PhiPCs] /\ pc'[i] = "waited" /\ \A k \in Phi : k # i => pc'[k] = pc[k]
  BY <1>1, CondFacts DEF PhiPCs
<1>4. /\ next_count = 0 /\ \A k \in Phi : pc[k] \notin Back
  BY <1>1, <1>2, Alone DEF Inside, Back
<1>5. \A k \in Phi : k # i /\ pc[k] \in Inside => sem.wait_state[k] = "SEM"
  BY <1>1, <1>2, Alone DEF Inside
<1>6. /\ M \in S /\ N \in S /\ C \in S /\ S \cap Phi = {} /\ C # M /\ C # N /\ N # M
      /\ \A k \in Phi : ByCond!CondSem(k) \in S /\ ByCond!CondSem(k) # M
      /\ \A k \in Phi : k # i => ByCond!CondSem(k) # C
  BY CondNames
<1>7. /\ m \in SemRecord(S) /\ SemInv(S, m, AtCond)
      /\ \A t \in S : t # M => m.next[t] = sem.next[t] /\ m.value[t] = sem.value[t]
      /\ \E w \in Phi \cup {NONE} :
           /\ w # i
           /\ w # NONE => sem.wait_state[w] = "SEM" /\ pc[w] \in {"hungry", "full"}
           /\ m.value[M] = IF w = NONE THEN 1 ELSE 0
           /\ \A x \in Phi : m.wait_state[x] = IF x = w THEN "NONE" ELSE sem.wait_state[x]
           /\ \A x \in Phi : m.wakeup_state[x] = IF x = w THEN "SEM" ELSE sem.wakeup_state[x]
  BY <1>1, <1>2, GiveMutex DEF Inside
<1>8. PICK w \in Phi \cup {NONE} :
           /\ w # i
           /\ w # NONE => sem.wait_state[w] = "SEM" /\ pc[w] \in {"hungry", "full"}
           /\ m.value[M] = IF w = NONE THEN 1 ELSE 0
           /\ \A x \in Phi : m.wait_state[x] = IF x = w THEN "NONE" ELSE sem.wait_state[x]
           /\ \A x \in Phi : m.wakeup_state[x] = IF x = w THEN "SEM" ELSE sem.wakeup_state[x]
  BY <1>7
<1>9. ~(m.value[C] > 0) /\ m.value[C] = 0 /\ m.wait_state[i] = "NONE"
  BY <1>2, <1>6, <1>7, <1>8
<1>10. sem' = down(m, C, i) /\ in_down' = in_down \cup {i} /\ curr' = NONE
  BY <1>4, <1>9, SameDown, SameUp DEF ByCond!WaitCond, ByCond!Down, ByCond!HasUnit, ByCond!GiveTo
<1> HIDE DEF m, h
<1>11. AtCond' \in [Phi -> S] /\ AtCond'[i] = C /\ \A k \in Phi : k # i => AtCond'[k] = AtCond[k]
  BY <1>3, CondNames DEF AtCond
<1>12. /\ SemInv(S, sem', AtCond') /\ sem'.next[C] = i
       /\ \A t \in S : t # C => sem'.next[t] = m.next[t]
  BY <1>6, <1>7, <1>9, <1>10, <1>11, DownWaits
<1>13. /\ sem'.value = m.value
       /\ \A x \in Phi : /\ sem'.wait_state[x] = IF x = i THEN "SEM" ELSE m.wait_state[x]
                         /\ sem'.wakeup_state[x] = IF x = i THEN "INT" ELSE m.wakeup_state[x]
  BY <1>6, <1>7, <1>9, <1>10, DownEffect
<1>14. \A x \in Phi : /\ sem'.wait_state[x] = IF x = i THEN "SEM" ELSE IF x = w THEN "NONE" ELSE sem.wait_state[x]
                      /\ sem'.wakeup_state[x] = IF x = i THEN "INT" ELSE IF x = w THEN "SEM" ELSE sem.wakeup_state[x]
  BY <1>8, <1>13
<1>15. \A k \in Phi : state'[k] = IF k = i THEN "HUNGRY" ELSE state[k]
  BY <1>1 DEF TableInv, h
<1>16. Seated'
  BY <1>3, <1>15 DEF Seated, CondTestInv
<1>17. Downs'
  BY <1>1, <1>3, <1>8, <1>10, <1>14 DEF Downs, CondTestInv
<1>18. \A k \in Phi : pc'[k] \in Inside /\ sem'.wait_state[k] = "NONE" <=> k = w
  <2>1. NONE \notin Phi
    BY DinersAssumption DEF Phi
  <2> QED
    BY <1>3, <1>5, <1>8, <1>14, <2>1 DEF Inside
<1>19. ByCond!Active' = Phi \cap {w}
  BY <1>18, SameOps DEF ByCond!Active, Inside
<1>20. Owned'
  <2>1. NONE \notin Phi
    BY DinersAssumption DEF Phi
  <2> QED
    BY <1>8, <1>13, <1>19, <2>1 DEF Owned
<1>21. Signals'
  BY <1>1, <1>3, <1>4 DEF Signals, Back
<1>22. \A k \in Phi : CanEat(state', k) => pc'[left(k)] \in {"left_back", "right"}
  <2> SUFFICES ASSUME NEW k \in Phi, CanEat(state', k) PROVE pc'[left(k)] \in {"left_back", "right"}
    OBVIOUS
  <2>1. k # i
    BY <1>1
  <2>2. CanEat(state, k) /\ left(k) \in Phi
    BY <1>2, <1>15, <2>1, Seats DEF CanEat
  <2>3. pc[left(k)] \in {"left_back", "right"}
    BY <2>2 DEF CondTestInv, CondEach
  <2> QED
    BY <1>1, <1>3, <2>2, <2>3
<1>23. count' \in [Phi -> Nat] /\ count'[i] = 1 /\ \A k \in Phi : k # i => count'[k] = count[k]
  BY <1>1, <1>2
<1>24. ASSUME NEW k \in Phi PROVE CondEach(k)'
  <2>1. CASE k = i
    BY <1>3, <1>6, <1>9, <1>12, <1>13, <1>22, <1>23, <2>1 DEF CondEach, Back, CanEat, left, right
  <2>2. CASE k # i
    <3>1. sem'.wait_state[k] = "SEM" => sem.wait_state[k] = "SEM"
      BY <1>14, <2>2
    <3>2. sem'.next[ByCond!CondSem(k)] = sem.next[ByCond!CondSem(k)] /\ sem'.next[N] = sem.next[N]
      BY <1>6, <1>7, <1>12, <2>2
    <3>3. sem'.value[ByCond!CondSem(k)] = sem.value[ByCond!CondSem(k)]
      BY <1>6, <1>7, <1>13
    <3> QED
      BY <1>3, <1>22, <1>23, <2>2, <3>1, <3>2, <3>3 DEF CondTestInv, CondEach, CanEat, left, right
  <2> QED
    BY <2>1, <2>2
<1>25. sem'.value[N] = 0
  BY <1>2, <1>6, <1>7, <1>13
<1> QED
  BY <1>12, <1>16, <1>17, <1>20, <1>21, <1>23, <1>24, <1>25 DEF CondTestInv

\* The end of the two routines of the monitor: it goes to the signaller that waits,
\* to one outside, or to nobody.
LEMMA CondLeave ==
  ASSUME CondTestInv, NEW i \in Phi, ByCond!Leave(i)
  PROVE  CondTestInv'
<1> DEFINE M == ByCond!MutexSem
           N == ByCond!NextSem
           S == ByCond!Sems
<1>1. /\ curr = i /\ curr # NONE /\ sleeping' = sleeping /\ next_count' = next_count /\ count' = count
      /\ state' = state /\ in_down' = in_down
      /\ \/ pc[i] = "leave" /\ pc' = [pc EXCEPT ![i] = "eat"] /\ curr' = curr
         \/ pc[i] = "leave_put" /\ pc' = [pc EXCEPT ![i] = "quit"] /\ curr' = NONE
         \/ pc[i] = "leave_put" /\ pc' = [pc EXCEPT ![i] = "think"] /\ curr' = curr
  BY DinersAssumption DEF ByCond!Leave, ByCond!At, ByCond!EndRound, ByCond!Goto, Phi
<1>2. /\ sem.wait_state[i] = "NONE" /\ i \notin in_down /\ NONE \notin Phi
  BY <1>1, DinersAssumption DEF CondTestInv, Downs, Phi
<1>3. /\ pc' \in [Phi -> PhiPCs] /\ \A k \in Phi : k # i => pc'[k] = pc[k]
      /\ pc[i] \in {"leave", "leave_put"} /\ pc'[i] \in {"eat", "quit", "think"}
      /\ pc[i] = "leave" => pc'[i] = "eat"
  BY <1>1, CondFacts DEF PhiPCs
<1>4. AtCond' = AtCond
  BY <1>3 DEF AtCond, Back
<1>5. Seated'
  BY <1>1, <1>3 DEF Seated, CondTestInv
<1>6. /\ \A k \in Phi : k # i /\ pc[k] \in Inside => sem.wait_state[k] = "SEM"
      /\ sem.value[M] = 0
  BY <1>2, <1>3, Alone DEF Inside
<1>7. \A k \in Phi : CanEat(state', k) => pc'[left(k)] \in {"left_back", "right"}
  BY <1>1, <1>3, Seats DEF CondTestInv, CondEach
<1>8. /\ M \in S /\ N \in S /\ S \cap Phi = {} /\ N # M
      /\ \A k \in Phi : ByCond!CondSem(k) \in S /\ ByCond!CondSem(k) # M /\ ByCond!CondSem(k) # N
  BY CondNames
<1>9. CASE next_count = 0
  <2>1. sem' = up(sem, M)
    BY <1>9, SameUp DEF ByCond!Leave, ByCond!GiveTo
  <2>2. /\ SemInv(S, sem', AtCond)
        /\ \A t \in S : t # M => sem'.next[t] = sem.next[t] /\ sem'.value[t] = sem.value[t]
        /\ \E w \in Phi \cup {NONE} :
             /\ w # i
             /\ w # NONE => sem.wait_state[w] = "SEM" /\ pc[w] \in {"hungry", "full"}
             /\ sem'.value[M] = IF w = NONE THEN 1 ELSE 0
             /\ \A x \in Phi : sem'.wait_state[x] = IF x = w THEN "NONE" ELSE sem.wait_state[x]
             /\ \A x \in Phi : sem'.wakeup_state[x] = IF x = w THEN "SEM" ELSE sem.wakeup_state[x]
    BY <1>2, <1>3, <2>1, GiveMutex DEF Inside
  <2>3. PICK w \in Phi \cup {NONE} :
             /\ w # i
             /\ w # NONE => sem.wait_state[w] = "SEM" /\ pc[w] \in {"hungry", "full"}
             /\ sem'.value[M] = IF w = NONE THEN 1 ELSE 0
             /\ \A x \in Phi : sem'.wait_state[x] = IF x = w THEN "NONE" ELSE sem.wait_state[x]
             /\ \A x \in Phi : sem'.wakeup_state[x] = IF x = w THEN "SEM" ELSE sem.wakeup_state[x]
    BY <2>2
  <2>4. Downs'
    BY <1>1, <1>2, <1>3, <2>3 DEF Downs, CondTestInv
  <2>5. \A k \in Phi : pc'[k] \in Inside /\ sem'.wait_state[k] = "NONE" <=> k = w
    BY <1>2, <1>3, <1>6, <2>3 DEF Inside
  <2>6. ByCond!Active' = Phi \cap {w}
    BY <2>5, SameOps DEF ByCond!Active, Inside
  <2>7. Owned'
    BY <1>2, <2>3, <2>6 DEF Owned
  <2>8. Signals'
    BY <1>1, <1>3, <1>9 DEF CondTestInv, Signals, Back
  <2>9. ASSUME NEW k \in Phi PROVE CondEach(k)'
    <3>1. sem'.wait_state[k] = "SEM" => sem.wait_state[k] = "SEM" /\ k # i
      BY <1>2, <2>3
    <3>2. /\ sem'.next[ByCond!CondSem(k)] = sem.next[ByCond!CondSem(k)] /\ sem'.next[N] = sem.next[N]
          /\ sem'.value[ByCond!CondSem(k)] = sem.value[ByCond!CondSem(k)]
      BY <1>8, <2>2
    <3> QED
      BY <1>1, <1>3, <1>7, <3>1, <3>2 DEF CondTestInv, CondEach, CanEat, left, right
  <2>10. sem'.value[N] = 0
    BY <1>8, <2>2 DEF CondTestInv
  <2> QED
    BY <1>1, <1>4, <1>5, <2>2, <2>4, <2>7, <2>8, <2>9, <2>10 DEF CondTestInv
<1>10. CASE next_count # 0
  <2>1. next_count = 1 /\ pc[i] = "leave"
    BY <1>2, <1>3, <1>10, Alone DEF CondTestInv, Signals, Inside, Back
  <2>2. PICK w \in Phi : \A x \in Phi : pc[x] \in Back <=> x = w
    BY <1>10 DEF CondTestInv, Signals
  <2>3. w # i /\ pc[w] \in Back /\ sem.wait_state[w] = "SEM" /\ sem.next[N] = w
    BY <1>3, <1>6, <2>1, <2>2 DEF CondTestInv, CondEach, Inside, Back
  <2>4. sem' = up(sem, N)
    BY <2>1, SameUp DEF ByCond!Leave, ByCond!GiveTo
  <2>5. /\ SemInv(S, sem', AtCond) /\ sem'.value = sem.value
        /\ \A x \in Phi : /\ sem'.wait_state[x] = IF x = w THEN "NONE" ELSE sem.wait_state[x]
                          /\ sem'.wakeup_state[x] = IF x = w THEN "SEM" ELSE sem.wakeup_state[x]
        /\ \A t \in S : t # N => sem'.next[t] = sem.next[t]
    BY <1>8, <2>3, <2>4, CondFacts, UpWakes
  <2>6. Downs'
    BY <1>1, <1>2, <1>3, <2>5 DEF Downs, CondTestInv
  <2>7. \A k \in Phi : pc'[k] \in Inside /\ sem'.wait_state[k] = "NONE" <=> k = w
    BY <1>3, <1>6, <2>3, <2>5 DEF Inside, Back
  <2>8. ByCond!Active' = {w}
    BY <2>7, SameOps DEF ByCond!Active, Inside
  <2>9. Owned'
    BY <1>6, <2>5, <2>8 DEF Owned
  <2>10. Signals'
    <3>1. sem'.wait_state[w] = "NONE" /\ \A x \in Phi : pc'[x] \in Back <=> x = w
      BY <1>3, <2>1, <2>2, <2>3, <2>5 DEF Back
    <3> QED
      BY <1>1, <2>1, <3>1 DEF Signals
  <2>11. ASSUME NEW k \in Phi PROVE CondEach(k)'
    <3>1. sem'.wait_state[k] = "SEM" => sem.wait_state[k] = "SEM" /\ k # i /\ pc[k] \notin Back
      BY <1>2, <2>2, <2>3, <2>5
    <3>2. /\ sem'.next[ByCond!CondSem(k)] = sem.next[ByCond!CondSem(k)]
          /\ sem'.value[ByCond!CondSem(k)] = sem.value[ByCond!CondSem(k)]
      BY <1>8, <2>5
    <3> QED
      BY <1>1, <1>3, <1>7, <3>1, <3>2 DEF CondTestInv, CondEach, CanEat, left, right
  <2> QED
    BY <1>1, <1>4, <1>5, <2>5, <2>6, <2>9, <2>10, <2>11 DEF CondTestInv
<1> QED
  BY <1>9, <1>10

\* signal_cond: the philosopher j that waits for its condition is handed the monitor
\* by i, which waits to get it back.
LEMMA Handover ==
  ASSUME CondTestInv, NEW i \in Phi, curr = i, pc[i] \in {"full", "right"}, NEW j \in Phi, j # i,
         count[j] > 0, NEW m, m = up(sem, ByCond!CondSem(j)), NEW n, n = down(m, ByCond!NextSem, i),
         NEW at2 \in [Phi -> ByCond!Sems], at2[i] = ByCond!NextSem,
         \A k \in Phi : k # i => at2[k] = AtCond[k]
  PROVE  /\ ~(m.value[ByCond!NextSem] > 0) /\ pc[j] = "waited" /\ sem.wait_state[j] = "SEM"
         /\ SemInv(ByCond!Sems, n, at2) /\ n.next[ByCond!NextSem] = i /\ n.value = sem.value
         /\ \A t \in ByCond!Sems : t # ByCond!NextSem /\ t # ByCond!CondSem(j) => n.next[t] = sem.next[t]
         /\ \A x \in Phi : n.wait_state[x] = IF x = i THEN "SEM" ELSE IF x = j THEN "NONE" ELSE sem.wait_state[x]
         /\ \A x \in Phi : n.wakeup_state[x] = IF x = i THEN "INT" ELSE IF x = j THEN "SEM" ELSE sem.wakeup_state[x]
<1> DEFINE N == ByCond!NextSem
           S == ByCond!Sems
           C == ByCond!CondSem(j)
<1>1. i # NONE /\ sem.wait_state[i] = "NONE"
  BY DinersAssumption DEF CondTestInv, Downs, Phi
<1>2. pc[j] = "waited" /\ sem.wait_state[j] = "SEM"
  <2>1. pc[j] = "waited"
    BY DEF CondTestInv, CondEach
  <2> QED
    BY <1>1, <2>1, Alone DEF Inside
<1>3. /\ sem.next[C] = j /\ sem.value[N] = 0
  BY <1>2 DEF CondTestInv, CondEach
<1>4. C \in S /\ N \in S /\ C # N /\ S \cap Phi = {}
  BY CondNames
<1>5. /\ SemInv(S, m, AtCond) /\ m.value = sem.value
      /\ \A x \in Phi : /\ m.wait_state[x] = IF x = j THEN "NONE" ELSE sem.wait_state[x]
                        /\ m.wakeup_state[x] = IF x = j THEN "SEM" ELSE sem.wakeup_state[x]
      /\ \A t \in S : t # C => m.next[t] = sem.next[t]
  BY <1>3, <1>4, CondFacts, UpWakes
<1>6. m \in SemRecord(S) /\ ~(m.value[N] > 0) /\ m.wait_state[i] = "NONE"
  <2>1. m \in SemRecord(S)
    BY <1>5 DEF SemInv
  <2> QED
    BY <1>1, <1>3, <1>5, <2>1
<1>7. /\ SemInv(S, n, at2) /\ n.next[N] = i
      /\ \A t \in S : t # N => n.next[t] = m.next[t]
  BY <1>4, <1>5, <1>6, DownWaits
<1>8. /\ n.value = m.value
      /\ \A x \in Phi : /\ n.wait_state[x] = IF x = i THEN "SEM" ELSE m.wait_state[x]
                        /\ n.wakeup_state[x] = IF x = i THEN "INT" ELSE m.wakeup_state[x]
  BY <1>4, <1>6, DownEffect
<1> QED
  BY <1>2, <1>5, <1>6, <1>7, <1>8

\* phi_test_cond(j) by i, in the states s in which nobody but j can eat, or those of
\* whom i has yet to test one.
LEMMA CondTest ==
  ASSUME CondTestInv, NEW i \in Phi, curr = i, pc[i] \in {"full", "right"}, NEW j \in Phi, j # i,
         NEW s \in [Phi -> States], s[i] = "THINKING", \A k \in Phi : k # i => s[k] = state[k],
         NEW after \in {"right", "leave_put"}, NEW back \in Back,
         \A k \in Phi : CanEat(s, k) => k = j \/ (left(k) = i /\ after = "right" /\ back = "left_back"),
         ByCond!PhiTestCond(i, j, s, after, back), sleeping' = sleeping, count' = count
  PROVE  CondTestInv'
<1> DEFINE M == ByCond!MutexSem
           N == ByCond!NextSem
           S == ByCond!Sems
           C == ByCond!CondSem(j)
<1>1. i # NONE /\ sem.wait_state[i] = "NONE" /\ i \notin in_down
  BY DinersAssumption DEF CondTestInv, Downs, Phi
<1>2. /\ next_count = 0 /\ \A k \in Phi : pc[k] \notin Back
      /\ sem.value[M] = 0 /\ ByCond!Active = {i}
      /\ \A k \in Phi : k # i /\ pc[k] \in Inside => sem.wait_state[k] = "SEM"
  BY <1>1, Alone DEF Inside, Back
<1>3. /\ \A k \in Phi : CanEat(state', k) => left(k) = i /\ after = "right" /\ back = "left_back"
      /\ \A k \in Phi : pc[k] \in {"think", "take", "hungry", "quit", "left_back", "right",
                                   "right_back", "leave_put"} => state'[k] = "THINKING"
      /\ state'[i] = "THINKING"
  <2>1. CASE CanEat(s, j)
    <3>1. state' = [s EXCEPT ![j] = "EATING"] /\ s[j] = "HUNGRY"
      BY <2>1, SameEatCond DEF ByCond!PhiTestCond, CanEat
    <3>2. \A k \in Phi : state'[k] = IF k = j THEN "EATING" ELSE s[k]
      BY <3>1
    <3>3. \A k \in Phi : CanEat(state', k) => CanEat(s, k) /\ k # j
      BY <3>2, Seats DEF CanEat
    <3> QED
      BY <3>1, <3>2, <3>3 DEF CondTestInv, Seated
  <2>2. CASE ~CanEat(s, j)
    <3>1. state' = s
      BY <2>2, SameEatCond DEF ByCond!PhiTestCond
    <3> QED
      BY <2>2, <3>1 DEF CondTestInv, Seated
  <2> QED
    BY <2>1, <2>2
<1>4. CASE CanEat(s, j) /\ count[j] > 0
  <2> DEFINE m == up(sem, C)
  <2>1. /\ next_count' = 1 /\ pc' = [pc EXCEPT ![i] = back]
        /\ sem' = down(m, N, i)
        /\ in_down' = IF m.value[N] > 0 THEN in_down ELSE in_down \cup {i}
        /\ curr' = IF m.value[N] > 0 THEN curr ELSE NONE
    BY <1>2, <1>4, SameEatCond, SameUp, SameDown DEF ByCond!PhiTestCond, ByCond!Down, ByCond!HasUnit, ByCond!Goto
  <2>2. /\ pc' \in [Phi -> PhiPCs] /\ pc'[i] = back /\ \A k \in Phi : k # i => pc'[k] = pc[k]
    BY <2>1, CondFacts DEF PhiPCs, Back
  <2>3. AtCond' \in [Phi -> S] /\ AtCond'[i] = N /\ \A k \in Phi : k # i => AtCond'[k] = AtCond[k]
    BY <2>2, CondNames DEF AtCond, Back
  <2>4. /\ ~(m.value[N] > 0) /\ pc[j] = "waited" /\ sem.wait_state[j] = "SEM"
        /\ SemInv(S, sem', AtCond') /\ sem'.next[N] = i /\ sem'.value = sem.value
        /\ \A t \in S : t # N /\ t # C => sem'.next[t] = sem.next[t]
        /\ \A x \in Phi : sem'.wait_state[x] = IF x = i THEN "SEM" ELSE IF x = j THEN "NONE" ELSE sem.wait_state[x]
        /\ \A x \in Phi : sem'.wakeup_state[x] = IF x = i THEN "INT" ELSE IF x = j THEN "SEM" ELSE sem.wakeup_state[x]
    BY <1>4, <2>1, <2>3, Handover
  <2>5. in_down' = in_down \cup {i} /\ curr' = NONE
    BY <2>1, <2>4
  <2>6. Downs'
    BY <1>1, <2>2, <2>4, <2>5 DEF Downs, CondTestInv
  <2>7. Seated'
    BY <1>3, <2>2 DEF Seated
  <2>8. \A k \in Phi : pc'[k] \in Inside /\ sem'.wait_state[k] = "NONE" <=> k = j
    BY <1>2, <2>2, <2>4 DEF Inside
  <2>9. ByCond!Active' = {j}
    BY <2>8, SameOps DEF ByCond!Active, Inside
  <2>10. Owned'
    BY <1>2, <2>4, <2>9 DEF Owned
  <2>11. Signals'
    <3>1. \A x \in Phi : pc'[x] \in Back <=> x = i
      BY <1>2, <2>2
    <3>2. pc'[j] = "waited" /\ j \in ByCond!Active'
      BY <2>2, <2>4, <2>9
    <3> QED
      BY <2>1, <3>1, <3>2 DEF Signals
  <2>12. ASSUME NEW k \in Phi PROVE CondEach(k)'
    <3>1. CanEat(state', k) => pc'[left(k)] \in {"left_back", "right"}
      BY <1>3, <2>2
    <3>2. sem'.value[ByCond!CondSem(k)] = 0
      BY <2>4 DEF CondTestInv, CondEach
    <3>3. CASE k = i
      <4>1. count[i] = 0 /\ pc'[i] \in Back /\ pc'[i] # "waited"
        BY <2>2 DEF CondTestInv, CondEach, Back
      <4> QED
        BY <2>4, <3>1, <3>2, <3>3, <4>1 DEF CondEach, CanEat, left, right
    <3>4. CASE k # i
      <4>1. sem'.wait_state[k] = "SEM" => sem.wait_state[k] = "SEM" /\ k # j
        BY <2>4, <3>4
      <4>2. k # j => sem'.next[ByCond!CondSem(k)] = sem.next[ByCond!CondSem(k)]
        BY <2>4, CondNames
      <4>3. pc'[k] = pc[k] /\ pc[k] \notin Back
        BY <1>2, <2>2, <3>4
      <4> QED
        BY <3>1, <3>2, <4>1, <4>2, <4>3 DEF CondTestInv, CondEach, CanEat, left, right
    <3> QED
      BY <3>3, <3>4
  <2> QED
    BY <2>4, <2>6, <2>7, <2>10, <2>11, <2>12 DEF CondTestInv
<1>5. CASE ~(CanEat(s, j) /\ count[j] > 0)
  <2>1. /\ next_count' = next_count /\ pc' = [pc EXCEPT ![i] = after]
        /\ sem' = sem /\ in_down' = in_down /\ curr' = curr
    BY <1>5, SameEatCond DEF ByCond!PhiTestCond, ByCond!Goto
  <2>2. /\ pc' \in [Phi -> PhiPCs] /\ pc'[i] = after /\ \A k \in Phi : k # i => pc'[k] = pc[k]
    BY <2>1, CondFacts DEF PhiPCs
  <2>3. AtCond' = AtCond
    BY <2>2 DEF AtCond, Back
  <2>4. Downs'
    BY <2>1, <2>2 DEF Downs, CondTestInv
  <2>5. Seated'
    BY <1>3, <2>2 DEF Seated
  <2>6. ByCond!Active' = ByCond!Active
    BY <2>1, <2>2, SameOps DEF ByCond!Active
  <2>7. Owned'
    BY <2>1, <2>6 DEF Owned, CondTestInv
  <2>8. Signals'
    BY <1>2, <2>1, <2>2 DEF Signals, Back
  <2>9. ASSUME NEW k \in Phi PROVE CondEach(k)'
    <3>1. CanEat(state', k) => pc'[left(k)] \in {"left_back", "right"}
      BY <1>3, <2>2
    <3> QED
      BY <1>1, <2>1, <2>2, <3>1 DEF CondTestInv, CondEach, Back, CanEat, left, right
  <2> QED
    BY <2>1, <2>3, <2>4, <2>5, <2>7, <2>8, <2>9 DEF CondTestInv
<1> QED
  BY <1>4, <1>5

\* Who could eat while i is alone in the monitor could do so only because of i.
LEMMA OnlyRight ==
  ASSUME CondTestInv, NEW i \in Phi, curr = i, pc[i] \in {"full", "right"}, NEW k \in Phi, CanEat(state, k)
  PROVE  left(k) = i /\ pc[i] = "right"
<1>1. i # NONE /\ sem.wait_state[i] = "NONE"
  BY DinersAssumption DEF CondTestInv, Downs, Phi
<1>2. /\ \A x \in Phi : pc[x] \notin Back
      /\ \A x \in Phi : x # i /\ pc[x] \in Inside => sem.wait_state[x] = "SEM"
  BY <1>1, Alone DEF Inside, Back
<1>3. pc[left(k)] \in {"left_back", "right"} /\ left(k) \in Phi
  BY Seats DEF CondTestInv, CondEach
<1>4. pc[left(k)] = "right"
  BY <1>2, <1>3 DEF Back
<1>5. sem.wait_state[left(k)] # "SEM"
  BY <1>3, <1>4 DEF CondTestInv, CondEach, Back
<1> QED
  BY <1>2, <1>3, <1>4, <1>5 DEF Inside

\* phi_put_forks_cond up to its first test.
LEMMA CondTestLeft ==
  ASSUME CondTestInv, TableInv, NEW i \in Phi, ByCond!TestLeft(i)
  PROVE  CondTestInv'
<1> DEFINE s == [state EXCEPT ![i] = "THINKING"]
<1>1. /\ curr = i /\ pc[i] = "full" /\ ByCond!PhiTestCond(i, left(i), s, "right", "left_back")
      /\ sleeping' = sleeping /\ count' = count
  BY SameOps DEF ByCond!TestLeft, ByCond!At
<1>2. left(i) \in Phi /\ left(i) # i
  BY Seats
<1>3. /\ s \in [Phi -> States] /\ \A k \in Phi : s[k] = IF k = i THEN "THINKING" ELSE state[k]
  BY DEF TableInv, States
<1> HIDE DEF s
<1>4. \A k \in Phi : CanEat(s, k) => k = left(i) \/ left(k) = i
  <2> SUFFICES ASSUME NEW k \in Phi, CanEat(s, k), k # left(i), left(k) # i PROVE FALSE
    OBVIOUS
  <2>1. k # i /\ right(k) # i /\ left(k) \in Phi /\ right(k) \in Phi
    BY <1>3, Seats DEF CanEat
  <2>2. CanEat(state, k)
    BY <1>3, <2>1 DEF CanEat
  <2> QED
    BY <1>1, <2>2, OnlyRight
<1>5. "left_back" \in Back
  BY DEF Back
<1> QED
  BY <1>1, <1>2, <1>3, <1>4, <1>5, CondTest

\* The second test of phi_put_forks_cond.
LEMMA CondTestRight ==
  ASSUME CondTestInv, TableInv, NEW i \in Phi, ByCond!TestRight(i)
  PROVE  CondTestInv'
<1>1. /\ curr = i /\ pc[i] = "right" /\ ByCond!PhiTestCond(i, right(i), state, "leave_put", "right_back")
      /\ sleeping' = sleeping /\ count' = count
  BY SameOps DEF ByCond!TestRight, ByCond!At
<1>2. right(i) \in Phi /\ right(i) # i /\ state \in [Phi -> States] /\ state[i] = "THINKING"
  BY <1>1, Seats DEF TableInv, CondTestInv, Seated
<1>3. \A k \in Phi : CanEat(state, k) => k = right(i)
  BY <1>1, OnlyRight, Seats
<1>4. "right_back" \in Back
  BY DEF Back
<1> QED
  BY <1>1, <1>2, <1>3, <1>4, CondTest

-----------------------------------------------------------------------------
(* Both tests.                                                             *)

\* init_sem leaves every queue empty.
LEMMA SemsNew ==
  ASSUME NEW S, S \cap Phi = {}, NEW value0 \in [S -> Nat], NEW at \in [Phi -> S]
  PROVE  /\ SemInv(S, init_sem(S, Phi, value0), at)
         /\ init_sem(S, Phi, value0).value = value0
         /\ \A i \in Phi : init_sem(S, Phi, value0).wait_state[i] = "NONE"
<1> DEFINE m == init_sem(S, Phi, value0)
<1>1. /\ m \in SemRecord(S) /\ m.panic = FALSE /\ m.value = value0
      /\ \A i \in Phi : m.wait_state[i] = "NONE"
      /\ \A n \in S \cup Phi : m.next[n] = n /\ m.prev[n] = n
  BY DEF init_sem, SemRecord
<1> HIDE DEF m
<1>2. SemInv(S, m, at)
  BY <1>1 DEF SemInv, Queue
<1> QED
  BY <1>1, <1>2 DEF m

\* test_phi_sem begins.
LEMMA PhiInit == ASSUME Init PROVE PhiInv
<1> DEFINE v == [s \in BySem!Sems |-> IF s = BySem!PhiMutex THEN 1 ELSE 0]
<1>1. /\ test = "sem" /\ next_count = 0 /\ count = [i \in Phi |-> 0]
      /\ state = [i \in Phi |-> "THINKING"] /\ pc = [i \in Phi |-> "think"]
      /\ curr = NONE /\ sleeping = {} /\ in_down = {}
  BY SameOps DEF Init, BySem!Init, BySem!DinersInit
<1>2. sem = init_sem(BySem!Sems, Phi, v)
  BY SameOps DEF Init, BySem!Init, BySem!DinersInit, BySem!init_sem, init_sem
<1>3. v \in [BySem!Sems -> Nat] /\ AtSem \in [Phi -> BySem!Sems]
  BY SemNames DEF AtSem
<1>4. /\ v[BySem!PhiMutex] = 1 /\ \A i \in Phi : v[BySem!PhiSemOf(i)] = 0
  BY SemNames
<1> HIDE DEF v
<1>5. /\ SemInv(BySem!Sems, sem, AtSem) /\ sem.value = v
      /\ \A i \in Phi : sem.wait_state[i] = "NONE"
  BY <1>2, <1>3, SemsNew, SemNames
<1>6. Downs /\ Seated
  BY <1>1, <1>5 DEF Downs, Seated, PhiPCs
<1>7. \A i \in Phi : ~CanEat(state, i)
  BY <1>1 DEF CanEat
<1>8. SemTestInv
  BY <1>1, <1>4, <1>5, <1>6, <1>7 DEF SemTestInv
<1> QED
  BY <1>1, <1>8 DEF PhiInv

\* test_phi_cond begins: the threads of test_phi_sem are gone, so that none of them
\* is left in a queue.
LEMMA PhiNextTest == ASSUME SemTestInv, NextTest PROVE CondTestInv'
<1> DEFINE S == ByCond!Sems
           v == ByCond!Values0
<1>1. /\ next_count' = next_count /\ count' = count /\ curr' = curr
      /\ sleeping' = sleeping /\ in_down' = in_down
      /\ state' = [i \in Phi |-> "THINKING"] /\ pc' = [i \in Phi |-> "think"]
      /\ sem' = init_sem(S, Phi, v) /\ \A i \in Phi : pc[i] = "quit"
  BY DEF NextTest, AllQuit
<1>2. in_down = {} /\ next_count = 0 /\ count = [i \in Phi |-> 0]
  BY <1>1 DEF SemTestInv, Downs
<1>3. v \in [S -> Nat] /\ v[ByCond!MutexSem] = 1 /\ v[ByCond!NextSem] = 0
      /\ \A i \in Phi : v[ByCond!CondSem(i)] = 0
  BY CondNames DEF ByCond!Values0
<1>4. AtCond' \in [Phi -> S]
  BY <1>1, CondNames DEF AtCond, Back
<1> HIDE DEF v
<1>5. /\ SemInv(S, sem', AtCond') /\ sem'.value = v
      /\ \A i \in Phi : sem'.wait_state[i] = "NONE"
  BY <1>1, <1>3, <1>4, SemsNew, CondNames
<1>6. Downs'
  BY <1>1, <1>2, <1>5 DEF Downs, PhiPCs, SemTestInv
<1>7. Seated'
  BY <1>1 DEF Seated
<1>8. ByCond!Active' = {}
  BY <1>1, SameOps DEF ByCond!Active
<1>9. Owned' /\ Signals'
  BY <1>1, <1>2, <1>3, <1>5, <1>8 DEF Owned, Signals, Back
<1>10. \A k \in Phi : CondEach(k)'
  BY <1>1, <1>2, <1>3, <1>5 DEF CondEach, CanEat, Back
<1> QED
  BY <1>1, <1>2, <1>3, <1>5, <1>6, <1>7, <1>9, <1>10 DEF CondTestInv

\* Every step of the two tests keeps the invariant.
LEMMA PhiNext == ASSUME PhiInv, TableInv, [Next]_vars PROVE PhiInv'
<1>1. ASSUME NEW i \in Phi, SemStep(i) PROVE PhiInv'
  <2>1. test = "sem" /\ test' = test /\ SemTestInv /\ UNCHANGED <<next_count, count>> /\ BySem!Step(i)
    BY <1>1 DEF SemStep, PhiInv
  <2>2. SemTestInv'
    BY <2>1, SemSleep, SemEnter, SemTake, SemPut DEF BySem!Step
  <2> QED
    BY <2>1, <2>2 DEF PhiInv
<1>2. ASSUME NEW i \in Phi, CondStep(i) PROVE PhiInv'
  <2>1. test = "cond" /\ test' = test /\ CondTestInv /\ ByCond!Step(i)
    BY <1>2 DEF CondStep, PhiInv
  <2>2. CondTestInv'
    BY <2>1, CondSleep, CondEnter, CondTake, CondWait, CondWaited, CondTestLeft, CondTestRight,
       CondSignalled, CondLeave DEF ByCond!Step
  <2> QED
    BY <2>1, <2>2 DEF PhiInv
<1>3. ASSUME NEW i \in Phi, Resumes(i) \/ Wakes(i) PROVE PhiInv'
  <2>1. (Resume(i) \/ Wake(i)) /\ test' = test /\ UNCHANGED <<next_count, count>>
    BY <1>3 DEF Resumes, Wakes
  <2> QED
    BY <2>1, SemRest, CondRest DEF PhiInv
<1>4. CASE NextTest
  BY <1>4, PhiNextTest DEF PhiInv, NextTest
<1>5. CASE UNCHANGED vars
  <2>1. /\ state' = state /\ sem' = sem /\ pc' = pc /\ curr' = curr /\ sleeping' = sleeping
        /\ in_down' = in_down /\ test' = test /\ next_count' = next_count /\ count' = count
    BY <1>5 DEF vars, dvars
  <2>2. SemTestInv => SemTestInv'
    BY <2>1 DEF SemTestInv, Downs, Seated, AtSem, CanEat, left, right
  <2>3. ByCond!Active' = ByCond!Active /\ AtCond' = AtCond
    BY <2>1 DEF ByCond!Active, AtCond
  <2>4. CondTestInv => CondTestInv'
    BY <2>1, <2>3 DEF CondTestInv, CondEach, Downs, Seated, Owned, Signals, CanEat, left, right
  <2> QED
    BY <2>1, <2>2, <2>4 DEF PhiInv
<1> QED
  BY <1>1, <1>2, <1>3, <1>4, <1>5 DEF Next, Succeed

\* The invariant of the two tests holds in every state.
LEMMA PhiInvHolds == Spec => [](PhiInv /\ TableInv)
<1>1. Init => PhiInv /\ TableInv
  <2>1. Init => TableInv
    BY Seats DEF Init, BySem!Init, BySem!DinersInit, TableInv, Apart, States, Phi, BySem!Phi
  <2> QED
    BY <2>1, PhiInit
<1>2. PhiInv /\ TableInv /\ [Next]_vars => (PhiInv /\ TableInv)'
  BY PhiNext, TableNext
<1> QED
  BY <1>1, <1>2, PTL DEF Spec

\* With any number of philosophers at most one is active in the monitor, also while
\* signal_cond hands it over and back, and its mutex is free only when none is.
THEOREM OneActiveHolds == Spec => []OneActive
<1>1. ASSUME PhiInv PROVE OneActive
  <2> SUFFICES ASSUME test = "cond" PROVE ByCond!OneActive
    BY DEF OneActive
  <2>0. \A T : ByCond!Cardinality(T) = Cardinality(T)
    BY DEF ByCond!Cardinality, Cardinality
  <2>1. Owned
    BY <1>1 DEF PhiInv, CondTestInv
  <2>2. CASE sem.value[ByCond!MutexSem] = 1 /\ ByCond!Active = {}
    <3>1. Cardinality(ByCond!Active) = 0
      BY <2>2, FS_EmptySet
    <3> QED
      BY <2>0, <2>2, <3>1 DEF ByCond!OneActive
  <2>3. ASSUME NEW i \in Phi, sem.value[ByCond!MutexSem] = 0, ByCond!Active = {i} PROVE ByCond!OneActive
    <3>1. Cardinality(ByCond!Active) = 1
      BY <2>3, FS_Singleton
    <3> QED
      BY <2>0, <2>3, <3>1 DEF ByCond!OneActive
  <2> QED
    BY <2>1, <2>2, <2>3 DEF Owned
<1> QED
  BY <1>1, PhiInvHolds, PTL

\* In both tests, with any number of philosophers, none is left hungry that could eat
\* once the tests of the neighbours are done, and no unit is left over.
THEOREM NoneOverlookedHolds == Spec => []NoneOverlooked
<1>1. ASSUME PhiInv PROVE NoneOverlooked
  <2>1. CASE test = "sem"
    BY <1>1, <2>1, SameEat, SameOps DEF PhiInv, SemTestInv, NoneOverlooked, BySem!NoneOverlooked
  <2>2. CASE test = "cond"
    <3> SUFFICES ASSUME sem.value[ByCond!MutexSem] = 1
                 PROVE  /\ \A i \in Phi : ~CanEat(state, i) /\ sem.value[ByCond!CondSem(i)] = 0
                        /\ next_count = 0 /\ sem.value[ByCond!NextSem] = 0
      BY <2>2, SameEatCond, SameOps DEF NoneOverlooked, ByCond!NoneOverlooked
    <3>1. CondTestInv
      BY <1>1, <2>2 DEF PhiInv
    <3>2. \A k \in Phi : pc[k] \in Inside => sem.wait_state[k] = "SEM"
      BY <3>1, Alone, CondFacts
    <3>3. ByCond!Active = {}
      BY <3>1 DEF CondTestInv, Owned
    <3>4. next_count = 0 /\ \A k \in Phi : pc[k] \notin Back
      BY <3>1, <3>2, <3>3 DEF CondTestInv, Signals, Back, Inside
    <3>5. ASSUME NEW i \in Phi, CanEat(state, i) PROVE FALSE
      <4>1. pc[left(i)] = "right" /\ left(i) \in Phi
        BY <3>1, <3>4, <3>5, Seats DEF CondTestInv, CondEach, Back
      <4>2. sem.wait_state[left(i)] = "SEM"
        BY <3>2, <4>1 DEF Inside
      <4> QED
        BY <3>1, <4>1, <4>2 DEF CondTestInv, CondEach, Back
    <3> QED
      BY <3>1, <3>4, <3>5 DEF CondTestInv, CondEach
  <2> QED
    BY <1>1, <2>1, <2>2 DEF PhiInv
<1> QED
  BY <1>1, PhiInvHolds, PTL

\* No ASSERT of up, down or del_wait_queue fails in either test, with any number of
\* philosophers: whom up takes off a queue does sleep in down there, and down returns
\* to nobody that was not woken by up.
THEOREM NoPanicHolds == Spec => []NoPanic
<1>1. PhiInv => NoPanic
  BY SemFacts, CondFacts DEF PhiInv, NoPanic
<1> QED
  BY <1>1, PhiInvHolds, PTL
=============================================================================
