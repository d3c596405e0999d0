------------------------------- MODULE PhiSem -------------------------------
(***************************************************************************)
(* test_phi_sem of kernel/sync/test_phi.c: the philosophers with one       *)
(* mutex and one semaphore each.  Between two calls of schedule() the      *)
(* critical sections run to their end, so each is one step.                *)
(***************************************************************************)
EXTENDS Diners

\* g_phi_mutex and g_phi_sem[i]; numbers, like the philosophers.
PhiMutex   == NUM_PHI
PhiSemOf(i) == NUM_PHI + 1 + i
Sems == NUM_PHI .. 2 * NUM_PHI

Init == DinersInit(Sems, [s \in Sems |-> IF s = PhiMutex THEN 1 ELSE 0])

TypeOK == DinersTypeOK(Sems, {})

\* phi_test_sem(i) on the states and the semaphores so far.
phi_test_sem(d, i) ==
  IF CanEat(d.state, i)
  THEN [state |-> [d.state EXCEPT ![i] = "EATING"], sem |-> up(d.sem, PhiSemOf(i))]
  ELSE d

\* down(&g_phi_mutex) of phi_take_forks_sem or phi_put_forks_sem.
Enter(i) ==
  /\ \/ At(i, "take") /\ Goto(i, "hungry")
     \/ At(i, "put") /\ Goto(i, "full")
  /\ Down(sem, PhiMutex, i)
  /\ UNCHANGED <<state, sleeping, meals>>

\* The rest of phi_take_forks_sem.
TakeForks(i) ==
  LET d == phi_test_sem([state |-> [state EXCEPT ![i] = "HUNGRY"], sem |-> sem], i)
  IN /\ At(i, "hungry")
     /\ state' = d.state
     /\ Down(up(d.sem, PhiMutex), PhiSemOf(i), i)
     /\ Goto(i, "eat")
     /\ UNCHANGED <<sleeping, meals>>

\* Slip: the right neighbour is forgotten.
TestNeighboursLeft(d, i) == phi_test_sem(d, left(i))

\* Both neighbours may eat now.
TestNeighbours(d, i) == phi_test_sem(phi_test_sem(d, left(i)), right(i))

\* The rest of phi_put_forks_sem.
PutForks(i) ==
  LET d == TestNeighbours([state |-> [state EXCEPT ![i] = "THINKING"], sem |-> sem], i)
  IN /\ At(i, "full")
     /\ state' = d.state
     /\ sem' = up(d.sem, PhiMutex)
     /\ EndRound(i)
     /\ UNCHANGED <<sleeping, in_down>>

Step(i) == Sleep(i) \/ Enter(i) \/ TakeForks(i) \/ PutForks(i)

Next == \/ \E i \in Phi : Resume(i) \/ Wake(i) \/ Step(i)
        \/ AllQuit /\ UNCHANGED dvars

(* Timers run out, a philosopher on the CPU goes on, and the scheduler passes *)
(* over no ready one for ever.                                                *)
Spec == /\ Init /\ [][Next]_dvars
        /\ \A i \in Phi : WF_dvars(Wake(i)) /\ WF_dvars(Step(i)) /\ SF_dvars(Resume(i))

-----------------------------------------------------------------------------
\* No philosopher goes hungry while both its neighbours could let it eat, and
\* no permission to eat is left over in a semaphore: phi_put_forks_sem tests
\* both neighbours, and each up has its down.
NoneOverlooked ==
  \A i \in Phi : /\ ~CanEat(state, i)
                 /\ sem.value[PhiSemOf(i)] = 0

\* Every philosopher has its TIMES meals, and test_phi_end returns.
AllEat == <>AllQuit
=============================================================================
