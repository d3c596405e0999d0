------------------------------- MODULE Diners -------------------------------
(***************************************************************************)
(* What the two philosopher tests of kernel/sync/test_phi.c share: the     *)
(* table, the kernel threads and how they give up the CPU.                 *)
(*                                                                         *)
(* A kernel thread is never preempted: it runs until it calls schedule()   *)
(* in do_sleep or in down.  schedule() then takes any thread that is ready *)
(* (the stride scheduler's choice is left open), and a sleep may end at    *)
(* any time, since every step may take any number of ticks.                *)
(***************************************************************************)
EXTENDS Sem

CONSTANTS NUM_PHI,  \* philosophers
          TIMES,    \* meals of each
          NONE      \* no philosopher

ASSUME DinersAssumption == /\ NUM_PHI \in Nat \ {0, 1} /\ TIMES \in Nat \ {0}
                           /\ NONE \notin 0 .. NUM_PHI - 1

Phi == 0 .. NUM_PHI - 1

left(i)  == (i + NUM_PHI - 1) % NUM_PHI
right(i) == (i + 1) % NUM_PHI

VARIABLES state,     \* g_phi_state_sem or g_phi_state_cond
          sem,       \* the semaphores, see Sem
          pc,        \* where each philosopher is in its function
          curr,      \* the philosopher on the CPU, or NONE
          sleeping,  \* those in do_sleep
          in_down,   \* those that have gone to sleep in down
          meals      \* rounds done

dvars == <<state, sem, pc, curr, sleeping, in_down, meals>>

DinersInit(Sems, value0) ==
  /\ state = [i \in Phi |-> "THINKING"]
  /\ sem = init_sem(Sems, Phi, value0)
  /\ pc = [i \in Phi |-> "think"]
  /\ curr = NONE
  /\ sleeping = {} /\ in_down = {}
  /\ meals = [i \in Phi |-> 0]

DinersTypeOK(Sems, PCs) ==
  /\ state \in [Phi -> {"THINKING", "HUNGRY", "EATING"}]
  /\ sem.value \in [Sems -> Nat]
  /\ pc \in [Phi -> PCs \cup {"think", "take", "hungry", "eat", "put", "full", "quit"}]
  /\ curr \in Phi \cup {NONE}
  /\ sleeping \subseteq Phi /\ in_down \subseteq Phi
  /\ meals \in [Phi -> 0 .. TIMES]

At(i, where) == ~sem.panic /\ curr = i /\ pc[i] = where

Goto(i, where) == pc' = [pc EXCEPT ![i] = where]

\* schedule(): a ready philosopher goes on, after the down it may have slept in.
Resume(i) ==
  /\ ~sem.panic /\ curr = NONE
  /\ i \notin sleeping /\ sem.wait_state[i] = "NONE" /\ pc[i] # "quit"
  /\ curr' = i
  /\ sem' = IF i \in in_down THEN down_returns(sem, i) ELSE sem
  /\ in_down' = in_down \ {i}
  /\ UNCHANGED <<state, pc, sleeping, meals>>

\* The timer of a do_sleep runs out.
Wake(i) ==
  /\ ~sem.panic /\ i \in sleeping
  /\ sleeping' = sleeping \ {i}
  /\ UNCHANGED <<state, sem, pc, curr, in_down, meals>>

\* do_sleep, once while thinking and once while eating.
Sleep(i) ==
  /\ \/ At(i, "think") /\ Goto(i, "take")
     \/ At(i, "eat") /\ Goto(i, "put")
  /\ sleeping' = sleeping \cup {i}
  /\ curr' = NONE
  /\ UNCHANGED <<state, sem, in_down, meals>>

\* down(s) by the current philosopher i, in the semaphores m.
Down(m, s, i) ==
  /\ sem' = down(m, s, i)
  /\ in_down' = IF HasUnit(m, s) THEN in_down ELSE in_down \cup {i}
  /\ curr' = IF HasUnit(m, s) THEN curr ELSE NONE

\* Slip: only one neighbour is looked at.
CanEatLeftOnly(s, i) == s[i] = "HUNGRY" /\ s[left(i)] # "EATING"

\* The condition of phi_test_sem and phi_test_cond.
CanEat(s, i) == /\ s[i] = "HUNGRY"
                /\ s[left(i)] # "EATING" /\ s[right(i)] # "EATING"

\* Slip: the round is not counted.
EndRoundUncounted(i) == Goto(i, "think") /\ UNCHANGED <<meals, curr>>

\* The end of a round; after TIMES rounds the thread exits.
EndRound(i) ==
  LET quits == meals[i] + 1 = TIMES
  IN /\ meals' = [meals EXCEPT ![i] = @ + 1]
     /\ Goto(i, IF quits THEN "quit" ELSE "think")
     /\ curr' = IF quits THEN NONE ELSE curr

\* All threads have exited, which is what test_phi_end waits for.
AllQuit == \A i \in Phi : pc[i] = "quit"

-----------------------------------------------------------------------------
\* Two neighbours never eat at the same time (phi_take_forks, phi_put_forks).
NeighboursNotEating == \A i \in Phi : state[i] = "EATING" => state[right(i)] # "EATING"

\* No ASSERT of the semaphores fails.
NoPanic == ~sem.panic

\* A philosopher asleep in down is in a queue where an up can find it.
SleepersQueued(Sems) ==
  \A i \in Phi : sem.wait_state[i] = "SEM" =>
    \E s \in Sems : i \in Walk(sem.next, s, NUM_PHI)
=============================================================================
