----------------------------- MODULE PhiMonitor -----------------------------
(***************************************************************************)
(* The monitor of kernel/sync/monitor.c and its only user, test_phi_cond   *)
(* of kernel/sync/test_phi.c.  signal_cond hands the monitor to the        *)
(* philosopher it wakes and waits in the semaphore `next' until it gets it *)
(* back.                                                                   *)
(***************************************************************************)
EXTENDS Diners

VARIABLES next_count,  \* signallers waiting to get the monitor back
          count        \* cond[i].count

vars == <<dvars, next_count, count>>

\* g_phi_monitor.mutex, .next and .cond[i].sem; numbers, like the philosophers.
MutexSem   == NUM_PHI
NextSem    == NUM_PHI + 1
CondSem(i) == NUM_PHI + 2 + i
Sems == NUM_PHI .. 2 * NUM_PHI + 1

\* init_monitor: the mutex is free.
Values0 == [s \in Sems |-> IF s = MutexSem THEN 1 ELSE 0]

Init == /\ DinersInit(Sems, Values0)
        /\ next_count = 0
        /\ count = [i \in Phi |-> 0]

TypeOK ==
  /\ DinersTypeOK(Sems, {"waited", "leave", "left_back", "right", "right_back", "leave_put"})
  /\ next_count \in Nat
  /\ count \in [Phi -> Nat]

\* Who gets the monitor next: a waiting signaller before anybody outside.
GiveTo == IF next_count > 0 THEN NextSem ELSE MutexSem

\* down(&mutex) of phi_take_forks_cond or phi_put_forks_cond.
Enter(i) ==
  /\ \/ At(i, "take") /\ Goto(i, "hungry")
     \/ At(i, "put") /\ Goto(i, "full")
  /\ Down(sem, MutexSem, i)
  /\ UNCHANGED <<state, sleeping, meals, next_count, count>>

\* phi_take_forks_cond takes both forks; phi_test_cond signals a condition on
\* which only i itself ever waits, so that signal_cond does nothing.
TakeForks(i) ==
  LET hungry == [state EXCEPT ![i] = "HUNGRY"]
  IN /\ At(i, "hungry")
     /\ CanEat(hungry, i)
     /\ state' = [hungry EXCEPT ![i] = "EATING"]
     /\ Goto(i, "leave")
     /\ UNCHANGED <<sem, curr, sleeping, in_down, meals, next_count, count>>

\* phi_take_forks_cond cannot, and calls wait_cond.
WaitCond(i) ==
  LET hungry == [state EXCEPT ![i] = "HUNGRY"]
  IN /\ At(i, "hungry")
     /\ ~CanEat(hungry, i)
     /\ state' = hungry
     /\ count' = [count EXCEPT ![i] = @ + 1]
     /\ Down(up(sem, GiveTo), CondSem(i), i)
     /\ Goto(i, "waited")
     /\ UNCHANGED <<sleeping, meals, next_count>>

\* wait_cond after its down.
WaitCondReturns(i) ==
  /\ At(i, "waited")
  /\ count' = [count EXCEPT ![i] = @ - 1]
  /\ Goto(i, "leave")
  /\ UNCHANGED <<state, sem, curr, sleeping, in_down, meals, next_count>>

\* phi_test_cond(j) by i, in the states s: nothing to do, or j eats and
\* signal_cond hands it the monitor.
PhiTestCond(i, j, s, after, back) ==
  \/ /\ ~CanEat(s, j)
     /\ state' = s
     /\ Goto(i, after)
     /\ UNCHANGED <<sem, curr, in_down, next_count>>
  \/ /\ CanEat(s, j)
     /\ state' = [s EXCEPT ![j] = "EATING"]
     /\ IF count[j] > 0
        THEN /\ next_count' = next_count + 1
             /\ Down(up(sem, CondSem(j)), NextSem, i)
             /\ Goto(i, back)
        ELSE Goto(i, after) /\ UNCHANGED <<sem, curr, in_down, next_count>>

\* phi_put_forks_cond up to its first test, and the second test.
TestLeft(i) ==
  /\ At(i, "full")
  /\ PhiTestCond(i, left(i), [state EXCEPT ![i] = "THINKING"], "right", "left_back")
  /\ UNCHANGED <<sleeping, meals, count>>

TestRight(i) ==
  /\ At(i, "right")
  /\ PhiTestCond(i, right(i), state, "leave_put", "right_back")
  /\ UNCHANGED <<sleeping, meals, count>>

\* signal_cond after its down(&next).
SignalReturns(i) ==
  /\ \/ At(i, "left_back") /\ Goto(i, "right")
     \/ At(i, "right_back") /\ Goto(i, "leave_put")
  /\ next_count' = next_count - 1
  /\ UNCHANGED <<state, sem, curr, sleeping, in_down, meals, count>>

\* The end of the two routines of the monitor.
Leave(i) ==
  /\ \/ At(i, "leave") /\ Goto(i, "eat") /\ UNCHANGED <<meals, curr>>
     \/ At(i, "leave_put") /\ EndRound(i)
  /\ sem' = up(sem, GiveTo)
  /\ UNCHANGED <<state, sleeping, in_down, next_count, count>>

Outside(i) == (Resume(i) \/ Wake(i)) /\ UNCHANGED <<next_count, count>>

Step(i) == \/ Sleep(i) /\ UNCHANGED <<next_count, count>>
           \/ Enter(i) \/ TakeForks(i) \/ WaitCond(i) \/ WaitCondReturns(i)
           \/ TestLeft(i) \/ TestRight(i) \/ SignalReturns(i) \/ Leave(i)

Next == \/ \E i \in Phi : Outside(i) \/ Step(i)
        \/ AllQuit /\ UNCHANGED vars

(* Timers run out, a philosopher on the CPU goes on, and the scheduler passes *)
(* over no ready one for ever.                                                *)
Spec == /\ Init /\ [][Next]_vars
        /\ \A i \in Phi : /\ WF_vars(Step(i))
                          /\ WF_vars(Wake(i) /\ UNCHANGED <<next_count, count>>)
                          /\ SF_vars(Resume(i) /\ UNCHANGED <<next_count, count>>)

-----------------------------------------------------------------------------
\* The philosophers inside the monitor that could go on.
Active == { i \in Phi : /\ pc[i] \in {"hungry", "full", "waited", "leave", "left_back",
                                      "right", "right_back", "leave_put"}
                        /\ sem.wait_state[i] = "NONE" }

\* "Only one process at a time may be be active in a monitor" (monitor.h), and
\* the mutex is free only when there is none.
OneActive == Cardinality(Active) + sem.value[MutexSem] = 1

\* While the monitor is free nobody is hungry between two neighbours who do not
\* eat, and no signal is left over in a condition (phi_put_forks_cond).
NoneOverlooked ==
  sem.value[MutexSem] = 1 =>
    /\ \A i \in Phi : ~CanEat(state, i) /\ sem.value[CondSem(i)] = 0
    /\ next_count = 0 /\ sem.value[NextSem] = 0

\* Whoever sleeps in down is in the queue of a semaphore, where up can find it.
NobodyLost == SleepersQueued(Sems)
=============================================================================
