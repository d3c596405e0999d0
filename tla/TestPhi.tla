------------------------------- MODULE TestPhi -------------------------------
(***************************************************************************)
(* The two philosopher tests as init_main of kernel/proc/proc.c runs them: *)
(* test_phi_sem, and when test_phi_end has waited for its last thread,     *)
(* test_phi_cond with threads of its own.                                  *)
(***************************************************************************)
EXTENDS Diners

VARIABLES test,              \* the test that runs
          next_count, count  \* of the monitor, see PhiMonitor

vars == <<dvars, test, next_count, count>>

BySem  == INSTANCE PhiSem
ByCond == INSTANCE PhiMonitor

Init == /\ test = "sem"
        /\ BySem!Init
        /\ next_count = 0 /\ count = [i \in Phi |-> 0]

TypeOK == \/ test = "sem" /\ BySem!TypeOK
          \/ test = "cond" /\ ByCond!TypeOK

\* A step of the philosopher i in the test that runs.
SemStep(i)  == test = "sem" /\ BySem!Step(i) /\ UNCHANGED <<test, next_count, count>>
CondStep(i) == test = "cond" /\ ByCond!Step(i) /\ UNCHANGED test

Resumes(i) == Resume(i) /\ UNCHANGED <<test, next_count, count>>
Wakes(i)   == Wake(i) /\ UNCHANGED <<test, next_count, count>>

\* test_phi_end returns, and test_phi_cond makes a new table, monitor and
\* threads.
NextTest ==
  /\ test = "sem" /\ AllQuit
  /\ test' = "cond"
  /\ state' = [i \in Phi |-> "THINKING"]
  /\ sem' = init_sem(ByCond!Sems, Phi, ByCond!Values0)
  /\ pc' = [i \in Phi |-> "think"]
  /\ meals' = [i \in Phi |-> 0]
  /\ UNCHANGED <<curr, sleeping, in_down, next_count, count>>

Succeed == test = "cond" /\ AllQuit /\ UNCHANGED vars

Next == \/ \E i \in Phi : SemStep(i) \/ CondStep(i) \/ Resumes(i) \/ Wakes(i)
        \/ NextTest \/ Succeed

(* Timers run out, a philosopher on the CPU goes on, init goes on when its    *)
(* do_wait returns, and the scheduler passes over no ready one for ever.      *)
Spec == /\ Init /\ [][Next]_vars
        /\ \A i \in Phi : /\ WF_vars(SemStep(i)) /\ WF_vars(CondStep(i))
                          /\ WF_vars(Wakes(i)) /\ SF_vars(Resumes(i))
        /\ WF_vars(NextTest)

-----------------------------------------------------------------------------
\* "Only one process at a time may be be active in a monitor" (monitor.h), and
\* the mutex is free only when there is none, across signal_cond's hand-over.
OneActive == test = "cond" => ByCond!OneActive

\* No philosopher goes hungry while both its neighbours could let it eat, and no
\* permission to eat is left over: both phi_put_forks test both neighbours, and
\* each up has its down.
NoneOverlooked == IF test = "sem" THEN BySem!NoneOverlooked ELSE ByCond!NoneOverlooked

\* Whoever sleeps in down is in the queue of a semaphore, where up can find it,
\* and no ASSERT of up, down or del_wait_queue has failed.
NobodyLost ==
  /\ TypeOK /\ NoPanic
  /\ SleepersQueued(IF test = "sem" THEN BySem!Sems ELSE ByCond!Sems)

\* "test_phi succeed!" (init_main): in both tests every philosopher has its
\* TIMES meals, and test_phi_end returns.
AllEat == <>(test = "cond" /\ AllQuit)
=============================================================================
