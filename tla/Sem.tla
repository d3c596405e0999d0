--------------------------------- MODULE Sem ---------------------------------
(***************************************************************************)
(* The lists of kernel/lib/list.h, the wait queues of kernel/sync/wait.c   *)
(* and the semaphores of kernel/sync/sem.c, as operators on a record m     *)
(* that holds the state of a set of semaphores and of the processes that   *)
(* use them:                                                               *)
(*   m.prev, m.next     the links of the queue heads and of the struct     *)
(*                      wait each process has on its kernel stack; a node  *)
(*                      in no list points to itself                        *)
(*   m.value            sem.value                                          *)
(*   m.wait_state       pcb.wait_state: "SEM" while asleep in down         *)
(*   m.wakeup_state     wait.wakeup_state: "INT" until up makes it "SEM"   *)
(*   m.panic            an ASSERT of the two files has failed              *)
(* up, and each half of down around its schedule(), run with interrupts    *)
(* off, so each is one operator.                                           *)
(***************************************************************************)
EXTENDS Naturals, FiniteSets

list_empty(m, n) == m.prev[n] = n /\ m.next[n] = n

\* add_list(before, after, entry), which trusts that the two are neighbours.
add_list(m, before, after, entry) ==
  [m EXCEPT !.next = [@ EXCEPT ![before] = entry, ![entry] = after],
            !.prev = [@ EXCEPT ![after] = entry, ![entry] = before]]

\* Slip: the node after the entry still points back to it.
del_list_half(m, entry) ==
  [m EXCEPT !.next = [@ EXCEPT ![m.prev[entry]] = m.next[entry], ![entry] = entry],
            !.prev = [@ EXCEPT ![entry] = entry]]

\* del_wait_queue: del_list, then init_list of the entry.
del_wait_queue(m, entry) ==
  [m EXCEPT !.next = [@ EXCEPT ![m.prev[entry]] = m.next[entry], ![entry] = entry],
            !.prev = [@ EXCEPT ![m.next[entry]] = m.prev[entry], ![entry] = entry],
            !.panic = @ \/ list_empty(m, entry)]

\* init_sem of every semaphore, with value0 giving the values.
init_sem(Sems, Procs, value0) ==
  [prev         |-> [n \in Sems \cup Procs |-> n],
   next         |-> [n \in Sems \cup Procs |-> n],
   value        |-> value0,
   wait_state   |-> [p \in Procs |-> "NONE"],
   wakeup_state |-> [p \in Procs |-> "INT"],
   panic        |-> FALSE]

\* What add_curr_wait writes into the pcb.
Waiting == "SEM"

\* add_curr_wait; add_wait_queue passes the queue head and the head's prev.
add_curr_wait(m, s, p) ==
  LET a == add_list(m, s, m.prev[s], p)
  IN [a EXCEPT !.wait_state[p] = Waiting, !.wakeup_state[p] = "INT"]

\* The test at the start of down and of try_down.
HasUnit(m, s) == m.value[s] > 0

\* down up to its schedule(): p has taken a unit, or waits for one.
down(m, s, p) == IF HasUnit(m, s) THEN [m EXCEPT !.value[s] = @ - 1]
                 ELSE add_curr_wait(m, s, p)

\* down after schedule(): del_curr_wait, and the ASSERT on who woke it.
down_returns(m, p) ==
  LET d == IF list_empty(m, p) THEN m ELSE del_wait_queue(m, p)
  IN [d EXCEPT !.panic = @ \/ m.wakeup_state[p] # "SEM"]

\* Slip: the unit is added although a waiter is handed it.
UpValueAlways(m, s) == m.value[s] + 1

\* up adds a unit only when there is no waiter to hand it to.
UpValue(m, s) == IF m.next[s] = s THEN m.value[s] + 1 ELSE m.value[s]

\* up: the first waiter is taken off the queue and woken.
up(m, s) ==
  LET w == m.next[s]
      v == [m EXCEPT !.value[s] = UpValue(m, s)]
  IN IF w = s THEN v
     ELSE [del_wait_queue(v, w) EXCEPT
             !.wakeup_state[w] = "SEM",
             !.wait_state[w] = "NONE",
             !.panic = @ \/ m.wait_state[w] # "SEM"]

\* The processes a walk of k links along f from the queue head s meets; up
\* finds its waiters along m.next.
Walk(f, s, k) ==
  LET R[i \in 0 .. k] == IF i = 0 THEN {f[s]} ELSE R[i - 1] \cup { f[n] : n \in R[i - 1] }
  IN R[k] \ {s}
=============================================================================
