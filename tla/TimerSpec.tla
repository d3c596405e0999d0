------------------------------ MODULE TimerSpec ------------------------------
(***************************************************************************)
(* What the timers of kernel/proc/schedule.c promise do_sleep: a timer     *)
(* added with n wakes its process at the n-th tick after that, no other    *)
(* timer matters, and a timer that is deleted wakes nobody.                *)
(***************************************************************************)
EXTENDS Naturals

CONSTANTS Timer,     \* the timers, one on the kernel stack of each sleeper
          Durations  \* arguments of do_sleep other than 0

VARIABLES left,  \* ticks left of each pending timer; 0: not pending
          due    \* timers that have run out and whose process is yet to be woken

vars == <<left, due>>

Init == left = [t \in Timer |-> 0] /\ due = {}

Add(t, n) == /\ due = {} /\ left[t] = 0
             /\ left' = [left EXCEPT ![t] = n]
             /\ UNCHANGED due

Del(t) == /\ due = {}
          /\ left' = [left EXCEPT ![t] = 0]
          /\ UNCHANGED due

Tick == /\ due = {}
        /\ left' = [t \in Timer |-> IF left[t] > 0 THEN left[t] - 1 ELSE 0]
        /\ due' = { t \in Timer : left[t] = 1 }

Wake(t) == /\ t \in due
           /\ due' = due \ {t}
           /\ UNCHANGED left

Next == \/ \E t \in Timer : Del(t) \/ Wake(t) \/ \E n \in Durations : Add(t, n)
        \/ Tick

Spec == Init /\ [][Next]_vars
=============================================================================
