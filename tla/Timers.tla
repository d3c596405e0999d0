-------------------------------- MODULE Timers --------------------------------
(***************************************************************************)
(* The delta list of timers of kernel/proc/schedule.c: add_timer,          *)
(* del_timer and run_timers.  Each timer in g_timer_list holds the ticks   *)
(* between the expiry of the timer before it and its own, so a tick only   *)
(* touches the first.  The loops of add_timer and run_timers are one step  *)
(* per round; all three run with interrupts off, so nothing else touches   *)
(* the list between two rounds.                                            *)
(***************************************************************************)
EXTENDS Integers, Sequences

CONSTANTS Timer, Durations
ASSUME TimersAssumption == Durations \subseteq Nat \ {0}

VARIABLES list,     \* g_timer_list
          expires,  \* timer.expires
          op,       \* "none", or the function that is running
          adding,   \* add_timer: the timer to insert
          at        \* add_timer: the position the loop has reached

vars == <<list, expires, op, adding, at>>

Listed(t) == \E i \in 1 .. Len(list) : list[i] = t

TypeOK ==
  /\ list \in Seq(Timer)
  /\ \A i, j \in 1 .. Len(list) : list[i] = list[j] => i = j
  /\ expires \in [Timer -> Nat]
  /\ op \in {"none", "add", "run"}
  /\ adding \in Timer
  /\ at \in 1 .. Len(list) + 1

Init ==
  /\ list = <<>>
  /\ expires = [t \in Timer |-> 0]
  /\ op = "none"
  /\ adding \in Timer
  /\ at = 1

\* list with t inserted before position i, and without position i.
Inserted(t, i) == [j \in 1 .. Len(list) + 1 |->
                     IF j < i THEN list[j] ELSE IF j = i THEN t ELSE list[j - 1]]
Removed(i) == [j \in 1 .. Len(list) - 1 |-> IF j < i THEN list[j] ELSE list[j + 1]]

-----------------------------------------------------------------------------
(* add_timer.                                                              *)

\* do_sleep(n) adds its timer, which is in no list.
AddTimer(t, n) ==
  /\ op = "none"
  /\ ~Listed(t)
  /\ expires' = [expires EXCEPT ![t] = n]
  /\ op' = "add" /\ adding' = t /\ at' = 1
  /\ UNCHANGED list

\* The loop stops at the first timer that expires later.
AddStops == at <= Len(list) /\ expires[adding] < expires[list[at]]

\* A round of the loop that passes the timer at `at'.
AddWalks ==
  /\ op = "add" /\ at <= Len(list) /\ ~AddStops
  /\ expires' = [expires EXCEPT ![adding] = @ - expires[list[at]]]
  /\ at' = at + 1
  /\ UNCHANGED <<list, op, adding>>

\* Slip: the timer that follows keeps its delta.
FollowerKept == expires

\* The timer that follows gives up the ticks that now lie before it.
FollowerShortened ==
  IF AddStops THEN [expires EXCEPT ![list[at]] = @ - expires[adding]] ELSE expires

AddInserts ==
  /\ op = "add" /\ (at > Len(list) \/ AddStops)
  /\ expires' = FollowerShortened
  /\ list' = Inserted(adding, at)
  /\ op' = "none" /\ at' = 1
  /\ UNCHANGED adding

-----------------------------------------------------------------------------
(* del_timer.                                                              *)

\* The timer that follows takes over the ticks of the one at position i.
FollowerLengthened(i) ==
  IF i < Len(list) THEN [expires EXCEPT ![list[i + 1]] = @ + expires[list[i]]] ELSE expires

\* del_timer; the end of do_sleep calls it for an expired timer too, which is
\* in the list no more, and then it does nothing.
DelTimer(t) ==
  /\ op = "none"
  /\ \E i \in 1 .. Len(list) :
       /\ list[i] = t
       /\ expires' = FollowerLengthened(i)
       /\ list' = Removed(i)
  /\ UNCHANGED <<op, adding, at>>

-----------------------------------------------------------------------------
(* run_timers.                                                             *)

\* The first timer counts down; at zero the loop starts.
RunTimers ==
  /\ op = "none" /\ list # <<>>
  /\ expires' = [expires EXCEPT ![list[1]] = @ - 1]
  /\ op' = IF expires[list[1]] = 1 THEN "run" ELSE "none"
  /\ UNCHANGED <<list, adding, at>>

\* Slip: only one timer is taken off the list in a tick.
MoreDueNever == FALSE

\* The test at the end of the loop, for the timer after the first.
MoreDue == Len(list) > 1 /\ expires[list[2]] = 0

\* One round: wakeup_proc and del_timer of the first timer.
RunFires ==
  /\ op = "run"
  /\ list' = Removed(1)
  /\ op' = IF MoreDue THEN "run" ELSE "none"
  /\ UNCHANGED <<expires, adding, at>>

Next ==
  \/ \E t \in Timer, n \in Durations : AddTimer(t, n)
  \/ AddWalks \/ AddInserts
  \/ \E t \in Timer : DelTimer(t)
  \/ RunTimers \/ RunFires

Spec == Init /\ [][Next]_vars

-----------------------------------------------------------------------------
\* The ASSERT of run_timers: the first timer in the list has ticks left, between
\* calls; a first timer at zero would wrap to 2^32 - 1 and stop all timers.
HeadNotExpired == op = "none" /\ list # <<>> => expires[list[1]] > 0

\* During run_timers' loop the first timer is the one that has run out.
HeadDue == op = "run" => list # <<>> /\ expires[list[1]] = 0

\* The ticks up to each position of the list, and what is left of each timer.
UpTo[i \in 0 .. Len(list)] == IF i = 0 THEN 0 ELSE UpTo[i - 1] + expires[list[i]]
Left(t) == IF Listed(t) THEN UpTo[CHOOSE i \in 1 .. Len(list) : list[i] = t] ELSE 0

\* The delta list keeps the promise of TimerSpec: every timer fires at its own
\* tick, whatever is added and deleted around it.
Abstract == INSTANCE TimerSpec WITH
              left <- [t \in Timer |-> Left(t)],
              due  <- { t \in Timer : Listed(t) /\ Left(t) = 0 }
KeepsTimerSpec == Abstract!Spec
=============================================================================
