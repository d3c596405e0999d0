------------------------------ MODULE PidAlloc ------------------------------
(***************************************************************************)
(* alloc_pid of kernel/proc/proc.c, with the set of pids in g_proc_list    *)
(* that do_fork (set_links) and do_wait (remove_links) maintain.  The two  *)
(* static counters promise that no live pid lies strictly between          *)
(* prev_pid and next_pid, so most calls need no scan of the list.  A scan  *)
(* is one step per list entry; it visits the entries in any order, where   *)
(* the code goes through the list from its youngest entry.                 *)
(***************************************************************************)
EXTENDS Integers, FiniteSets

CONSTANT MAX_PROCESS
ASSUME PidAssumption == MAX_PROCESS \in Nat \ {0, 1}

MAX_PID == 2 * MAX_PROCESS

VARIABLES prev_pid, next_pid,  \* the static counters of alloc_pid
          pids,                \* the pids in g_proc_list
          todo,                \* the entries the scan has yet to visit
          pc,                  \* "ready" between calls, "scan" in the while loop
          last                 \* the pid of the previous do_fork, 0 at first

vars == <<prev_pid, next_pid, pids, todo, pc, last>>

TypeOK ==
  /\ prev_pid \in 1 .. MAX_PID
  /\ next_pid \in 1 .. MAX_PID
  /\ pids \subseteq 1 .. MAX_PID - 1
  /\ todo \subseteq pids
  /\ pc \in {"ready", "scan"}
  /\ last \in 0 .. MAX_PID - 1

Init ==
  /\ prev_pid = MAX_PID
  /\ next_pid = MAX_PID
  /\ pids = {}
  /\ todo = {}
  /\ pc = "ready"
  /\ last = 0

\* prev_pid = prev_pid + 1 >= MAX_PID ? 1 : prev_pid + 1
Succ(n) == IF n + 1 >= MAX_PID THEN 1 ELSE n + 1

\* Slip: the wrapped counter is used without a new scan.
MustScanNotAfterWrap(prev, next) == prev >= next

\* The test that decides whether the list must be scanned.
MustScan(prev, next) == prev >= next \/ prev = 1

\* The end of alloc_pid: do_fork puts the new pcb into g_proc_list.
Return(pid) ==
  /\ pids' = pids \cup {pid}
  /\ last' = pid
  /\ pc' = "ready"

\* do_fork calls alloc_pid; g_num_proc counts idle, which has no list entry,
\* so a call that passes its check finds fewer than MAX_PROCESS entries.
AllocPid ==
  /\ pc = "ready"
  /\ Cardinality(pids) + 1 <= MAX_PROCESS
  /\ LET prev == Succ(prev_pid)
     IN /\ prev_pid' = prev
        /\ IF MustScan(prev, next_pid)
           THEN /\ next_pid' = MAX_PID
                /\ todo' = pids
                /\ pc' = "scan"
                /\ UNCHANGED <<pids, last>>
           ELSE Return(prev) /\ UNCHANGED <<next_pid, todo>>

\* Slip: the scan starts again with the same candidate.
CollisionStays(p) ==
  /\ p = prev_pid
  /\ next_pid' = MAX_PID
  /\ todo' = pids
  /\ UNCHANGED prev_pid

\* The entry has the candidate's pid: take the next candidate; beyond next_pid
\* nothing is known, so the scan starts again.
Collision(p) ==
  /\ p = prev_pid
  /\ IF prev_pid + 1 >= next_pid
     THEN /\ prev_pid' = Succ(prev_pid)
          /\ next_pid' = MAX_PID
          /\ todo' = pids
     ELSE /\ prev_pid' = prev_pid + 1
          /\ todo' = todo \ {p}
          /\ UNCHANGED next_pid

\* Another entry: it may narrow the gap.
Narrow(p) ==
  /\ p # prev_pid
  /\ next_pid' = IF prev_pid < p /\ p < next_pid THEN p ELSE next_pid
  /\ todo' = todo \ {p}
  /\ UNCHANGED prev_pid

ScanEntry(p) ==
  /\ pc = "scan"
  /\ p \in todo
  /\ Collision(p) \/ Narrow(p)
  /\ UNCHANGED <<pids, pc, last>>

ScanDone ==
  /\ pc = "scan"
  /\ todo = {}
  /\ Return(prev_pid)
  /\ UNCHANGED <<prev_pid, next_pid, todo>>

\* do_wait reaps a process; alloc_pid runs with interrupts off.
Reap(p) ==
  /\ pc = "ready"
  /\ p \in pids
  /\ pids' = pids \ {p}
  /\ UNCHANGED <<prev_pid, next_pid, todo, pc, last>>

Scan == (\E p \in pids : ScanEntry(p)) \/ ScanDone

Next == AllocPid \/ Scan \/ \E p \in pids : Reap(p)

Spec     == Init /\ [][Next]_vars
FairSpec == Spec /\ WF_vars(Scan)

-----------------------------------------------------------------------------
\* The steps with which a call of alloc_pid returns prev_pid'.
Returned == pc' = "ready" /\ (pc = "scan" \/ prev_pid' # prev_pid)

\* do_fork gives out a pid that no live process has and that get_proc accepts:
\* get_proc returns the first match, so a pid held twice would send a kill or a
\* wait to the wrong process.
UniquePids == [][Returned => prev_pid' \in (1 .. MAX_PID - 1) \ pids]_vars

\* The promise of the two counters between two calls, and what of it the scan
\* has established for the entries it has visited (alloc_pid).
GapFree == \A p \in pids \ todo :
             /\ ~(prev_pid < p /\ p < next_pid)
             /\ pc = "scan" => p # prev_pid

\* A process that is reaped at once does not leave its pid to the next do_fork,
\* even after a wrap: MAX_PID is twice MAX_PROCESS.
NoImmediateReuse == [][Returned => last' # last]_vars

\* The scan ends, restarts included: some pid is always free (alloc_pid).
ScanEnds == pc = "scan" ~> pc = "ready"

=============================================================================
