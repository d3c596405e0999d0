-------------------------------- MODULE Proc --------------------------------
(***************************************************************************)
(* The life of a process in Garret-OS: kernel/proc/proc.c (do_fork,        *)
(* do_execve, do_wait, do_kill, do_exit, do_sleep, do_yield, init_main),   *)
(* kernel/proc/schedule.c (wakeup_proc, schedule, run_timers) and the tail *)
(* of trap() in kernel/trap/trap.c, on the one CPU of the machine.         *)
(*                                                                         *)
(* A trap from user mode runs with interrupts off, so a system call is     *)
(* atomic up to the point where it calls schedule().  Kernel threads       *)
(* (idle, init, the philosophers of test_phi.c, user_main before its       *)
(* execve) run with interrupts on: a timer tick may fall between any two   *)
(* of their steps, but it never reschedules them.                          *)
(*                                                                         *)
(* Abstractions.  A pid is the pcb slot itself (PidAlloc.tla is about      *)
(* pids), the run queue is a set from which schedule() takes any member    *)
(* (Stride.tla is about the choice), a sibling list is the set of          *)
(* processes with the same parent (ProcLinks.tla is about the pointers),   *)
(* and the delta list of timers is the number of ticks each has left       *)
(* (Timers.tla is about the list).  A philosopher sleeps in do_sleep only; *)
(* its waits for a semaphore are in PhiSem.tla and PhiMonitor.tla.         *)
(***************************************************************************)
EXTENDS Naturals, FiniteSets

CONSTANTS Procs,           \* pcb slots
          Idle, InitP,     \* g_idle_proc, g_init_proc
          NULL,            \* no process; also pid 0 as an argument of do_wait
          MAX_PROCESS,     \* do_fork's limit
          MAX_TIME_SLICE,  \* ticks before a process is preempted
          NUM_PHI,         \* kernel threads init_main starts before user_main
          Killable,        \* the processes user programs pass to sys_kill
          SleepTimes,      \* arguments of do_sleep
          MaxForks         \* bound on the calls of do_fork in a behaviour

ASSUME ProcAssumption ==
  /\ Idle \in Procs /\ InitP \in Procs /\ Idle # InitP /\ NULL \notin Procs
  /\ IsFiniteSet(Procs)
  /\ MAX_PROCESS \in Nat /\ NUM_PHI \in Nat /\ MaxForks \in Nat
  /\ MAX_TIME_SLICE \in Nat \ {0}
  /\ NUM_PHI + 2 <= MAX_PROCESS
  /\ NUM_PHI + 3 <= Cardinality(Procs) /\ NUM_PHI + 1 <= MaxForks
  /\ Killable \subseteq Procs \ {Idle}
  /\ SleepTimes \subseteq Nat

VARIABLES state,            \* pcb.state; FREE: the slot holds no pcb
          wait_state,       \* pcb.wait_state
          exit_flag,        \* pcb.flags & PROC_FLAG_EXIT
          need_reschedule,  \* pcb.need_reschedule
          time_slice,       \* pcb.time_slice
          parent,           \* pcb.parent
          pc,               \* where the process is in its code
          in_kernel,        \* a kernel thread: it has no user mode to trap from
          target,           \* the pid argument of the do_wait in progress
          left,             \* ticks left of the timer of do_sleep, 0: not listed
          g_curr_proc, run_queue, g_num_proc,
          phi,              \* the philosophers test_phi_end has yet to wait for
          forks,            \* calls of do_fork that made a process
          panic             \* an ASSERT failed or PANIC was called

pcb  == <<state, wait_state, exit_flag, need_reschedule, time_slice, parent,
          in_kernel, target, left>>
vars == <<pcb, pc, g_curr_proc, run_queue, g_num_proc, phi, forks, panic>>

\* PROC_* and WAIT_*; both kinds of waiting here carry WAIT_INT.
States     == {"FREE", "SLEEPING", "RUNNABLE", "ZOMBIE"}
WaitStates == {"NONE", "CHILD", "TIMER"}

\* The places from which schedule() is called, and where each goes on after it.
SchedPoints == {"idle", "trap_sched", "wait_sched", "sleep_sched", "main_sched",
                "exit_sched"}
Resume(w) == CASE w = "idle"        -> "idle"
               [] w = "trap_sched"  -> "user"
               [] w = "wait_sched"  -> "wait_woken"
               [] w = "sleep_sched" -> "sleep_woken"
               [] w = "main_sched"  -> "wait"
               [] w = "exit_sched"  -> "dead"

PCs == SchedPoints \cup
       { "phi_fork", "phi_wait", "main_fork", "main_check",  \* init_main
         "phi", "user_main",                                 \* kernel threads
         "user", "trapret", "wait", "wait_woken", "sleep_woken",
         "exit", "exit_wake", "reparent", "dead", "none" }

Live     == { p \in Procs : state[p] # "FREE" }
Child(p) == { q \in Live : parent[q] = p }

TypeOK ==
  /\ state \in [Procs -> States]
  /\ wait_state \in [Procs -> WaitStates]
  /\ exit_flag \in [Procs -> BOOLEAN]
  /\ need_reschedule \in [Procs -> BOOLEAN]
  /\ time_slice \in [Procs -> 0 .. MAX_TIME_SLICE]
  /\ parent \in [Procs -> Procs \cup {NULL}]
  /\ pc \in [Procs -> PCs]
  /\ in_kernel \in [Procs -> BOOLEAN]
  /\ target \in [Procs -> Procs \cup {NULL}]
  /\ left \in [Procs -> Nat]
  /\ g_curr_proc \in Procs
  /\ run_queue \subseteq Procs
  /\ g_num_proc \in Nat
  /\ phi \subseteq Procs
  /\ forks \in 0 .. MaxForks
  /\ panic \in BOOLEAN

\* init_proc: idle runs; init waits in the run queue at the start of init_main.
Init ==
  /\ state = [p \in Procs |-> IF p \in {Idle, InitP} THEN "RUNNABLE" ELSE "FREE"]
  /\ wait_state = [p \in Procs |-> "NONE"]
  /\ exit_flag = [p \in Procs |-> FALSE]
  /\ need_reschedule = [p \in Procs |-> p = Idle]
  /\ time_slice = [p \in Procs |-> IF p = InitP THEN MAX_TIME_SLICE ELSE 0]
  /\ parent = [p \in Procs |-> IF p = InitP THEN Idle ELSE NULL]
  /\ pc = [p \in Procs |-> CASE p = Idle  -> "idle"
                             [] p = InitP -> "phi_fork"
                             [] OTHER     -> "none"]
  /\ in_kernel = [p \in Procs |-> p \in {Idle, InitP}]
  /\ target = [p \in Procs |-> NULL]
  /\ left = [p \in Procs |-> 0]
  /\ g_curr_proc = Idle
  /\ run_queue = {InitP}
  /\ g_num_proc = 2
  /\ phi = {}
  /\ forks = 0
  /\ panic = FALSE

-----------------------------------------------------------------------------
(* Helpers.                                                                *)

\* The process on the CPU is about to execute `where'.
At(p, where) == /\ ~panic
                /\ p = g_curr_proc
                /\ pc[p] = where

Goto(p, where) == pc' = [pc EXCEPT ![p] = where]

\* stride_enqueue gives a new slice to a process that has used its own up.
Refill(S) == [p \in Procs |-> IF p \in S /\ time_slice[p] = 0
                              THEN MAX_TIME_SLICE ELSE time_slice[p]]

\* scheduler_enqueue of every member of S; idle is never queued.
Enqueue(S) == /\ run_queue' = run_queue \cup (S \ {Idle})
              /\ time_slice' = Refill(S \ {Idle})

\* Slip: wakeup_proc also queues the process on the CPU.
ToQueueCurrToo(S) == S

\* Of the processes wakeup_proc wakes, those it queues.
ToQueue(S) == S \ {g_curr_proc}

\* wakeup_proc of every member of S: the current process is made runnable but
\* not queued, a runnable one is only warned about, a zombie is an ASSERT.
wakeup_proc(S) ==
  LET asleep == { p \in S : state[p] # "RUNNABLE" }
  IN /\ state' = [p \in Procs |-> IF p \in asleep THEN "RUNNABLE" ELSE state[p]]
     /\ wait_state' = [p \in Procs |-> IF p \in asleep THEN "NONE" ELSE wait_state[p]]
     /\ Enqueue(ToQueue(asleep))
     /\ panic' = \E p \in S : state[p] = "ZOMBIE"

-----------------------------------------------------------------------------
(* schedule() and run_proc().                                              *)

\* schedule() called by the current process p, choosing n.  Idle calls it
\* only when asked to (run_idle); a zombie must never come back from it, that
\* is the PANIC at the end of do_exit.
Switch(p, n) ==
  LET queued == run_queue \cup (IF state[p] = "RUNNABLE" /\ p # Idle THEN {p} ELSE {})
  IN /\ ~panic
     /\ p = g_curr_proc
     /\ pc[p] \in SchedPoints
     /\ p = Idle => need_reschedule[p]
     /\ IF queued = {} THEN n = Idle ELSE n \in queued
     /\ need_reschedule' = [need_reschedule EXCEPT ![p] = FALSE]
     /\ time_slice' = IF state[p] = "RUNNABLE" /\ p # Idle THEN Refill({p}) ELSE time_slice
     /\ run_queue' = queued \ {n}
     /\ g_curr_proc' = n
     /\ Goto(p, Resume(pc[p]))
     /\ panic' = (pc'[n] = "dead")
     /\ UNCHANGED <<state, wait_state, exit_flag, parent, in_kernel, target,
                    left, g_num_proc, phi, forks>>

schedule(n) == \E p \in Procs : Switch(p, n)

-----------------------------------------------------------------------------
(* The timer interrupt.                                                    *)

\* Where interrupts are on: user mode, and a kernel thread outside the
\* regions it guards with local_intr_save.  In do_exit that region begins after
\* the thread has become a zombie ("exit_wake") and before the parent is woken.
Interruptible(p) ==
  \/ pc[p] \in {"user", "idle"}
  \/ in_kernel[p] /\ pc[p] \notin {"reparent", "dead"}

\* Slip: a slice of no ticks is spent as well.
SpendUnchecked(n) == n - 1

\* stride_proc_tick spends a tick of the slice.
Spend(n) == IF n > 0 THEN n - 1 ELSE 0

\* scheduler_proc_tick: idle always, another process at the end of its slice.
TickPreempts(c, n) == c = Idle \/ n = 0

\* run_timers: every timer counts down, those that reach zero wake their
\* process and leave the list; then scheduler_proc_tick of the current process.
run_timers ==
  LET expired == { p \in Procs : left[p] = 1 }
      c       == g_curr_proc
      woken   == { p \in expired : state[p] # "RUNNABLE" }
      queued  == ToQueue(woken) \ {Idle}
      slice   == Refill(queued)
      rest    == Spend(slice[c])
  IN /\ left' = [p \in Procs |-> IF left[p] > 0 THEN left[p] - 1 ELSE 0]
     /\ state' = [p \in Procs |-> IF p \in woken THEN "RUNNABLE" ELSE state[p]]
     /\ wait_state' = [p \in Procs |-> IF p \in woken THEN "NONE" ELSE wait_state[p]]
     /\ run_queue' = run_queue \cup queued
     /\ panic' = \E p \in expired : state[p] = "ZOMBIE"
     /\ time_slice' = IF c = Idle THEN slice ELSE [slice EXCEPT ![c] = rest]
     /\ need_reschedule' = [need_reschedule EXCEPT ![c] = @ \/ TickPreempts(c, rest)]

\* interrupt_handler on SCAUSE_STI, then the tail of trap() for a user process.
Tick ==
  /\ ~panic
  /\ Interruptible(g_curr_proc)
  /\ run_timers
  /\ pc' = [pc EXCEPT ![g_curr_proc] = IF @ = "user" THEN "trapret" ELSE @]
  /\ UNCHANGED <<exit_flag, parent, in_kernel, target, g_curr_proc, g_num_proc,
                 phi, forks>>

\* Slip: the exit flag is looked at only when the process would go on.
TrapTailNoExit(p) == IF need_reschedule[p] THEN "trap_sched" ELSE "user"

\* trap() after trap_dispatch, for a trap from user mode.
TrapTail(p) == IF exit_flag[p] THEN "exit"
               ELSE IF need_reschedule[p] THEN "trap_sched" ELSE "user"

TrapReturn(p) ==
  /\ At(p, "trapret")
  /\ Goto(p, TrapTail(p))
  /\ UNCHANGED <<pcb, g_curr_proc, run_queue, g_num_proc, phi, forks, panic>>

-----------------------------------------------------------------------------
(* do_fork and kernel_proc.                                                *)

\* do_fork makes the pcb q, a child of the current process p, and wakes it.
NewProc(p, q, where, kern, after) ==
  /\ state[q] = "FREE"
  /\ forks < MaxForks
  /\ forks' = forks + 1
  /\ state' = [state EXCEPT ![q] = "RUNNABLE"]
  /\ wait_state' = [wait_state EXCEPT ![q] = "NONE"]
  /\ exit_flag' = [exit_flag EXCEPT ![q] = FALSE]
  /\ need_reschedule' = [need_reschedule EXCEPT ![q] = FALSE]
  /\ time_slice' = [time_slice EXCEPT ![q] = MAX_TIME_SLICE]
  /\ parent' = [parent EXCEPT ![q] = p]
  /\ in_kernel' = [in_kernel EXCEPT ![q] = kern]
  /\ target' = [target EXCEPT ![q] = NULL]
  /\ left' = [left EXCEPT ![q] = 0]
  /\ pc' = [pc EXCEPT ![p] = after, ![q] = where]
  /\ run_queue' = run_queue \cup {q}
  /\ g_num_proc' = g_num_proc + 1
  /\ UNCHANGED g_curr_proc

\* sys_fork, refused beyond MAX_PROCESS.
Fork(p, q) ==
  /\ At(p, "user")
  /\ g_num_proc <= MAX_PROCESS
  /\ NewProc(p, q, "user", FALSE, "trapret")
  /\ panic' = (wait_state[p] # "NONE")
  /\ UNCHANGED phi

\* kernel_proc, called by init_main, which panics when it is refused.
kernel_proc(q, where, after) ==
  /\ NewProc(InitP, q, where, TRUE, after)
  /\ panic' = (wait_state[InitP] # "NONE" \/ g_num_proc > MAX_PROCESS)

\* test_phi_sem and test_phi_cond start their kernel threads; one round stands
\* for the two.
PhiFork(q) ==
  /\ At(InitP, "phi_fork")
  /\ Cardinality(phi) < NUM_PHI
  /\ kernel_proc(q, "phi", "phi_fork")
  /\ phi' = phi \cup {q}

\* kernel_proc(user_main); init then enters its do_wait loop.
MainFork(q) ==
  /\ At(InitP, "main_fork")
  /\ kernel_proc(q, "user_main", "wait")
  /\ UNCHANGED phi

\* user_main's kernel_execve: an ebreak in kernel mode, so trap() has no tail
\* here.  load_bin may fail, and do_execve then calls do_exit itself.
KernelExecve(p) ==
  /\ At(p, "user_main")
  /\ \E where \in {"user", "exit"} : Goto(p, where)
  /\ in_kernel' = [in_kernel EXCEPT ![p] = FALSE]
  /\ UNCHANGED <<state, wait_state, exit_flag, need_reschedule, time_slice, parent,
                 target, left, g_curr_proc, run_queue, g_num_proc, phi, forks, panic>>

-----------------------------------------------------------------------------
(* System calls that change the state of one process.                      *)

\* Calls that return at once and leave the processes alone: getpid, putc,
\* gettime, set_priority (see Stride.tla), a sleep of 0 ticks, a fork or an
\* exec that fails early, an exec that succeeds, a kill of no process.
SyscallReturns(p) ==
  /\ At(p, "user")
  /\ Goto(p, "trapret")
  /\ UNCHANGED <<pcb, g_curr_proc, run_queue, g_num_proc, phi, forks, panic>>

\* do_yield.
Yield(p) ==
  /\ At(p, "user")
  /\ need_reschedule' = [need_reschedule EXCEPT ![p] = TRUE]
  /\ Goto(p, "trapret")
  /\ UNCHANGED <<state, wait_state, exit_flag, time_slice, parent, in_kernel, target,
                 left, g_curr_proc, run_queue, g_num_proc, phi, forks, panic>>

\* Slip: whatever the victim does, it is woken.
KillWakesAlways(q) == {q}

\* do_kill wakes a victim whose wait state has WAIT_INT.
KillWakes(q) == IF wait_state[q] # "NONE" THEN {q} ELSE {}

\* do_kill(q), by the user process p; only idle is not in g_proc_list.
Kill(p, q) ==
  /\ At(p, "user")
  /\ q \in Killable \cap Live
  /\ ~exit_flag[q]
  /\ exit_flag' = [exit_flag EXCEPT ![q] = TRUE]
  /\ wakeup_proc(KillWakes(q))
  /\ Goto(p, "trapret")
  /\ UNCHANGED <<need_reschedule, parent, in_kernel, target, left, g_curr_proc,
                 g_num_proc, phi, forks>>

\* do_sleep(t) up to its call of schedule(), by a user process or by a
\* philosopher; add_timer asserts that the timer is not yet listed.
Sleep(p, t) ==
  /\ At(p, "user") \/ At(p, "phi")
  /\ t > 0
  /\ state' = [state EXCEPT ![p] = "SLEEPING"]
  /\ wait_state' = [wait_state EXCEPT ![p] = "TIMER"]
  /\ left' = [left EXCEPT ![p] = t]
  /\ panic' = (left[p] # 0)
  /\ Goto(p, "sleep_sched")
  /\ UNCHANGED <<exit_flag, need_reschedule, time_slice, parent, in_kernel, target,
                 g_curr_proc, run_queue, g_num_proc, phi, forks>>

\* Slip: the timer stays in the list.
del_timer_not(p) == UNCHANGED left

\* del_timer of the timer of p.
del_timer(p) == left' = [left EXCEPT ![p] = 0]

\* do_sleep after schedule(); del_timer matters when a kill and not the timer
\* ended the sleep.
SleepReturns(p) ==
  /\ At(p, "sleep_woken")
  /\ del_timer(p)
  /\ Goto(p, IF in_kernel[p] THEN "phi" ELSE "trapret")
  /\ UNCHANGED <<state, wait_state, exit_flag, need_reschedule, time_slice, parent,
                 in_kernel, target, g_curr_proc, run_queue, g_num_proc, phi, forks,
                 panic>>

-----------------------------------------------------------------------------
(* do_wait.                                                                *)

\* sys_wait(t); t = NULL waits for any child.
Wait(p, t) ==
  /\ At(p, "user")
  /\ target' = [target EXCEPT ![p] = t]
  /\ Goto(p, "wait")
  /\ UNCHANGED <<state, wait_state, exit_flag, need_reschedule, time_slice, parent,
                 in_kernel, left, g_curr_proc, run_queue, g_num_proc, phi, forks,
                 panic>>

\* The children do_wait looks at.
Awaited(p) == IF target[p] = NULL THEN Child(p) ELSE Child(p) \cap {target[p]}

\* Where do_wait returns to: the trap of a user process; in init_main
\* test_phi_end, the body of the loop, or the code after it.
WaitReturn(p, found) ==
  IF p # InitP THEN "trapret"
  ELSE IF target[p] # NULL THEN "phi_wait"
  ELSE IF found THEN "main_sched" ELSE "main_check"

\* One zombie is found: remove_links, and the pcb and its stack are freed.  A
\* timer of q is not looked at: it would stay in the list.
WaitReaps(p, q) ==
  /\ At(p, "wait")
  /\ q \in Awaited(p)
  /\ state[q] = "ZOMBIE"
  /\ state' = [state EXCEPT ![q] = "FREE"]
  /\ parent' = [parent EXCEPT ![q] = NULL]
  /\ exit_flag' = [exit_flag EXCEPT ![q] = FALSE]
  /\ need_reschedule' = [need_reschedule EXCEPT ![q] = FALSE]
  /\ time_slice' = [time_slice EXCEPT ![q] = 0]
  /\ in_kernel' = [in_kernel EXCEPT ![q] = FALSE]
  /\ target' = [target EXCEPT ![p] = NULL, ![q] = NULL]
  /\ pc' = [pc EXCEPT ![p] = WaitReturn(p, TRUE), ![q] = "none"]
  /\ phi' = phi \ {q}
  /\ g_num_proc' = g_num_proc - 1
  /\ panic' = (q \in {Idle, InitP})
  /\ UNCHANGED <<wait_state, left, g_curr_proc, run_queue, forks>>

\* Children, but no zombie yet: sleep.
WaitBlocks(p) ==
  /\ At(p, "wait")
  /\ Awaited(p) # {}
  /\ \A q \in Awaited(p) : state[q] # "ZOMBIE"
  /\ state' = [state EXCEPT ![p] = "SLEEPING"]
  /\ wait_state' = [wait_state EXCEPT ![p] = "CHILD"]
  /\ Goto(p, "wait_sched")
  /\ UNCHANGED <<exit_flag, need_reschedule, time_slice, parent, in_kernel, target,
                 left, g_curr_proc, run_queue, g_num_proc, phi, forks, panic>>

\* Woken by a child or by a kill.
WaitWoken(p) ==
  /\ At(p, "wait_woken")
  /\ Goto(p, IF exit_flag[p] THEN "exit" ELSE "wait")
  /\ UNCHANGED <<pcb, g_curr_proc, run_queue, g_num_proc, phi, forks, panic>>

\* No such child: -E_BAD_PROC, against which test_phi_end asserts.
WaitFails(p) ==
  /\ At(p, "wait")
  /\ Awaited(p) = {}
  /\ Goto(p, WaitReturn(p, FALSE))
  /\ panic' = (p = InitP /\ target[p] # NULL)
  /\ target' = [target EXCEPT ![p] = NULL]
  /\ UNCHANGED <<state, wait_state, exit_flag, need_reschedule, time_slice, parent,
                 in_kernel, left, g_curr_proc, run_queue, g_num_proc, phi, forks>>

-----------------------------------------------------------------------------
(* init_main between its calls of do_wait.                                 *)

\* test_phi_end waits for one philosopher after the other.
PhiWait(q) ==
  /\ \/ At(InitP, "phi_fork") /\ Cardinality(phi) = NUM_PHI
     \/ At(InitP, "phi_wait")
  /\ q \in phi
  /\ target' = [target EXCEPT ![InitP] = q]
  /\ Goto(InitP, "wait")
  /\ UNCHANGED <<state, wait_state, exit_flag, need_reschedule, time_slice, parent,
                 in_kernel, left, g_curr_proc, run_queue, g_num_proc, phi, forks,
                 panic>>

\* All philosophers are gone (or there are none).
PhiDone ==
  /\ \/ At(InitP, "phi_fork") /\ NUM_PHI = 0
     \/ At(InitP, "phi_wait")
  /\ phi = {}
  /\ Goto(InitP, "main_fork")
  /\ UNCHANGED <<pcb, g_curr_proc, run_queue, g_num_proc, phi, forks, panic>>

\* The ASSERTs at the end of init_main: no child, two processes, and init alone
\* in g_proc_list.  init_main then returns into do_exit.
MainCheck ==
  /\ At(InitP, "main_check")
  /\ panic' = ~(/\ Child(InitP) = {}
                /\ g_num_proc = 2
                /\ Live = {Idle, InitP})
  /\ Goto(InitP, "exit")
  /\ UNCHANGED <<pcb, g_curr_proc, run_queue, g_num_proc, phi, forks>>

-----------------------------------------------------------------------------
(* do_exit.                                                                *)

\* sys_exit, an exec that cannot load its program, and the return of a
\* philosopher's function into kernel_proc_entry.
Exit(p) ==
  /\ At(p, "user") \/ At(p, "phi")
  /\ Goto(p, "exit")
  /\ UNCHANGED <<pcb, g_curr_proc, run_queue, g_num_proc, phi, forks, panic>>

\* The process becomes a zombie.
ExitZombie(p) ==
  /\ At(p, "exit")
  /\ state' = [state EXCEPT ![p] = "ZOMBIE"]
  /\ Goto(p, "exit_wake")
  /\ panic' = (p = Idle)
  /\ UNCHANGED <<wait_state, exit_flag, need_reschedule, time_slice, parent, in_kernel,
                 target, left, g_curr_proc, run_queue, g_num_proc, phi, forks>>

\* Slip: the parent is woken from do_sleep, too.
WokenParentAny(p) == { q \in {parent[p]} : wait_state[q] # "NONE" }

\* Slip: a parent that waits for any child is not woken.
WokenParentNamed(p) == { q \in {parent[p]} : wait_state[q] = "CHILD" /\ target[q] = p }

\* The parent, if it is in do_wait.
WokenParent(p) == { q \in {parent[p]} : wait_state[q] = "CHILD" }

\* local_intr_save, and the parent is woken.
ExitWakesParent(p) ==
  /\ At(p, "exit_wake")
  /\ wakeup_proc(WokenParent(p))
  /\ Goto(p, "reparent")
  /\ UNCHANGED <<exit_flag, need_reschedule, parent, in_kernel, target, left,
                 g_curr_proc, g_num_proc, phi, forks>>

\* Init, if it is in do_wait and inherits a zombie.
WokenInit(q) == { i \in {InitP} : state[q] = "ZOMBIE" /\ wait_state[i] = "CHILD" }

\* Slip: the child stays where it is.
HeirSelf == g_curr_proc

\* Who inherits the children.
Heir == InitP

\* One round of the loop that gives a child to init.
Reparent(p, q) ==
  /\ At(p, "reparent")
  /\ q \in Child(p)
  /\ parent' = [parent EXCEPT ![q] = Heir]
  /\ wakeup_proc(WokenInit(q))
  /\ UNCHANGED <<exit_flag, need_reschedule, in_kernel, target, left, pc,
                 g_curr_proc, g_num_proc, phi, forks>>

\* Slip: the children are left to themselves.
ReparentSkipped(p) ==
  /\ At(p, "reparent")
  /\ Goto(p, "exit_sched")
  /\ UNCHANGED <<pcb, g_curr_proc, run_queue, g_num_proc, phi, forks, panic>>

\* No child is left: do_exit goes on to schedule().
ReparentDone(p) ==
  /\ At(p, "reparent")
  /\ Child(p) = {}
  /\ Goto(p, "exit_sched")
  /\ UNCHANGED <<pcb, g_curr_proc, run_queue, g_num_proc, phi, forks, panic>>

-----------------------------------------------------------------------------
\* The steps the kernel takes on its own once a process has trapped or blocked.
KernelStep(p) ==
  \/ TrapReturn(p) \/ KernelExecve(p) \/ SleepReturns(p)
  \/ \E q \in Procs : WaitReaps(p, q)
  \/ WaitBlocks(p) \/ WaitWoken(p) \/ WaitFails(p)
  \/ ExitZombie(p) \/ ExitWakesParent(p)
  \/ \E q \in Procs : Reparent(p, q)
  \/ ReparentDone(p)

InitStep ==
  \/ \E q \in Procs : PhiFork(q) \/ PhiWait(q) \/ MainFork(q)
  \/ PhiDone \/ MainCheck

\* What the program of a user process, or of a philosopher, does next.
ProgramStep(p) ==
  \/ \E q \in Procs : Fork(p, q) \/ Kill(p, q)
  \/ \E t \in Procs \cup {NULL} : Wait(p, t)
  \/ \E t \in SleepTimes : Sleep(p, t)
  \/ SyscallReturns(p) \/ Yield(p) \/ Exit(p)

Next ==
  \/ \E p \in Procs : KernelStep(p) \/ ProgramStep(p)
  \/ InitStep
  \/ \E n \in Procs : schedule(n)
  \/ Tick

Spec == Init /\ [][Next]_vars

(* Fairness.  The kernel runs on (weak fairness of its steps); a timer        *)
(* interrupt that falls while interrupts are off stays pending until they are *)
(* on again (strong fairness of Tick); a philosopher ends after TIMES rounds; *)
(* and the scheduler passes over no queued process for ever, which Stride.tla *)
(* shows of processes that do not keep changing their priority.               *)
Fairness ==
  /\ \A p \in Procs : WF_vars(KernelStep(p))
  /\ WF_vars(InitStep)
  /\ WF_vars(\E n \in Procs : schedule(n))
  /\ \A n \in Procs : SF_vars(schedule(n))
  /\ SF_vars(Tick)
  /\ \A p \in Procs : SF_vars(At(p, "phi") /\ Exit(p))

FairSpec == Spec /\ Fairness

-----------------------------------------------------------------------------
(* Safety.                                                                 *)

\* No ASSERT of proc.c, schedule.c or test_phi.c fails and no PANIC of do_wait,
\* do_exit or init_main is reached: no zombie is woken, no timer expires for
\* one, no zombie is scheduled, and when init's last do_wait fails it and idle
\* are the only processes left.
NoPanic == ~panic

\* wakeup_proc and schedule keep the run queue exact, ticks in kernel threads
\* included: it holds the runnable processes except idle and the current one.
RunQueueExact ==
  run_queue = { p \in Procs \ {Idle, g_curr_proc} : state[p] = "RUNNABLE" }

\* The pcb do_wait frees is referred to by nobody: it is not current, not
\* queued, its timer is not in the list, and it is no live process's parent.
NoDangling ==
  \A p \in Procs : state[p] = "FREE" =>
    /\ p # g_curr_proc
    /\ p \notin run_queue
    /\ left[p] = 0
    /\ \A q \in Live : parent[q] # p

\* do_wait and do_exit lose no wakeup: a process asleep in do_wait has a child
\* to wait for, and none of those children is a zombie, except one that is on
\* the CPU just before its call of wakeup_proc(parent).
NoLostWakeup ==
  \A p \in Procs : wait_state[p] = "CHILD" =>
    /\ Awaited(p) # {}
    /\ \A q \in Awaited(p) : state[q] = "ZOMBIE" =>
         q = g_curr_proc /\ pc[q] = "exit_wake"

\* A process asleep in do_sleep has a timer that will wake it; a timer that
\* outlives the sleep (a kill came first) belongs to a process still inside
\* do_sleep, so that it points into a live kernel stack.
TimersSound ==
  \A p \in Procs :
    /\ wait_state[p] = "TIMER" => left[p] > 0
    /\ left[p] > 0 => pc[p] \in {"sleep_sched", "sleep_woken"}

\* What a step may do to a zombie.
ZombieStep ==
  \A p \in Procs : state[p] = "ZOMBIE" /\ state'[p] # "ZOMBIE" =>
    state'[p] = "FREE" /\ parent[p] = g_curr_proc /\ pc[g_curr_proc] = "wait"

\* Only the parent reclaims a process, and only a zombie; a process leaves the
\* zombie state in no other way (do_wait, do_exit, wakeup_proc).
ZombieIsFinal == [][ZombieStep]_vars

\* A sleep ends early only by a kill: no exiting child, and nobody else, takes a
\* process out of do_sleep before its time (do_sleep, do_exit, do_kill).
SleepNotCutShort ==
  \A p \in Procs : pc[p] = "sleep_woken" /\ state[p] = "RUNNABLE" =>
    left[p] = 0 \/ exit_flag[p]

-----------------------------------------------------------------------------
(* Liveness, under FairSpec.                                               *)

\* do_kill, then trap() or do_wait: a killed process becomes a zombie or sits
\* in do_wait (KilledDies is the promise without that exception).
KilledDiesOrWaits ==
  \A p \in Procs \ {Idle, InitP} :
    exit_flag[p] ~> (state[p] \in {"ZOMBIE", "FREE"} \/ wait_state[p] = "CHILD")

\* do_kill: a killed process dies.
KilledDies ==
  \A p \in Procs \ {Idle, InitP} : exit_flag[p] ~> state[p] \in {"ZOMBIE", "FREE"}

\* do_exit and init_main: an orphan that has exited is reaped by init.
OrphansReaped ==
  \A p \in Procs :
    state[p] = "ZOMBIE" /\ parent[p] # NULL /\ (parent[p] = InitP \/ state[parent[p]] = "ZOMBIE")
      ~> state[p] = "FREE"

\* When every user process has been killed and none is forked any more, all of
\* them are reaped and init_main runs to its end.
AllKilledShutsDown ==
  (/\ forks = MaxForks
   /\ \A p \in Live \ {Idle, InitP} : exit_flag[p]) ~> state[InitP] = "ZOMBIE"

\* do_exit reaches its call of schedule(): "3. call schedule to switch to other
\* process" (the comment above do_exit).
ExitReachesSchedule == \A p \in Procs : pc[p] = "exit" ~> pc[p] \in {"exit_sched", "dead"}
=============================================================================
