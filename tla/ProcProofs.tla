----------------------------- MODULE ProcProofs -----------------------------
(***************************************************************************)
(* The safety properties of Proc, proved for any number of processes.  The *)
(* inductive invariant IInv ties the state of a process to the place in    *)
(* the code where it is, and the processes to one another.                 *)
(***************************************************************************)
EXTENDS Proc, FiniteSetTheorems, TLAPS

ExitPCs  == {"exit_wake", "reparent", "exit_sched", "dead"}
WaitPCs  == {"wait_sched", "wait_woken"}
SleepPCs == {"sleep_sched", "sleep_woken"}
InitPCs  == {"phi_fork", "phi_wait", "main_fork", "main_check", "main_sched"}
UserPCs  == {"user", "trapret", "trap_sched", "phi", "user_main"} \cup SleepPCs

\* Where a process that is not on the CPU can be.
OffPCs == {"none", "idle", "user", "wait_woken", "sleep_woken", "wait", "dead",
           "phi_fork", "phi", "user_main"}

\* The state of a process follows from where it is in its code.
PcShape ==
  \A p \in Procs :
    /\ state[p] = "FREE" <=> pc[p] = "none"
    /\ state[p] = "ZOMBIE" <=> pc[p] \in ExitPCs
    /\ state[p] = "SLEEPING" <=> wait_state[p] # "NONE"
    /\ wait_state[p] = "CHILD" => pc[p] \in WaitPCs
    /\ wait_state[p] = "TIMER" => pc[p] \in SleepPCs
    /\ p # g_curr_proc => pc[p] \in OffPCs

\* The process on the CPU sleeps only between going to sleep and schedule().
CurrShape ==
  /\ pc[g_curr_proc] \notin {"none", "dead"}
  /\ state[g_curr_proc] = "SLEEPING" => pc[g_curr_proc] \in {"wait_sched", "sleep_sched"}

\* Idle and init stay in their own code.
Roots ==
  /\ pc[Idle] = "idle"
  /\ state[Idle] = "RUNNABLE"
  /\ pc[InitP] \notin UserPCs \cup {"idle", "none"}
  /\ \A p \in Procs \ {Idle, InitP} : pc[p] \notin InitPCs \cup {"idle"}

\* Every process but idle has a live parent that has not finished do_exit; only
\* init is idle's child.
Family ==
  /\ parent[Idle] = NULL
  /\ parent[InitP] = Idle
  /\ \A p \in Live \ {Idle} :
       /\ parent[p] \in Live
       /\ pc[parent[p]] \notin {"exit_sched", "dead"}
       /\ parent[p] = Idle => p = InitP

\* No set of processes other than idle and init is closed under parent: all of
\* them descend from init.
NoCycle ==
  \A S \in SUBSET (Live \ {Idle, InitP}) : (\A p \in S : parent[p] \in S) => S = {}

\* The philosophers are init's children and kernel threads; init waits for them.
Philosophers ==
  /\ \A p \in phi : /\ p \in Live \ {Idle, InitP}
                    /\ parent[p] = InitP
                    /\ in_kernel[p]
                    /\ pc[p] \in {"phi", "exit"} \cup SleepPCs \cup ExitPCs
  /\ target[InitP] # NULL => target[InitP] \in phi

\* Before user_main is started there are no other processes.
Booting == pc[InitP] \in {"phi_fork", "phi_wait", "main_fork"} \/ target[InitP] # NULL
Boot ==
  Booting => /\ Live \subseteq {Idle, InitP} \cup phi
             /\ ~exit_flag[InitP]
             /\ pc[InitP] = "main_fork" => phi = {}

\* do_fork and do_wait count the processes.
Count == g_num_proc = Cardinality(Live)

\* When init's last do_wait has failed, init has no child left.
Childless == pc[InitP] = "main_check" => Child(InitP) = {}

SleepShape ==
  \A p \in Procs : pc[p] \in SleepPCs /\ state[p] = "RUNNABLE" => left[p] = 0 \/ exit_flag[p]

IInv ==
  /\ TypeOK /\ NoPanic
  /\ PcShape /\ CurrShape /\ Roots
  /\ RunQueueExact
  /\ TimersSound /\ SleepShape
  /\ Family /\ NoCycle
  /\ Philosophers /\ Boot /\ Count /\ Childless
  /\ NoLostWakeup

-----------------------------------------------------------------------------
(* The actions in groups.                                                  *)

\* Steps that change nothing but the place in the code.
Moves(p) == \/ TrapReturn(p) \/ WaitWoken(p) \/ ReparentDone(p)
            \/ SyscallReturns(p) \/ Exit(p) \/ PhiDone \/ MainCheck

\* Steps that also change fields of the process on the CPU, but not its state.
Sets(p) == \/ KernelExecve(p) \/ SleepReturns(p) \/ Yield(p) \/ WaitFails(p)
           \/ \E t \in Procs \cup {NULL} : Wait(p, t)
           \/ \E q \in Procs : PhiWait(q)

\* Steps after which the process on the CPU is no longer runnable.
Stops(p) == WaitBlocks(p) \/ ExitZombie(p) \/ \E t \in SleepTimes : Sleep(p, t)

\* Calls of do_fork.
Makes(p, q) == Fork(p, q) \/ PhiFork(q) \/ MainFork(q)

\* Every step is in one of the groups, or is one of the other actions.
LEMMA NextCases ==
  ASSUME [Next]_vars
  PROVE  \/ \E p \in Procs : Moves(p) \/ Sets(p) \/ Stops(p) \/ ExitWakesParent(p)
         \/ \E p, q \in Procs : \/ Makes(p, q) \/ WaitReaps(p, q) \/ Kill(p, q)
                                \/ Reparent(p, q) \/ Switch(p, q)
         \/ Tick
         \/ UNCHANGED vars
  BY ProcAssumption
     DEF Next, KernelStep, InitStep, ProgramStep, schedule, Moves, Sets, Stops, Makes

-----------------------------------------------------------------------------
(* Lemmas on finite sets and on the family of processes.                   *)

\* There are finitely many processes.
LEMMA LiveFinite == IsFiniteSet(Live) /\ Cardinality(Live) \in Nat
  BY ProcAssumption, FS_Subset, FS_CardinalityType DEF Live

\* Idle and init are two processes.
LEMMA RootsCard == IsFiniteSet({Idle, InitP}) /\ Cardinality({Idle, InitP}) = 2
<1>1. IsFiniteSet({Idle}) /\ Cardinality({Idle}) = 1
  BY FS_Singleton
<1>2. {Idle, InitP} = {Idle} \cup {InitP} /\ InitP \notin {Idle}
  BY ProcAssumption
<1> QED
  BY <1>1, <1>2, FS_AddElement

\* While init starts the philosophers nobody else is alive.
LEMMA BootCount ==
  ASSUME TypeOK, Count, Boot, Booting
  PROVE  Cardinality(phi) \in Nat /\ g_num_proc <= Cardinality(phi) + 2
<1>1. IsFiniteSet(phi) /\ Cardinality(phi) \in Nat
  BY ProcAssumption, FS_Subset, FS_CardinalityType DEF TypeOK
<1> DEFINE U == {Idle, InitP} \cup phi
<1>2. IsFiniteSet(U) /\ Cardinality(U) <= Cardinality(phi) + 2
  <2>1. /\ IsFiniteSet(U)
        /\ Cardinality(U) = Cardinality({Idle, InitP}) + Cardinality(phi)
                            - Cardinality({Idle, InitP} \cap phi)
    BY <1>1, RootsCard, FS_Union
  <2>2. Cardinality({Idle, InitP} \cap phi) \in Nat
    BY <1>1, FS_Subset, FS_CardinalityType
  <2> QED
    BY <1>1, RootsCard, <2>1, <2>2
<1>3. Cardinality(Live) <= Cardinality(U)
  BY <1>2, FS_Subset DEF Boot
<1> QED
  BY <1>1, <1>2, <1>3, LiveFinite, FS_CardinalityType DEF Count

\* When init's last do_wait has failed only idle and init are left: a process
\* without an ancestor in init would close a cycle.
LEMMA LastTwo ==
  ASSUME TypeOK, Roots, PcShape, Family, NoCycle, Count, Childless,
         pc[InitP] = "main_check"
  PROVE  Child(InitP) = {} /\ Live = {Idle, InitP} /\ g_num_proc = 2
<1>1. Child(InitP) = {}
  BY DEF Childless
<1> DEFINE S == Live \ {Idle, InitP}
<1>2. \A r \in S : parent[r] \in S
  BY <1>1 DEF Family, Child, Live
<1>3. S = {}
  BY <1>2 DEF NoCycle
<1>4. Live = {Idle, InitP}
  BY <1>3, ProcAssumption DEF Live, Roots, PcShape
<1> QED
  BY <1>1, <1>4, RootsCard DEF Count

\* A process other than idle and init descends from init, so that init has not
\* finished do_exit.
LEMMA InitAlive ==
  ASSUME Family, NoCycle, NEW p \in Live \ {Idle, InitP}
  PROVE  pc[InitP] \notin {"exit_sched", "dead"}
<1> DEFINE S == Live \ {Idle, InitP}
<1>1. PICK r \in S : parent[r] \notin S
  BY DEF NoCycle
<1>2. parent[r] \in Live /\ parent[r] # Idle /\ pc[parent[r]] \notin {"exit_sched", "dead"}
  BY <1>1 DEF Family
<1> QED
  BY <1>1, <1>2

-----------------------------------------------------------------------------
(* Each conjunct of IInv is kept by every step.                            *)

\* Every action keeps the types; do_wait never counts below zero (Count).
LEMMA TypeNext ==
  ASSUME TypeOK, PcShape, CurrShape, Roots, Family, Count, [Next]_vars
  PROVE  TypeOK'
<1> USE ProcAssumption DEF TypeOK, States, WaitStates, PCs, SchedPoints
<1>1. ASSUME NEW p \in Procs, Moves(p) PROVE TypeOK'
  <2>1. CASE TrapReturn(p)
    BY <2>1 DEF TrapReturn, TrapTail, At, Goto, pcb
  <2>2. CASE WaitWoken(p)
    BY <2>2 DEF WaitWoken, At, Goto, pcb
  <2>3. CASE ReparentDone(p)
    BY <2>3 DEF ReparentDone, At, Goto, pcb
  <2>4. CASE SyscallReturns(p) \/ Exit(p)
    BY <2>4 DEF SyscallReturns, Exit, At, Goto, pcb
  <2>5. CASE PhiDone \/ MainCheck
    BY <2>5 DEF PhiDone, MainCheck, At, Goto, pcb
  <2> QED
    BY <1>1, <2>1, <2>2, <2>3, <2>4, <2>5 DEF Moves
<1>2. ASSUME NEW p \in Procs, Sets(p) PROVE TypeOK'
  <2>1. CASE KernelExecve(p)
    BY <2>1 DEF KernelExecve, At, Goto, pcb
  <2>2. CASE SleepReturns(p)
    BY <2>2 DEF SleepReturns, del_timer, At, Goto, pcb
  <2>3. CASE Yield(p)
    BY <2>3 DEF Yield, At, Goto, pcb
  <2>4. CASE WaitFails(p)
    BY <2>4 DEF WaitFails, WaitReturn, At, Goto, pcb
  <2>5. ASSUME NEW t \in Procs \cup {NULL}, Wait(p, t) PROVE TypeOK'
    BY <2>5 DEF Wait, At, Goto, pcb
  <2>6. ASSUME NEW q \in Procs, PhiWait(q) PROVE TypeOK'
    BY <2>6 DEF PhiWait, At, Goto, pcb
  <2> QED
    BY <1>2, <2>1, <2>2, <2>3, <2>4, <2>5, <2>6 DEF Sets
<1>3. ASSUME NEW p \in Procs, Stops(p) PROVE TypeOK'
  <2>1. CASE WaitBlocks(p)
    BY <2>1 DEF WaitBlocks, At, Goto, pcb
  <2>2. CASE ExitZombie(p)
    BY <2>2 DEF ExitZombie, At, Goto, pcb
  <2>3. ASSUME NEW t \in SleepTimes, Sleep(p, t) PROVE TypeOK'
    BY <2>3 DEF Sleep, At, Goto, pcb
  <2> QED
    BY <1>3, <2>1, <2>2, <2>3 DEF Stops
<1>4. ASSUME NEW p \in Procs, NEW q \in Procs, Makes(p, q) PROVE TypeOK'
  <2>1. CASE Fork(p, q)
    BY <2>1 DEF Fork, NewProc, At, Goto, pcb
  <2>2. CASE PhiFork(q)
    BY <2>2 DEF PhiFork, kernel_proc, NewProc, At, Goto, pcb
  <2>3. CASE MainFork(q)
    BY <2>3 DEF MainFork, kernel_proc, NewProc, At, Goto, pcb
  <2> QED
    BY <1>4, <2>1, <2>2, <2>3 DEF Makes
<1>5. ASSUME NEW p \in Procs, NEW q \in Procs, WaitReaps(p, q) PROVE TypeOK'
  <2>1. g_num_proc - 1 \in Nat
    <3>1. q \in Live
      BY <1>5 DEF WaitReaps, Awaited, Child
    <3>2. Cardinality(Live) \in Nat /\ Cardinality(Live) # 0
      BY <3>1, LiveFinite, FS_EmptySet
    <3> QED
      BY <3>2 DEF Count
  <2> QED
    BY <1>5, <2>1 DEF WaitReaps, At, Awaited, Child, Live, WaitReturn
<1>6. ASSUME NEW p \in Procs, NEW q \in Procs, Kill(p, q) PROVE TypeOK'
  BY <1>6 DEF Kill, KillWakes, wakeup_proc, Enqueue, ToQueue, Refill, At, Goto
<1>7. ASSUME NEW p \in Procs, ExitWakesParent(p) PROVE TypeOK'
  BY <1>7 DEF ExitWakesParent, WokenParent, wakeup_proc, Enqueue, ToQueue, Refill,
     At, Goto, Family, Live, Roots, PcShape
<1>8. ASSUME NEW p \in Procs, NEW q \in Procs, Reparent(p, q) PROVE TypeOK'
  BY <1>8 DEF Reparent, Child, Heir, WokenInit, wakeup_proc, Enqueue, ToQueue,
     Refill, At
<1>9. ASSUME NEW p \in Procs, NEW q \in Procs, Switch(p, q) PROVE TypeOK'
  BY <1>9 DEF Switch, Resume, SchedPoints, Refill, Goto
<1>10. CASE Tick
  BY <1>10 DEF Tick, run_timers, Interruptible, Spend, TickPreempts, ToQueue,
     Refill
<1>11. CASE UNCHANGED vars
  BY <1>11 DEF vars, pcb
<1> QED
  BY <1>1, <1>2, <1>3, <1>4, <1>5, <1>6, <1>7, <1>8, <1>9, <1>10, <1>11, NextCases

\* The state of a process keeps to its place in the code: wakeup_proc meets
\* sleeping processes only, and only the process on the CPU changes its place.
LEMMA PcShapeNext ==
  ASSUME TypeOK, PcShape, CurrShape, Roots, RunQueueExact, TimersSound, Family,
         [Next]_vars
  PROVE  PcShape'
<1> USE ProcAssumption DEF PcShape, CurrShape, TypeOK, Live, ExitPCs, WaitPCs,
        SleepPCs, InitPCs, UserPCs, OffPCs
<1>1. ASSUME NEW p \in Procs, Moves(p) PROVE PcShape'
  BY <1>1 DEF Moves, TrapReturn, TrapTail, WaitWoken, ReparentDone, SyscallReturns,
     Exit, PhiDone, MainCheck, At, Goto, pcb
<1>2. ASSUME NEW p \in Procs, Sets(p) PROVE PcShape'
  BY <1>2 DEF Sets, KernelExecve, SleepReturns, del_timer, Yield, Wait, WaitFails,
     WaitReturn, PhiWait, At, Goto
<1>3. ASSUME NEW p \in Procs, Stops(p) PROVE PcShape'
  BY <1>3 DEF Stops, WaitBlocks, Sleep, ExitZombie, At, Goto
<1>4. ASSUME NEW p \in Procs, NEW q \in Procs, Makes(p, q) PROVE PcShape'
  BY <1>4 DEF Makes, Fork, PhiFork, MainFork, kernel_proc, NewProc, At
<1>5. ASSUME NEW p \in Procs, NEW q \in Procs, WaitReaps(p, q) PROVE PcShape'
  BY <1>5 DEF WaitReaps, WaitReturn, Awaited, Child, At
<1>6. ASSUME NEW p \in Procs, NEW q \in Procs, Kill(p, q) PROVE PcShape'
  BY <1>6 DEF Kill, KillWakes, wakeup_proc, Enqueue, ToQueue, Refill, At, Goto
<1>7. ASSUME NEW p \in Procs, ExitWakesParent(p) PROVE PcShape'
  BY <1>7 DEF ExitWakesParent, WokenParent, wakeup_proc, Enqueue, ToQueue, Refill,
     At, Goto
<1>8. ASSUME NEW p \in Procs, NEW q \in Procs, Reparent(p, q) PROVE PcShape'
  BY <1>8 DEF Reparent, Child, Heir, WokenInit, wakeup_proc, Enqueue, ToQueue,
     Refill, At
<1>9. ASSUME NEW p \in Procs, NEW q \in Procs, Switch(p, q) PROVE PcShape'
  BY <1>9 DEF Switch, Resume, SchedPoints, Refill, Goto
<1>10. CASE Tick
  BY <1>10 DEF Tick, run_timers, Interruptible, Spend, TickPreempts, ToQueue,
     Refill, TimersSound
<1>11. CASE UNCHANGED vars
  BY <1>11 DEF vars, pcb
<1> QED
  BY <1>1, <1>2, <1>3, <1>4, <1>5, <1>6, <1>7, <1>8, <1>9, <1>10, <1>11, NextCases

\* schedule() hands the CPU to a runnable process, which is not dead.
LEMMA CurrShapeNext ==
  ASSUME TypeOK, PcShape, CurrShape, Roots, RunQueueExact, [Next]_vars
  PROVE  CurrShape'
<1> USE ProcAssumption DEF CurrShape, PcShape, Roots, RunQueueExact, TypeOK, Live,
        ExitPCs, WaitPCs, SleepPCs, InitPCs, UserPCs, OffPCs
<1>1. ASSUME NEW p \in Procs, Moves(p) PROVE CurrShape'
  BY <1>1 DEF Moves, TrapReturn, TrapTail, WaitWoken, ReparentDone, SyscallReturns,
     Exit, PhiDone, MainCheck, At, Goto, pcb
<1>2. ASSUME NEW p \in Procs, Sets(p) PROVE CurrShape'
  BY <1>2 DEF Sets, KernelExecve, SleepReturns, del_timer, Yield, Wait, WaitFails,
     WaitReturn, PhiWait, At, Goto
<1>3. ASSUME NEW p \in Procs, Stops(p) PROVE CurrShape'
  BY <1>3 DEF Stops, WaitBlocks, Sleep, ExitZombie, At, Goto
<1>4. ASSUME NEW p \in Procs, NEW q \in Procs, Makes(p, q) PROVE CurrShape'
  BY <1>4 DEF Makes, Fork, PhiFork, MainFork, kernel_proc, NewProc, At
<1>5. ASSUME NEW p \in Procs, NEW q \in Procs, WaitReaps(p, q) PROVE CurrShape'
  BY <1>5 DEF WaitReaps, WaitReturn, Awaited, Child, At
<1>6. ASSUME NEW p \in Procs, NEW q \in Procs, Kill(p, q) PROVE CurrShape'
  BY <1>6 DEF Kill, KillWakes, wakeup_proc, Enqueue, ToQueue, Refill, At, Goto
<1>7. ASSUME NEW p \in Procs, ExitWakesParent(p) PROVE CurrShape'
  BY <1>7 DEF ExitWakesParent, WokenParent, wakeup_proc, Enqueue, ToQueue, Refill,
     At, Goto
<1>8. ASSUME NEW p \in Procs, NEW q \in Procs, Reparent(p, q) PROVE CurrShape'
  BY <1>8 DEF Reparent, Child, Heir, WokenInit, wakeup_proc, Enqueue, ToQueue,
     Refill, At
<1>9. ASSUME NEW p \in Procs, NEW q \in Procs, Switch(p, q) PROVE CurrShape'
  BY <1>9 DEF Switch, Resume, SchedPoints, Refill, Goto
<1>10. CASE Tick
  BY <1>10 DEF Tick, run_timers, Interruptible, Spend, TickPreempts, ToQueue,
     Refill
<1>11. CASE UNCHANGED vars
  BY <1>11 DEF vars, pcb
<1> QED
  BY <1>1, <1>2, <1>3, <1>4, <1>5, <1>6, <1>7, <1>8, <1>9, <1>10, <1>11, NextCases

\* Idle stays in run_idle, init in init_main; do_wait frees neither.
LEMMA RootsNext ==
  ASSUME TypeOK, PcShape, CurrShape, Roots, Family, [Next]_vars
  PROVE  Roots'
<1> USE ProcAssumption DEF Roots, PcShape, CurrShape, TypeOK, Live, ExitPCs,
        WaitPCs, SleepPCs, InitPCs, UserPCs, OffPCs
<1>1. ASSUME NEW p \in Procs, Moves(p) PROVE Roots'
  BY <1>1 DEF Moves, TrapReturn, TrapTail, WaitWoken, ReparentDone, SyscallReturns,
     Exit, PhiDone, MainCheck, At, Goto, pcb
<1>2. ASSUME NEW p \in Procs, Sets(p) PROVE Roots'
  BY <1>2 DEF Sets, KernelExecve, SleepReturns, del_timer, Yield, Wait, WaitFails,
     WaitReturn, PhiWait, At, Goto
<1>3. ASSUME NEW p \in Procs, Stops(p) PROVE Roots'
  BY <1>3 DEF Stops, WaitBlocks, Sleep, ExitZombie, At, Goto
<1>4. ASSUME NEW p \in Procs, NEW q \in Procs, Makes(p, q) PROVE Roots'
  BY <1>4 DEF Makes, Fork, PhiFork, MainFork, kernel_proc, NewProc, At
<1>5. ASSUME NEW p \in Procs, NEW q \in Procs, WaitReaps(p, q) PROVE Roots'
  BY <1>5 DEF WaitReaps, WaitReturn, Awaited, Child, At, Family
<1>6. ASSUME NEW p \in Procs, NEW q \in Procs, Kill(p, q) PROVE Roots'
  BY <1>6 DEF Kill, KillWakes, wakeup_proc, Enqueue, ToQueue, Refill, At, Goto
<1>7. ASSUME NEW p \in Procs, ExitWakesParent(p) PROVE Roots'
  BY <1>7 DEF ExitWakesParent, WokenParent, wakeup_proc, Enqueue, ToQueue, Refill,
     At, Goto
<1>8. ASSUME NEW p \in Procs, NEW q \in Procs, Reparent(p, q) PROVE Roots'
  BY <1>8 DEF Reparent, Child, Heir, WokenInit, wakeup_proc, Enqueue, ToQueue,
     Refill, At
<1>9. ASSUME NEW p \in Procs, NEW q \in Procs, Switch(p, q) PROVE Roots'
  BY <1>9 DEF Switch, Resume, SchedPoints, Refill, Goto
<1>10. CASE Tick
  BY <1>10 DEF Tick, run_timers, Interruptible, Spend, TickPreempts, ToQueue,
     Refill
<1>11. CASE UNCHANGED vars
  BY <1>11 DEF vars, pcb
<1> QED
  BY <1>1, <1>2, <1>3, <1>4, <1>5, <1>6, <1>7, <1>8, <1>9, <1>10, <1>11, NextCases

\* wakeup_proc, schedule, do_exit and run_timers keep the run queue exact.
LEMMA RunQueueNext ==
  ASSUME TypeOK, PcShape, CurrShape, Roots, RunQueueExact, Family, [Next]_vars
  PROVE  RunQueueExact'
<1> USE ProcAssumption DEF RunQueueExact, PcShape, CurrShape, Roots, TypeOK, Live,
        ExitPCs, WaitPCs, SleepPCs, InitPCs, UserPCs, OffPCs
<1>1. ASSUME NEW p \in Procs, Moves(p) PROVE RunQueueExact'
  BY <1>1 DEF Moves, TrapReturn, TrapTail, WaitWoken, ReparentDone, SyscallReturns,
     Exit, PhiDone, MainCheck, At, Goto, pcb
<1>2. ASSUME NEW p \in Procs, Sets(p) PROVE RunQueueExact'
  BY <1>2 DEF Sets, KernelExecve, SleepReturns, del_timer, Yield, Wait, WaitFails,
     WaitReturn, PhiWait, At, Goto
<1>3. ASSUME NEW p \in Procs, Stops(p) PROVE RunQueueExact'
  BY <1>3 DEF Stops, WaitBlocks, Sleep, ExitZombie, At, Goto
<1>4. ASSUME NEW p \in Procs, NEW q \in Procs, Makes(p, q) PROVE RunQueueExact'
  BY <1>4 DEF Makes, Fork, PhiFork, MainFork, kernel_proc, NewProc, At
<1>5. ASSUME NEW p \in Procs, NEW q \in Procs, WaitReaps(p, q) PROVE RunQueueExact'
  BY <1>5 DEF WaitReaps, WaitReturn, Awaited, Child, At
<1>6. ASSUME NEW p \in Procs, NEW q \in Procs, Kill(p, q) PROVE RunQueueExact'
  BY <1>6 DEF Kill, KillWakes, wakeup_proc, Enqueue, ToQueue, Refill, At, Goto
<1>7. ASSUME NEW p \in Procs, ExitWakesParent(p) PROVE RunQueueExact'
  BY <1>7 DEF ExitWakesParent, WokenParent, wakeup_proc, Enqueue, ToQueue, Refill,
     At, Goto, Family
<1>8. ASSUME NEW p \in Procs, NEW q \in Procs, Reparent(p, q) PROVE RunQueueExact'
  BY <1>8 DEF Reparent, Child, Heir, WokenInit, wakeup_proc, Enqueue, ToQueue,
     Refill, At
<1>9. ASSUME NEW p \in Procs, NEW q \in Procs, Switch(p, q) PROVE RunQueueExact'
  BY <1>9 DEF Switch, Resume, SchedPoints, Refill, Goto
<1>10. CASE Tick
  BY <1>10 DEF Tick, run_timers, Interruptible, Spend, TickPreempts, ToQueue,
     Refill
<1>11. CASE UNCHANGED vars
  BY <1>11 DEF vars, pcb
<1> QED
  BY <1>1, <1>2, <1>3, <1>4, <1>5, <1>6, <1>7, <1>8, <1>9, <1>10, <1>11, NextCases

\* A timer leaves with the sleep it serves, by run_timers or del_timer.
LEMMA TimersNext ==
  ASSUME TypeOK, PcShape, CurrShape, Roots, TimersSound, SleepShape, [Next]_vars
  PROVE  (TimersSound /\ SleepShape)'
<1> USE ProcAssumption DEF TimersSound, SleepShape, PcShape, CurrShape, TypeOK,
        Live, ExitPCs, WaitPCs, SleepPCs, InitPCs, UserPCs, OffPCs
<1>1. ASSUME NEW p \in Procs, Moves(p)
      PROVE  (TimersSound /\ SleepShape)'
  BY <1>1 DEF Moves, TrapReturn, TrapTail, WaitWoken, ReparentDone, SyscallReturns,
     Exit, PhiDone, MainCheck, At, Goto, pcb
<1>2. ASSUME NEW p \in Procs, Sets(p)
      PROVE  (TimersSound /\ SleepShape)'
  BY <1>2 DEF Sets, KernelExecve, SleepReturns, del_timer, Yield, Wait, WaitFails,
     WaitReturn, PhiWait, At, Goto
<1>3. ASSUME NEW p \in Procs, Stops(p)
      PROVE  (TimersSound /\ SleepShape)'
  BY <1>3 DEF Stops, WaitBlocks, Sleep, ExitZombie, At, Goto
<1>4. ASSUME NEW p \in Procs, NEW q \in Procs, Makes(p, q)
      PROVE  (TimersSound /\ SleepShape)'
  BY <1>4 DEF Makes, Fork, PhiFork, MainFork, kernel_proc, NewProc, At
<1>5. ASSUME NEW p \in Procs, NEW q \in Procs, WaitReaps(p, q)
      PROVE  (TimersSound /\ SleepShape)'
  BY <1>5 DEF WaitReaps, WaitReturn, Awaited, Child, At
<1>6. ASSUME NEW p \in Procs, NEW q \in Procs, Kill(p, q)
      PROVE  (TimersSound /\ SleepShape)'
  BY <1>6 DEF Kill, KillWakes, wakeup_proc, Enqueue, ToQueue, Refill, At, Goto
<1>7. ASSUME NEW p \in Procs, ExitWakesParent(p)
      PROVE  (TimersSound /\ SleepShape)'
  BY <1>7 DEF ExitWakesParent, WokenParent, wakeup_proc, Enqueue, ToQueue, Refill,
     At, Goto
<1>8. ASSUME NEW p \in Procs, NEW q \in Procs, Reparent(p, q)
      PROVE  (TimersSound /\ SleepShape)'
  BY <1>8 DEF Reparent, Child, Heir, WokenInit, wakeup_proc, Enqueue, ToQueue,
     Refill, At
<1>9. ASSUME NEW p \in Procs, NEW q \in Procs, Switch(p, q)
      PROVE  (TimersSound /\ SleepShape)'
  BY <1>9 DEF Switch, Resume, SchedPoints, Refill, Goto
<1>10. CASE Tick
  BY <1>10 DEF Tick, run_timers, Interruptible, Spend, TickPreempts, ToQueue,
     Refill
<1>11. CASE UNCHANGED vars
  BY <1>11 DEF vars, pcb
<1> QED
  BY <1>1, <1>2, <1>3, <1>4, <1>5, <1>6, <1>7, <1>8, <1>9, <1>10, <1>11, NextCases

\* What a step does to the set of processes and to who is whose parent.
SameKin   == Live' = Live /\ parent' = parent /\ g_num_proc' = g_num_proc
Adds(p, q) == /\ p \in Live \ {Idle} /\ q \notin Live
              /\ Live' = Live \cup {q}
              /\ parent' = [parent EXCEPT ![q] = p]
              /\ g_num_proc' = g_num_proc + 1
Frees(q)  == /\ q \in Live
             /\ Live' = Live \ {q}
             /\ parent' = [parent EXCEPT ![q] = NULL]
             /\ g_num_proc' = g_num_proc - 1
Moved(q)  == /\ Live' = Live
             /\ parent' = [parent EXCEPT ![q] = InitP]
             /\ g_num_proc' = g_num_proc
Kin == SameKin \/ \E p, q \in Procs : Adds(p, q) \/ Frees(q) \/ Moved(q)

\* A step frees a zombie, adds a child of a live process, gives a child to
\* init, or leaves the family alone.
LEMMA KinNext ==
  ASSUME TypeOK, PcShape, CurrShape, Roots, TimersSound, Family, [Next]_vars
  PROVE  Kin
<1> USE ProcAssumption DEF TypeOK, PcShape, Roots, CurrShape, Live, ExitPCs,
        WaitPCs, SleepPCs, InitPCs, UserPCs, OffPCs
<1>1. ASSUME NEW p \in Procs, Moves(p) PROVE Kin
  BY <1>1 DEF Moves, TrapReturn, TrapTail, WaitWoken, ReparentDone, SyscallReturns,
     Exit, PhiDone, MainCheck, At, Goto, pcb, Kin, SameKin
<1>2. ASSUME NEW p \in Procs, Sets(p) PROVE Kin
  BY <1>2 DEF Sets, KernelExecve, SleepReturns, del_timer, Yield, Wait, WaitFails,
     WaitReturn, PhiWait, At, Goto, Kin, SameKin
<1>3. ASSUME NEW p \in Procs, Stops(p) PROVE Kin
  BY <1>3 DEF Stops, WaitBlocks, Sleep, ExitZombie, At, Goto, Kin, SameKin
<1>4. ASSUME NEW p \in Procs, NEW q \in Procs, Makes(p, q) PROVE Kin
  BY <1>4 DEF Makes, Fork, PhiFork, MainFork, kernel_proc, NewProc, At, Kin, Adds
<1>5. ASSUME NEW p \in Procs, NEW q \in Procs, WaitReaps(p, q) PROVE Kin
  BY <1>5 DEF WaitReaps, WaitReturn, Awaited, Child, At, Kin, Frees
<1>6. ASSUME NEW p \in Procs, NEW q \in Procs, Kill(p, q) PROVE Kin
  BY <1>6 DEF Kill, KillWakes, wakeup_proc, Enqueue, ToQueue, Refill, At, Goto,
     Kin, SameKin
<1>7. ASSUME NEW p \in Procs, ExitWakesParent(p) PROVE Kin
  BY <1>7 DEF ExitWakesParent, WokenParent, wakeup_proc, Enqueue, ToQueue, Refill,
     At, Goto, Kin, SameKin, Family
<1>8. ASSUME NEW p \in Procs, NEW q \in Procs, Reparent(p, q) PROVE Kin
  BY <1>8 DEF Reparent, Child, Heir, WokenInit, wakeup_proc, Enqueue, ToQueue,
     Refill, At, Kin, Moved
<1>9. ASSUME NEW p \in Procs, NEW q \in Procs, Switch(p, q) PROVE Kin
  BY <1>9 DEF Switch, Resume, SchedPoints, Refill, Goto, Kin, SameKin
<1>10. CASE Tick
  BY <1>10 DEF Tick, run_timers, Interruptible, Spend, TickPreempts, ToQueue,
     Refill, Kin, SameKin, TimersSound
<1>11. CASE UNCHANGED vars
  BY <1>11 DEF vars, pcb, Kin, SameKin
<1> QED
  BY <1>1, <1>2, <1>3, <1>4, <1>5, <1>6, <1>7, <1>8, <1>9, <1>10, <1>11, NextCases

\* None of these makes a cycle of parents.
LEMMA NoCycleNext ==
  ASSUME TypeOK, Family, NoCycle, Kin
  PROVE  NoCycle'
<1> SUFFICES ASSUME NEW S \in SUBSET (Live' \ {Idle, InitP}),
                    \A r \in S : parent'[r] \in S
             PROVE  S = {}
  BY DEF NoCycle
<1> USE DEF TypeOK
<1>1. CASE SameKin
  BY <1>1 DEF SameKin, NoCycle
<1>2. ASSUME NEW p \in Procs, NEW q \in Procs, Adds(p, q) PROVE S = {}
  <2>1. \A r \in S \ {q} : r \in Live \ {Idle} /\ parent[r] \in S \ {q}
    BY <1>2 DEF Adds, Family, Live
  <2>2. S \ {q} = {}
    BY <1>2, <2>1 DEF Adds, NoCycle
  <2> QED
    BY <1>2, <2>2 DEF Adds
<1>3. ASSUME NEW q \in Procs, Frees(q) PROVE S = {}
  BY <1>3 DEF Frees, NoCycle, Live
<1>4. ASSUME NEW q \in Procs, Moved(q) PROVE S = {}
  <2>1. \A r \in S : r \in Live /\ parent[r] \in S
    BY <1>4 DEF Moved, Live
  <2> QED
    BY <1>4, <2>1 DEF Moved, NoCycle
<1> QED
  BY <1>1, <1>2, <1>3, <1>4 DEF Kin

\* do_fork adds one to g_num_proc, do_wait takes one away.
LEMMA CountNext ==
  ASSUME Count, Kin
  PROVE  Count'
<1>1. CASE SameKin
  BY <1>1 DEF SameKin, Count
<1>2. ASSUME NEW p \in Procs, NEW q \in Procs, Adds(p, q) PROVE Count'
  BY <1>2, LiveFinite, FS_AddElement DEF Adds, Count
<1>3. ASSUME NEW q \in Procs, Frees(q) PROVE Count'
  BY <1>3, LiveFinite, FS_RemoveElement DEF Frees, Count
<1>4. ASSUME NEW q \in Procs, Moved(q) PROVE Count'
  BY <1>4 DEF Moved, Count
<1> QED
  BY <1>1, <1>2, <1>3, <1>4 DEF Kin

\* do_exit hands its children to init before it is final, and init is alive.
LEMMA FamilyNext ==
  ASSUME TypeOK, PcShape, CurrShape, Roots, TimersSound, Family, NoCycle, [Next]_vars
  PROVE  Family'
<1> USE ProcAssumption DEF Family, TypeOK, PcShape, Roots, CurrShape, Live,
        ExitPCs, WaitPCs, SleepPCs, InitPCs, UserPCs, OffPCs
<1>1. ASSUME NEW p \in Procs, Moves(p) PROVE Family'
  BY <1>1 DEF Moves, TrapReturn, TrapTail, WaitWoken, ReparentDone, SyscallReturns,
     Exit, PhiDone, MainCheck, At, Goto, pcb, Child
<1>2. ASSUME NEW p \in Procs, Sets(p) PROVE Family'
  BY <1>2 DEF Sets, KernelExecve, SleepReturns, del_timer, Yield, Wait, WaitFails,
     WaitReturn, PhiWait, At, Goto
<1>3. ASSUME NEW p \in Procs, Stops(p) PROVE Family'
  BY <1>3 DEF Stops, WaitBlocks, Sleep, ExitZombie, At, Goto
<1>4. ASSUME NEW p \in Procs, NEW q \in Procs, Makes(p, q) PROVE Family'
  BY <1>4 DEF Makes, Fork, PhiFork, MainFork, kernel_proc, NewProc, At
<1>5. ASSUME NEW p \in Procs, NEW q \in Procs, WaitReaps(p, q) PROVE Family'
  BY <1>5 DEF WaitReaps, WaitReturn, Awaited, Child, At
<1>6. ASSUME NEW p \in Procs, NEW q \in Procs, Kill(p, q) PROVE Family'
  BY <1>6 DEF Kill, KillWakes, wakeup_proc, Enqueue, ToQueue, Refill, At, Goto
<1>7. ASSUME NEW p \in Procs, ExitWakesParent(p) PROVE Family'
  BY <1>7 DEF ExitWakesParent, WokenParent, wakeup_proc, Enqueue, ToQueue, Refill,
     At, Goto
<1>8. ASSUME NEW p \in Procs, NEW q \in Procs, Reparent(p, q) PROVE Family'
  <2>1. pc[InitP] \notin {"exit_sched", "dead"}
    <3>1. CASE p = InitP
      BY <1>8, <3>1 DEF Reparent, At
    <3>2. CASE p # InitP
      BY <1>8, <3>2, InitAlive DEF Reparent, At
    <3> QED
      BY <3>1, <3>2
  <2> QED
    BY <1>8, <2>1 DEF Reparent, Child, Heir, WokenInit, wakeup_proc, Enqueue,
       ToQueue, Refill, At
<1>9. ASSUME NEW p \in Procs, NEW q \in Procs, Switch(p, q) PROVE Family'
  BY <1>9 DEF Switch, Resume, SchedPoints, Refill, Goto
<1>10. CASE Tick
  BY <1>10 DEF Tick, run_timers, Interruptible, Spend, TickPreempts, ToQueue,
     Refill, TimersSound
<1>11. CASE UNCHANGED vars
  BY <1>11 DEF vars, pcb
<1> QED
  BY <1>1, <1>2, <1>3, <1>4, <1>5, <1>6, <1>7, <1>8, <1>9, <1>10, <1>11, NextCases

\* The philosophers stay init's children until init has waited for them.
LEMMA PhilosophersNext ==
  ASSUME TypeOK, PcShape, CurrShape, Roots, Family, Philosophers, [Next]_vars
  PROVE  Philosophers'
<1> USE ProcAssumption DEF Philosophers, TypeOK, PcShape, Roots, CurrShape, Live,
        ExitPCs, WaitPCs, SleepPCs, InitPCs, UserPCs, OffPCs
<1>1. ASSUME NEW p \in Procs, Moves(p) PROVE Philosophers'
  BY <1>1 DEF Moves, TrapReturn, TrapTail, WaitWoken, ReparentDone, SyscallReturns,
     Exit, PhiDone, MainCheck, At, Goto, pcb
<1>2. ASSUME NEW p \in Procs, Sets(p) PROVE Philosophers'
  BY <1>2 DEF Sets, KernelExecve, SleepReturns, del_timer, Yield, Wait, WaitFails,
     WaitReturn, PhiWait, At, Goto
<1>3. ASSUME NEW p \in Procs, Stops(p) PROVE Philosophers'
  BY <1>3 DEF Stops, WaitBlocks, Sleep, ExitZombie, At, Goto
<1>4. ASSUME NEW p \in Procs, NEW q \in Procs, Makes(p, q) PROVE Philosophers'
  BY <1>4 DEF Makes, Fork, PhiFork, MainFork, kernel_proc, NewProc, At
<1>5. ASSUME NEW p \in Procs, NEW q \in Procs, WaitReaps(p, q) PROVE Philosophers'
  BY <1>5 DEF WaitReaps, WaitReturn, Awaited, Child, At
<1>6. ASSUME NEW p \in Procs, NEW q \in Procs, Kill(p, q) PROVE Philosophers'
  BY <1>6 DEF Kill, KillWakes, wakeup_proc, Enqueue, ToQueue, Refill, At, Goto
<1>7. ASSUME NEW p \in Procs, ExitWakesParent(p) PROVE Philosophers'
  BY <1>7 DEF ExitWakesParent, WokenParent, wakeup_proc, Enqueue, ToQueue, Refill,
     At, Goto
<1>8. ASSUME NEW p \in Procs, NEW q \in Procs, Reparent(p, q) PROVE Philosophers'
  BY <1>8 DEF Reparent, Child, Heir, WokenInit, wakeup_proc, Enqueue, ToQueue,
     Refill, At
<1>9. ASSUME NEW p \in Procs, NEW q \in Procs, Switch(p, q) PROVE Philosophers'
  BY <1>9 DEF Switch, Resume, SchedPoints, Refill, Goto
<1>10. CASE Tick
  BY <1>10 DEF Tick, run_timers, Interruptible, Spend, TickPreempts, ToQueue,
     Refill
<1>11. CASE UNCHANGED vars
  BY <1>11 DEF vars, pcb
<1> QED
  BY <1>1, <1>2, <1>3, <1>4, <1>5, <1>6, <1>7, <1>8, <1>9, <1>10, <1>11, NextCases

\* Nobody forks before user_main runs.
LEMMA BootNext ==
  ASSUME TypeOK, PcShape, CurrShape, Roots, TimersSound, Family, Philosophers, Boot,
         [Next]_vars
  PROVE  Boot'
<1> USE ProcAssumption DEF Boot, Booting, Philosophers, TypeOK, PcShape, Roots,
        CurrShape, Live, ExitPCs, WaitPCs, SleepPCs, InitPCs, UserPCs, OffPCs
<1>1. ASSUME NEW p \in Procs, Moves(p) PROVE Boot'
  BY <1>1 DEF Moves, TrapReturn, TrapTail, WaitWoken, ReparentDone, SyscallReturns,
     Exit, PhiDone, MainCheck, At, Goto, pcb
<1>2. ASSUME NEW p \in Procs, Sets(p) PROVE Boot'
  BY <1>2 DEF Sets, KernelExecve, SleepReturns, del_timer, Yield, Wait, WaitFails,
     WaitReturn, PhiWait, At, Goto
<1>3. ASSUME NEW p \in Procs, Stops(p) PROVE Boot'
  BY <1>3 DEF Stops, WaitBlocks, Sleep, ExitZombie, At, Goto
<1>4. ASSUME NEW p \in Procs, NEW q \in Procs, Makes(p, q) PROVE Boot'
  BY <1>4 DEF Makes, Fork, PhiFork, MainFork, kernel_proc, NewProc, At
<1>5. ASSUME NEW p \in Procs, NEW q \in Procs, WaitReaps(p, q) PROVE Boot'
  BY <1>5 DEF WaitReaps, WaitReturn, Awaited, Child, At
<1>6. ASSUME NEW p \in Procs, NEW q \in Procs, Kill(p, q) PROVE Boot'
  BY <1>6 DEF Kill, KillWakes, wakeup_proc, Enqueue, ToQueue, Refill, At, Goto
<1>7. ASSUME NEW p \in Procs, ExitWakesParent(p) PROVE Boot'
  BY <1>7 DEF ExitWakesParent, WokenParent, wakeup_proc, Enqueue, ToQueue, Refill,
     At, Goto
<1>8. ASSUME NEW p \in Procs, NEW q \in Procs, Reparent(p, q) PROVE Boot'
  BY <1>8 DEF Reparent, Child, Heir, WokenInit, wakeup_proc, Enqueue, ToQueue,
     Refill, At
<1>9. ASSUME NEW p \in Procs, NEW q \in Procs, Switch(p, q) PROVE Boot'
  BY <1>9 DEF Switch, Resume, SchedPoints, Refill, Goto
<1>10. CASE Tick
  BY <1>10 DEF Tick, run_timers, Interruptible, Spend, TickPreempts, ToQueue,
     Refill, TimersSound
<1>11. CASE UNCHANGED vars
  BY <1>11 DEF vars, pcb
<1> QED
  BY <1>1, <1>2, <1>3, <1>4, <1>5, <1>6, <1>7, <1>8, <1>9, <1>10, <1>11, NextCases

\* A do_wait of init that fails has seen all of init's children.
LEMMA ChildlessNext ==
  ASSUME TypeOK, PcShape, CurrShape, Roots, TimersSound, Family, Childless, [Next]_vars
  PROVE  Childless'
<1> USE ProcAssumption DEF Childless, Child, TypeOK, PcShape, Roots, CurrShape,
        Live, ExitPCs, WaitPCs, SleepPCs, InitPCs, UserPCs, OffPCs
<1>1. ASSUME NEW p \in Procs, Moves(p) PROVE Childless'
  BY <1>1 DEF Moves, TrapReturn, TrapTail, WaitWoken, ReparentDone, SyscallReturns,
     Exit, PhiDone, MainCheck, At, Goto, pcb
<1>2. ASSUME NEW p \in Procs, Sets(p) PROVE Childless'
  BY <1>2 DEF Sets, KernelExecve, SleepReturns, del_timer, Yield, Wait, WaitFails,
     WaitReturn, PhiWait, At, Goto, Awaited
<1>3. ASSUME NEW p \in Procs, Stops(p) PROVE Childless'
  BY <1>3 DEF Stops, WaitBlocks, Sleep, ExitZombie, At, Goto
<1>4. ASSUME NEW p \in Procs, NEW q \in Procs, Makes(p, q) PROVE Childless'
  BY <1>4 DEF Makes, Fork, PhiFork, MainFork, kernel_proc, NewProc, At
<1>5. ASSUME NEW p \in Procs, NEW q \in Procs, WaitReaps(p, q) PROVE Childless'
  BY <1>5 DEF WaitReaps, WaitReturn, Awaited, Child, At
<1>6. ASSUME NEW p \in Procs, NEW q \in Procs, Kill(p, q) PROVE Childless'
  BY <1>6 DEF Kill, KillWakes, wakeup_proc, Enqueue, ToQueue, Refill, At, Goto
<1>7. ASSUME NEW p \in Procs, ExitWakesParent(p) PROVE Childless'
  BY <1>7 DEF ExitWakesParent, WokenParent, wakeup_proc, Enqueue, ToQueue, Refill,
     At, Goto
<1>8. ASSUME NEW p \in Procs, NEW q \in Procs, Reparent(p, q) PROVE Childless'
  BY <1>8 DEF Reparent, Child, Heir, WokenInit, wakeup_proc, Enqueue, ToQueue,
     Refill, At
<1>9. ASSUME NEW p \in Procs, NEW q \in Procs, Switch(p, q) PROVE Childless'
  BY <1>9 DEF Switch, Resume, SchedPoints, Refill, Goto
<1>10. CASE Tick
  BY <1>10 DEF Tick, run_timers, Interruptible, Spend, TickPreempts, ToQueue,
     Refill, TimersSound
<1>11. CASE UNCHANGED vars
  BY <1>11 DEF vars, pcb
<1> QED
  BY <1>1, <1>2, <1>3, <1>4, <1>5, <1>6, <1>7, <1>8, <1>9, <1>10, <1>11, NextCases

\* No wakeup is lost: neither a child that exits, nor an orphan init inherits.
LEMMA NoLostWakeupNext ==
  ASSUME TypeOK, PcShape, CurrShape, Roots, TimersSound, Family, NoLostWakeup, [Next]_vars
  PROVE  NoLostWakeup'
<1> USE ProcAssumption DEF NoLostWakeup, Awaited, Child, TypeOK, PcShape, Roots,
        CurrShape, Live, ExitPCs, WaitPCs, SleepPCs, InitPCs, UserPCs, OffPCs
<1>1. ASSUME NEW p \in Procs, Moves(p) PROVE NoLostWakeup'
  BY <1>1 DEF Moves, TrapReturn, TrapTail, WaitWoken, ReparentDone, SyscallReturns,
     Exit, PhiDone, MainCheck, At, Goto, pcb
<1>2. ASSUME NEW p \in Procs, Sets(p) PROVE NoLostWakeup'
  BY <1>2 DEF Sets, KernelExecve, SleepReturns, del_timer, Yield, Wait, WaitFails,
     WaitReturn, PhiWait, At, Goto
<1>3. ASSUME NEW p \in Procs, Stops(p) PROVE NoLostWakeup'
  BY <1>3 DEF Stops, WaitBlocks, Sleep, ExitZombie, At, Goto
<1>4. ASSUME NEW p \in Procs, NEW q \in Procs, Makes(p, q) PROVE NoLostWakeup'
  BY <1>4 DEF Makes, Fork, PhiFork, MainFork, kernel_proc, NewProc, At, Family
<1>5. ASSUME NEW p \in Procs, NEW q \in Procs, WaitReaps(p, q) PROVE NoLostWakeup'
  BY <1>5 DEF WaitReaps, WaitReturn, Awaited, Child, At, Family
<1>6. ASSUME NEW p \in Procs, NEW q \in Procs, Kill(p, q) PROVE NoLostWakeup'
  BY <1>6 DEF Kill, KillWakes, wakeup_proc, Enqueue, ToQueue, Refill, At, Goto
<1>7. ASSUME NEW p \in Procs, ExitWakesParent(p) PROVE NoLostWakeup'
  BY <1>7 DEF ExitWakesParent, WokenParent, wakeup_proc, Enqueue, ToQueue, Refill,
     At, Goto, Family
<1>8. ASSUME NEW p \in Procs, NEW q \in Procs, Reparent(p, q) PROVE NoLostWakeup'
  BY <1>8 DEF Reparent, Child, Heir, WokenInit, wakeup_proc, Enqueue, ToQueue,
     Refill, At
<1>9. ASSUME NEW p \in Procs, NEW q \in Procs, Switch(p, q) PROVE NoLostWakeup'
  BY <1>9 DEF Switch, Resume, SchedPoints, Refill, Goto
<1>10. CASE Tick
  BY <1>10 DEF Tick, run_timers, Interruptible, Spend, TickPreempts, ToQueue,
     Refill, TimersSound
<1>11. CASE UNCHANGED vars
  BY <1>11 DEF vars, pcb
<1> QED
  BY <1>1, <1>2, <1>3, <1>4, <1>5, <1>6, <1>7, <1>8, <1>9, <1>10, <1>11, NextCases

\* No action raises a panic.
LEMMA NoPanicNext ==
  ASSUME TypeOK, PcShape, CurrShape, Roots, NoPanic, RunQueueExact, TimersSound, Family,
         NoCycle, Philosophers, Boot, Count, Childless, [Next]_vars
  PROVE  NoPanic'
<1> USE ProcAssumption DEF NoPanic, TypeOK, PcShape, Roots, CurrShape,
        RunQueueExact, ExitPCs, WaitPCs, SleepPCs, InitPCs, UserPCs, OffPCs
<1>1. ASSUME NEW p \in Procs, Moves(p) PROVE NoPanic'
  BY <1>1, LastTwo DEF Moves, TrapReturn, TrapTail, WaitWoken, ReparentDone,
     SyscallReturns, Exit, PhiDone, MainCheck, At, Goto, pcb
<1>2. ASSUME NEW p \in Procs, Sets(p) PROVE NoPanic'
  BY <1>2 DEF Sets, KernelExecve, SleepReturns, del_timer, Yield, Wait, WaitFails,
     WaitReturn, PhiWait, At, Goto, Awaited, Child, Philosophers
<1>3. ASSUME NEW p \in Procs, Stops(p) PROVE NoPanic'
  BY <1>3 DEF Stops, WaitBlocks, Sleep, ExitZombie, At, Goto, TimersSound
<1>4. ASSUME NEW p \in Procs, NEW q \in Procs, Makes(p, q) PROVE NoPanic'
  <2>1. CASE Fork(p, q)
    BY <2>1 DEF Fork, At
  <2>2. CASE PhiFork(q)
    BY <2>2, BootCount DEF PhiFork, At, Booting, kernel_proc
  <2>3. CASE MainFork(q)
    <3>1. Booting /\ phi = {}
      BY <2>3 DEF MainFork, At, Booting, Boot
    <3>2. Cardinality(phi) = 0
      BY <3>1, FS_EmptySet, Zenon
    <3> QED
      BY <2>3, <3>1, <3>2, BootCount DEF MainFork, At, kernel_proc
  <2> QED
    BY <1>4, <2>1, <2>2, <2>3 DEF Makes
<1>5. ASSUME NEW p \in Procs, NEW q \in Procs, WaitReaps(p, q) PROVE NoPanic'
  BY <1>5 DEF WaitReaps, WaitReturn, Awaited, Child, At, Family
<1>6. ASSUME NEW p \in Procs, NEW q \in Procs, Kill(p, q) PROVE NoPanic'
  BY <1>6 DEF Kill, KillWakes, wakeup_proc, Enqueue, ToQueue, Refill, At, Goto
<1>7. ASSUME NEW p \in Procs, ExitWakesParent(p) PROVE NoPanic'
  BY <1>7 DEF ExitWakesParent, WokenParent, wakeup_proc, Enqueue, ToQueue, Refill,
     At, Goto, Family, Live
<1>8. ASSUME NEW p \in Procs, NEW q \in Procs, Reparent(p, q) PROVE NoPanic'
  BY <1>8 DEF Reparent, Child, Heir, WokenInit, wakeup_proc, Enqueue, ToQueue,
     Refill, At
<1>9. ASSUME NEW p \in Procs, NEW q \in Procs, Switch(p, q) PROVE NoPanic'
  BY <1>9 DEF Switch, Resume, SchedPoints, Refill, Goto
<1>10. CASE Tick
  BY <1>10 DEF Tick, run_timers, Interruptible, Spend, TickPreempts, ToQueue,
     Refill, TimersSound
<1>11. CASE UNCHANGED vars
  BY <1>11 DEF vars, pcb
<1> QED
  BY <1>1, <1>2, <1>3, <1>4, <1>5, <1>6, <1>7, <1>8, <1>9, <1>10, <1>11, NextCases

-----------------------------------------------------------------------------
(* The theorems.                                                           *)

\* The flags init_proc sets are Booleans.
LEMMA BooleanFields ==
  ASSUME need_reschedule = [p \in Procs |-> p = Idle],
         in_kernel = [p \in Procs |-> p \in {Idle, InitP}]
  PROVE  need_reschedule \in [Procs -> BOOLEAN] /\ in_kernel \in [Procs -> BOOLEAN]
<1>1. need_reschedule \in [Procs -> BOOLEAN]
  BY Zenon
<1>2. in_kernel \in [Procs -> BOOLEAN]
  <2>1. \A p \in Procs : (p \in {Idle, InitP}) \in BOOLEAN
    OBVIOUS
  <2> QED
    BY <2>1, Zenon
<1> QED
  BY <1>1, <1>2

\* init_proc establishes the invariant.
LEMMA IInvInit == Init => IInv
<1> SUFFICES ASSUME Init PROVE IInv
  OBVIOUS
<1> USE ProcAssumption DEF Init
<1>1. TypeOK
  <2>1. time_slice \in [Procs -> 0 .. MAX_TIME_SLICE] /\ forks \in 0 .. MaxForks
    OBVIOUS
  <2>2. pc \in [Procs -> PCs]
    BY DEF PCs, SchedPoints
  <2>3. parent \in [Procs -> Procs \cup {NULL}] /\ target \in [Procs -> Procs \cup {NULL}]
    OBVIOUS
  <2>4. need_reschedule \in [Procs -> BOOLEAN] /\ in_kernel \in [Procs -> BOOLEAN]
    BY BooleanFields
  <2>5. exit_flag \in [Procs -> BOOLEAN] /\ panic \in BOOLEAN
    BY Zenon
  <2>6. state \in [Procs -> States] /\ wait_state \in [Procs -> WaitStates]
    BY DEF States, WaitStates
  <2>7. left \in [Procs -> Nat] /\ g_num_proc \in Nat
    OBVIOUS
  <2>8. g_curr_proc \in Procs /\ run_queue \subseteq Procs /\ phi \subseteq Procs
    OBVIOUS
  <2> HIDE ProcAssumption DEF Init
  <2> QED
    BY <2>1, <2>2, <2>3, <2>4, <2>5, <2>6, <2>7, <2>8 DEF TypeOK
<1>2. Live = {Idle, InitP}
  BY DEF Live
<1>3. PcShape /\ CurrShape /\ Roots
  BY DEF PcShape, CurrShape, Roots, ExitPCs, WaitPCs, SleepPCs, InitPCs, UserPCs, OffPCs
<1>4. NoPanic /\ RunQueueExact /\ TimersSound /\ SleepShape
  BY DEF NoPanic, RunQueueExact, TimersSound, SleepShape, SleepPCs
<1>5. Family /\ NoCycle
  BY <1>2 DEF Family, NoCycle
<1>6. Philosophers /\ Boot /\ Childless
  BY <1>2 DEF Philosophers, Boot, Booting, Childless
<1>7. Count
  BY <1>2, RootsCard DEF Count
<1>8. NoLostWakeup
  BY DEF NoLostWakeup
<1> QED
  BY <1>1, <1>3, <1>4, <1>5, <1>6, <1>7, <1>8 DEF IInv

\* Every step keeps the invariant.
LEMMA IInvNext == IInv /\ [Next]_vars => IInv'
<1> SUFFICES ASSUME IInv, [Next]_vars PROVE IInv'
  OBVIOUS
<1> USE DEF IInv
<1>1. (TypeOK /\ PcShape /\ CurrShape /\ Roots)'
  BY TypeNext, PcShapeNext, CurrShapeNext, RootsNext
<1>2. (RunQueueExact /\ TimersSound /\ SleepShape)'
  BY RunQueueNext, TimersNext
<1>3. Kin
  BY KinNext
<1>4. (Family /\ NoCycle /\ Count)'
  BY <1>3, FamilyNext, NoCycleNext, CountNext
<1>5. (Philosophers /\ Boot /\ Childless)'
  BY PhilosophersNext, BootNext, ChildlessNext
<1>6. (NoLostWakeup /\ NoPanic)'
  BY NoLostWakeupNext, NoPanicNext
<1> QED
  BY <1>1, <1>2, <1>4, <1>5, <1>6

\* The inductive invariant holds in every state of every behaviour of proc.c,
\* schedule.c and the trap tail.
THEOREM IInvHolds == Spec => []IInv
<1>1. Init => IInv
  BY IInvInit
<1>2. IInv /\ [Next]_vars => IInv'
  BY IInvNext
<1> QED
  BY <1>1, <1>2, PTL DEF Spec

\* The types of the pcb fields and of the kernel's globals.
THEOREM TypeOKHolds == Spec => []TypeOK
<1>1. IInv => TypeOK
  BY DEF IInv
<1> QED
  BY <1>1, IInvHolds, PTL

\* No ASSERT or PANIC of the modelled code is reached, whatever the processes do.
THEOREM NoPanicHolds == Spec => []NoPanic
<1>1. IInv => NoPanic
  BY DEF IInv
<1> QED
  BY <1>1, IInvHolds, PTL

\* The run queue holds the runnable processes except idle and the current one.
THEOREM RunQueueExactHolds == Spec => []RunQueueExact
<1>1. IInv => RunQueueExact
  BY DEF IInv
<1> QED
  BY <1>1, IInvHolds, PTL

\* Nothing refers to a pcb that do_wait has freed.
THEOREM NoDanglingHolds == Spec => []NoDangling
<1>1. IInv => NoDangling
  <2> SUFFICES ASSUME IInv, NEW p \in Procs, state[p] = "FREE"
               PROVE  /\ p # g_curr_proc /\ p \notin run_queue /\ left[p] = 0
                      /\ \A q \in Live : parent[q] # p
    BY DEF NoDangling
  <2>1. pc[p] = "none" /\ p # g_curr_proc /\ p \notin run_queue
    BY DEF IInv, PcShape, CurrShape, RunQueueExact
  <2>2. left[p] = 0
    BY <2>1 DEF IInv, TimersSound, TypeOK
  <2>3. \A q \in Live : parent[q] # p
    BY ProcAssumption DEF IInv, Family, Live
  <2> QED
    BY <2>1, <2>2, <2>3
<1> QED
  BY <1>1, IInvHolds, PTL

\* A process asleep in do_wait has a child to wait for and has missed no exit.
THEOREM NoLostWakeupHolds == Spec => []NoLostWakeup
<1>1. IInv => NoLostWakeup
  BY DEF IInv
<1> QED
  BY <1>1, IInvHolds, PTL

\* A sleeping process has a timer; a timer belongs to a process in do_sleep.
THEOREM TimersSoundHolds == Spec => []TimersSound
<1>1. IInv => TimersSound
  BY DEF IInv
<1> QED
  BY <1>1, IInvHolds, PTL

\* Only a kill ends a sleep before its timer.
THEOREM SleepNotCutShortHolds == Spec => []SleepNotCutShort
<1>1. IInv => SleepNotCutShort
  BY DEF IInv, SleepShape, SleepNotCutShort, SleepPCs
<1> QED
  BY <1>1, IInvHolds, PTL

\* A zombie stays one until its own parent reclaims it in do_wait.
THEOREM ZombieIsFinalHolds == Spec => ZombieIsFinal
<1>1. IInv /\ [Next]_vars => [ZombieStep]_vars
  <2> SUFFICES ASSUME IInv, [Next]_vars PROVE ZombieStep
    OBVIOUS
  <2> USE ProcAssumption DEF ZombieStep, IInv, PcShape, CurrShape, TypeOK, Live,
          ExitPCs, WaitPCs, SleepPCs, InitPCs, UserPCs, OffPCs
  <2>1. ASSUME NEW p \in Procs, Moves(p) PROVE ZombieStep
    BY <2>1 DEF Moves, TrapReturn, TrapTail, WaitWoken, ReparentDone,
       SyscallReturns, Exit, PhiDone, MainCheck, At, Goto, pcb
  <2>2. ASSUME NEW p \in Procs, Sets(p) PROVE ZombieStep
    BY <2>2 DEF Sets, KernelExecve, SleepReturns, del_timer, Yield, Wait,
       WaitFails, WaitReturn, PhiWait, At, Goto
  <2>3. ASSUME NEW p \in Procs, Stops(p) PROVE ZombieStep
    BY <2>3 DEF Stops, WaitBlocks, Sleep, ExitZombie, At, Goto
  <2>4. ASSUME NEW p \in Procs, NEW q \in Procs, Makes(p, q) PROVE ZombieStep
    BY <2>4 DEF Makes, Fork, PhiFork, MainFork, kernel_proc, NewProc, At
  <2>5. ASSUME NEW p \in Procs, NEW q \in Procs, WaitReaps(p, q) PROVE ZombieStep
    BY <2>5 DEF WaitReaps, WaitReturn, Awaited, Child, At
  <2>6. ASSUME NEW p \in Procs, NEW q \in Procs, Kill(p, q) PROVE ZombieStep
    BY <2>6 DEF Kill, KillWakes, wakeup_proc, Enqueue, ToQueue, Refill, At, Goto
  <2>7. ASSUME NEW p \in Procs, ExitWakesParent(p) PROVE ZombieStep
    BY <2>7 DEF ExitWakesParent, WokenParent, wakeup_proc, Enqueue, ToQueue,
       Refill, At, Goto, Family
  <2>8. ASSUME NEW p \in Procs, NEW q \in Procs, Reparent(p, q) PROVE ZombieStep
    BY <2>8 DEF Reparent, Child, Heir, WokenInit, wakeup_proc, Enqueue, ToQueue,
       Refill, At
  <2>9. ASSUME NEW p \in Procs, NEW q \in Procs, Switch(p, q) PROVE ZombieStep
    BY <2>9 DEF Switch, Resume, SchedPoints, Refill, Goto
  <2>10. CASE Tick
    BY <2>10 DEF Tick, run_timers, Interruptible, Spend, TickPreempts, ToQueue,
       Refill, TimersSound
  <2>11. CASE UNCHANGED vars
    BY <2>11 DEF vars, pcb
  <2> QED
    BY <2>1, <2>2, <2>3, <2>4, <2>5, <2>6, <2>7, <2>8, <2>9, <2>10, <2>11,
       NextCases
<1> QED
  BY <1>1, IInvHolds, PTL DEF Spec, ZombieIsFinal
=============================================================================
