----------------------------- MODULE UserTests -----------------------------
(***************************************************************************)
(* The test programs of user/, run on the processes of Proc.tla: init_main *)
(* starts user_main, which executes one of them.  A program is a sequence  *)
(* of system calls, each with the result its ASSERTs and tests ask for;    *)
(* user/lib makes the calls and ends a program with sys_exit.              *)
(*                                                                         *)
(* Abstractions.  A putstr is one call, a row of calls of sys_yield or     *)
(* sys_sleep one or two, and a computation nothing: a program may be       *)
(* interrupted at any place anyway.  The slot of a new pcb is any free one *)
(* and no property tells them apart, so one is chosen.  After a failed     *)
(* test a program only exits (matrix.c kills its children first, which no  *)
(* passing test comes to).  A code is its name.  sleepkill.c (its          *)
(* outcome depends on real time), testbss.c, faultread.c and               *)
(* faultreadkernel.c (they end in a PANIC of the kernel) are left out.     *)
(***************************************************************************)
EXTENDS Proc, Sequences

CONSTANTS Programs,    \* the programs to run, names of the files in user/
          MAX_CHILD,   \* children of forktest.c, matrix.c and priority.c
          DEPTH,       \* of forktree.c
          StackBytes   \* what the upper half of an uninitialised u64 may hold

ASSUME TestsAssumption == /\ MAX_CHILD \in Nat \ {0} /\ DEPTH \in Nat
                          /\ "zero" \in StackBytes

VARIABLES prog,      \* the program user_main executes (KERNEL_EXECVE_TEST)
          ip,        \* position of each process in it; FAIL: in panic()
          mem,       \* the variables of each process
          exit_code  \* pcb.exit_code

user  == <<prog, ip, mem, exit_code>>
tvars == <<vars, user>>

FAIL == 0

-----------------------------------------------------------------------------
(* Programs.  `want' is the result that lets the program go on: "ok" (0, or  *)
(* the pid of a new child), "error", "any", or "never" if it must not return.*)

Do(op, want) == [op |-> op, want |-> want, arg |-> 0, code |-> NULL]

\* sys_fork: the child goes on at position i.
ForkTo(i)      == [Do("fork", "ok") EXCEPT !.arg = i]
\* sys_wait and sys_kill of the i-th child the program has forked, 0: of any.
WaitFor(i)     == [Do("wait", "ok") EXCEPT !.arg = i]
WaitError(i)   == [Do("wait", "error") EXCEPT !.arg = i]
WaitCode(i, c) == [Do("wait", "ok") EXCEPT !.arg = i, !.code = c]
KillKid(i)     == [Do("kill", "ok") EXCEPT !.arg = i]
SysExit(c)     == [Do("exit", "never") EXCEPT !.code = c]
Puts     == Do("call", "any")     \* putstr, getpid, gettime, set_priority
GetPid   == Do("getpid", "any")   \* parent = sys_getpid()
KillMain == Do("kill_main", "ok") \* sys_kill(parent)
BadWait  == Do("badwait", "error")
SysYield == Do("yield", "any")
SysSleep == Do("sleep", "any")
Spin     == Do("spin", "never")

\* The body of a loop, n times.
Times(n, instr) == [k \in 1 .. n |-> instr]

\* main returns 0 to user_main.
Return0 == <<SysExit("zero")>>

exit_c == <<Puts, ForkTo(7), WaitCode(1, "magic"), WaitError(1), WaitError(0)>> \o Return0
          \o <<Puts, SysYield, SysYield, SysExit("magic")>>

\* `wait stopped early', `wait got too many'.
forktest_c == Times(MAX_CHILD, ForkTo(2 * MAX_CHILD + 3)) \o Times(MAX_CHILD, WaitFor(0))
              \o <<WaitError(0)>> \o Return0 \o <<Puts, SysExit("zero")>>

\* forktree: two branches below DEPTH; a failed fork is not noticed.
forktree_c == <<Puts, Do("leaf", "any"),
                [ForkTo(1) EXCEPT !.want = "any"], [ForkTo(1) EXCEPT !.want = "any"],
                SysYield>> \o Return0

spin_c == <<Puts, ForkTo(7), SysYield, KillKid(1), WaitFor(1)>> \o Return0 \o <<Puts, Spin>>

waitkill_c == <<GetPid, ForkTo(5), ForkTo(7), [WaitFor(1) EXCEPT !.want = "never"],
                Puts, Spin,
                SysYield, KillMain, SysYield, KillKid(1)>> \o Return0

matrix_c == Times(MAX_CHILD, ForkTo(2 * MAX_CHILD + 2)) \o Times(MAX_CHILD, WaitFor(0))
            \o Return0 \o <<SysYield, Puts, SysExit("zero")>>

\* The results of sys_wait are not looked at.
priority_c == <<Puts>> \o Times(MAX_CHILD, ForkTo(2 * MAX_CHILD + 3))
              \o [k \in 1 .. MAX_CHILD |-> [WaitFor(k) EXCEPT !.want = "any"]]
              \o Return0 \o <<Puts, Puts, SysExit("acc")>>

sleep_c == <<Puts, ForkTo(5), WaitCode(1, "zero")>> \o Return0
           \o <<SysSleep, SysSleep, SysExit("zero")>>

badarg_c == <<ForkTo(6), BadWait, BadWait, WaitCode(1, "magic")>> \o Return0
            \o <<SysYield, SysYield, SysExit("magic")>>

\* hello.c and divzero.c are shorter.
yield_c == <<Puts, SysYield, Puts, SysYield>> \o Return0

Code == CASE prog = "exit"     -> exit_c
          [] prog = "forktest" -> forktest_c
          [] prog = "forktree" -> forktree_c
          [] prog = "spin"     -> spin_c
          [] prog = "waitkill" -> waitkill_c
          [] prog = "matrix"   -> matrix_c
          [] prog = "priority" -> priority_c
          [] prog = "sleep"    -> sleep_c
          [] prog = "badarg"   -> badarg_c
          [] prog = "yield"    -> yield_c

\* Where forktree goes on after its two forks.
AfterForks == 5

\* What process p does next; forktree's main calls putstr where others yield.
Instr(p) == CASE ip[p] = FAIL -> SysExit("E_PANIC")
              [] prog = "forktree" /\ ip[p] = AfterForks /\ mem[p].depth = 0 -> Puts
              [] OTHER -> Code[ip[p]]

\* The programs that leave their u64 code to sys_wait; exit.c sets it to 0 first.
Uninitialised == prog \in {"sleep", "badarg"}

Blank == [main |-> NULL, kids |-> <<>>, upper |-> "zero", depth |-> 0]

TInit ==
  /\ Init
  /\ prog \in Programs
  /\ ip = [p \in Procs |-> 1]
  /\ \E b \in StackBytes :
       /\ b # "zero" => Uninitialised
       /\ mem = [p \in Procs |-> [Blank EXCEPT !.upper = b]]
  /\ exit_code = [p \in Procs |-> "zero"]

-----------------------------------------------------------------------------
(* System calls of the programs.                                           *)

\* Process p makes the call `op' next.
Calls(p, op) == At(p, "user") /\ Instr(p).op = op

\* The call returns r: the program goes on, or its ASSERT or test fails.
Goes(p, r) == IF Instr(p).want \in {"any", r} THEN ip[p] + 1 ELSE FAIL
Returns(p, r) == ip' = [ip EXCEPT ![p] = Goes(p, r)] /\ UNCHANGED prog

NewSlot == CHOOSE q \in Procs : state[q] = "FREE"

\* dup_vmm copies the variables; sys_fork returns 0 in the child and its pid in
\* the parent.  In forktree.c the child works one level further down.
Forked(p, q) ==
  [mem EXCEPT ![p].kids = Append(@, q),
              ![q] = [mem[p] EXCEPT !.kids = Append(@, NULL), !.depth = @ + 1]]

SysFork(p) ==
  LET q == NewSlot
  IN /\ Calls(p, "fork")
     /\ Fork(p, q)
     /\ ip' = [ip EXCEPT ![p] = Goes(p, "ok"), ![q] = Instr(p).arg]
     /\ mem' = Forked(p, q)
     /\ exit_code' = [exit_code EXCEPT ![q] = "zero"]
     /\ UNCHANGED prog

\* -E_NO_FREE_PROC.
SysForkFails(p) ==
  /\ Calls(p, "fork")
  /\ g_num_proc > MAX_PROCESS
  /\ SyscallReturns(p)
  /\ Returns(p, "error")
  /\ UNCHANGED <<mem, exit_code>>

\* The child an argument names.
Kid(p) == IF Instr(p).arg = 0 THEN NULL ELSE mem[p].kids[Instr(p).arg]

SysWait(p) ==
  /\ Calls(p, "wait")
  /\ Wait(p, Kid(p))
  /\ UNCHANGED user

\* `sys_wait(pid, &code) == 0 && code == c': do_wait writes an i32, the program
\* reads the u64.
CodeMatches(p, q) ==
  Instr(p).code = NULL \/ (exit_code[q] = Instr(p).code /\ mem[p].upper = "zero")

\* do_wait has found the zombie q.
WaitOk(p, q) ==
  /\ WaitReaps(p, q)
  /\ ip' = [ip EXCEPT ![p] = IF p = InitP THEN @
                             ELSE IF CodeMatches(p, q) THEN Goes(p, "ok") ELSE FAIL,
                      ![q] = 1]
  /\ mem' = [mem EXCEPT ![q] = Blank]
  /\ exit_code' = [exit_code EXCEPT ![q] = "zero"]
  /\ UNCHANGED prog

\* do_wait has found no child.
WaitNone(p) ==
  /\ WaitFails(p)
  /\ IF p = InitP THEN UNCHANGED <<ip, prog>> ELSE Returns(p, "error")
  /\ UNCHANGED <<mem, exit_code>>

\* sys_wait(-1, NULL), and a pointer that check_vmm refuses.
SysBadWait(p) ==
  /\ Calls(p, "badwait")
  /\ SyscallReturns(p)
  /\ Returns(p, "error")
  /\ UNCHANGED <<mem, exit_code>>

Victim(p) == IF Instr(p).op = "kill_main" THEN mem[p].main ELSE Kid(p)

\* sys_kill; -E_INVAL or -E_KILLED if there is no such process or it has been
\* killed before.
SysKill(p) ==
  LET can == Victim(p) \in Live /\ ~exit_flag[Victim(p)]
  IN /\ Calls(p, "kill") \/ Calls(p, "kill_main")
     /\ IF can THEN Kill(p, Victim(p)) ELSE SyscallReturns(p)
     /\ Returns(p, IF can THEN "ok" ELSE "error")
     /\ UNCHANGED <<mem, exit_code>>

SysCall(p) ==
  /\ Calls(p, "call") \/ Calls(p, "getpid")
  /\ SyscallReturns(p)
  /\ Returns(p, "ok")
  /\ mem' = IF Instr(p).op = "getpid" THEN [mem EXCEPT ![p].main = p] ELSE mem
  /\ UNCHANGED exit_code

Yields(p) ==
  /\ Calls(p, "yield")
  /\ Yield(p)
  /\ Returns(p, "ok")
  /\ UNCHANGED <<mem, exit_code>>

Sleeps(p) ==
  /\ Calls(p, "sleep")
  /\ \E t \in SleepTimes : Sleep(p, t)
  /\ Returns(p, "ok")
  /\ UNCHANGED <<mem, exit_code>>

\* Slip: do_exit does not keep its argument.
ErrnoLost(p) == "zero"

\* The argument of do_exit.
Errno(p) == Instr(p).code

\* sys_exit, called by the program, by user_main of user/lib after main has
\* returned, or by panic().
Exits(p) ==
  /\ Calls(p, "exit")
  /\ Exit(p)
  /\ exit_code' = [exit_code EXCEPT ![p] = Errno(p)]
  /\ UNCHANGED <<prog, ip, mem>>

\* forkchild returns at once at the leaves of the tree.
ForkChild(p) ==
  /\ Calls(p, "leaf")
  /\ ip' = [ip EXCEPT ![p] = IF mem[p].depth >= DEPTH THEN AfterForks ELSE @ + 1]
  /\ UNCHANGED <<vars, prog, mem, exit_code>>

ProgramCalls(p) ==
  \/ SysFork(p) \/ SysForkFails(p) \/ SysWait(p) \/ SysBadWait(p)
  \/ SysKill(p) \/ SysCall(p) \/ Yields(p) \/ Sleeps(p)
  \/ Exits(p) \/ ForkChild(p)

-----------------------------------------------------------------------------
\* The other steps of the kernel; a killed process ends with -E_KILLED.
KernelGoesOn(p) ==
  /\ \/ TrapReturn(p) \/ KernelExecve(p) \/ SleepReturns(p)
     \/ WaitBlocks(p) \/ WaitWoken(p)
     \/ ExitZombie(p) \/ ExitWakesParent(p)
     \/ \E q \in Procs : Reparent(p, q)
     \/ ReparentDone(p)
  /\ exit_code' = IF pc[p] # "exit" /\ pc'[p] = "exit"
                  THEN [exit_code EXCEPT ![p] = "E_KILLED"] ELSE exit_code
  /\ UNCHANGED <<prog, ip, mem>>

\* init_main; the philosophers' tests are over (NUM_PHI = 0).
InitGoesOn ==
  /\ PhiDone \/ MainFork(NewSlot) \/ MainCheck
  /\ UNCHANGED user

Switches(n) == schedule(n) /\ UNCHANGED user
Ticks == Tick /\ UNCHANGED user

Machine ==
  \/ \E p \in Procs : KernelGoesOn(p) \/ WaitNone(p) \/ \E q \in Procs : WaitOk(p, q)
  \/ InitGoesOn
  \/ \E n \in Procs : Switches(n)

TNext == Machine \/ Ticks \/ \E p \in Procs : ProgramCalls(p)

(* Fairness.  The CPU does not stop (Machine); a pending timer interrupt is   *)
(* taken; programs get on between the ticks; no queued process is passed over *)
(* for ever (Stride.tla).                                                     *)
TSpec == /\ TInit /\ [][TNext]_tvars
         /\ WF_tvars(Machine)
         /\ SF_tvars(Ticks)
         /\ SF_tvars(\E p \in Procs : ProgramCalls(p))
         /\ \A n \in Procs \ {Idle} : SF_tvars(Switches(n))

-----------------------------------------------------------------------------
\* No ASSERT and no PANIC of a test program is reached, however the processes of
\* the test are interleaved and preempted: do_wait returns the right children,
\* codes and errors, do_kill finds its victims, and in waitkill.c the killed
\* parent never comes back from sys_wait.
TestsPass == \A p \in Procs : pc[p] = "user" => ip[p] # FAIL

\* Every test ends, the ones that kill spinning or waiting processes too: all its
\* processes are reaped, and init_main gets through its ASSERTs and exits.
TestsEnd == <>(state[InitP] = "ZOMBIE")
=============================================================================
