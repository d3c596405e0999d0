----------------------------- MODULE ProcTable -----------------------------
(***************************************************************************)
(* The table of processes of kernel/proc/proc.c: do_fork gives a new pcb a *)
(* pid (PidAlloc.tla), a place in the hash list and in g_proc_list, and    *)
(* its family pointers (ProcLinks.tla); do_wait takes it out again; the    *)
(* loop of do_exit moves children in between.  A pcb is its pid.  The scan *)
(* of alloc_pid goes through g_proc_list, youngest entry first.            *)
(***************************************************************************)
EXTENDS PidAlloc, Sequences

CONSTANT HASH_SHIFT
ASSUME TableAssumption == HASH_SHIFT \in 1 .. 16 /\ MAX_PID <= 2^15

Pids    == 1 .. MAX_PID - 1
InitPid == 1  \* g_init_proc
NULL    == 0  \* no process; also idle, which is in no list

VARIABLES zombie, parent, child, younger, older,
          exiting,      \* the process in the loop of do_exit
          forker,       \* the process in the scan of alloc_pid
          g_proc_list,  \* the pids in the order of the list
          g_hash_list,  \* the pids in each chain
          g_num_proc

Family == INSTANCE ProcLinks WITH
            Procs <- Pids, InitP <- InitPid, alive <- pids

family == <<zombie, parent, child, younger, older, exiting>>
lists  == <<g_proc_list, g_hash_list, g_num_proc>>
tvars  == <<vars, family, lists, forker>>

\* hash32 for a val below 2^16: the upper `bits' bits of the low word of
\* val * 0x9e370001, of which val * 1 reaches only the lower half.
hash32(val, bits) == ((val * 40503) % 2^16) \div 2^(16 - bits)

pid_hash(pid) == hash32(pid, HASH_SHIFT)
Chains == 0 .. 2^HASH_SHIFT - 1

\* init_proc: idle has forked init, which has the first pid.
TInit ==
  /\ prev_pid = InitPid /\ next_pid = MAX_PID /\ last = InitPid
  /\ pids = {InitPid} /\ todo = {} /\ pc = "ready"
  /\ Family!Init
  /\ forker = NULL
  /\ g_proc_list = <<InitPid>>
  /\ g_hash_list = [h \in Chains |-> IF h = pid_hash(InitPid) THEN <<InitPid>> ELSE <<>>]
  /\ g_num_proc = 2

-----------------------------------------------------------------------------
\* del_list: the entry leaves the list, the others keep their order.
Without(s, q) ==
  IF \E i \in 1 .. Len(s) : s[i] = q
  THEN LET i == CHOOSE i \in 1 .. Len(s) : s[i] = q
       IN SubSeq(s, 1, i - 1) \o SubSeq(s, i + 1, Len(s))
  ELSE s

\* hash_proc, set_links: the pcb q, a child of p, goes to the front of both lists.
Enter(p, q) ==
  /\ g_hash_list' = [g_hash_list EXCEPT ![pid_hash(q)] = <<q>> \o @]
  /\ g_proc_list' = <<q>> \o g_proc_list
  /\ g_num_proc' = g_num_proc + 1
  /\ Family!SetLinks(p, q)

\* do_fork by p, with interrupts off from alloc_pid on.
do_fork(p) ==
  /\ exiting = NULL /\ p \in pids \ zombie
  /\ AllocPid
  /\ IF pc' = "scan"
     THEN forker' = p /\ UNCHANGED <<family, lists>>
     ELSE Enter(p, prev_pid') /\ UNCHANGED forker

\* The entry the scan comes to next.
Youngest(S) == LET i == CHOOSE i \in DOMAIN g_proc_list :
                          /\ g_proc_list[i] \in S
                          /\ \A j \in 1 .. i - 1 : g_proc_list[j] \notin S
               IN g_proc_list[i]

ScanGoesOn ==
  /\ todo # {}
  /\ ScanEntry(Youngest(todo))
  /\ UNCHANGED <<family, lists, forker>>

ScanReturns ==
  /\ ScanDone
  /\ Enter(forker, prev_pid)
  /\ forker' = NULL

\* do_exit: the process becomes a zombie, hands over its children one by one.
do_exit(p) ==
  /\ pc = "ready"
  /\ Family!Exit(p)
  /\ UNCHANGED <<prev_pid, next_pid, todo, pc, last, lists, forker>>

ExitLoop ==
  /\ Family!Move \/ Family!ExitDone
  /\ UNCHANGED <<prev_pid, next_pid, todo, pc, last, lists, forker>>

\* Slip: the chain keeps the entry.
unhash_proc_not(q) == g_hash_list

\* unhash_proc.
unhash_proc(q) == [h \in Chains |-> Without(g_hash_list[h], q)]

\* do_wait by p, for the zombie q.
do_wait(p, q) ==
  /\ Reap(q)
  /\ Family!Reap(p, q)
  /\ g_hash_list' = unhash_proc(q)
  /\ g_proc_list' = Without(g_proc_list, q)
  /\ g_num_proc' = g_num_proc - 1
  /\ UNCHANGED forker

InKernel == ScanGoesOn \/ ScanReturns \/ ExitLoop

TNext == \/ \E p \in Pids : do_fork(p) \/ do_exit(p) \/ \E q \in Pids : do_wait(p, q)
         \/ InKernel

\* The loops run on: interrupts are off.
TSpec == TInit /\ [][TNext]_tvars /\ WF_tvars(InKernel)

-----------------------------------------------------------------------------
Holds(s, S) == Len(s) = Cardinality(S) /\ { s[i] : i \in DOMAIN s } = S

\* Each live pid is in g_proc_list once, so that get_proc finds it, and once in
\* the chain of its hash and in no other, and no freed pcb is left in a list
\* (hash_proc, unhash_proc, set_links, remove_links); g_num_proc counts them and
\* idle.  When init's last do_wait fails init is alone, as init_main asserts.
TableExact ==
  /\ Holds(g_proc_list, pids)
  /\ \A p \in pids : pid_hash(p) \in Chains
  /\ \A h \in Chains : Holds(g_hash_list[h], { p \in pids : pid_hash(p) = h })
  /\ g_num_proc = Cardinality(pids) + 1
  /\ exiting = NULL /\ child[InitPid] = NULL =>
       g_proc_list = <<InitPid>> /\ g_num_proc = 2

\* See ProcLinks: do_wait meets exactly the children of a process, also in the
\* middle of the loop of do_exit.
LinksExact == Family!LinksExact

\* See ProcLinks: after do_exit every process has a parent that can wait for it.
NoOrphans == Family!NoOrphans

\* The loops that run with interrupts off end: the scan of alloc_pid, restarts
\* included, since some pid is always free, and the handing over of do_exit.
LoopsEnd == ScanEnds /\ Family!ExitEnds
=============================================================================
