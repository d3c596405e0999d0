------------------------------ MODULE ProcLinks ------------------------------
(***************************************************************************)
(* The family pointers of the pcbs in kernel/proc/proc.c: parent, child    *)
(* (the youngest), younger and older, as set_links in do_fork,             *)
(* remove_links in do_wait and the loop of do_exit keep them.  Each round  *)
(* of that loop is one step; interrupts are off, so nothing comes between. *)
(***************************************************************************)
EXTENDS Naturals, FiniteSets

CONSTANTS Procs,  \* pcbs other than idle's
          InitP,  \* g_init_proc
          NULL

VARIABLES alive,    \* the pcbs in g_proc_list
          zombie,   \* those that have exited
          parent, child, younger, older,
          exiting   \* the process in the loop of do_exit, or NULL

links == <<parent, child, younger, older>>
vars  == <<alive, zombie, links, exiting>>

Pointer == [Procs -> Procs \cup {NULL}]

TypeOK ==
  /\ alive \subseteq Procs /\ zombie \subseteq alive
  /\ parent \in Pointer /\ child \in Pointer
  /\ younger \in Pointer /\ older \in Pointer
  /\ exiting \in zombie \cup {NULL}

\* init has been forked; its parent, idle, is left out.
Init ==
  /\ alive = {InitP} /\ zombie = {} /\ exiting = NULL
  /\ parent = [p \in Procs |-> NULL] /\ child = parent
  /\ younger = parent /\ older = parent

\* Slip: the older sibling is not told of the new one.
YoungerAfterForkOld(p, q) == [younger EXCEPT ![q] = NULL]

\* set_links: the older sibling points to the new child.
YoungerAfterFork(p, q) ==
  [x \in Procs |-> IF x = q THEN NULL ELSE IF x = child[p] THEN q ELSE younger[x]]

\* set_links of q, forked by p.
SetLinks(p, q) ==
  /\ exiting = NULL
  /\ p \in alive \ zombie
  /\ alive' = alive \cup {q}
  /\ parent' = [parent EXCEPT ![q] = p]
  /\ older' = [older EXCEPT ![q] = child[p]]
  /\ younger' = YoungerAfterFork(p, q)
  /\ child' = [child EXCEPT ![p] = q, ![q] = NULL]
  /\ UNCHANGED <<zombie, exiting>>

\* do_fork by p makes a new pcb q.
Fork(p, q) == q \notin alive /\ SetLinks(p, q)

\* state = PROC_ZOMBIE.
ZombieAfterExit(p) == zombie \cup {p}

\* do_exit up to its loop; init's own exit is in Proc.
Exit(p) ==
  /\ exiting = NULL
  /\ p \in alive \ (zombie \cup {InitP})
  /\ zombie' = ZombieAfterExit(p)
  /\ exiting' = p
  /\ UNCHANGED <<alive, links>>

\* The child moves in front of init's children.
OlderAfterMove(q) == [older EXCEPT ![q] = child[InitP]]

\* Slip: the exiting process keeps its youngest child.
ChildAfterMoveKept(p, q) == [child EXCEPT ![InitP] = q]

\* child = proc->older, and init's youngest is the child moved.
ChildAfterMove(p, q) == [child EXCEPT ![p] = older[q], ![InitP] = q]

\* A round of the loop: the youngest child q of the exiting process is moved.
Move ==
  LET p == exiting
      q == child[p]
  IN /\ p # NULL /\ q # NULL
     /\ child' = ChildAfterMove(p, q)
     /\ older' = OlderAfterMove(q)
     /\ younger' = [x \in Procs |-> IF x = q THEN NULL
                                    ELSE IF x = child[InitP] THEN q ELSE younger[x]]
     /\ parent' = [parent EXCEPT ![q] = InitP]
     /\ UNCHANGED <<alive, zombie, exiting>>

\* Slip: `if` in place of `while`: children may be left.
LoopOverAnyway == TRUE

\* The condition of the loop is false.
LoopOver == child[exiting] = NULL

\* The loop ends.
ExitDone ==
  /\ exiting # NULL /\ LoopOver
  /\ exiting' = NULL
  /\ UNCHANGED <<alive, zombie, links>>

\* remove_links: the youngest child is replaced by the next one.
ChildAfterReap(p, q) == IF younger[q] = NULL THEN [child EXCEPT ![p] = older[q]] ELSE child

\* do_wait by p: remove_links of the zombie q; the pcb is freed.
Reap(p, q) ==
  /\ exiting = NULL
  /\ p \in alive \ zombie /\ q \in zombie /\ parent[q] = p
  /\ alive' = alive \ {q} /\ zombie' = zombie \ {q}
  /\ younger' = [x \in Procs |-> IF x = q THEN NULL
                                 ELSE IF x = older[q] THEN younger[q] ELSE younger[x]]
  /\ older' = [x \in Procs |-> IF x = q THEN NULL
                               ELSE IF x = younger[q] THEN older[q] ELSE older[x]]
  /\ child' = ChildAfterReap(p, q)
  /\ parent' = [parent EXCEPT ![q] = NULL]
  /\ UNCHANGED exiting

Next == \/ \E p, q \in Procs : Fork(p, q) \/ Reap(p, q)
        \/ \E p \in Procs : Exit(p)
        \/ Move \/ ExitDone

Spec     == Init /\ [][Next]_vars
FairSpec == Spec /\ WF_vars(Move) /\ WF_vars(ExitDone)

-----------------------------------------------------------------------------
Children(p) == { q \in alive : parent[q] = p }

\* The i-th process do_wait meets when it goes through the children of p.
Nth(p) == LET N[i \in 1 .. Cardinality(Procs) + 1] ==
                IF i = 1 THEN child[p]
                ELSE IF N[i - 1] = NULL THEN NULL ELSE older[N[i - 1]]
          IN N

\* From child along older do_wait meets every child of p once and nobody else,
\* in the middle of do_exit's loop too: no zombie is out of reach of its parent,
\* and no freed pcb is met.
ChildrenExact ==
  \A p \in alive :
    LET n == Cardinality(Children(p))
    IN /\ { Nth(p)[i] : i \in 1 .. n } = Children(p)
       /\ Nth(p)[n + 1] = NULL

\* younger is the way back, by which remove_links repairs the list; only the
\* first of the children do_exit has yet to move may point to one it has moved.
YoungerExact ==
  \A q \in alive \ {InitP} :
    /\ older[q] # NULL /\ exiting # parent[q] => younger[older[q]] = q
    /\ child[parent[q]] = q /\ exiting # parent[q] => younger[q] = NULL

\* The pointers of all pcbs agree, in the middle of do_exit's loop too.
LinksExact == TypeOK /\ ChildrenExact /\ YoungerExact

\* When do_exit is through its loop nobody is left behind: every process has a
\* parent that is alive and can still wait for it, init if need be.
NoOrphans == exiting = NULL => \A q \in alive \ {InitP} : parent[q] \in alive \ zombie

\* The loop of do_exit ends.
ExitEnds == exiting # NULL ~> exiting = NULL
=============================================================================
