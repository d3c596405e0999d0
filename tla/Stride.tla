------------------------------- MODULE Stride -------------------------------
(***************************************************************************)
(* The stride scheduler of kernel/proc/stride_scheduler.c, on the skew     *)
(* heap of lib/skew_heap.h, as schedule() and wakeup_proc() of             *)
(* kernel/proc/schedule.c drive it.                                        *)
(*                                                                         *)
(* A stride is a u32 that wraps, and two strides are compared by the sign  *)
(* of their difference as an i32; Modulus stands for 2^32.  The heap is    *)
(* kept with its three pointers.  Processes block, wake up, change their   *)
(* priority, and are forked with stride 0.                                 *)
(***************************************************************************)
EXTENDS Integers, FiniteSets

CONSTANTS Procs,       \* processes other than idle
          NULL,        \* no node, and idle on the CPU
          First,       \* the processes forked before the first schedule()
          Sleepers,    \* those that may block
          Modulus,     \* the number of strides
          Priorities   \* arguments of set_priority

ASSUME StrideAssumption ==
  /\ IsFiniteSet(Procs) /\ NULL \notin Procs
  /\ First \subseteq Procs /\ Sleepers \subseteq Procs
  /\ Modulus \in Nat \ {0} /\ Modulus % 4 = 0 /\ Priorities \subseteq Nat

BIG_STRIDE == Modulus \div 4

VARIABLES stride, priority,
          heap,     \* pcb.run_pool: left, right and parent of each node
          root,     \* run_queue.run_pool
          curr,     \* g_curr_proc; NULL: idle
          where,    \* "new", "queue", "cpu" or "asleep"
          wrapped   \* some stride has passed Modulus (not in the code)

svars == <<stride, priority, heap, root, curr, where, wrapped>>

\* struct skew_heap: NULL, or the node of a process.
Node  == Procs \cup {NULL}
Links == [left : [Procs -> Node], right : [Procs -> Node], parent : [Procs -> Node]]

STypeOK ==
  /\ stride \in [Procs -> 0 .. Modulus - 1]
  /\ priority \in [Procs -> Nat \ {0}]
  /\ heap \in Links /\ root \in Node
  /\ curr \in Node
  /\ where \in [Procs -> {"new", "queue", "cpu", "asleep"}]
  /\ wrapped \in BOOLEAN

-----------------------------------------------------------------------------
(* The skew heap.                                                          *)

\* Slip: strides are compared as the unsigned numbers they are.
BeforeUnsigned(s, a, b) == s[a] < s[b]

\* stride_comp_fn(a, b) = -1: the difference, as a signed number, is negative.
Before(s, a, b) == (s[a] + Modulus - s[b]) % Modulus >= Modulus \div 2

\* merge_skew_heap(x, y), where f holds the result of the call inside it: the
\* heap and its new root.
Merged(f, h, s, x, y) ==
  IF x = NULL THEN [heap |-> h, root |-> y]
  ELSE IF y = NULL THEN [heap |-> h, root |-> x]
  ELSE LET top == IF Before(s, x, y) THEN x ELSE y
           m   == f[IF top = x THEN <<h.right[x], y>> ELSE <<x, h.right[y]>>]
       IN [heap |-> [left   |-> [m.heap.left EXCEPT ![top] = m.root],
                     right  |-> [m.heap.right EXCEPT ![top] = h.left[top]],
                     parent |-> [m.heap.parent EXCEPT ![m.root] = top]],
           root |-> top]

\* merge_skew_heap of the trees with roots a and b.  M[k] merges trees that have at
\* most k nodes together; each call inside another does without its top.
merge_skew_heap(h, s, a, b) ==
  LET M[k \in 0 .. Cardinality(Procs)] ==
        IF k = 0 THEN [t \in Node \X Node |-> [heap |-> h, root |-> NULL]]
        ELSE [t \in Node \X Node |-> Merged(M[k - 1], h, s, t[1], t[2])]
  IN M[Cardinality(Procs)][<<a, b>>]

init_skew_heap(h, p) == [left   |-> [h.left EXCEPT ![p] = NULL],
                         right  |-> [h.right EXCEPT ![p] = NULL],
                         parent |-> [h.parent EXCEPT ![p] = NULL]]

add_skew_heap(h, s, r, p) == merge_skew_heap(init_skew_heap(h, p), s, r, p)

\* Slip: the new top keeps the parent it had.
del_skew_heap_keeps(h, s, r, p) ==
  LET m == merge_skew_heap(h, s, h.left[p], h.right[p])
  IN [heap |-> m.heap, root |-> IF h.parent[p] = NULL THEN m.root ELSE r]

\* del_skew_heap: the children of p, merged, take its place.
del_skew_heap(h, s, r, p) ==
  LET q == h.parent[p]
      m == merge_skew_heap(h, s, h.left[p], h.right[p])
      n == IF m.root = NULL THEN m.heap ELSE [m.heap EXCEPT !.parent[m.root] = q]
  IN IF q = NULL THEN [heap |-> n, root |-> m.root]
     ELSE [heap |-> IF n.left[q] = p THEN [n EXCEPT !.left[q] = m.root]
                                     ELSE [n EXCEPT !.right[q] = m.root],
           root |-> r]

-----------------------------------------------------------------------------
(* The scheduler.                                                          *)

\* stride_init: the queue is empty, and idle is on the CPU.
SInit ==
  /\ stride = [p \in Procs |-> 0]
  /\ priority = [p \in Procs |-> 1]
  /\ heap = [left |-> [p \in Procs |-> NULL], right |-> [p \in Procs |-> NULL],
             parent |-> [p \in Procs |-> NULL]]
  /\ root = NULL
  /\ curr = NULL
  /\ where = [p \in Procs |-> "new"]
  /\ wrapped = FALSE

\* stride_enqueue, by wakeup_proc.
Enqueue(p) ==
  LET a == add_skew_heap(heap, stride, root, p)
  IN heap' = a.heap /\ root' = a.root

\* do_fork, which the processes of First are made by before schedule() is first
\* called: alloc_proc starts with stride 0 and priority 1.
Fork(p) ==
  /\ where[p] = "new"
  /\ p \in First \/ curr # NULL
  /\ where' = [where EXCEPT ![p] = "queue"]
  /\ Enqueue(p)
  /\ UNCHANGED <<stride, priority, curr, wrapped>>

\* wakeup_proc of a process that has blocked.
Wakeup(p) ==
  /\ where[p] = "asleep"
  /\ where' = [where EXCEPT ![p] = "queue"]
  /\ Enqueue(p)
  /\ UNCHANGED <<stride, priority, curr, wrapped>>

\* set_priority; 0 counts as 1.
SetPriority(n) ==
  /\ curr # NULL
  /\ priority' = [priority EXCEPT ![curr] = IF n = 0 THEN 1 ELSE n]
  /\ UNCHANGED <<stride, heap, root, curr, where, wrapped>>

\* What being picked costs.
Pass(p) == BIG_STRIDE \div priority[p]

\* proc->stride += BIG_STRIDE / proc->priority, in a u32.
Paid(p) == (stride[p] + Pass(p)) % Modulus

\* schedule(): the current process is enqueued unless it blocks; the root is
\* picked, pays, and is dequeued.  Its links, which nobody looks at before
\* init_skew_heap clears them, are cleared here.
Schedule(blocks) ==
  LET queued == IF curr = NULL \/ blocks THEN [heap |-> heap, root |-> root]
                ELSE add_skew_heap(heap, stride, root, curr)
      n      == queued.root
      after  == IF curr = NULL THEN where
                ELSE [where EXCEPT ![curr] = IF blocks THEN "asleep" ELSE "queue"]
      paid   == [stride EXCEPT ![n] = Paid(n)]
      rest   == del_skew_heap(queued.heap, paid, n, n)
  IN /\ blocks => curr \in Sleepers
     /\ \A q \in First : where[q] # "new"
     /\ curr' = n
     /\ IF n = NULL
        THEN /\ where' = after
             /\ UNCHANGED <<stride, heap, root, wrapped>>
        ELSE /\ where' = [after EXCEPT ![n] = "cpu"]
             /\ stride' = paid
             /\ heap' = init_skew_heap(rest.heap, n)
             /\ root' = rest.root
             /\ wrapped' = (wrapped \/ stride[n] + Pass(n) >= Modulus)
     /\ UNCHANGED priority

SNext == \/ \E p \in Procs : Fork(p) \/ Wakeup(p)
         \/ \E n \in Priorities : SetPriority(n)
         \/ \E blocks \in BOOLEAN : Schedule(blocks)

SSpec == SInit /\ [][SNext]_svars

Queued == { p \in Procs : where[p] = "queue" }

(* While somebody waits in the queue schedule() is called again and again: the *)
(* slice of the current process ends, or idle looks for work.                  *)
SFairSpec ==
  /\ SSpec
  /\ []<>(Queued = {}) \/ []<><<\E blocks \in BOOLEAN : Schedule(blocks)>>_svars

-----------------------------------------------------------------------------
Below(S) == { q \in Procs : \E p \in S : q = heap.left[p] \/ q = heap.right[p] }

\* The heap holds exactly the queued processes, each once, and the parent
\* pointers, by which del_skew_heap finds where to cut, agree with the children.
HeapSound ==
  LET R[k \in 0 .. Cardinality(Procs)] ==
        IF k = 0 THEN {root} \ {NULL} ELSE R[k - 1] \cup Below(R[k - 1])
  IN /\ STypeOK
     /\ R[Cardinality(Procs)] = Queued
     /\ root # NULL => heap.parent[root] = NULL
     /\ \A p \in Queued : \A q \in {heap.left[p], heap.right[p]} \ {NULL} :
          heap.parent[q] = p
     /\ \A p \in Queued : heap.left[p] = heap.right[p] => heap.left[p] = NULL

\* How far the stride of p is ahead of that of q.
Ahead(p, q) == (stride[p] + Modulus - stride[q]) % Modulus

\* As long as nobody blocks or is forked late, of any two processes one is at
\* most one BIG_STRIDE ahead, so that the sign of the difference orders them.
Spread == \A p, q \in Procs : Ahead(p, q) <= BIG_STRIDE \/ Ahead(q, p) <= BIG_STRIDE

\* If all the processes schedule() can take are ahead of one of them by less than
\* half of the range, so that the comparison can tell who is least, it takes that
\* one or an equal: wrapped strides, late forks and sleeps do not deceive the heap.
PicksLeast ==
  [][\A p \in Procs : stride'[p] # stride[p] =>
       LET ready == Queued \cup { q \in Procs : q = curr /\ where'[q] # "asleep" }
       IN \A q \in ready :
            (\A r \in ready : Ahead(r, q) < Modulus \div 2) => stride[p] = stride[q]]_svars

\* stride_pick_next "pick[s] the element from the run queue, with the minimum
\* value of stride", stated while no stride has wrapped.
PicksMinimum ==
  [][~wrapped => \A p \in Procs : stride'[p] # stride[p] =>
       \A q \in Queued : stride[p] <= stride[q]]_svars

\* The scheduler passes over no queued process for ever.
EveryoneRuns == \A p \in Procs : where[p] = "queue" ~> where[p] = "cpu"
=============================================================================
