\* Processes are forked late and block; each raises its priority at most once.
CONSTANTS Procs = {a, b, c}
          NULL = NULL
          First = {a}
          Sleepers = {a, b, c}
          Modulus = 8
          Priorities = {2}
SPECIFICATION SFairSpec
INVARIANTS HeapSound
PROPERTIES PicksLeast EveryoneRuns
