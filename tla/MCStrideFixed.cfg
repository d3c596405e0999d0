\* A fixed set of processes, of which none blocks; their priorities change for ever.
CONSTANTS Procs = {a, b, c}
          NULL = NULL
          First = {a, b, c}
          Sleepers = {}
          Modulus = 16
          Priorities = {0, 2, 3}
SPECIFICATION SFairSpec
INVARIANTS Spread
PROPERTIES EveryoneRuns
