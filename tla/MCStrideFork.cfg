\* Processes are forked after others have run for a while.
CONSTANTS Procs = {a, b, c}
          NULL = NULL
          First = {a}
          Sleepers = {}
          Modulus = 16
          Priorities = {0, 2}
SPECIFICATION SSpec
PROPERTIES PicksMinimum
