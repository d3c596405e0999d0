\* As MCAddrSpace.cfg, for what an exit gives back.
CONSTANTS Procs = {p, q}
          PT_SIZE = 2
          NumFrames = 15
          Layouts <- TwoLayouts
          Values = {x, y}
          NULL = NULL
SPECIFICATION Spec
INVARIANT AllReturned
CHECK_DEADLOCK FALSE
