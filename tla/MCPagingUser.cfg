\* A user stack of which load_bin has mapped one page, and enough frames.
CONSTANTS VA = {a, b, c}
          Frames = {f, g, h, i}
          Values = {x}
          UserMode = TRUE
          Loaded = {a}
          NULL = NULL
SPECIFICATION Spec
INVARIANTS FaultAsserts
