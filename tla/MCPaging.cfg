\* As in test_swap, more pages than frames.
CONSTANTS VA = {a, b, c, d}
          Frames = {f, g, h}
          Values = {x, y}
          UserMode = FALSE
          Loaded = {}
          NULL = NULL
SPECIFICATION Spec
INVARIANTS FramesExact
PROPERTIES KeepsMemSpec
