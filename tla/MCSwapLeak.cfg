\* The instance of MCMemBoot.cfg; what test_swap gives back at its end is in no list
\* afterwards.
CONSTANTS NumPages = 6
          Sizes = {1}
          NumEnv = 2
          NumTables = 1
          VA = {a, b, c, d}
          Frames = {2, 3, 4}
          Values = {x, y}
          UserMode = FALSE
          Loaded = {}
          NULL = NULL
SPECIFICATION BSpec
INVARIANTS NothingLost
