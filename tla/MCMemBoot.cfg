\* Six pages, blocks of up to three in the tests of the allocator; then, as in
\* test_swap, one frame less than the area has pages.
CONSTANTS NumPages = 6
          Sizes = {1, 2, 3}
          NumEnv = 2
          NumTables = 1
          VA = {a, b, c, d}
          Frames = {2, 3, 4}
          Values = {x, y}
          UserMode = FALSE
          Loaded = {}
          NULL = NULL
SPECIFICATION BSpec
INVARIANTS ListExact PagerExact
PROPERTIES KeepsPageSpec KeepsMemSpec
