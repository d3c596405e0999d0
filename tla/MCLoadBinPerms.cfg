\* As MCLoadBin.cfg, for the flags of pages.
CONSTANTS PAGE_SIZE = 3
          USER_BEGIN = 3
          USER_STACK_BEGIN = 12
          USER_END = 18
          NULL = NULL
          MaxLen = 5
          STACK_PAGES = 1
          Programs <- SmallPrograms
SPECIFICATION Spec
INVARIANT PermsExact
CHECK_DEADLOCK FALSE
