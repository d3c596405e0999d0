\* Pages of three bytes; three for the program, two for the stack.
CONSTANTS PAGE_SIZE = 3
          USER_BEGIN = 3
          USER_STACK_BEGIN = 12
          USER_END = 18
          NULL = NULL
          STACK_PAGES = 1
          MaxLen = 5
          Programs <- SmallPrograms
SPECIFICATION FairSpec
INVARIANTS ImageExact CheckExact
PROPERTIES WritesInPage LoadOutcome
CHECK_DEADLOCK FALSE
