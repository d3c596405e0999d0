\* Eight pages, which hold up to four gaps.
CONSTANTS NumPages = 8
          Sizes = {1, 2, 3, 4}
          NULL = NULL
SPECIFICATION Spec
INVARIANTS ListExact
PROPERTIES KeepsPageSpec
