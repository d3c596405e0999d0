\* Four processes besides init: grandchildren, and siblings on both sides.
CONSTANTS Procs = {init, a, b, c, d}
          InitP = init
          NULL = NULL
SPECIFICATION FairSpec
INVARIANTS LinksExact NoOrphans
PROPERTIES ExitEnds
