\* Four philosophers, so that two can eat at a time, and two rounds of each.
CONSTANTS NUM_PHI = 4
          TIMES = 2
          NONE = NONE
SPECIFICATION Spec
INVARIANTS TypeOK NoPanic NeighboursNotEating NoneOverlooked
PROPERTIES AllEat
