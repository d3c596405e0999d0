\* Three philosophers and two rounds: at most two wait for a semaphore.
CONSTANTS NUM_PHI = 3
          TIMES = 2
          NONE = NONE
SPECIFICATION Spec
INVARIANTS NeighboursNotEating OneActive NoneOverlooked NobodyLost
PROPERTIES AllEat
