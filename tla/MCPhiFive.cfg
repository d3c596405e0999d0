\* The five philosophers of test_phi.c: three and more may wait for the mutex.
CONSTANTS NUM_PHI = 5
          TIMES = 2
          NONE = NONE
SPECIFICATION Spec
INVARIANTS NobodyLost
