\* Three slots besides idle and init, two philosophers, every process killable:
\* safety only.
CONSTANTS
  p1 = p1  p2 = p2  p3 = p3
  Idle = idle  InitP = init  NULL = NULL
  Procs = {idle, init, p1, p2, p3}
  MAX_PROCESS = 4
  MAX_TIME_SLICE = 1
  NUM_PHI = 2
  Killable = {init, p1, p2, p3}
  SleepTimes = {1, 2}
  MaxForks = 5
SPECIFICATION Spec
SYMMETRY Symm
INVARIANTS TypeOK NoPanic RunQueueExact NoDangling NoLostWakeup TimersSound SleepNotCutShort
PROPERTIES ZombieIsFinal
