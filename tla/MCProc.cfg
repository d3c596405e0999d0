\* Two slots besides idle and init, so that slots are reused; one philosopher.
CONSTANTS
  p1 = p1  p2 = p2  p3 = p3
  Idle = idle  InitP = init  NULL = NULL
  Procs = {idle, init, p1, p2}
  MAX_PROCESS = 3
  MAX_TIME_SLICE = 1
  NUM_PHI = 1
  Killable = {p1, p2}
  SleepTimes = {2}
  MaxForks = 3
SPECIFICATION FairSpec
INVARIANTS TypeOK NoPanic RunQueueExact NoDangling NoLostWakeup TimersSound SleepNotCutShort
PROPERTIES ZombieIsFinal KilledDiesOrWaits OrphansReaped AllKilledShutsDown
