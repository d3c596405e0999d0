\* sys_kill(1): user programs may kill init too.
CONSTANTS
  p1 = p1  p2 = p2  p3 = p3
  Idle = idle  InitP = init  NULL = NULL
  Procs = {idle, init, p1, p2}
  MAX_PROCESS = 3
  MAX_TIME_SLICE = 1
  NUM_PHI = 1
  Killable = {init, p1, p2}
  SleepTimes = {2}
  MaxForks = 3
SPECIFICATION FairSpec
PROPERTIES ExitReachesSchedule
