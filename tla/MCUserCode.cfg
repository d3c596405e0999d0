\* The upper half of an uninitialised u64 holds anything.
CONSTANTS
  Idle = idle  InitP = init  NULL = NULL
  Procs = {idle, init, p1, p2, p3}
  MAX_PROCESS = 4
  MAX_TIME_SLICE = 1
  NUM_PHI = 0
  Killable = {init, p1, p2, p3}
  SleepTimes = {2}
  MaxForks = 8
  Programs = {"sleep", "badarg"}
  MAX_CHILD = 2
  DEPTH = 2
  StackBytes = {"zero", "other"}
SPECIFICATION TSpec
INVARIANTS TestsPass
