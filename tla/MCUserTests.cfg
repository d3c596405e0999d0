\* Up to three processes of a test at a time; forktree meets the limit of processes.
CONSTANTS
  Idle = idle  InitP = init  NULL = NULL
  Procs = {idle, init, p1, p2, p3}
  MAX_PROCESS = 4
  MAX_TIME_SLICE = 1
  NUM_PHI = 0
  Killable = {init, p1, p2, p3}
  SleepTimes = {2}
  MaxForks = 8
  Programs = {"exit", "forktest", "forktree", "spin", "waitkill", "matrix", "priority", "sleep", "badarg", "yield"}
  MAX_CHILD = 2
  DEPTH = 2
  StackBytes = {"zero"}
SPECIFICATION TSpec
INVARIANTS TestsPass
PROPERTIES TestsEnd
