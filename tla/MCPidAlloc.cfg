\* At most four entries and the pids 1 .. 7: the counters wrap many times.
CONSTANT MAX_PROCESS = 4
SPECIFICATION FairSpec
INVARIANTS GapFree
PROPERTIES UniquePids NoImmediateReuse ScanEnds
