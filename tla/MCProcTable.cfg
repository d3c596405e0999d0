\* Init and three others with the pids 1 .. 7, in two hash chains: grandchildren,
\* siblings on both sides, counters that wrap many times.
CONSTANTS MAX_PROCESS = 4
          HASH_SHIFT = 1
SPECIFICATION TSpec
INVARIANTS TableExact LinksExact NoOrphans GapFree
PROPERTIES UniquePids LoopsEnd
