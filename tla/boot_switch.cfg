SPECIFICATION BootFairSpec
CONSTANTS
  NTasks = 3
  Lowest = 5
  StackWords = 7
  MaxDepth = 3
  NULL = NULL
  Priorities <- BenchBuild
  MAX_TASKS = 6
  BENCH_ITERATIONS = 3
  CYCLES_PER_US = 16
  WordSize = 1024
  DigitsMax = 4
  Cycles = {0, 7, 15, 120}
INVARIANTS
  BootReachesInit
  NumbersPrinted
  OwnContext
  HaltNamesCulprit
PROPERTIES
  BootEnds
