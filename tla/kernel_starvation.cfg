CONSTANTS
  NTasks = 4
  IdleTask = 3
  BasePriority <- PrioAHB
  Mutexes = {}
  Sems = {}
  SemInitial <- Zero
  SemMax <- One
  MAX_TASKS = 4
  MAX_WAITING_TASKS = 3
  Timeouts = {}
  WAIT_FOREVER = 9
  Delays = {1}
  Nested = FALSE
  NULL = NULL
SPECIFICATION FairSpec
PROPERTIES RoundRobin
