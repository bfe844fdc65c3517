CONSTANTS
  NTasks = 3
  IdleTask = 2
  BasePriority <- PrioLH
  Mutexes = {m1,m2}
  Sems = {s1}
  SemInitial <- Zero
  SemMax <- One
  MAX_TASKS = 3
  MAX_WAITING_TASKS = 2
  Timeouts = {1, 2}
  WAIT_FOREVER = 9
  Delays = {1}
  Nested = TRUE
  NULL = NULL
SPECIFICATION TickSpec
INVARIANTS NoMissedRelease BoostOnlyOwners
PROPERTIES InheritanceGaps DeadlineEndsWait
