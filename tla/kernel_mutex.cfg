CONSTANTS
  NTasks = 4
  IdleTask = 3
  BasePriority <- PrioLEE
  Mutexes = {m1}
  Sems = {}
  SemInitial <- Zero
  SemMax <- One
  MAX_TASKS = 4
  MAX_WAITING_TASKS = 2
  Timeouts = {1, 9}
  WAIT_FOREVER = 9
  Delays = {1}
  Nested = FALSE
  NULL = NULL
SPECIFICATION CpuSpec
INVARIANTS TypeOK QueueIntegrity BlockedIsWakeable MutualExclusion AcquireTellsTruth ExecutingIsRunning InheritedPriority QueuesFit
PROPERTIES SwitchPicksHighest NoOvertaking OwnerGetsCpu
