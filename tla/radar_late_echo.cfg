CONSTANTS
  NTasks = 3
  IdleTask = 2
  BasePriority <- Prio
  Mutexes = {}
  Sems = {echo_ready}
  SemInitial <- Zero
  SemMax <- One
  MAX_TASKS = 3
  MAX_WAITING_TASKS = 2
  Timeouts = {}
  WAIT_FOREVER = 9
  Delays = {}
  Nested = FALSE
  NULL = NULL
  RadarTask = 0
  EchoReady = echo_ready
  ReadTimeout = 2
  RadarPeriod = 2
  US_PER_CM = 2
  CounterSize = 7
  MaxEcho = 4
SPECIFICATION RadarSpec
INVARIANTS DistanceIsOfThisPing
