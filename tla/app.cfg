CONSTANTS
  NTasks = 3
  IdleTask = 2
  BasePriority <- Priorities
  Mutexes = {q_lock, uart_lock}
  Sems = {empty, filled, echo_ready}
  SemInitial <- InitialTokens
  SemMax <- MaxTokens
  MAX_TASKS = 3
  MAX_WAITING_TASKS = 2
  Timeouts = {0, 9}
  WAIT_FOREVER = 9
  Delays = {}
  Nested = FALSE
  NULL = NULL
  Producers = {1}
  Consumers = {0}
  QLock = q_lock
  EmptySlots = empty
  FilledSlots = filled
  Capacity = 2
  SendTimeouts = {0}
  ReceiveTimeouts = {0}
  MaxMessages = 4
  Sweep = 1
  Radar = 0
  UartLock = uart_lock
  EchoReady = echo_ready
  SWEEP_STEP_DEG = 90
  SWEEP_PERIOD_MS = 1
  RADAR_PERIOD_MS = 1
  HomeDelay = 1
  ReadTimeout = 1
SPECIFICATION SysFairSpec
INVARIANTS SweepNeverStalls UartUncontended
PROPERTIES ServoGradual AnglesFresh RadarGoesOn
