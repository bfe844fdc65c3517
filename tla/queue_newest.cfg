CONSTANTS
  NTasks = 3
  IdleTask = 2
  BasePriority <- Rising2
  Mutexes = {lock1}
  Sems = {empty, filled}
  SemInitial <- InitialTokens
  SemMax <- MaxTokens
  MAX_TASKS = 3
  MAX_WAITING_TASKS = 2
  Timeouts = {0, 1, 9}
  WAIT_FOREVER = 9
  Delays = {1}
  Nested = FALSE
  NULL = NULL
  Producers = {0}
  Consumers = {1}
  QLock = lock1
  EmptySlots = empty
  FilledSlots = filled
  Capacity = 1
  SendTimeouts = {0, 1}
  ReceiveTimeouts = {0, 9}
  MaxMessages = 3
SPECIFICATION QSpec
PROPERTIES NewestKept
