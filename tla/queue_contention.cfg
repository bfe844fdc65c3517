CONSTANTS
  NTasks = 4
  IdleTask = 3
  BasePriority <- Rising3
  Mutexes = {lock1}
  Sems = {empty, filled}
  SemInitial <- InitialTokens
  SemMax <- MaxTokens
  MAX_TASKS = 4
  MAX_WAITING_TASKS = 1
  Timeouts = {0, 1, 9}
  WAIT_FOREVER = 9
  Delays = {1}
  Nested = FALSE
  NULL = NULL
  Producers = {0, 1}
  Consumers = {2}
  QLock = lock1
  EmptySlots = empty
  FilledSlots = filled
  Capacity = 2
  SendTimeouts = {0, 1}
  ReceiveTimeouts = {0, 9}
  MaxMessages = 3
SPECIFICATION QSpec
INVARIANTS QueueTypeOK TokensConserved RingMatchesTokens RingExclusive
PROPERTIES QueueIsLossyFifo
