CONSTANTS
  shared = shared
  Chan = {shared, a1, a2}
  write_block <- MCWriteBlock
  read_block <- MCReadBlock
  queue_lock <- MCQueueLock
  Object <- MCObject
  Task = {t1, t2}
  Thread = {h, w}
  Worker = {h, w}
  First = {h}
  User = {t1, t2, h}
  NULL = NULL
  Cap = 1
  Limit = 10
  MaxQueue = 10
  InitWakeup <- MCInitWakeup
  MaxWakeup <- MCMaxWakeup
SPECIFICATION PSpec
INVARIANTS ChannelBalanced AwaitExact
PROPERTIES ImplementsSemaphore WriterMeetsReader TryPopReturns AwaitReturns
CHECK_DEADLOCK FALSE
