CONSTANTS
  Timer = {m1, m2}
  Thread = {h1, h2}
  Canceller = {c1, c2}
  Delay = {0, 1}
  MaxTime = 2
  Batch = 2
  NULL = NULL
SPECIFICATION TSpec
INVARIANTS TimerExact CancelExact
PROPERTIES EveryTimerHandled
CHECK_DEADLOCK FALSE
