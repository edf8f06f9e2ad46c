CONSTANTS
  t1 = t1
  t2 = t2
  r1 = r1
  r2 = r2
  w = w
  NULL = NULL
  Task = {t1, t2}
  Fd = {r1, r2, w}
  EpollOf <- MCEpollOf
  Waits <- SharedWaits
  AddFails = {}
  MaxId <- SharedMaxId
  MaxEvents = 2
SPECIFICATION IoSafety
INVARIANTS PollCountExact
