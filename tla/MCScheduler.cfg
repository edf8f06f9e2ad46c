CONSTANTS
  h1 = h1
  h2 = h2
  t1 = t1
  t2 = t2
  NULL = NULL
  Thread = {h1, h2}
  Task = {t1, t2}
  processer_count = 2
  Failures = {"getcontext", "swapcontext"}
SPECIFICATION SchedSpec
INVARIANTS ScheduleExact StackNotShared
PROPERTIES TaskGetsTurn
