CONSTANTS
  t1 = t1
  t2 = t2
  t3 = t3
  p1 = p1
  p2 = p2
  Key = {k1, k2}
  Task = {t1, t2, t3}
  Proc = {p1, p2}
  ProcOf <- MCProcOf
  Waker = {w}
  WakeupCount = {1, 2}
  OneThread = {TRUE}
  MaxFirst = 2
  NULL = NULL
  Elem = {e1, e2, e3, e4}
  Queue = {q1, q2}
  Owner = {o1, o2}
  PopMax = {0, 2, 3}
  null = null
SPECIFICATION WQSpec
INVARIANTS WakesFront
