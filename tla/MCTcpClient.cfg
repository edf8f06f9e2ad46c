CONSTANTS
  s1 = s1
  m1 = m1
  m2 = m2
  NULL = NULL
  Caller = {c1, c2}
  Session = {s1, s2}
  Msg = {m1, m2}
  SessOf <- MCSessOf
  Size <- MCSize
  c_multi = 2
  ChanCapacity = 1
  max_pack_size_ = 1
SPECIFICATION ClSpec
INVARIANTS MessageInOnePlace StreamExact ClosedOnce OwnsEstablished
CHECK_DEADLOCK FALSE
SYMMETRY Callers
