CONSTANTS
  s1 = s1
  s2 = s2
  m1 = m1
  m0 = m0
  Session = {s1, s2}
  Msg = {m1, m0}
  SessOf <- MCSessOf
  Size <- MCSize
  c_multi = 1
  ChanCapacity = 1
  max_pack_size_ = 0
  Server = {s}
  Client = {c}
  MaxPoint = 2
  PackSize = {4096, 65536}
  Default = 4096
  Resizers = {c}
  nullptr = nullptr
SPECIFICATION NetSpec
INVARIANTS ShutdownLeavesOne ReceiverExact OptionsReach
PROPERTIES SessionCloses ReceiverEnds
CHECK_DEADLOCK FALSE
