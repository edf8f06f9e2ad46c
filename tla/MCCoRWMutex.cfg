CONSTANTS
  mtx_ = mtx_
  Object = {mtx_}
  Task = {t1, t2, t3}
  Thread = {h}
  NULL = NULL
  InitWakeup <- MCOne
  MaxWakeup <- MCOne
SPECIFICATION RWSpec
INVARIANTS ReadersCounted RWExclusion
PROPERTIES WriterGranted
