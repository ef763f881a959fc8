\* Three threads push at most two events each (bound MaxPush), the queue is
\* cleared at most once (bound MaxClear).
CONSTANTS
  Threads = {api, worker, main}
  Main = main
  NoThread = none
  MaxPush = 2
  MaxClear = 1
SPECIFICATION FairSpec
INVARIANTS
  NothingLostOrReordered
  NoLostWakeup
PROPERTIES ImplementsChannel EventuallyDrained
