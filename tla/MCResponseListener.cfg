\* Three requests in all (bound MaxRequests): three of the Node thread, one or two to
\* a call, so that a late answer or a second call meets a batch; or two of the Node
\* thread and a price worker, one each or two calls of the same client.  The system
\* stops when the requests are used up.
CONSTANTS
  Main = main
  Workers = {worker}
  BatchSizes = {2}
  MaxRequests = 3
  None = none
  Timeout = timeout
SPECIFICATION SharedSpec
INVARIANTS
  CompletedIsTrue
  ErrorAgrees
  ResponseIsOwn
  LastCallerIsServed
PROPERTY AnsweredCallReturns
CHECK_DEADLOCK FALSE
