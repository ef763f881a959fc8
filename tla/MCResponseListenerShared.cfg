\* The Node thread places an order while a worker retrieves prices.
CONSTANTS
  Main = main
  Workers = {worker}
  BatchSizes = {1}
  MaxRequests = 2
  None = none
  Timeout = timeout
SPECIFICATION Spec
INVARIANT CompletedIsOwnAnswer
CHECK_DEADLOCK FALSE
