SPECIFICATION Spec
CONSTANTS
  Drivers = {"none"}
  MaxExits = 2
  MaxLost = 0
  MaxRequests = 1
  Rows = 1
INVARIANTS ReleasedOnce
CHECK_DEADLOCK FALSE
