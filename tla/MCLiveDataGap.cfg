\* The list of open positions.
CONSTANTS
  Kind = {"trades"}
  Id = {a}
  MaxChanges = 2
  Driver = {"none"}
SPECIFICATION Spec
INVARIANTS PositionsAreOpen
CHECK_DEADLOCK FALSE
