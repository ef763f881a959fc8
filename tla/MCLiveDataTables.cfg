\* All five tables with a row each that may be there from the start, two changes
\* (MaxChanges) at any time, without storage and with a database that runs
\* statements in parallel.  The broker stops when its changes are used up.
CONSTANTS
  Kind = {"accounts", "orders", "trades", "closed", "summary"}
  Id = {a}
  MaxChanges = 2
  Driver = {"none", "sqlite"}
SPECIFICATION FairSpec
INVARIANT Mirror
PROPERTY EventuallyShown
CHECK_DEADLOCK FALSE
