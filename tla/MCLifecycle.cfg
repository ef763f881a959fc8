SPECIFICATION FairSpec
CONSTANTS
  Drivers = {"none", "sqlite", "mysql", "pgsql"}
  MaxExits = 2
  MaxLost = 1
  MaxRequests = 2
  Rows = 2
INVARIANTS UsedWhileAlive
PROPERTIES LogoutWaits SavedBeforeClose StrategyStarts ExitEnds
CHECK_DEADLOCK FALSE
