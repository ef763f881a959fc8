SPECIFICATION CandlesSpec
CONSTANTS
  Limit = 3
  MaxStart = 6
  MaxTicks = 2
  Depth = 2
  Tol = 1
  MaxDate = 7
  MaxUnread = 1
INVARIANTS BarsAreAWindow NothingSkipped 
PROPERTIES MainForEveryCandle HistoryEnds
CHECK_DEADLOCK FALSE
