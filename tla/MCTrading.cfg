\* Two accounts, one of them netting and not in the copy; two positions and two calls or
\* moves of others; five ticks over four minutes; four versions of a row and two processes.
SPECIFICATION TradingSpec
CONSTANTS
  Account = {a, b}
  Symbol = {s}
  Netting = {b}
  m_Accounts = {a}
  m_Symbols = {s}
  Unit = {1, 2}
  Rate = {1, 2}
  MaxTrades = 2
  MaxActs = 2
  Period = {1, 2}
  Price = {1, 2}
  MaxMinute = 3
  MaxOffered = 5
  Close = {1, 2}
  MaxVersion = 4
  MaxQueued = 2
  MaxStarts = 2
INVARIANTS CloseAllCloses VolumeIsExact PeriodsAgree RowIsWhole ExtremesAreKept
PROPERTIES CloseOnlyCloses StopIsSet
CHECK_DEADLOCK FALSE
