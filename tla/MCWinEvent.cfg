\* Two waiters, at most four signals (bound MaxSignals).
CONSTANTS
  Waiters = {t1, t2}
  ManualReset = FALSE
  MaxSignals = 4
SPECIFICATION FairSpec
INVARIANTS
  OneWakeupPerSignal
  FlagImpliesCount
PROPERTY SignalReleasesBlocked
