\* One collected symbol and one that is not, two periods, at most four offers
\* (bound MaxOffers) with times 0..2 (bound MaxTime).  The system stops when the
\* offers are used up.
CONSTANTS
  Symbols = {eur, usd}
  Collected = {eur}
  m1 = m1
  m5 = m5
  Periods = {m1, m5}
  Length <- MCLength
  MaxTime = 2
  MaxOffers = 4
  None = none
SPECIFICATION Spec
INVARIANTS
  CandlesNotShared
  OffersNotShared
  NoOfferLost
  EventsAreFinal
  CandlesComplete
CHECK_DEADLOCK FALSE
