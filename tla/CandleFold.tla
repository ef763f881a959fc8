----------------------------- MODULE CandleFold -----------------------------
(***************************************************************************)
(* What is in a candle.  Module PriceCollector follows which offers are    *)
(* folded into which candle, and when; here is what the folding computes:  *)
(* open, high, low, close and the volume of the candles of one symbol in   *)
(* periods of several lengths (PriceCollector::handleOffer, Candle.cpp).   *)
(*                                                                         *)
(* An offer carries its volume as the number of ticks in its minute so     *)
(* far, a candle the number of ticks in all its minutes: the collector     *)
(* adds the difference to the last offer it stored, or all of it in a new  *)
(* minute.  The first offer is stored when the table of offers is read,    *)
(* the history of a period arrives later, and offers that come before all  *)
(* of it has are kept and folded when the next one comes.                  *)
(*                                                                         *)
(* The server's offers come in the order of time.  An update may leave out *)
(* a price that has not changed: it is zero then, and is folded as zero.   *)
(* Ask and bid are treated alike: one price stands for both.  The time and *)
(* the volume are in every update.                                         *)
(*                                                                         *)
(* One call of onOfferUpdate goes through the offers that were kept and    *)
(* the new one, an action for each turn; the calls come one by one.        *)
(***************************************************************************)
EXTENDS Integers, Sequences

LOCAL Seqs == INSTANCE SequencesExt

CONSTANTS
  Period,     \* the lengths of the configured periods in minutes
  Price,      \* bound: the prices
  MaxMinute,  \* bound: the minutes are 0 .. MaxMinute
  MaxOffered  \* bound: the ticks of the market

ASSUME FoldAssumption ==
  /\ Period \subseteq Nat \ {0} /\ Price \subseteq Nat \ {0}
  /\ MaxMinute \in Nat /\ MaxOffered \in Nat

VARIABLES
  tick,             \* the newest offer of the server
  bars,             \* the server's bar of each minute, <<>> before its first tick
  ticks,            \* how many ticks there were: they are numbered
  m_State,          \* m_RunState
  m_Offer,          \* the offer stored in m_Offers
  m_Pending,        \* m_PendingOffers
  inHand,           \* the offers that the call of onOfferUpdate has yet to fold
  m_Candles,        \* m_CandlesSet, for each period
  toLoad,           \* the periods whose history has not been asked for
  exact             \* history: the periods whose history came with no tick since m_Offer

serverVars == <<tick, bars, ticks>>
collector == <<m_State, m_Offer, m_Pending, inHand, m_Candles>>
foldVars == <<serverVars, collector, toLoad, exact>>

Minute == 0 .. MaxMinute
NoPrice == 0

FoldInit ==
  /\ tick \in [minute : {0}, price : Price, volume : {1}]
  /\ bars = [m \in Minute |->
       IF m = 0 THEN <<[open |-> tick.price, high |-> tick.price, low |-> tick.price,
                        close |-> tick.price, first |-> 1, last |-> 1]>>
       ELSE <<>>]
  /\ ticks = 1
  /\ m_State = "UNFILL" /\ m_Offer = tick /\ m_Pending = <<>> /\ inHand = <<>>
  /\ m_Candles = [p \in Period |-> <<>>]
  /\ toLoad = Period /\ exact = {}

-----------------------------------------------------------------------------
(* Candles                                                                 *)

\* The members of a candle, by their getters and setters.
Candle ==
  [start : Minute, open : Price \cup {NoPrice}, high : Price \cup {NoPrice},
   low : Price \cup {NoPrice}, close : Price \cup {NoPrice}, volume : Int]

\* The constructor for a candle of the history.
FullCandle(start, open, high, low, close, volume) ==
  [start |-> start, open |-> open, high |-> high, low |-> low, close |-> close, volume |-> volume]

\* Candle::setAskHighLow, Candle::setBidHighLow
HighLow(c, price) ==
  [c EXCEPT !.high = IF @ < price THEN price ELSE @,
            !.low = IF @ > price THEN price ELSE @]

\* CandlePeriod::getCandle
StartOf(p, minute) == minute - (minute % p)

\* The constructor for a candle that begins with an offer.
NewCandle(start, price, volume) == FullCandle(start, price, price, price, price, volume)

\* Candle::toValue: what JavaScript gets; the means are not divided here.
CandleValue(c) ==
  [start_time |-> c.start, open |-> c.open, high |-> c.high, low |-> c.low, close |-> c.close,
   median2 |-> c.high + c.low, typical3 |-> c.high + c.low + c.close,
   weighted4 |-> c.high + c.low + 2 * c.close, volume |-> c.volume]

\* A mutant: a new minute is not told from the last one.
CountDifference(c, prev, o) == (c.volume - prev.volume) + o.volume

\* The counter of an offer starts again in every minute.
Count(c, prev, o) ==
  IF prev.minute = o.minute THEN (c.volume - prev.volume) + o.volume
  ELSE IF o.minute > prev.minute THEN c.volume + o.volume
  ELSE c.volume

Fold(c, prev, o) ==
  [HighLow([c EXCEPT !.close = o.price], o.price) EXCEPT !.volume = Count(c, prev, o)]

\* A mutant: the first offer of a candle does not count for its high and low.
NextAtClose(c, start, o) == [NewCandle(start, c.close, o.volume) EXCEPT !.close = o.price]

\* A candle opens with the close of the one before.
NextCandle(c, start, o) ==
  HighLow([NewCandle(start, c.close, o.volume) EXCEPT !.close = o.price], o.price)

\* PriceCollector::handleOffer, for one period
Handle(p, cs, prev, o) ==
  LET start == StartOf(p, o.minute) last == cs[Len(cs)] IN
    IF cs = <<>> THEN <<NewCandle(start, o.price, o.volume)>>
    ELSE IF last.start = start THEN [cs EXCEPT ![Len(cs)] = Fold(last, prev, o)]
    ELSE IF last.start < start THEN Append(cs, NextCandle(last, start, o))
    ELSE cs

\* Offer::update keeps the price if there is none.
OfferUpdated(prev, o) == IF o.price = NoPrice THEN [o EXCEPT !.price = prev.price] ELSE o

\* One turn of the loop of onOfferUpdate: handleOffer for every period, then updateOffer.
HandleOffer ==
  /\ inHand # <<>>
  /\ inHand' = Tail(inHand)
  /\ m_Candles' = [p \in Period |-> Handle(p, m_Candles[p], m_Offer, Head(inHand))]
  /\ m_Offer' = OfferUpdated(m_Offer, Head(inHand))
  /\ UNCHANGED <<serverVars, m_State, m_Pending, toLoad, exact>>

-----------------------------------------------------------------------------
(* The load worker                                                         *)

\* getOffers: the row of the offers table ...
ReadOffer ==
  /\ m_State = "UNFILL" /\ m_Offer # tick
  /\ m_Offer' = tick
  /\ UNCHANGED <<serverVars, m_State, m_Pending, inHand, m_Candles, toLoad, exact>>

\* ... and setRunState(FILLED); offers that came in between were dropped.
Filled ==
  /\ m_State = "UNFILL"
  /\ m_State' = "FILLED"
  /\ UNCHANGED <<serverVars, m_Offer, m_Pending, inHand, m_Candles, toLoad, exact>>

Traded(p, start) == {m \in start .. start + p - 1 : m \in Minute /\ bars[m] # <<>>}
Earliest(M) == CHOOSE m \in M : \A n \in M : m <= n
Latest(M) == CHOOSE m \in M : \A n \in M : m >= n
Highest(M, b) == b[CHOOSE m \in M : \A n \in M : b[m].high >= b[n].high].high
Lowest(M, b) == b[CHOOSE m \in M : \A n \in M : b[m].low <= b[n].low].low

\* The server's candle of a period: its volume are the ticks from its first to its last.
Bar(p, start) ==
  LET M == Traded(p, start) b == [m \in M |-> bars[m][1]] IN
    FullCandle(start, b[Earliest(M)].open, Highest(M, b), Lowest(M, b), b[Latest(M)].close,
               b[Latest(M)].last - b[Earliest(M)].first + 1)

\* getHistoricalPrices for one period: the history ends with the candle in progress
\* (the earlier ones do not matter), or there is none.
LoadHistory(p) ==
  /\ m_State = "FILLED" /\ p \in toLoad
  /\ toLoad' = toLoad \ {p}
  /\ \/ /\ m_Candles' = [m_Candles EXCEPT ![p] = <<Bar(p, StartOf(p, tick.minute))>>]
        /\ exact' = IF m_Offer = tick THEN exact \cup {p} ELSE exact
     \/ UNCHANGED <<m_Candles, exact>>
  /\ UNCHANGED <<serverVars, m_State, m_Offer, m_Pending, inHand>>

\* renderLivePrices: setRunState(READY)
Ready ==
  /\ m_State = "FILLED" /\ toLoad = {}
  /\ m_State' = "READY"
  /\ UNCHANGED <<serverVars, m_Offer, m_Pending, inHand, m_Candles, toLoad, exact>>

-----------------------------------------------------------------------------
(* The market ticks and the API thread calls onOfferUpdate                 *)

onOfferUpdate(o) ==
  CASE m_State = "FILLED" -> m_Pending' = Append(m_Pending, o) /\ UNCHANGED inHand
    [] m_State = "READY"  -> inHand' = Append(m_Pending, o) /\ m_Pending' = <<>>
    [] OTHER              -> UNCHANGED <<m_Pending, inHand>>

Tick(minute, price, given) ==
  LET volume == IF minute = tick.minute THEN tick.volume + 1 ELSE 1
      o == [minute |-> minute, price |-> price, volume |-> volume]
      b == IF bars[minute] = <<>>
           THEN [open |-> price, high |-> price, low |-> price, close |-> price,
                 first |-> ticks + 1, last |-> ticks + 1]
           ELSE HighLow([bars[minute][1] EXCEPT !.close = price, !.last = ticks + 1], price)
  IN /\ inHand = <<>> /\ ticks < MaxOffered /\ minute >= tick.minute
     /\ ticks' = ticks + 1
     /\ tick' = o
     /\ bars' = [bars EXCEPT ![minute] = <<b>>]
     /\ ~given => price = tick.price
     /\ onOfferUpdate(IF given THEN o ELSE [o EXCEPT !.price = NoPrice])
     /\ UNCHANGED <<m_State, m_Offer, m_Candles, toLoad, exact>>

FoldNext ==
  \/ ReadOffer \/ Filled \/ Ready \/ HandleOffer
  \/ \E p \in Period : LoadHistory(p)
  \/ \E m \in Minute, price \in Price, given \in BOOLEAN : Tick(m, price, given)

FoldSpec == FoldInit /\ [][FoldNext]_foldVars

-----------------------------------------------------------------------------
\* The types of the state.
Offered == [minute : Minute, price : Price \cup {NoPrice}, volume : Nat]
MinuteBar == [open : Price, high : Price, low : Price, close : Price, first : Nat, last : Nat]

FoldTypeOK ==
  /\ tick \in Offered /\ tick.price \in Price
  /\ bars \in [Minute -> Seq(MinuteBar)] /\ \A m \in Minute : Len(bars[m]) <= 1
  /\ ticks \in Nat
  /\ m_State \in {"UNFILL", "FILLED", "READY"}
  /\ m_Offer \in Offered /\ m_Pending \in Seq(Offered) /\ inHand \in Seq(Offered)
  /\ m_Candles \in [Period -> Seq(Candle)]
  /\ toLoad \subseteq Period /\ exact \subseteq Period

Folded == m_State = "READY" /\ m_Pending = <<>> /\ inHand = <<>>

\* No tick is counted twice or left out: the volume of a candle is the number of the
\* server's ticks in it, whatever minutes its offers came from.  The exception is the
\* candle that was in progress when the history came, if a tick came between the
\* reading of the offer and the history: it is in both.
VolumeIsExact ==
  Folded =>
    \A p \in Period : \A i \in DOMAIN m_Candles[p] :
      LET c == CandleValue(m_Candles[p][i]) IN
        i > 1 \/ p \in exact => c.volume = Bar(p, c.start_time).volume

\* The periods tell the same story: a candle that the collector began is, for
\* JavaScript, put together from the candles of a shorter period that are in it, in
\* progress or not, if the list of these reaches back further.
PartsOf(q, c, p) == {j \in DOMAIN m_Candles[q] : StartOf(p, m_Candles[q][j].start) = c.start}

Volume(J, part) == Seqs!FoldSet(LAMBDA j, sum : part[j].volume + sum, 0, J)

Joined(J, part, start) ==
  FullCandle(start, part[Earliest(J)].open, Highest(J, part), Lowest(J, part),
             part[Latest(J)].close, Volume(J, part))

PeriodsAgree ==
  Folded =>
    \A p, q \in Period : p % q = 0 => \A i \in DOMAIN m_Candles[p] \ {1} :
      LET c == m_Candles[p][i] J == PartsOf(q, c, p) part == m_Candles[q] IN
        part # <<>> /\ part[1].start < c.start =>
          J # {} /\ CandleValue(c) = CandleValue(Joined(J, part, c.start))
=============================================================================
