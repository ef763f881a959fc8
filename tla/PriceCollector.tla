--------------------------- MODULE PriceCollector ---------------------------
(***************************************************************************)
(* The live prices (PriceCollector.cpp; ResponseListener::onTablesUpdates  *)
(* and Order2Go::getOffers, which feed it).                                *)
(*                                                                         *)
(* Two threads work on it without a lock.  The load worker fills the table *)
(* of collected offers, asks the server for the history of each symbol and *)
(* period and stores its candles.  The API thread gets every offer update  *)
(* from the moment the response listener is subscribed: before the table   *)
(* is filled it must drop them, while the history is loading it must keep  *)
(* them, and afterwards it must fold them, the kept ones first, into the   *)
(* candles.  m_RunState, an atomic, is all that decides who may touch      *)
(* m_Offers, m_Periods, m_CandlesSet and m_PendingOffers, so each load of  *)
(* it is a step of its own here.                                           *)
(*                                                                         *)
(* An offer is its arrival number, symbol and time; a candle is its start  *)
(* and the offers folded into it (open, high, low and close are functions  *)
(* of these).  The volume arithmetic is not modelled.                      *)
(***************************************************************************)
EXTENDS Naturals, Sequences, SequencesExt

CONSTANTS
  Symbols,      \* the instruments ForexConnect reports
  Collected,    \* those of the configuration
  Periods,      \* the periods of the configuration
  Length,       \* the length of a candle of each period
  MaxTime,      \* bound: the times of offers
  MaxOffers,    \* bound: the number of offers
  None          \* no offer

ASSUME PriceCollectorAssumption ==
  /\ Collected \subseteq Symbols
  /\ Length \in [Periods -> Nat \ {0}]
  /\ MaxTime \in Nat /\ MaxOffers \in Nat

VARIABLES
  m_RunState,
  m_Offers,          \* the symbols that have an entry in the map
  m_Periods,
  m_CandlesSet,
  m_PendingOffers,
  wpc, todo,         \* the load worker: where it is, what it has yet to load
  apc, offer,        \* the API thread: where it is, the offer it carries
  flushed,           \* how many pending offers it has folded in this flush
  arrived,           \* number of offers so far
  now,               \* the latest time of an offer
  offerEvents,       \* history: the OFFER events pushed, in order
  candleEvents,      \* history: the CANDLE events pushed, per symbol and period
  folded,            \* history: the offers handled, in order
  loaded             \* history: the candles that came from the server

worker == <<wpc, todo>>
prices == <<m_Offers, m_Periods, m_CandlesSet, m_PendingOffers>>
history == <<offerEvents, candleEvents, folded, loaded>>
vars == <<m_RunState, prices, worker, apc, offer, flushed, arrived, now, history>>

Key == Symbols \X Periods
Time == 0..MaxTime
Offer == [id : 1..MaxOffers, symbol : Symbols, time : Time]
CollectedOffer == {o \in Offer : o.symbol \in Collected}
Candle == [start : Nat, offers : Seq(1..MaxOffers)]

\* Prices of instruments that are not configured get no further than apc = "find".
TypeOK ==
  /\ m_RunState \in {"UNFILL", "FILLED", "READY", "FAILED"}
  /\ m_Offers \subseteq Collected
  /\ m_Periods \subseteq Periods
  /\ m_CandlesSet \in [Key -> Seq(Candle)]
  /\ m_PendingOffers \in Seq(CollectedOffer)
  /\ wpc \in {"fill", "render", "done"}
  /\ todo \subseteq IF wpc = "fill" THEN Collected ELSE m_Offers \X Periods
  /\ apc \in {"idle", "collectable", "find", "push", "dispatch", "pend", "flush", "handle"}
  /\ offer \in Offer \cup {None}
  /\ flushed \in Nat
  /\ arrived \in 0..MaxOffers
  /\ now \in Time
  /\ offerEvents \in Seq(CollectedOffer)
  /\ candleEvents \in [Key -> Seq(Candle)]
  /\ folded \in Seq(CollectedOffer)
  /\ loaded \in [Key -> Seq(Candle)]

Init ==
  /\ m_RunState = "UNFILL"
  /\ m_Offers = {} /\ m_Periods = {} /\ m_PendingOffers = <<>>
  /\ m_CandlesSet = [k \in Key |-> <<>>]
  /\ wpc = "fill" /\ todo = Collected
  /\ apc = "idle" /\ offer = None /\ flushed = 0
  /\ arrived = 0 /\ now = 0
  /\ offerEvents = <<>> /\ folded = <<>>
  /\ candleEvents = [k \in Key |-> <<>>]
  /\ loaded = [k \in Key |-> <<>>]

\* CandlePeriod::getCandle: the start of the candle that a time falls in.
Start(p, t) == t - (t % Length[p])

-----------------------------------------------------------------------------
(* The load worker *)

ApiUnchanged == UNCHANGED <<apc, offer, flushed, arrived, now, offerEvents, candleEvents, folded>>

\* The entry of the symbol is made or overwritten.
updateOffer(s) == m_Offers' = m_Offers \cup {s}

\* getOffers: one row of the offers table.
FillOffer(s) ==
  /\ wpc = "fill" /\ s \in todo
  /\ updateOffer(s)
  /\ todo' = todo \ {s}
  /\ UNCHANGED <<m_RunState, m_Periods, m_CandlesSet, m_PendingOffers, wpc, loaded>>
  /\ ApiUnchanged

\* getOffers: setRunState(FILLED); then renderLivePrices begins.
Filled ==
  /\ wpc = "fill" /\ todo = {}
  /\ m_RunState' = "FILLED"
  /\ wpc' = "render"
  /\ todo' = m_Offers \X Periods
  /\ UNCHANGED <<prices, loaded>>
  /\ ApiUnchanged

\* renderLivePrices: there is no history communicator.
RenderImpossible ==
  /\ wpc = "render" /\ todo = m_Offers \X Periods /\ m_Periods = {}
  /\ m_RunState' = "FAILED"
  /\ wpc' = "done" /\ todo' = {}
  /\ UNCHANGED <<prices, loaded>>
  /\ ApiUnchanged

\* What the server knows of one symbol and period by now: nothing, or candles of
\* which the last one started at any time so far (the earlier ones do not matter).
Histories(p) == {<<>>} \cup {<<[start |-> Start(p, t), offers |-> <<>>]>> : t \in 0..now}

\* getHistoricalPrices succeeds for one symbol and period.
RenderPrices(k) ==
  /\ wpc = "render" /\ k \in todo
  /\ todo' = todo \ {k}
  /\ \E h \in Histories(k[2]) :
       /\ m_CandlesSet' = [m_CandlesSet EXCEPT ![k] = @ \o h]
       /\ loaded' = [loaded EXCEPT ![k] = h]
  /\ m_Periods' = m_Periods \cup {k[2]}
  /\ UNCHANGED <<m_RunState, m_Offers, m_PendingOffers, wpc>>
  /\ ApiUnchanged

RenderFails(k) ==
  /\ wpc = "render" /\ k \in todo
  /\ todo' = todo \ {k}
  /\ UNCHANGED <<m_RunState, prices, wpc, loaded>>
  /\ ApiUnchanged

\* READY as soon as there is one period.
RenderedEarly ==
  /\ wpc = "render" /\ m_Periods # {}
  /\ m_RunState' = "READY"
  /\ UNCHANGED <<prices, worker, loaded>>
  /\ ApiUnchanged

Rendered ==
  /\ wpc = "render" /\ todo = {}
  /\ m_RunState' = IF m_Periods # {} THEN "READY" ELSE "FAILED"
  /\ wpc' = "done"
  /\ UNCHANGED <<prices, todo, loaded>>
  /\ ApiUnchanged

-----------------------------------------------------------------------------
(* The API thread *)

ApiGoto(from, to) == apc = from /\ apc' = to
WorkerUnchanged == UNCHANGED <<m_RunState, worker, m_Offers, m_Periods, loaded>>

\* onTablesUpdates is called with the next update of an offer.  Times may repeat
\* and, between two symbols or after a late packet, go back.
Arrive(s, t) ==
  /\ ApiGoto("idle", "collectable")
  /\ arrived < MaxOffers
  /\ arrived' = arrived + 1
  /\ offer' = [id |-> arrived + 1, symbol |-> s, time |-> t]
  /\ now' = IF t > now THEN t ELSE now
  /\ UNCHANGED <<m_CandlesSet, m_PendingOffers, flushed, offerEvents, candleEvents, folded>>
  /\ WorkerUnchanged

\* isCollectable without the run state.
CollectableUnchecked ==
  /\ ApiGoto("collectable", "find")
  /\ UNCHANGED <<m_CandlesSet, m_PendingOffers, offer, flushed, arrived, now,
                 offerEvents, candleEvents, folded>>
  /\ WorkerUnchanged

\* isCollectable: m_RunState.load() > UNFILL &&
CollectableState ==
  /\ ApiGoto("collectable", IF m_RunState # "UNFILL" THEN "find" ELSE "idle")
  /\ UNCHANGED <<m_CandlesSet, m_PendingOffers, offer, flushed, arrived, now,
                 offerEvents, candleEvents, folded>>
  /\ WorkerUnchanged

\* isCollectable: m_Offers.find(symbol) != m_Offers.end()
CollectableFind ==
  /\ ApiGoto("find", IF offer.symbol \in m_Offers THEN "push" ELSE "idle")
  /\ UNCHANGED <<m_CandlesSet, m_PendingOffers, offer, flushed, arrived, now,
                 offerEvents, candleEvents, folded>>
  /\ WorkerUnchanged

PushOffer ==
  /\ ApiGoto("push", "dispatch")
  /\ offerEvents' = Append(offerEvents, offer)
  /\ UNCHANGED <<m_CandlesSet, m_PendingOffers, offer, flushed, arrived, now, candleEvents, folded>>
  /\ WorkerUnchanged

\* onOfferUpdate: switch (m_RunState.load())
Dispatch ==
  /\ ApiGoto("dispatch", CASE m_RunState = "FILLED" -> "pend"
                           [] m_RunState = "READY" -> "flush"
                           [] OTHER -> "idle")
  /\ UNCHANGED <<m_CandlesSet, m_PendingOffers, offer, flushed, arrived, now,
                 offerEvents, candleEvents, folded>>
  /\ WorkerUnchanged

Pend ==
  /\ ApiGoto("pend", "idle")
  /\ m_PendingOffers' = Append(m_PendingOffers, offer)
  /\ UNCHANGED <<m_CandlesSet, offer, flushed, arrived, now, offerEvents, candleEvents, folded>>
  /\ WorkerUnchanged

\* A late offer goes into the last candle.
FoldLate(cs, b, o) ==
  IF cs = <<>> \/ Last(cs).start < b
  THEN Append(cs, [start |-> b, offers |-> <<o.id>>])
  ELSE [cs EXCEPT ![Len(cs)].offers = Append(@, o.id)]

\* handleOffer: the candles cs after the offer o, whose candle starts at b.
Fold(cs, b, o) ==
  IF cs = <<>> \/ Last(cs).start < b
  THEN Append(cs, [start |-> b, offers |-> <<o.id>>])
  ELSE IF Last(cs).start = b
  THEN [cs EXCEPT ![Len(cs)].offers = Append(@, o.id)]
  ELSE cs

\* A candle is reported when its first offer comes.
CompletesEarly(cs, b) == cs # <<>> /\ Last(cs).start <= b

\* handleOffer: a new candle makes the last one a CANDLE event.
Completes(cs, b) == cs # <<>> /\ Last(cs).start < b

\* handleOffer for every period, then updateOffer, whose entry exists.
HandleOffer(o) ==
  LET live(k) == k[1] = o.symbol /\ k[2] \in m_Periods IN
  /\ m_CandlesSet' = [k \in Key |-> IF live(k) THEN Fold(m_CandlesSet[k], Start(k[2], o.time), o)
                                   ELSE m_CandlesSet[k]]
  /\ candleEvents' = [k \in Key |-> IF live(k) /\ Completes(m_CandlesSet[k], Start(k[2], o.time))
                                   THEN Append(candleEvents[k], Last(m_CandlesSet[k]))
                                   ELSE candleEvents[k]]
  /\ folded' = Append(folded, o)

FlushOne ==
  /\ apc = "flush" /\ flushed < Len(m_PendingOffers)
  /\ HandleOffer(m_PendingOffers[flushed + 1])
  /\ flushed' = flushed + 1
  /\ UNCHANGED <<m_PendingOffers, apc, offer, arrived, now, offerEvents>>
  /\ WorkerUnchanged

\* The flush without m_PendingOffers.clear().
FlushEndUncleared ==
  /\ ApiGoto("flush", "handle") /\ flushed = Len(m_PendingOffers)
  /\ flushed' = 0
  /\ UNCHANGED <<m_PendingOffers, m_CandlesSet, offer, arrived, now, offerEvents, candleEvents, folded>>
  /\ WorkerUnchanged

FlushEnd ==
  /\ ApiGoto("flush", "handle") /\ flushed = Len(m_PendingOffers)
  /\ m_PendingOffers' = <<>>
  /\ flushed' = 0
  /\ UNCHANGED <<m_CandlesSet, offer, arrived, now, offerEvents, candleEvents, folded>>
  /\ WorkerUnchanged

Handle ==
  /\ ApiGoto("handle", "idle")
  /\ HandleOffer(offer)
  /\ UNCHANGED <<m_PendingOffers, offer, flushed, arrived, now, offerEvents>>
  /\ WorkerUnchanged

-----------------------------------------------------------------------------
Worker ==
  \/ \E s \in Symbols : FillOffer(s)
  \/ Filled \/ RenderImpossible \/ Rendered
  \/ \E k \in Key : RenderPrices(k) \/ RenderFails(k)

ApiStep ==
  \/ CollectableState \/ CollectableFind \/ PushOffer \/ Dispatch
  \/ Pend \/ FlushOne \/ FlushEnd \/ Handle

Next == Worker \/ ApiStep \/ \E s \in Symbols, t \in Time : Arrive(s, t)

Spec == Init /\ [][Next]_vars

-----------------------------------------------------------------------------
(* Properties *)

\* The API thread folds prices into the candles only when the worker has
\* finished with m_CandlesSet and m_Periods, although no lock protects them.
CandlesNotShared == wpc # "done" => apc \notin {"flush", "handle"}

\* The map m_Offers does not change while another thread may search or iterate
\* it: the API thread looks into it only when the worker has filled it.
OffersNotShared == wpc = "fill" => apc \in {"idle", "collectable"}

\* Every offer given to JavaScript while the history loaded and since is folded
\* exactly once and in the order of arrival, or waits in m_PendingOffers; the
\* one the API thread is carrying comes last.
Carried == IF apc \in {"dispatch", "pend", "flush", "handle"} THEN <<offer>> ELSE <<>>

NoOfferLost ==
  m_RunState # "FAILED" =>
    offerEvents = folded \o SubSeq(m_PendingOffers, flushed + 1, Len(m_PendingOffers)) \o Carried

\* The starts of the candles of one symbol and period increase, also when offers
\* come late or in the candle the history ended with.
CandlesIncrease ==
  \A k \in Key : \A i, j \in DOMAIN m_CandlesSet[k] :
    i < j => m_CandlesSet[k][i].start < m_CandlesSet[k][j].start

\* Every candle but the last is final once its CANDLE event was pushed (the Node
\* thread reads the same object): the events are the completed candles, each
\* once, in order, from the one the history ended with.
EventsAreFinal ==
  \A k \in Key :
    candleEvents[k] = IF m_CandlesSet[k] = <<>> THEN <<>> ELSE Front(m_CandlesSet[k])

\* Reference: the offers of a symbol that fall in the candle starting at b and
\* did not come after an offer of, or a history ending with, a later candle.
InTime(k, i) ==
  /\ folded[i].symbol = k[1]
  /\ LET b == Start(k[2], folded[i].time) IN
     /\ \A j \in 1..(i - 1) : folded[j].symbol = k[1] => Start(k[2], folded[j].time) <= b
     /\ \A c \in Range(loaded[k]) : c.start <= b

OffersOf(k, b) ==
  {folded[i].id : i \in {n \in DOMAIN folded : InTime(k, n) /\ Start(k[2], folded[n].time) = b}}

\* Each candle of a retrieved period consists of exactly the offers of its time
\* span, the pending ones included, except those that came too late.
CandlesComplete ==
  \A k \in Key : k[2] \in m_Periods /\ wpc = "done" =>
    /\ \A c \in Range(m_CandlesSet[k]) : Range(c.offers) = OffersOf(k, c.start)
    /\ \A i \in DOMAIN folded : InTime(k, i) =>
         \E c \in Range(m_CandlesSet[k]) : c.start = Start(k[2], folded[i].time)
=============================================================================
