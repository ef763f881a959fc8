------------------------ MODULE PriceCollectorProofs ------------------------
(***************************************************************************)
(* Proofs about PriceCollector, for any instruments, periods, candle       *)
(* lengths, times and number of offers.                                    *)
(***************************************************************************)
EXTENDS PriceCollector, SequenceTheorems, TLAPS

\* The candles of one symbol and period, in the order of their starts.
Increasing(cs) == \A i, j \in DOMAIN cs : i < j => cs[i].start < cs[j].start

\* The candles of cs that are complete.
Complete(cs) == IF cs = <<>> THEN <<>> ELSE Front(cs)

-----------------------------------------------------------------------------
(* What Fold does to the candles *)

\* A candle starts at a time not before 0.
LEMMA StartType ==
  ASSUME NEW p \in Periods, NEW t \in Nat
  PROVE  Start(p, t) \in Nat
<1> DEFINE n == Length[p]
<1>1. n \in Nat \ {0}
  BY PriceCollectorAssumption
<1>2. t % n \in Nat
  BY <1>1, SMT
<1>3. t % n <= t
  BY <1>1, SMT
<1> QED BY <1>2, <1>3 DEF Start

LEMMA FoldType ==
  ASSUME NEW cs \in Seq(Candle), NEW b \in Nat, NEW o \in Offer
  PROVE  Fold(cs, b, o) \in Seq(Candle)
<1>1. o.id \in 1..MaxOffers
  BY DEF Offer
<1>2. [start |-> b, offers |-> <<o.id>>] \in Candle
  <2>1. <<o.id>> \in Seq(1..MaxOffers)
    BY <1>1
  <2> QED BY <2>1 DEF Candle
<1>3. CASE cs = <<>> \/ Last(cs).start < b
  BY <1>2, <1>3 DEF Fold
<1>4. CASE cs # <<>> /\ Last(cs).start = b
  <2> DEFINE n == Len(cs)  c == [cs[n] EXCEPT !.offers = Append(@, o.id)]
  <2>1. n \in 1..Len(cs) /\ cs[n] \in Candle
    BY <1>4
  <2>2. c \in Candle
    <3>1. cs[n].offers \in Seq(1..MaxOffers)
      BY <2>1 DEF Candle
    <3>2. Append(cs[n].offers, o.id) \in Seq(1..MaxOffers)
      BY <1>1, <3>1
    <3> QED BY <2>1, <3>2 DEF Candle
  <2>3. [cs EXCEPT ![n] = c] \in Seq(Candle)
    BY <2>1, <2>2, ExceptSeq
  <2>4. ~(cs = <<>> \/ Last(cs).start < b)
    BY <1>4
  <2>5. Fold(cs, b, o) = [cs EXCEPT ![n] = c]
    BY <1>4, <2>4 DEF Fold
  <2> QED BY <2>3, <2>5
<1>5. CASE ~(cs = <<>> \/ Last(cs).start < b) /\ Last(cs).start # b
  BY <1>5 DEF Fold
<1> QED BY <1>3, <1>4, <1>5

\* What Fold returns, by cases.
LEMMA FoldCases ==
  ASSUME NEW cs \in Seq(Candle), NEW b \in Nat, NEW o \in Offer
  PROVE  \/ /\ cs = <<>> \/ Last(cs).start < b
            /\ Fold(cs, b, o) = Append(cs, [start |-> b, offers |-> <<o.id>>])
         \/ /\ cs # <<>> /\ Last(cs).start = b
            /\ Fold(cs, b, o) = [cs EXCEPT ![Len(cs)] =
                                   [cs[Len(cs)] EXCEPT !.offers = Append(@, o.id)]]
         \/ /\ cs # <<>> /\ ~(Last(cs).start < b) /\ Last(cs).start # b
            /\ Fold(cs, b, o) = cs
<1>1. CASE cs = <<>> \/ Last(cs).start < b
  BY <1>1 DEF Fold
<1>2. CASE cs # <<>> /\ Last(cs).start = b
  <2>1. ~(cs = <<>> \/ Last(cs).start < b)
    BY <1>2
  <2> QED BY <1>2, <2>1 DEF Fold
<1>3. CASE cs # <<>> /\ ~(Last(cs).start < b) /\ Last(cs).start # b
  BY <1>3 DEF Fold
<1> QED BY <1>1, <1>2, <1>3

\* Folding keeps the candles in the order of their starts.
LEMMA FoldIncreasing ==
  ASSUME NEW cs \in Seq(Candle), Increasing(cs), NEW b \in Nat, NEW o \in Offer
  PROVE  Increasing(Fold(cs, b, o))
<1> DEFINE fs == Fold(cs, b, o)  n == Len(cs)
<1>0. n \in Nat /\ DOMAIN cs = 1..n /\ \A i \in 1..n : cs[i].start \in Nat
  <2>1. n \in Nat /\ DOMAIN cs = 1..n
    OBVIOUS
  <2>2. ASSUME NEW i \in 1..n PROVE cs[i].start \in Nat
    <3>1. cs[i] \in Candle
      BY <2>2
    <3> QED BY <3>1 DEF Candle
  <2> QED BY <2>1, <2>2
<1>1. CASE cs = <<>> \/ Last(cs).start < b
  <2> DEFINE c == [start |-> b, offers |-> <<o.id>>]
  <2>1. fs = Append(cs, c)
    BY <1>1 DEF Fold
  <2>2. DOMAIN fs = 1..(n + 1) /\ fs[n + 1].start = b /\ \A i \in 1..n : fs[i] = cs[i]
    <3>1. c.start = b
      OBVIOUS
    <3> HIDE DEF c
    <3> QED BY <2>1, <3>1
  <2>3. ASSUME NEW i \in 1..n PROVE cs[i].start < b
    <3>1. cs[n].start < b
      BY <1>0, <1>1, <2>3 DEF Last
    <3>2. i = n \/ cs[i].start < cs[n].start
      <4>1. i \in DOMAIN cs /\ n \in DOMAIN cs /\ (i = n \/ i < n)
        BY <2>3
      <4> QED BY <4>1 DEF Increasing
    <3>3. b \in Nat /\ cs[i].start \in Nat /\ cs[n].start \in Nat
      <4>1. n \in 1..n
        BY <2>3
      <4> QED BY <1>0, <2>3, <4>1
    <3> QED BY <3>1, <3>2, <3>3
  <2> QED BY <1>0, <2>2, <2>3 DEF Increasing
<1>2. CASE cs # <<>> /\ fs = [cs EXCEPT ![n] = [cs[n] EXCEPT !.offers = Append(@, o.id)]]
  <2>1. DOMAIN fs = DOMAIN cs
    BY <1>2
  <2>2. ASSUME NEW i \in DOMAIN cs PROVE fs[i].start = cs[i].start
    <3>1. [cs[n] EXCEPT !.offers = Append(@, o.id)].start = cs[n].start
      BY <1>0, <1>2 DEF Candle
    <3> QED BY <1>2, <3>1
  <2> QED BY <2>1, <2>2 DEF Increasing
<1>3. CASE fs = cs
  BY <1>3
<1> QED BY <1>1, <1>2, <1>3, FoldCases

\* Folding adds to the complete candles exactly the one it reports.
LEMMA FoldCompletes ==
  ASSUME NEW cs \in Seq(Candle), NEW b \in Nat, NEW o \in Offer
  PROVE  Complete(Fold(cs, b, o)) =
           IF Completes(cs, b) THEN Append(Complete(cs), Last(cs)) ELSE Complete(cs)
<1> DEFINE fs == Fold(cs, b, o)  n == Len(cs)
<1>0. n \in Nat /\ DOMAIN cs = 1..n
  OBVIOUS
<1>1. CASE cs = <<>> \/ Last(cs).start < b
  <2> DEFINE c == [start |-> b, offers |-> <<o.id>>]
  <2>1. fs = Append(cs, c)
    BY <1>1 DEF Fold
  <2>2. Complete(fs) = cs
    <3> HIDE DEF c
    <3> QED BY <2>1 DEF Complete, Front
  <2>3. CASE cs = <<>>
    BY <2>2, <2>3 DEF Complete, Completes
  <2>4. CASE cs # <<>> /\ Last(cs).start < b
    <3>1. Append(Front(cs), Last(cs)) = cs
      BY <2>4 DEF Front, Last
    <3> QED BY <2>2, <2>4, <3>1 DEF Complete, Completes
  <2> QED BY <1>1, <2>3, <2>4
<1>2. CASE cs # <<>> /\ Last(cs).start = b
           /\ fs = [cs EXCEPT ![n] = [cs[n] EXCEPT !.offers = Append(@, o.id)]]
  <2> DEFINE c == [cs[n] EXCEPT !.offers = Append(@, o.id)]
  <2>1. fs = [cs EXCEPT ![n] = c]
    BY <1>2
  <2>2. Complete(fs) = Complete(cs)
    <3> HIDE DEF c
    <3>1. SubSeq(fs, 1, n - 1) = SubSeq(cs, 1, n - 1)
      BY <1>2, <2>1
    <3>2. Len(fs) = n /\ fs # <<>>
      BY <1>2, <2>1
    <3> QED BY <1>2, <3>1, <3>2 DEF Complete, Front
  <2>3. ~Completes(cs, b)
    BY <1>2 DEF Completes
  <2> QED BY <2>2, <2>3
<1>3. CASE cs # <<>> /\ ~(Last(cs).start < b) /\ fs = cs
  BY <1>3 DEF Completes
<1> QED BY <1>1, <1>2, <1>3, FoldCases

-----------------------------------------------------------------------------
(* The inductive invariant *)

\* The run state says how far the worker is.
RunStateOfWorker ==
  /\ wpc = "fill" => m_RunState = "UNFILL"
  /\ wpc = "render" => m_RunState = "FILLED"
  /\ wpc = "done" => m_RunState \in {"READY", "FAILED"}

\* What the API thread has seen of the run state and the table still holds.
ApiKnows ==
  /\ apc \notin {"idle", "collectable"} => m_RunState # "UNFILL"
  /\ apc \in {"flush", "handle"} => m_RunState = "READY"
  /\ apc # "idle" => offer \in Offer
  /\ apc \in {"push", "dispatch", "pend", "flush", "handle"} => offer.symbol \in Collected

\* The flush stays within the pending offers and leaves none.
FlushCounts ==
  /\ flushed <= Len(m_PendingOffers)
  /\ apc # "flush" => flushed = 0
  /\ apc = "handle" => m_PendingOffers = <<>>

\* A history is stored where there are no candles yet.
NotLoadedYet ==
  \A k \in Key :
    wpc = "fill" \/ (wpc = "render" /\ k \in todo) => m_CandlesSet[k] = <<>>

Candles == NotLoadedYet /\ CandlesIncrease /\ EventsAreFinal

IInv ==
  /\ TypeOK
  /\ RunStateOfWorker /\ ApiKnows /\ FlushCounts
  /\ NoOfferLost
  /\ Candles

-----------------------------------------------------------------------------
LEMMA InitIInv == Init => IInv
<1> SUFFICES ASSUME Init PROVE IInv
  OBVIOUS
<1> USE PriceCollectorAssumption DEF Init
<1>1. TypeOK
  <2>1. 0 \in 0..MaxOffers /\ 0 \in Time
    BY DEF Time
  <2>2. <<>> \in Seq(CollectedOffer) /\ [k \in Key |-> <<>>] \in [Key -> Seq(Candle)]
    <3>1. <<>> \in Seq(CollectedOffer) /\ <<>> \in Seq(Candle)
      OBVIOUS
    <3> QED BY <3>1
  <2> QED BY <2>1, <2>2 DEF TypeOK
<1>2. RunStateOfWorker /\ ApiKnows
  BY DEF RunStateOfWorker, ApiKnows
<1>3. FlushCounts
  <2>1. 0 <= 0
    OBVIOUS
  <2> QED BY <2>1 DEF FlushCounts
<1>4. NoOfferLost
  BY DEF NoOfferLost, Carried
<1>5. Candles
  <2>1. NotLoadedYet
    BY DEF NotLoadedYet
  <2>2. CandlesIncrease
    BY DEF CandlesIncrease
  <2>3. EventsAreFinal
    BY DEF EventsAreFinal
  <2> QED BY <2>1, <2>2, <2>3 DEF Candles
<1> QED BY <1>1, <1>2, <1>3, <1>4, <1>5 DEF IInv

\* The API thread works on the candles only when the worker is done.
LEMMA SharedByNobody ==
  ASSUME IInv
  PROVE  CandlesNotShared /\ OffersNotShared
BY DEF IInv, TypeOK, RunStateOfWorker, ApiKnows, CandlesNotShared, OffersNotShared

\* Folding an offer into all live candles of its symbol.
LEMMA HandleOfferCandles ==
  ASSUME IInv, NEW o \in CollectedOffer, HandleOffer(o)
  PROVE  /\ m_CandlesSet' \in [Key -> Seq(Candle)]
         /\ candleEvents' \in [Key -> Seq(Candle)]
         /\ folded' \in Seq(CollectedOffer)
         /\ CandlesIncrease'
         /\ EventsAreFinal'
<1> DEFINE Live(k) == k[1] = o.symbol /\ k[2] \in m_Periods
           B(k) == Start(k[2], o.time)
<1>1. /\ m_CandlesSet \in [Key -> Seq(Candle)]
      /\ candleEvents \in [Key -> Seq(Candle)]
      /\ folded \in Seq(CollectedOffer)
  BY DEF IInv, TypeOK
<1>2. o \in Offer /\ o.time \in Nat
  BY PriceCollectorAssumption DEF CollectedOffer, Offer, Time
<1>3. folded' \in Seq(CollectedOffer)
  <2>1. folded' = Append(folded, o)
    BY DEF HandleOffer
  <2> QED BY <1>1, <2>1
<1>4. ASSUME NEW k \in Key
      PROVE  /\ m_CandlesSet'[k] \in Seq(Candle)
             /\ candleEvents'[k] \in Seq(Candle)
             /\ Increasing(m_CandlesSet'[k])
             /\ candleEvents'[k] = Complete(m_CandlesSet'[k])
  <2> DEFINE cs == m_CandlesSet[k]
  <2>1. cs \in Seq(Candle) /\ candleEvents[k] \in Seq(Candle)
    BY <1>1
  <2>2. B(k) \in Nat
    <3>1. k[2] \in Periods
      BY DEF Key
    <3> QED BY <1>2, <3>1, StartType
  <2>3. Increasing(cs)
    BY DEF IInv, Candles, CandlesIncrease, Increasing
  <2>4. candleEvents[k] = Complete(cs)
    BY DEF IInv, Candles, EventsAreFinal, Complete
  <2>5. CASE ~Live(k)
    <3>1. m_CandlesSet'[k] = cs /\ candleEvents'[k] = candleEvents[k]
      BY <2>5 DEF HandleOffer
    <3> QED BY <2>1, <2>3, <2>4, <3>1
  <2>6. CASE Live(k)
    <3>1. m_CandlesSet'[k] = Fold(cs, B(k), o)
      BY <2>6 DEF HandleOffer
    <3>2. candleEvents'[k] = IF Completes(cs, B(k)) THEN Append(candleEvents[k], Last(cs))
                             ELSE candleEvents[k]
      BY <2>6 DEF HandleOffer
    <3>3. Fold(cs, B(k), o) \in Seq(Candle)
      BY <1>2, <2>1, <2>2, FoldType
    <3>4. Increasing(Fold(cs, B(k), o))
      BY <1>2, <2>1, <2>2, <2>3, FoldIncreasing
    <3>5. candleEvents'[k] = Complete(Fold(cs, B(k), o))
      BY <1>2, <2>1, <2>2, <2>4, <3>2, FoldCompletes
    <3>6. candleEvents'[k] \in Seq(Candle)
      <4>1. CASE Completes(cs, B(k))
        <5>1. Last(cs) \in Candle
          BY <2>1, <4>1 DEF Completes, Last
        <5> QED BY <2>1, <3>2, <4>1, <5>1
      <4>2. CASE ~Completes(cs, B(k))
        BY <2>1, <3>2, <4>2
      <4> QED BY <4>1, <4>2
    <3> QED BY <3>1, <3>3, <3>4, <3>5, <3>6
  <2> QED BY <2>5, <2>6
<1>5. m_CandlesSet' \in [Key -> Seq(Candle)] /\ candleEvents' \in [Key -> Seq(Candle)]
  <2>1. /\ m_CandlesSet' = [k \in Key |-> m_CandlesSet'[k]]
        /\ candleEvents' = [k \in Key |-> candleEvents'[k]]
    BY DEF HandleOffer
  <2> QED BY <1>4, <2>1
<1>6. CandlesIncrease'
  BY <1>4 DEF CandlesIncrease, Increasing
<1>7. EventsAreFinal'
  BY <1>4 DEF EventsAreFinal, Complete
<1> QED BY <1>3, <1>5, <1>6, <1>7

-----------------------------------------------------------------------------
(* Every step preserves the invariant *)

\* A step that leaves the candles and their events alone, and does not begin the
\* history of any symbol and period, leaves Candles true.
LEMMA CandlesUnchanged ==
  ASSUME Candles, UNCHANGED <<m_CandlesSet, candleEvents>>,
         \A k \in Key : wpc' = "fill" \/ (wpc' = "render" /\ k \in todo') =>
                         wpc = "fill" \/ (wpc = "render" /\ k \in todo)
  PROVE  Candles'
BY DEF Candles, NotLoadedYet, CandlesIncrease, EventsAreFinal

\* A step of the worker leaves the API thread and its offers alone.
LEMMA WorkerKeepsOffers ==
  ASSUME IInv, ApiUnchanged, UNCHANGED m_PendingOffers,
         m_RunState' = "UNFILL" => m_RunState = "UNFILL",
         m_RunState = "READY" => m_RunState' = "READY",
         m_RunState = "FAILED" => m_RunState' = "FAILED"
  PROVE  ApiKnows' /\ FlushCounts' /\ NoOfferLost'
<1>1. m_RunState \in {"UNFILL", "FILLED", "READY", "FAILED"}
  BY DEF IInv, TypeOK
<1>2. ApiKnows'
  BY <1>1 DEF IInv, ApiUnchanged, ApiKnows
<1>3. FlushCounts'
  BY DEF IInv, ApiUnchanged, FlushCounts
<1>4. NoOfferLost'
  BY DEF IInv, ApiUnchanged, NoOfferLost, Carried
<1> QED BY <1>2, <1>3, <1>4

\* Every step of the load worker preserves IInv.
LEMMA WorkerIInv ==
  ASSUME IInv, Worker
  PROVE  IInv'
<1> USE PriceCollectorAssumption
<1>0. TypeOK /\ RunStateOfWorker /\ Candles
  BY DEF IInv
<1>1. ASSUME NEW s \in Symbols, FillOffer(s) PROVE IInv'
  <2>1. TypeOK'
    BY <1>0, <1>1 DEF FillOffer, updateOffer, ApiUnchanged, TypeOK
  <2>2. RunStateOfWorker'
    BY <1>0, <1>1 DEF FillOffer, updateOffer, RunStateOfWorker
  <2>3. ApiKnows' /\ FlushCounts' /\ NoOfferLost'
    BY <1>1, WorkerKeepsOffers DEF FillOffer, updateOffer
  <2>4. Candles'
    BY <1>0, <1>1, CandlesUnchanged DEF FillOffer, updateOffer, ApiUnchanged
  <2> QED BY <2>1, <2>2, <2>3, <2>4 DEF IInv
<1>2. CASE Filled
  <2>1. TypeOK'
    BY <1>0, <1>2 DEF Filled, prices, ApiUnchanged, TypeOK
  <2>2. RunStateOfWorker' /\ m_RunState = "UNFILL"
    BY <1>0, <1>2 DEF Filled, RunStateOfWorker
  <2>3. ApiKnows' /\ FlushCounts' /\ NoOfferLost'
    BY <1>2, <2>2, WorkerKeepsOffers DEF Filled, prices
  <2>4. Candles'
    BY <1>0, <1>2, CandlesUnchanged DEF Filled, prices, ApiUnchanged
  <2> QED BY <2>1, <2>2, <2>3, <2>4 DEF IInv
<1>3. CASE RenderImpossible
  <2>1. TypeOK'
    BY <1>0, <1>3 DEF RenderImpossible, prices, ApiUnchanged, TypeOK
  <2>2. RunStateOfWorker' /\ m_RunState = "FILLED"
    BY <1>0, <1>3 DEF RenderImpossible, RunStateOfWorker
  <2>3. ApiKnows' /\ FlushCounts' /\ NoOfferLost'
    BY <1>3, <2>2, WorkerKeepsOffers DEF RenderImpossible, prices
  <2>4. Candles'
    BY <1>0, <1>3, CandlesUnchanged DEF RenderImpossible, prices, ApiUnchanged
  <2> QED BY <2>1, <2>2, <2>3, <2>4 DEF IInv
<1>4. CASE Rendered
  <2>1. TypeOK'
    BY <1>0, <1>4 DEF Rendered, prices, ApiUnchanged, TypeOK
  <2>2. RunStateOfWorker' /\ m_RunState = "FILLED"
    BY <1>0, <1>4 DEF Rendered, RunStateOfWorker
  <2>3. ApiKnows' /\ FlushCounts' /\ NoOfferLost'
    BY <1>4, <2>2, WorkerKeepsOffers DEF Rendered, prices
  <2>4. Candles'
    BY <1>0, <1>4, CandlesUnchanged DEF Rendered, prices, ApiUnchanged
  <2> QED BY <2>1, <2>2, <2>3, <2>4 DEF IInv
<1>5. ASSUME NEW k \in Key, RenderFails(k) PROVE IInv'
  <2>1. TypeOK'
    BY <1>0, <1>5 DEF RenderFails, prices, ApiUnchanged, TypeOK
  <2>2. RunStateOfWorker'
    BY <1>0, <1>5 DEF RenderFails, RunStateOfWorker
  <2>3. ApiKnows' /\ FlushCounts' /\ NoOfferLost'
    BY <1>5, WorkerKeepsOffers DEF RenderFails, prices
  <2>4. Candles'
    BY <1>0, <1>5, CandlesUnchanged DEF RenderFails, prices, ApiUnchanged
  <2> QED BY <2>1, <2>2, <2>3, <2>4 DEF IInv
<1>6. ASSUME NEW k \in Key, RenderPrices(k) PROVE IInv'
  <2>1. PICK h \in Histories(k[2]) :
          /\ m_CandlesSet' = [m_CandlesSet EXCEPT ![k] = @ \o h]
          /\ loaded' = [loaded EXCEPT ![k] = h]
    BY <1>6 DEF RenderPrices
  <2>2. k[2] \in Periods
    BY DEF Key
  <2>3. h \in Seq(Candle) /\ Increasing(h) /\ Complete(h) = <<>>
    <3>1. CASE h = <<>>
      BY <3>1 DEF Increasing, Complete
    <3>2. ASSUME NEW t \in 0..now, h = <<[start |-> Start(k[2], t), offers |-> <<>>]>>
          PROVE  h \in Seq(Candle) /\ Increasing(h) /\ Complete(h) = <<>>
      <4> DEFINE c == [start |-> Start(k[2], t), offers |-> <<>>]
      <4>1. Start(k[2], t) \in Nat
        BY <2>2, StartType
      <4>2. <<>> \in Seq(1..MaxOffers)
        OBVIOUS
      <4>3. c \in Candle
        BY <4>1, <4>2 DEF Candle
      <4>4. h = <<c>>
        BY <3>2
      <4> HIDE DEF c
      <4>5. h \in Seq(Candle) /\ Len(h) = 1
        BY <4>3, <4>4
      <4>6. Increasing(h)
        BY <4>5 DEF Increasing
      <4>7. Complete(h) = <<>>
        BY <4>5 DEF Complete, Front
      <4> QED BY <4>5, <4>6, <4>7
    <3> QED BY <3>1, <3>2 DEF Histories
  <2>4. m_CandlesSet[k] = <<>> /\ candleEvents[k] = <<>>
    <3>1. m_CandlesSet[k] = <<>>
      BY <1>0, <1>6 DEF RenderPrices, Candles, NotLoadedYet
    <3> QED BY <1>0, <3>1 DEF Candles, EventsAreFinal
  <2>5. m_CandlesSet' = [m_CandlesSet EXCEPT ![k] = h]
    <3>1. m_CandlesSet[k] \o h = h
      BY <2>3, <2>4
    <3> QED BY <2>1, <3>1
  <2>6. m_CandlesSet \in [Key -> Seq(Candle)] /\ loaded \in [Key -> Seq(Candle)]
    BY <1>0 DEF TypeOK
  <2>7. TypeOK'
    <3>1. m_CandlesSet' \in [Key -> Seq(Candle)] /\ loaded' \in [Key -> Seq(Candle)]
      BY <2>1, <2>3, <2>5, <2>6
    <3> QED BY <1>0, <1>6, <2>2, <3>1 DEF RenderPrices, ApiUnchanged, TypeOK
  <2>8. RunStateOfWorker'
    BY <1>0, <1>6 DEF RenderPrices, RunStateOfWorker
  <2>9. ApiKnows' /\ FlushCounts' /\ NoOfferLost'
    BY <1>6, WorkerKeepsOffers DEF RenderPrices
  <2>10. Candles'
    <3>1. \A j \in Key : m_CandlesSet'[j] = IF j = k THEN h ELSE m_CandlesSet[j]
      BY <2>5, <2>6
    <3>2. UNCHANGED candleEvents /\ wpc = "render" /\ wpc' = "render" /\ todo' = todo \ {k}
      BY <1>6 DEF RenderPrices, ApiUnchanged
    <3>3. NotLoadedYet'
      BY <1>0, <3>1, <3>2 DEF Candles, NotLoadedYet
    <3>4. CandlesIncrease'
      BY <1>0, <2>3, <3>1 DEF Candles, CandlesIncrease, Increasing
    <3>5. EventsAreFinal'
      <4>1. \A j \in Key : candleEvents'[j] = Complete(m_CandlesSet'[j])
        BY <1>0, <2>3, <2>4, <3>1, <3>2 DEF Candles, EventsAreFinal, Complete
      <4> QED BY <4>1 DEF EventsAreFinal, Complete
    <3> QED BY <3>3, <3>4, <3>5 DEF Candles
  <2> QED BY <2>7, <2>8, <2>9, <2>10 DEF IInv
<1> QED BY <1>1, <1>2, <1>3, <1>4, <1>5, <1>6 DEF Worker

\* The next of the offers p goes over to the offers f.
LEMMA OfferMoves ==
  ASSUME NEW S, NEW f \in Seq(S), NEW p \in Seq(S), NEW n \in Nat, n < Len(p)
  PROVE  f \o SubSeq(p, n + 1, Len(p)) = Append(f, p[n + 1]) \o SubSeq(p, n + 2, Len(p))
<1> DEFINE x == p[n + 1]  rest == SubSeq(p, n + 2, Len(p))
<1>1. SubSeq(p, n + 1, Len(p)) = <<x>> \o rest
  OBVIOUS
<1>2. x \in S
  OBVIOUS
<1>3. <<x>> \in Seq(S) /\ rest \in Seq(S)
  BY <1>2
<1>4. Append(f, x) = f \o <<x>>
  BY <1>2, AppendIsConcat
<1> HIDE DEF x, rest
<1>5. f \o (<<x>> \o rest) = (f \o <<x>>) \o rest
  BY <1>3, ConcatAssociative
<1> QED BY <1>1, <1>4, <1>5 DEF x, rest

\* A step of the API thread that leaves the candles alone.
LEMMA ApiKeepsCandles ==
  ASSUME IInv, WorkerUnchanged, UNCHANGED <<m_CandlesSet, candleEvents>>
  PROVE  RunStateOfWorker' /\ Candles'
<1>1. RunStateOfWorker'
  BY DEF IInv, WorkerUnchanged, worker, RunStateOfWorker
<1>2. Candles'
  BY CandlesUnchanged DEF IInv, WorkerUnchanged, worker
<1> QED BY <1>1, <1>2

\* A new offer preserves IInv.
LEMMA ArriveIInv ==
  ASSUME IInv, NEW s \in Symbols, NEW t \in Time, Arrive(s, t)
  PROVE  IInv'
<1>1. offer' \in Offer /\ arrived' \in 0..MaxOffers /\ now' \in Time
  <2>1. arrived \in 0..MaxOffers /\ arrived < MaxOffers /\ now \in Time
    BY DEF IInv, TypeOK, Arrive
  <2>2. arrived + 1 \in 1..MaxOffers
    BY <2>1, PriceCollectorAssumption
  <2> QED BY <2>1, <2>2 DEF Arrive, Offer
<1>2. TypeOK'
  BY <1>1 DEF IInv, TypeOK, Arrive, ApiGoto, WorkerUnchanged, worker
<1>3. ApiKnows' /\ FlushCounts'
  BY <1>1 DEF IInv, ApiKnows, FlushCounts, Arrive, ApiGoto, WorkerUnchanged
<1>4. NoOfferLost'
  BY DEF IInv, NoOfferLost, Carried, Arrive, ApiGoto, WorkerUnchanged
<1>5. RunStateOfWorker' /\ Candles'
  BY ApiKeepsCandles DEF Arrive
<1> QED BY <1>2, <1>3, <1>4, <1>5 DEF IInv

\* Every step of the API thread preserves IInv.
LEMMA ApiIInv ==
  ASSUME IInv, ApiStep
  PROVE  IInv'
<1>0. /\ TypeOK /\ RunStateOfWorker /\ ApiKnows /\ FlushCounts
      /\ m_RunState \in {"UNFILL", "FILLED", "READY", "FAILED"}
      /\ m_PendingOffers \in Seq(CollectedOffer)
      /\ offerEvents \in Seq(CollectedOffer) /\ folded \in Seq(CollectedOffer)
      /\ flushed \in Nat /\ flushed <= Len(m_PendingOffers)
  BY DEF IInv, TypeOK, FlushCounts
<1>c. ASSUME apc \in {"push", "dispatch", "pend", "flush", "handle"} PROVE offer \in CollectedOffer
  BY <1>c, <1>0 DEF ApiKnows, CollectedOffer
<1>1. CASE CollectableState
  <2>1. TypeOK'
    BY <1>0, <1>1 DEF TypeOK, CollectableState, ApiGoto, WorkerUnchanged, worker
  <2>2. ApiKnows' /\ FlushCounts'
    BY <1>0, <1>1 DEF ApiKnows, FlushCounts, CollectableState, ApiGoto, WorkerUnchanged
  <2>3. NoOfferLost'
    BY <1>1 DEF IInv, NoOfferLost, Carried, CollectableState, ApiGoto, WorkerUnchanged
  <2>4. RunStateOfWorker' /\ Candles'
    BY <1>1, ApiKeepsCandles DEF CollectableState
  <2> QED BY <2>1, <2>2, <2>3, <2>4 DEF IInv
<1>2. CASE CollectableFind
  <2>1. TypeOK'
    BY <1>0, <1>2 DEF TypeOK, CollectableFind, ApiGoto, WorkerUnchanged, worker
  <2>2. ApiKnows' /\ FlushCounts'
    <3>1. m_Offers \subseteq Collected
      BY <1>0 DEF TypeOK
    <3> QED BY <1>0, <1>2, <3>1 DEF ApiKnows, FlushCounts, CollectableFind, ApiGoto, WorkerUnchanged
  <2>3. NoOfferLost'
    BY <1>2 DEF IInv, NoOfferLost, Carried, CollectableFind, ApiGoto, WorkerUnchanged
  <2>4. RunStateOfWorker' /\ Candles'
    BY <1>2, ApiKeepsCandles DEF CollectableFind
  <2> QED BY <2>1, <2>2, <2>3, <2>4 DEF IInv
<1>3. CASE PushOffer
  <2>1. offer \in CollectedOffer
    BY <1>c, <1>3 DEF PushOffer, ApiGoto
  <2>2. TypeOK'
    BY <1>0, <1>3, <2>1 DEF TypeOK, PushOffer, ApiGoto, WorkerUnchanged, worker
  <2>3. ApiKnows' /\ FlushCounts'
    BY <1>0, <1>3 DEF ApiKnows, FlushCounts, PushOffer, ApiGoto, WorkerUnchanged
  <2>4. NoOfferLost'
    <3> DEFINE rest == SubSeq(m_PendingOffers, flushed + 1, Len(m_PendingOffers))
    <3>1. rest \in Seq(CollectedOffer)
      BY <1>0
    <3>2. Carried = <<>> /\ Carried' = <<offer>>
      BY <1>3 DEF PushOffer, ApiGoto, Carried
    <3>3. m_RunState # "FAILED" => offerEvents = folded \o rest \o <<>>
      BY <3>2 DEF IInv, NoOfferLost
    <3> HIDE DEF rest
    <3>4. m_RunState # "FAILED" => Append(offerEvents, offer) = folded \o rest \o <<offer>>
      BY <1>0, <2>1, <3>1, <3>3
    <3> QED BY <1>3, <3>2, <3>4 DEF NoOfferLost, PushOffer, WorkerUnchanged, rest
  <2>5. RunStateOfWorker' /\ Candles'
    BY <1>3, ApiKeepsCandles DEF PushOffer
  <2> QED BY <2>2, <2>3, <2>4, <2>5 DEF IInv
<1>4. CASE Dispatch
  <2>0. m_RunState \in {"FILLED", "READY", "FAILED"}
    BY <1>0, <1>4 DEF ApiKnows, Dispatch, ApiGoto
  <2>1. TypeOK'
    BY <1>0, <1>4, <2>0 DEF TypeOK, Dispatch, ApiGoto, WorkerUnchanged, worker
  <2>2. ApiKnows' /\ FlushCounts'
    BY <1>0, <1>4, <2>0 DEF ApiKnows, FlushCounts, Dispatch, ApiGoto, WorkerUnchanged
  <2>3. NoOfferLost'
    BY <1>4, <2>0 DEF IInv, NoOfferLost, Carried, Dispatch, ApiGoto, WorkerUnchanged
  <2>4. RunStateOfWorker' /\ Candles'
    BY <1>4, ApiKeepsCandles DEF Dispatch
  <2> QED BY <2>1, <2>2, <2>3, <2>4 DEF IInv
<1>5. CASE Pend
  <2>1. offer \in CollectedOffer
    BY <1>c, <1>5 DEF Pend, ApiGoto
  <2>2. TypeOK'
    BY <1>0, <1>5, <2>1 DEF TypeOK, Pend, ApiGoto, WorkerUnchanged, worker
  <2>3. flushed = 0
    BY <1>0, <1>5 DEF FlushCounts, Pend, ApiGoto
  <2>4. ApiKnows'
    BY <1>0, <1>5 DEF ApiKnows, Pend, ApiGoto, WorkerUnchanged
  <2>5. m_PendingOffers' \in Seq(CollectedOffer) /\ FlushCounts'
    BY <1>0, <1>5, <2>1, <2>3 DEF FlushCounts, Pend, ApiGoto
  <2>6. NoOfferLost'
    <3>1. SubSeq(m_PendingOffers, 1, Len(m_PendingOffers)) = m_PendingOffers
      BY <1>0
    <3>2. SubSeq(m_PendingOffers', 1, Len(m_PendingOffers')) = m_PendingOffers'
      BY <2>5
    <3>3. m_RunState # "FAILED" => offerEvents = folded \o m_PendingOffers \o <<offer>>
      <4>1. Carried = <<offer>> /\ flushed + 1 = 1
        BY <1>5, <2>3 DEF Carried, Pend, ApiGoto
      <4> QED BY <3>1, <4>1 DEF IInv, NoOfferLost
    <3>4. (folded \o m_PendingOffers) \o <<offer>> = (folded \o Append(m_PendingOffers, offer)) \o <<>>
      <4>1. Append(m_PendingOffers, offer) = m_PendingOffers \o <<offer>>
        BY <1>0, <2>1, AppendIsConcat
      <4>2. <<offer>> \in Seq(CollectedOffer)
        BY <2>1
      <4>3. (folded \o m_PendingOffers) \o <<offer>> = folded \o (m_PendingOffers \o <<offer>>)
        BY <1>0, <4>2, ConcatAssociative
      <4>4. folded \o Append(m_PendingOffers, offer) \in Seq(CollectedOffer)
        BY <1>0, <2>1
      <4>5. (folded \o Append(m_PendingOffers, offer)) \o <<>> = folded \o Append(m_PendingOffers, offer)
        BY <4>4, ConcatEmptySeq
      <4> QED BY <4>1, <4>3, <4>5
    <3>5. m_PendingOffers' = Append(m_PendingOffers, offer) /\ Carried' = <<>> /\ flushed' = 0
      BY <1>5, <2>3 DEF Pend, ApiGoto, Carried
    <3>6. flushed' + 1 = 1 /\ UNCHANGED <<m_RunState, offerEvents, folded>>
      BY <1>5, <3>5 DEF Pend, WorkerUnchanged
    <3>7. SubSeq(m_PendingOffers', flushed' + 1, Len(m_PendingOffers')) = Append(m_PendingOffers, offer)
      BY <3>2, <3>5, <3>6
    <3> QED BY <3>3, <3>4, <3>5, <3>6, <3>7 DEF NoOfferLost
  <2>7. RunStateOfWorker' /\ Candles'
    BY <1>5, ApiKeepsCandles DEF Pend
  <2> QED BY <2>2, <2>4, <2>5, <2>6, <2>7 DEF IInv
<1>6. CASE FlushOne
  <2> DEFINE o == m_PendingOffers[flushed + 1]
  <2>1. offer \in CollectedOffer /\ o \in CollectedOffer
    <3>1. flushed + 1 \in 1..Len(m_PendingOffers)
      BY <1>0, <1>6 DEF FlushOne
    <3> QED BY <1>0, <1>c, <1>6, <3>1 DEF FlushOne
  <2>2. /\ m_CandlesSet' \in [Key -> Seq(Candle)] /\ candleEvents' \in [Key -> Seq(Candle)]
        /\ folded' \in Seq(CollectedOffer) /\ CandlesIncrease' /\ EventsAreFinal'
    BY <1>6, <2>1, HandleOfferCandles DEF FlushOne
  <2>3. TypeOK'
    BY <1>0, <1>6, <2>2 DEF TypeOK, FlushOne, WorkerUnchanged, worker
  <2>4. ApiKnows' /\ RunStateOfWorker'
    BY <1>0, <1>6 DEF ApiKnows, RunStateOfWorker, FlushOne, WorkerUnchanged, worker
  <2>5. FlushCounts'
    BY <1>0, <1>6 DEF FlushCounts, FlushOne
  <2>6. NoOfferLost'
    <3>1. folded \o SubSeq(m_PendingOffers, flushed + 1, Len(m_PendingOffers))
            = Append(folded, o) \o SubSeq(m_PendingOffers, flushed + 2, Len(m_PendingOffers))
      <4>1. flushed < Len(m_PendingOffers)
        BY <1>6 DEF FlushOne
      <4>2. m_PendingOffers \in Seq(CollectedOffer) /\ folded \in Seq(CollectedOffer) /\ flushed \in Nat
        BY <1>0
      <4> QED BY <4>1, <4>2, OfferMoves, Zenon
    <3>2. folded' = Append(folded, o) /\ flushed' = flushed + 1 /\ Carried' = Carried
      BY <1>6 DEF FlushOne, HandleOffer, Carried
    <3>3. flushed' + 1 = flushed + 2
      BY <1>0, <3>2
    <3> QED BY <1>6, <3>1, <3>2, <3>3 DEF IInv, NoOfferLost, FlushOne, WorkerUnchanged
  <2>7. NotLoadedYet'
    BY <1>0, <1>6 DEF ApiKnows, RunStateOfWorker, NotLoadedYet, FlushOne, WorkerUnchanged, worker
  <2> QED BY <2>2, <2>3, <2>4, <2>5, <2>6, <2>7 DEF IInv, Candles
<1>7. CASE FlushEnd
  <2>1. TypeOK'
    BY <1>0, <1>7 DEF TypeOK, FlushEnd, ApiGoto, WorkerUnchanged, worker
  <2>2. ApiKnows' /\ RunStateOfWorker' /\ Candles'
    BY <1>0, <1>7, ApiKeepsCandles DEF ApiKnows, FlushEnd, ApiGoto, WorkerUnchanged
  <2>3. FlushCounts'
    BY <1>7 DEF FlushCounts, FlushEnd, ApiGoto
  <2>4. NoOfferLost'
    <3>1. SubSeq(m_PendingOffers, flushed + 1, Len(m_PendingOffers)) = <<>>
      BY <1>0, <1>7 DEF FlushEnd
    <3>2. SubSeq(m_PendingOffers', flushed' + 1, Len(m_PendingOffers')) = <<>>
      BY <1>7 DEF FlushEnd
    <3> QED BY <1>7, <3>1, <3>2 DEF IInv, NoOfferLost, Carried, FlushEnd, ApiGoto, WorkerUnchanged
  <2> QED BY <2>1, <2>2, <2>3, <2>4 DEF IInv
<1>8. CASE Handle
  <2>1. offer \in CollectedOffer
    BY <1>c, <1>8 DEF Handle, ApiGoto
  <2>2. /\ m_CandlesSet' \in [Key -> Seq(Candle)] /\ candleEvents' \in [Key -> Seq(Candle)]
        /\ folded' \in Seq(CollectedOffer) /\ CandlesIncrease' /\ EventsAreFinal'
    BY <1>8, <2>1, HandleOfferCandles DEF Handle
  <2>3. TypeOK'
    BY <1>0, <1>8, <2>2 DEF TypeOK, Handle, ApiGoto, WorkerUnchanged, worker
  <2>4. ApiKnows' /\ RunStateOfWorker' /\ FlushCounts'
    BY <1>0, <1>8 DEF ApiKnows, RunStateOfWorker, FlushCounts, Handle, ApiGoto, WorkerUnchanged, worker
  <2>5. NoOfferLost'
    <3>1. m_PendingOffers = <<>> /\ flushed = 0
      BY <1>0, <1>8 DEF FlushCounts, Handle, ApiGoto
    <3>2. SubSeq(<<>>, 0 + 1, Len(<<>>)) = <<>>
      OBVIOUS
    <3>3. m_RunState # "FAILED" => offerEvents = folded \o <<>> \o <<offer>>
      BY <1>8, <3>1, <3>2 DEF IInv, NoOfferLost, Carried, Handle, ApiGoto
    <3>4. folded \o <<>> \o <<offer>> = Append(folded, offer) \o <<>> \o <<>>
      BY <1>0, <2>1
    <3>5. folded' = Append(folded, offer) /\ Carried' = <<>>
      BY <1>8 DEF Handle, HandleOffer, ApiGoto, Carried
    <3> QED BY <1>8, <3>1, <3>2, <3>3, <3>4, <3>5 DEF NoOfferLost, Handle, WorkerUnchanged
  <2>6. NotLoadedYet'
    BY <1>0, <1>8 DEF ApiKnows, RunStateOfWorker, NotLoadedYet, Handle, ApiGoto, WorkerUnchanged, worker
  <2> QED BY <2>2, <2>3, <2>4, <2>5, <2>6 DEF IInv, Candles
<1> QED BY <1>1, <1>2, <1>3, <1>4, <1>5, <1>6, <1>7, <1>8 DEF ApiStep

-----------------------------------------------------------------------------
\* Every step preserves IInv.
LEMMA NextIInv == IInv /\ [Next]_vars => IInv'
<1> SUFFICES ASSUME IInv, [Next]_vars PROVE IInv'
  OBVIOUS
<1>1. CASE Worker
  BY <1>1, WorkerIInv
<1>2. CASE ApiStep
  BY <1>2, ApiIInv
<1>3. ASSUME NEW s \in Symbols, NEW t \in Time, Arrive(s, t) PROVE IInv'
  BY <1>3, ArriveIInv
<1>4. CASE UNCHANGED vars
  <2> USE <1>4 DEF vars, prices, worker, history
  <2>1. TypeOK'
    BY DEF IInv, TypeOK
  <2>2. RunStateOfWorker' /\ ApiKnows' /\ FlushCounts' /\ NoOfferLost'
    BY DEF IInv, RunStateOfWorker, ApiKnows, FlushCounts, NoOfferLost, Carried
  <2>3. Candles'
    BY CandlesUnchanged DEF IInv
  <2> QED BY <2>1, <2>2, <2>3 DEF IInv
<1> QED BY <1>1, <1>2, <1>3, <1>4 DEF Next

LEMMA Invariance == Spec => []IInv
BY InitIInv, NextIInv, PTL DEF Spec

\* The types, and: the price of an instrument that is not configured is neither
\* reported nor kept (isCollectable).
THEOREM TypeCorrectness == Spec => []TypeOK
<1>1. IInv => TypeOK
  BY DEF IInv
<1> QED BY <1>1, Invariance, PTL

\* m_RunState alone keeps the API thread away from the candles while the load
\* worker is writing them.
THEOREM HandOver == Spec => []CandlesNotShared
<1>1. IInv => CandlesNotShared
  BY SharedByNobody
<1> QED BY <1>1, Invariance, PTL

\* The API thread does not search the table of offers before it is filled.
THEOREM OffersAreHandedOver == Spec => []OffersNotShared
<1>1. IInv => OffersNotShared
  BY SharedByNobody
<1> QED BY <1>1, Invariance, PTL

\* No offer given to JavaScript is missing from the candles, folded twice or
\* folded out of order.
THEOREM OffersAreFolded == Spec => []NoOfferLost
<1>1. IInv => NoOfferLost
  BY DEF IInv
<1> QED BY <1>1, Invariance, PTL

\* The candles stay in order, and a CANDLE event is final.
THEOREM CandlesAreOrdered == Spec => [](CandlesIncrease /\ EventsAreFinal)
<1>1. IInv => CandlesIncrease /\ EventsAreFinal
  BY DEF IInv, Candles
<1> QED BY <1>1, Invariance, PTL

-----------------------------------------------------------------------------
(* The candles are whole *)

\* InTime and OffersOf, for the offers F folded so far and the history h of the
\* symbol and period k.
InTimeIn(F, h, k, i) ==
  /\ F[i].symbol = k[1]
  /\ \A j \in 1..(i - 1) : F[j].symbol = k[1] => Start(k[2], F[j].time) <= Start(k[2], F[i].time)
  /\ \A c \in Range(h) : c.start <= Start(k[2], F[i].time)

OffersIn(F, h, k, b) ==
  {F[i].id : i \in {n \in DOMAIN F : InTimeIn(F, h, k, n) /\ Start(k[2], F[n].time) = b}}

\* Where the candles of k began so far: those of the history, and those that an
\* offer belonged to, in time or not.
Begun(F, h, k) ==
  {c.start : c \in Range(h)}
    \cup {Start(k[2], F[j].time) : j \in {n \in DOMAIN F : F[n].symbol = k[1]}}

\* The last of the candles cs is the latest that has begun, each of them holds
\* the offers of its time span, and no offer that came in time lacks its candle.
Latest(cs, F, h, k) ==
  /\ \A b \in Begun(F, h, k) : cs # <<>> /\ b <= Last(cs).start
  /\ cs # <<>> => Last(cs).start \in Begun(F, h, k)

Whole(cs, F, h, k) ==
  /\ Latest(cs, F, h, k)
  /\ \A i \in DOMAIN cs : Range(cs[i].offers) = OffersIn(F, h, k, cs[i].start)
  /\ \A i \in DOMAIN F : InTimeIn(F, h, k, i) =>
       \E j \in DOMAIN cs : cs[j].start = Start(k[2], F[i].time)

\* One more offer is folded: it comes in time unless a later candle has begun.
LEMMA OneMoreOffer ==
  ASSUME NEW F \in Seq(Offer), NEW o \in Offer, NEW h \in Seq(Candle), NEW k \in Key
  PROVE  LET G == Append(F, o)  b == Start(k[2], o.time)  n == Len(F) + 1
         IN  /\ DOMAIN G = DOMAIN F \cup {n} /\ G[n] = o /\ \A i \in DOMAIN F : G[i] = F[i]
             /\ \A i \in DOMAIN F : InTimeIn(G, h, k, i) <=> InTimeIn(F, h, k, i)
             /\ InTimeIn(G, h, k, n) <=> o.symbol = k[1] /\ \A a \in Begun(F, h, k) : a <= b
             /\ Begun(G, h, k) = IF o.symbol = k[1] THEN Begun(F, h, k) \cup {b} ELSE Begun(F, h, k)
             /\ \A a \in Nat : OffersIn(G, h, k, a) =
                  IF InTimeIn(G, h, k, n) /\ b = a THEN OffersIn(F, h, k, a) \cup {o.id}
                  ELSE OffersIn(F, h, k, a)
<1> DEFINE G == Append(F, o)  b == Start(k[2], o.time)  n == Len(F) + 1
<1>1. DOMAIN G = DOMAIN F \cup {n} /\ DOMAIN F = 1..(n - 1) /\ n \in Nat /\ G[n] = o /\ \A i \in DOMAIN F : G[i] = F[i]
  OBVIOUS
<1> HIDE DEF G, n
<1>2. ASSUME NEW i \in DOMAIN F PROVE InTimeIn(G, h, k, i) <=> InTimeIn(F, h, k, i)
  <2>1. G[i] = F[i] /\ \A j \in 1..(i - 1) : G[j] = F[j]
    BY <1>1
  <2> QED BY <2>1 DEF InTimeIn
<1>3. InTimeIn(G, h, k, n) <=> o.symbol = k[1] /\ \A a \in Begun(F, h, k) : a <= b
  <2>1. \A j \in 1..(n - 1) : G[j] = F[j]
    BY <1>1
  <2>2. InTimeIn(G, h, k, n) <=> /\ o.symbol = k[1]
                                 /\ \A j \in DOMAIN F : F[j].symbol = k[1] => Start(k[2], F[j].time) <= b
                                 /\ \A c \in Range(h) : c.start <= b
    BY <1>1, <2>1 DEF InTimeIn
  <2> HIDE DEF b
  <2> QED BY <2>2 DEF Begun
<1>4. Begun(G, h, k) = IF o.symbol = k[1] THEN Begun(F, h, k) \cup {b} ELSE Begun(F, h, k)
  <2> DEFINE I(H) == {j \in DOMAIN H : H[j].symbol = k[1]}
             S(H) == {Start(k[2], H[j].time) : j \in I(H)}
  <2>1. S(G) = IF o.symbol = k[1] THEN S(F) \cup {b} ELSE S(F)
    <3>1. I(G) = IF o.symbol = k[1] THEN I(F) \cup {n} ELSE I(F)
      BY <1>1
    <3>2. \A j \in I(F) : Start(k[2], G[j].time) = Start(k[2], F[j].time)
      BY <1>1
    <3>3. Start(k[2], G[n].time) = b
      BY <1>1
    <3> HIDE DEF I, b
    <3> QED BY <3>1, <3>2, <3>3
  <2> QED BY <2>1 DEF Begun
<1>5. ASSUME NEW a \in Nat
      PROVE  OffersIn(G, h, k, a) =
               IF InTimeIn(G, h, k, n) /\ b = a THEN OffersIn(F, h, k, a) \cup {o.id}
               ELSE OffersIn(F, h, k, a)
  <2> DEFINE I(H) == {j \in DOMAIN H : InTimeIn(H, h, k, j) /\ Start(k[2], H[j].time) = a}
  <2>1. I(G) = IF InTimeIn(G, h, k, n) /\ b = a THEN I(F) \cup {n} ELSE I(F)
    BY <1>1, <1>2
  <2>2. \A j \in I(F) : G[j].id = F[j].id
    BY <1>1
  <2>3. G[n].id = o.id
    BY <1>1
  <2>4. OffersIn(G, h, k, a) = {G[j].id : j \in I(G)} /\ OffersIn(F, h, k, a) = {F[j].id : j \in I(F)}
    BY DEF OffersIn
  <2> HIDE DEF I, b
  <2> QED BY <2>1, <2>2, <2>3, <2>4
<1> QED BY <1>1, <1>2, <1>3, <1>4, <1>5 DEF G, n

\* Starts are numbers.
LEMMA StartsAreNat ==
  ASSUME NEW F \in Seq(Offer), NEW h \in Seq(Candle), NEW k \in Key
  PROVE  /\ \A o \in Offer : Start(k[2], o.time) \in Nat
         /\ Begun(F, h, k) \subseteq Nat
<1>1. k[2] \in Periods /\ \A o \in Offer : o.time \in Nat
  BY PriceCollectorAssumption DEF Key, Offer, Time
<1>2. \A o \in Offer : Start(k[2], o.time) \in Nat
  BY <1>1, StartType
<1>3. \A i \in DOMAIN F : F[i] \in Offer
  OBVIOUS
<1>4. \A c \in Range(h) : c.start \in Nat
  <2>1. \A c \in Range(h) : c \in Candle
    BY DEF Range
  <2> QED BY <2>1 DEF Candle
<1> QED BY <1>2, <1>3, <1>4 DEF Begun

\* The candles that came from the server are whole while nothing was folded.
LEMMA LoadedIsWhole ==
  ASSUME NEW h \in Seq(Candle), Increasing(h), \A i \in DOMAIN h : h[i].offers = <<>>, NEW k \in Key
  PROVE  Whole(h, <<>>, h, k)
<1>1. Begun(<<>>, h, k) = {c.start : c \in Range(h)}
  BY DEF Begun
<1>2. Latest(h, <<>>, h, k)
  <2>1. ASSUME NEW c \in Range(h) PROVE h # <<>> /\ c.start <= Last(h).start
    <3>1. PICK i \in DOMAIN h : c = h[i]
      BY DEF Range
    <3>2. Len(h) \in DOMAIN h /\ (i = Len(h) \/ i < Len(h))
      OBVIOUS
    <3>3. i = Len(h) \/ h[i].start < h[Len(h)].start
      BY <3>2 DEF Increasing
    <3>4. h[i].start \in Nat /\ h[Len(h)].start \in Nat
      <4>1. h[i] \in Candle /\ h[Len(h)] \in Candle
        BY <3>2
      <4> QED BY <4>1 DEF Candle
    <3> QED BY <3>1, <3>2, <3>3, <3>4 DEF Last
  <2>2. h # <<>> => Last(h) \in Range(h)
    BY DEF Last, Range
  <2> QED BY <1>1, <2>1, <2>2 DEF Latest
<1>3. \A b : OffersIn(<<>>, h, k, b) = {}
  BY DEF OffersIn
<1>4. Range(<<>>) = {}
  BY DEF Range
<1>5. DOMAIN <<>> = {}
  OBVIOUS
<1> QED BY <1>2, <1>3, <1>4, <1>5 DEF Whole

\* An offer of another symbol does not concern the candles.
LEMMA OtherSymbol ==
  ASSUME NEW F \in Seq(Offer), NEW o \in Offer, NEW h \in Seq(Candle), NEW k \in Key,
         NEW cs \in Seq(Candle), Whole(cs, F, h, k), o.symbol # k[1]
  PROVE  Whole(cs, Append(F, o), h, k)
<1> DEFINE G == Append(F, o)  n == Len(F) + 1
<1>1. /\ DOMAIN G = DOMAIN F \cup {n} /\ \A i \in DOMAIN F : G[i] = F[i]
      /\ \A i \in DOMAIN F : InTimeIn(G, h, k, i) <=> InTimeIn(F, h, k, i)
      /\ ~InTimeIn(G, h, k, n)
      /\ Begun(G, h, k) = Begun(F, h, k)
      /\ \A a \in Nat : OffersIn(G, h, k, a) = OffersIn(F, h, k, a)
  BY OneMoreOffer
<1>2. \A i \in DOMAIN cs : cs[i].start \in Nat
  <2>1. \A i \in DOMAIN cs : cs[i] \in Candle
    OBVIOUS
  <2> QED BY <2>1 DEF Candle
<1> HIDE DEF G, n
<1>3. Whole(cs, G, h, k)
  BY <1>1, <1>2 DEF Whole, Latest
<1> QED BY <1>3 DEF G

\* An offer of the symbol is folded into the candles.
LEMMA FoldIsWhole ==
  ASSUME NEW F \in Seq(Offer), NEW o \in Offer, NEW h \in Seq(Candle), NEW k \in Key,
         NEW cs \in Seq(Candle), Increasing(cs), Whole(cs, F, h, k), o.symbol = k[1]
  PROVE  Whole(Fold(cs, Start(k[2], o.time), o), Append(F, o), h, k)
<1> DEFINE G == Append(F, o)  b == Start(k[2], o.time)  n == Len(F) + 1  fs == Fold(cs, b, o)
           m == Len(cs)
<1>1. /\ DOMAIN G = DOMAIN F \cup {n} /\ G[n] = o /\ \A i \in DOMAIN F : G[i] = F[i]
      /\ \A i \in DOMAIN F : InTimeIn(G, h, k, i) <=> InTimeIn(F, h, k, i)
      /\ InTimeIn(G, h, k, n) <=> \A a \in Begun(F, h, k) : a <= b
      /\ Begun(G, h, k) = Begun(F, h, k) \cup {b}
      /\ \A a \in Nat : OffersIn(G, h, k, a) =
           IF InTimeIn(G, h, k, n) /\ b = a THEN OffersIn(F, h, k, a) \cup {o.id}
           ELSE OffersIn(F, h, k, a)
  BY OneMoreOffer
<1>2. b \in Nat /\ Begun(F, h, k) \subseteq Nat
  BY StartsAreNat
<1>3. /\ m \in Nat /\ DOMAIN cs = 1..m
      /\ IF cs = <<>> THEN m = 0 ELSE m \in 1..m /\ Last(cs) = cs[m]
  BY DEF Last
<1>4. \A i \in DOMAIN cs : /\ cs[i] \in Candle
                           /\ cs[i].start \in Nat /\ cs[i].offers \in Seq(1..MaxOffers)
  <2>1. \A i \in DOMAIN cs : cs[i] \in Candle
    OBVIOUS
  <2> QED BY <2>1 DEF Candle
<1>5. \A i \in DOMAIN cs : i = m \/ cs[i].start < cs[m].start
  BY <1>3 DEF Increasing
<1>6. \/ /\ cs = <<>> \/ Last(cs).start < b
         /\ fs = Append(cs, [start |-> b, offers |-> <<o.id>>])
      \/ /\ cs # <<>> /\ Last(cs).start = b
         /\ fs = [cs EXCEPT ![m] = [cs[m] EXCEPT !.offers = Append(@, o.id)]]
      \/ /\ cs # <<>> /\ ~(Last(cs).start < b) /\ Last(cs).start # b
         /\ fs = cs
  BY <1>2, FoldCases
<1>7. \A a \in Begun(F, h, k) : cs # <<>> /\ a <= cs[m].start
  BY <1>3 DEF Whole, Latest
<1>8. cs # <<>> => cs[m].start \in Begun(F, h, k)
  BY <1>3 DEF Whole, Latest
<1>9. \A i \in DOMAIN cs : Range(cs[i].offers) = OffersIn(F, h, k, cs[i].start)
  BY DEF Whole
<1>10. \A i \in DOMAIN F : InTimeIn(F, h, k, i) =>
         \E j \in DOMAIN cs : cs[j].start = Start(k[2], F[i].time)
  BY DEF Whole
<1> HIDE DEF G, n, m, b, fs
<1>11. ASSUME cs = <<>> \/ Last(cs).start < b, fs = Append(cs, [start |-> b, offers |-> <<o.id>>])
       PROVE  Whole(fs, G, h, k)
  <2> DEFINE c == [start |-> b, offers |-> <<o.id>>]
  <2>1. /\ DOMAIN fs = 1..(m + 1) /\ fs[m + 1] = c /\ \A i \in 1..m : fs[i] = cs[i]
        /\ fs # <<>> /\ Last(fs) = c
    <3>1. fs = Append(cs, c)
      BY <1>11
    <3> HIDE DEF c
    <3> QED BY <3>1 DEF m, Last
  <2>2. c.start = b /\ Range(c.offers) = {o.id}
    BY DEF Range
  <2> HIDE DEF c
  <2>3. ASSUME NEW i \in 1..m PROVE cs[i].start < b
    <3>1. cs[m].start < b /\ cs[m].start \in Nat /\ cs[i].start \in Nat
      <4>1. cs # <<>>
        BY <1>3
      <4>2. m \in DOMAIN cs /\ i \in DOMAIN cs /\ Last(cs).start < b /\ Last(cs) = cs[m]
        BY <1>3, <1>11, <4>1
      <4> QED BY <1>4, <4>2
    <3>2. i = m \/ cs[i].start < cs[m].start
      BY <1>3, <1>5
    <3> QED BY <1>2, <3>1, <3>2
  <2>4. InTimeIn(G, h, k, n)
    <3>1. \A a \in Begun(F, h, k) : a <= b
      BY <1>2, <1>3, <1>4, <1>7, <2>3
    <3> QED BY <1>1, <3>1
  <2>5. OffersIn(F, h, k, b) = {}
    <3>1. \A i \in DOMAIN F : ~(InTimeIn(F, h, k, i) /\ Start(k[2], F[i].time) = b)
      BY <1>2, <1>3, <1>4, <1>10, <2>3
    <3> QED BY <3>1 DEF OffersIn
  <2>6. Latest(fs, G, h, k)
    <3>1. \A a \in Begun(G, h, k) : a <= b
      BY <1>1, <1>2, <1>3, <1>4, <1>7, <2>3
    <3> QED BY <1>1, <2>1, <2>2, <3>1 DEF Latest
  <2>7. ASSUME NEW i \in DOMAIN fs PROVE Range(fs[i].offers) = OffersIn(G, h, k, fs[i].start)
    <3>1. CASE i = m + 1
      BY <1>1, <1>2, <2>1, <2>2, <2>4, <2>5, <3>1
    <3>2. CASE i \in 1..m
      BY <1>1, <1>2, <1>3, <1>4, <1>9, <2>1, <2>3, <3>2
    <3> QED BY <1>3, <2>1, <2>7, <3>1, <3>2
  <2>8. ASSUME NEW i \in DOMAIN G, InTimeIn(G, h, k, i)
        PROVE  \E j \in DOMAIN fs : fs[j].start = Start(k[2], G[i].time)
    <3>1. CASE i = n
      <4>1. m + 1 \in DOMAIN fs /\ fs[m + 1].start = b /\ Start(k[2], G[i].time) = b
        BY <1>1, <1>3, <2>1, <2>2, <3>1 DEF b
      <4> QED BY <4>1
    <3>2. CASE i \in DOMAIN F
      <4>1. PICK j \in DOMAIN cs : cs[j].start = Start(k[2], F[i].time)
        BY <1>1, <1>10, <2>8, <3>2
      <4>2. j \in DOMAIN fs /\ fs[j] = cs[j]
        BY <1>3, <2>1
      <4> QED BY <1>1, <3>2, <4>1, <4>2
    <3> QED BY <1>1, <3>1, <3>2
  <2> QED BY <2>6, <2>7, <2>8 DEF Whole
<1>12. ASSUME cs # <<>>, Last(cs).start = b,
              fs = [cs EXCEPT ![m] = [cs[m] EXCEPT !.offers = Append(@, o.id)]]
       PROVE  Whole(fs, G, h, k)
  <2> DEFINE c == [cs[m] EXCEPT !.offers = Append(@, o.id)]
  <2>1. /\ DOMAIN fs = DOMAIN cs /\ m \in DOMAIN cs /\ fs[m] = c
        /\ \A i \in DOMAIN cs : i # m => fs[i] = cs[i]
        /\ fs # <<>> /\ Len(fs) = m
    <3>1. fs = [cs EXCEPT ![m] = c] /\ m \in DOMAIN cs
      BY <1>3, <1>12
    <3> HIDE DEF c
    <3>2. DOMAIN fs = 1..m
      BY <1>3, <3>1
    <3> QED BY <1>3, <3>1, <3>2
  <2>2. c.start = b /\ Range(c.offers) = Range(cs[m].offers) \cup {o.id}
    <3>1. cs[m] \in Candle
      BY <1>4, <2>1
    <3>2. c.start = cs[m].start /\ c.offers = Append(cs[m].offers, o.id)
      BY <3>1 DEF Candle, c
    <3>3. cs[m].offers \in Seq(1..MaxOffers) /\ o.id \in 1..MaxOffers
      BY <1>4, <2>1 DEF Offer
    <3>4. Range(Append(cs[m].offers, o.id)) = Range(cs[m].offers) \cup {o.id}
      <4> DEFINE s == cs[m].offers  t == Append(s, o.id)
      <4>1. DOMAIN t = DOMAIN s \cup {Len(s) + 1} /\ t[Len(s) + 1] = o.id /\ \A i \in DOMAIN s : t[i] = s[i]
        BY <3>3
      <4> HIDE DEF s, t
      <4> QED BY <4>1 DEF Range, t, s
    <3> QED BY <1>3, <1>12, <3>2, <3>4
  <2> HIDE DEF c
  <2>3. cs[m].start = b /\ Last(fs).start = b
    BY <1>3, <1>12, <2>1, <2>2 DEF Last
  <2>4. InTimeIn(G, h, k, n)
    BY <1>1, <1>7, <2>3
  <2>5. Latest(fs, G, h, k)
    BY <1>1, <1>2, <1>7, <2>1, <2>3 DEF Latest
  <2>6. ASSUME NEW i \in DOMAIN fs PROVE Range(fs[i].offers) = OffersIn(G, h, k, fs[i].start)
    <3>1. CASE i = m
      <4>1. fs[i].start = b /\ Range(fs[i].offers) = Range(cs[m].offers) \cup {o.id}
        BY <2>1, <2>2, <3>1
      <4>2. Range(cs[m].offers) = OffersIn(F, h, k, b)
        BY <1>9, <2>1, <2>3
      <4> QED
        BY <1>1, <1>2, <2>3, <2>4, <4>1, <4>2
    <3>2. CASE i # m
      <4>1. i \in DOMAIN cs /\ fs[i] = cs[i] /\ cs[i].start \in Nat /\ cs[i].start # b
        BY <1>2, <1>4, <1>5, <2>1, <2>3, <3>2
      <4> QED BY <1>1, <1>9, <4>1
    <3> QED BY <3>1, <3>2
  <2>7. \A i \in DOMAIN cs : fs[i].start = cs[i].start
    BY <2>1, <2>2, <2>3
  <2>8. ASSUME NEW i \in DOMAIN G, InTimeIn(G, h, k, i)
        PROVE  \E j \in DOMAIN fs : fs[j].start = Start(k[2], G[i].time)
    <3>1. CASE i = n
      <4>1. fs[m].start = b /\ Start(k[2], G[i].time) = b
        BY <1>1, <2>1, <2>2, <3>1 DEF b
      <4> QED BY <2>1, <4>1
    <3>2. CASE i \in DOMAIN F
      BY <1>1, <1>10, <2>1, <2>7, <2>8, <3>2
    <3> QED BY <1>1, <3>1, <3>2
  <2> QED BY <2>5, <2>6, <2>8 DEF Whole
<1>13. ASSUME cs # <<>>, ~(Last(cs).start < b), Last(cs).start # b, fs = cs
       PROVE  Whole(fs, G, h, k)
  <2>1. cs[m].start \in Nat /\ b < cs[m].start
    BY <1>2, <1>3, <1>4, <1>13
  <2>2. ~InTimeIn(G, h, k, n)
    BY <1>1, <1>2, <1>8, <1>13, <2>1
  <2>3. Latest(fs, G, h, k)
    BY <1>1, <1>2, <1>3, <1>7, <1>8, <1>13, <2>1 DEF Latest
  <2>4. \A i \in DOMAIN fs : Range(fs[i].offers) = OffersIn(G, h, k, fs[i].start)
    BY <1>1, <1>4, <1>9, <1>13, <2>2
  <2>5. \A i \in DOMAIN G : InTimeIn(G, h, k, i) =>
          \E j \in DOMAIN fs : fs[j].start = Start(k[2], G[i].time)
    BY <1>1, <1>10, <1>13, <2>2
  <2> QED BY <2>3, <2>4, <2>5 DEF Whole
<1>14. Whole(fs, G, h, k)
  BY <1>6, <1>11, <1>12, <1>13
<1> QED BY <1>14 DEF G, b, fs

\* Before the worker is done nothing is folded; the candles of every symbol and
\* period are whole then, and those of the retrieved periods ever after.
CandlesWhole ==
  /\ wpc # "done" => folded = <<>>
  /\ \A k \in Key : wpc # "done" \/ k[2] \in m_Periods =>
       Whole(m_CandlesSet[k], folded, loaded[k], k)

LEMMA InitWhole == Init => CandlesWhole
<1> SUFFICES ASSUME Init PROVE CandlesWhole
  OBVIOUS
<1>1. /\ \A k \in Key : m_CandlesSet[k] = <<>> /\ loaded[k] = <<>>
      /\ folded = <<>>
  BY DEF Init
<1>2. <<>> \in Seq(Candle) /\ Increasing(<<>>) /\ \A i \in DOMAIN <<>> : <<>>[i].offers = <<>>
  BY DEF Increasing
<1>3. \A k \in Key : Whole(<<>>, <<>>, <<>>, k)
  BY <1>2, LoadedIsWhole
<1> QED BY <1>1, <1>3 DEF CandlesWhole

\* Folding an offer into all live candles of its symbol, once the worker is done.
LEMMA HandleWhole ==
  ASSUME IInv, CandlesWhole, NEW o \in CollectedOffer, HandleOffer(o), wpc = "done",
         UNCHANGED <<wpc, m_Periods, loaded>>
  PROVE  CandlesWhole'
<1>1. /\ m_CandlesSet \in [Key -> Seq(Candle)]
      /\ loaded \in [Key -> Seq(Candle)]
      /\ folded \in Seq(Offer) /\ o \in Offer
  <2>1. folded \in Seq(CollectedOffer) /\ CollectedOffer \subseteq Offer
    BY DEF IInv, TypeOK, CollectedOffer
  <2> QED BY <2>1 DEF IInv, TypeOK
<1>2. folded' = Append(folded, o)
  BY DEF HandleOffer
<1>3. ASSUME NEW k \in Key, k[2] \in m_Periods
      PROVE  Whole(m_CandlesSet'[k], Append(folded, o), loaded[k], k)
  <2>1. /\ m_CandlesSet[k] \in Seq(Candle) /\ loaded[k] \in Seq(Candle)
        /\ Whole(m_CandlesSet[k], folded, loaded[k], k)
    BY <1>1, <1>3 DEF CandlesWhole
  <2>2. Increasing(m_CandlesSet[k])
    BY DEF IInv, Candles, CandlesIncrease, Increasing
  <2>3. m_CandlesSet'[k] = IF k[1] = o.symbol THEN Fold(m_CandlesSet[k], Start(k[2], o.time), o)
                           ELSE m_CandlesSet[k]
    BY <1>3 DEF HandleOffer
  <2> QED BY <1>1, <2>1, <2>2, <2>3, OtherSymbol, FoldIsWhole
<1> QED BY <1>2, <1>3 DEF CandlesWhole

LEMMA NextWhole == IInv /\ CandlesWhole /\ [Next]_vars => CandlesWhole'
<1> SUFFICES ASSUME IInv, CandlesWhole, [Next]_vars PROVE CandlesWhole'
  OBVIOUS
<1>0. /\ TypeOK /\ RunStateOfWorker /\ ApiKnows /\ FlushCounts
      /\ wpc \in {"fill", "render", "done"}
      /\ m_PendingOffers \in Seq(CollectedOffer) /\ flushed \in Nat
  BY DEF IInv, TypeOK
<1>1. ASSUME UNCHANGED <<m_CandlesSet, m_Periods, folded, loaded>>,
             wpc = "done" => wpc' = "done"
      PROVE  CandlesWhole'
  BY <1>1 DEF CandlesWhole
<1>2. CASE Worker
  <2>1. ASSUME NEW k \in Key, RenderPrices(k) PROVE CandlesWhole'
    <3>1. PICK h \in Histories(k[2]) :
            /\ m_CandlesSet' = [m_CandlesSet EXCEPT ![k] = @ \o h]
            /\ loaded' = [loaded EXCEPT ![k] = h]
      BY <2>1 DEF RenderPrices
    <3>2. h \in Seq(Candle) /\ Increasing(h) /\ \A i \in DOMAIN h : h[i].offers = <<>>
      <4>1. CASE h = <<>>
        BY <4>1 DEF Increasing
      <4>2. ASSUME NEW t \in 0..now, h = <<[start |-> Start(k[2], t), offers |-> <<>>]>>
            PROVE  h \in Seq(Candle) /\ Increasing(h) /\ \A i \in DOMAIN h : h[i].offers = <<>>
        <5> DEFINE c == [start |-> Start(k[2], t), offers |-> <<>>]
        <5>1. Start(k[2], t) \in Nat
          BY StartType DEF Key
        <5>2. <<>> \in Seq(1..MaxOffers)
          OBVIOUS
        <5>3. c \in Candle /\ c.offers = <<>>
          BY <5>1, <5>2 DEF Candle
        <5>4. h = <<c>>
          BY <4>2
        <5> HIDE DEF c
        <5>5. h \in Seq(Candle) /\ DOMAIN h = {1} /\ h[1] = c
          BY <5>3, <5>4
        <5> QED BY <5>3, <5>5 DEF Increasing
      <4> QED BY <4>1, <4>2 DEF Histories
    <3>3. /\ m_CandlesSet[k] = <<>> /\ folded = <<>> /\ wpc = "render"
          /\ UNCHANGED <<folded, wpc>>
      BY <2>1 DEF IInv, Candles, NotLoadedYet, CandlesWhole, RenderPrices, ApiUnchanged
    <3>4. <<>> \o h = h
      BY <3>2
    <3>5. \A j \in Key : /\ m_CandlesSet'[j] = IF j = k THEN h ELSE m_CandlesSet[j]
                         /\ loaded'[j] = IF j = k THEN h ELSE loaded[j]
      BY <1>0, <3>1, <3>3, <3>4 DEF TypeOK
    <3>6. Whole(h, <<>>, h, k)
      BY <3>2, LoadedIsWhole
    <3>7. \A j \in Key : Whole(m_CandlesSet'[j], <<>>, loaded'[j], j)
      BY <3>3, <3>5, <3>6 DEF CandlesWhole
    <3> QED BY <3>3, <3>7 DEF CandlesWhole
  <2>2. ASSUME NEW s \in Symbols, FillOffer(s) PROVE CandlesWhole'
    BY <1>1, <2>2 DEF FillOffer, updateOffer, ApiUnchanged
  <2>3. CASE Filled
    BY <1>1, <2>3 DEF Filled, prices, ApiUnchanged
  <2>4. CASE RenderImpossible
    BY <1>1, <2>4 DEF RenderImpossible, prices, ApiUnchanged
  <2>5. CASE Rendered
    BY <1>1, <2>5 DEF Rendered, prices, ApiUnchanged
  <2>6. ASSUME NEW k \in Key, RenderFails(k) PROVE CandlesWhole'
    BY <1>1, <2>6 DEF RenderFails, prices, ApiUnchanged
  <2> QED BY <1>2, <2>1, <2>2, <2>3, <2>4, <2>5, <2>6 DEF Worker
<1>3. CASE ApiStep
  <2> USE DEF WorkerUnchanged, worker
  <2>1. CASE CollectableState
    BY <1>1, <2>1 DEF CollectableState
  <2>2. CASE CollectableFind
    BY <1>1, <2>2 DEF CollectableFind
  <2>3. CASE PushOffer
    BY <1>1, <2>3 DEF PushOffer
  <2>4. CASE Dispatch
    BY <1>1, <2>4 DEF Dispatch
  <2>5. CASE Pend
    BY <1>1, <2>5 DEF Pend
  <2>6. CASE FlushEnd
    BY <1>1, <2>6 DEF FlushEnd
  <2>7. CASE FlushOne
    <3>1. m_PendingOffers[flushed + 1] \in CollectedOffer
      <4>1. flushed + 1 \in 1..Len(m_PendingOffers)
        BY <1>0, <2>7 DEF FlushOne
      <4> QED BY <1>0, <4>1
    <3>2. wpc = "done"
      BY <1>0, <2>7, SharedByNobody DEF FlushOne, CandlesNotShared
    <3> QED BY <2>7, <3>1, <3>2, HandleWhole DEF FlushOne
  <2>8. CASE Handle
    <3>1. offer \in CollectedOffer
      BY <1>0, <2>8 DEF ApiKnows, CollectedOffer, Handle, ApiGoto
    <3>2. wpc = "done"
      BY <1>0, <2>8, SharedByNobody DEF Handle, ApiGoto, CandlesNotShared
    <3> QED BY <2>8, <3>1, <3>2, HandleWhole DEF Handle
  <2> QED BY <1>3, <2>1, <2>2, <2>3, <2>4, <2>5, <2>6, <2>7, <2>8 DEF ApiStep
<1>4. ASSUME NEW s \in Symbols, NEW t \in Time, Arrive(s, t) PROVE CandlesWhole'
  BY <1>1, <1>4 DEF Arrive, WorkerUnchanged, worker
<1>5. CASE UNCHANGED vars
  BY <1>1, <1>5 DEF vars, prices, worker, history
<1> QED BY <1>2, <1>3, <1>4, <1>5 DEF Next

LEMMA WholeInvariance == Spec => []CandlesWhole
BY InitWhole, NextWhole, Invariance, PTL DEF Spec

\* Every candle of a retrieved period holds exactly the offers of its time span,
\* those that waited in m_PendingOffers included, except those that came too late.
THEOREM CandlesAreWhole == Spec => []CandlesComplete
<1>1. TypeOK /\ CandlesWhole => CandlesComplete
  <2> SUFFICES ASSUME TypeOK, CandlesWhole, NEW k \in Key, k[2] \in m_Periods, wpc = "done"
               PROVE  /\ \A c \in Range(m_CandlesSet[k]) : Range(c.offers) = OffersOf(k, c.start)
                      /\ \A i \in DOMAIN folded : InTime(k, i) =>
                           \E c \in Range(m_CandlesSet[k]) : c.start = Start(k[2], folded[i].time)
    BY DEF CandlesComplete
  <2>1. Whole(m_CandlesSet[k], folded, loaded[k], k)
    BY DEF CandlesWhole
  <2>2. \A i \in DOMAIN folded : InTime(k, i) <=> InTimeIn(folded, loaded[k], k, i)
    BY DEF InTime, InTimeIn
  <2>3. \A b : OffersOf(k, b) = OffersIn(folded, loaded[k], k, b)
    BY <2>2 DEF OffersOf, OffersIn
  <2> QED BY <2>1, <2>2, <2>3 DEF Whole, Range
<1> QED BY <1>1, TypeCorrectness, WholeInvariance, PTL
=============================================================================
