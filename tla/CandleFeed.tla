----------------------------- MODULE CandleFeed -----------------------------
(***************************************************************************)
(* How the bars of one symbol and period reach the strategy.  The load     *)
(* worker stores the price history in the native list; from then on        *)
(* (READY) the API thread folds every offer into the last candle of the    *)
(* list, and when an offer belongs to a later one it pushes a CANDLE event *)
(* for the last and appends the next (PriceCollector::handleOffer).  The   *)
(* event holds a pointer: it becomes a JavaScript value when it is popped. *)
(*                                                                         *)
(* On the Node thread the pump gives the candles to dataset.js, which      *)
(* keeps at most CANDLES_MAX_COUNT of them, and calls main.  When the load *)
(* worker is done the same thread copies the native list candle by candle  *)
(* (PriceCollector::valueOf), without a lock, while the API thread goes    *)
(* on, and the copy replaces what the pump has put into the dataset.       *)
(*                                                                         *)
(* Prices are reduced to the number of offers folded into a candle.        *)
(***************************************************************************)
EXTENDS Integers, Sequences

CONSTANTS
  Limit,     \* CANDLES_MAX_COUNT
  MaxStart,  \* bound: the start times of candles are 1 .. MaxStart
  MaxTicks   \* bound on the offers folded into one candle

ASSUME LimitAssumption == Limit \in Nat \ {0}
ASSUME BoundAssumption == MaxStart \in Nat /\ MaxTicks \in Nat \ {0}

VARIABLES
  candles,   \* m_CandlesSet[symbol + period]
  run,       \* the run state of the price collector
  apc,       \* the start of the candle the API thread is about to append, or 0
  chan,      \* the CANDLE events in the queue: places in the list
  pumping,   \* is the pump's loop running?
  loading,   \* what the load worker has still to do
  size,      \* the length of the array valueOf has made
  copy,      \* the candles it has put into it
  data,      \* candlesSet[symbol + period] of dataset.js, <<>> if there is none
  handled    \* history: how many CANDLE events have been handled

api == <<candles, run, apc>>
node == <<pumping, data, handled>>
feedVars == <<api, chan, node, loading, size, copy>>

Candle == [start : 1 .. MaxStart, ticks : 1 .. MaxTicks]

\* Bars of the history: in order, the last one the current one.
Bars(n) == [i \in 1 .. n |-> [start |-> i, ticks |-> 1]]

FeedInit ==
  /\ candles = <<>> /\ run = "FILLED" /\ apc = 0
  /\ chan = <<>>
  /\ pumping = FALSE /\ data = <<>> /\ handled = 0
  /\ loading = "render" /\ size = 0 /\ copy = <<>>

-----------------------------------------------------------------------------
(* The load worker: PriceCollector::renderLivePrices                       *)

\* The answer holds at most as many candles as were asked for, and none if the
\* request for this symbol failed and that for another one did not.
RenderPrices ==
  /\ loading = "render"
  /\ \E n \in {k \in 0 .. Limit : k <= MaxStart} : candles' = Bars(n)
  /\ run' = "READY"
  /\ loading' = "snapshot"
  /\ UNCHANGED <<apc, chan, node, size, copy>>

\* No history for any symbol, or no way to ask for one: nothing is collected.
RenderFails ==
  /\ loading = "render"
  /\ run' = "FAILED"
  /\ loading' = "none"
  /\ UNCHANGED <<candles, apc, chan, node, size, copy>>

-----------------------------------------------------------------------------
(* The API thread: PriceCollector::handleOffer                             *)

Collecting == run = "READY" /\ apc = 0

Last == candles[Len(candles)]
New(start) == [start |-> start, ticks |-> 1]

FirstCandle(start) ==
  /\ Collecting /\ candles = <<>>
  /\ candles' = <<New(start)>>
  /\ UNCHANGED <<run, apc, chan, node, loading, size, copy>>

FoldOffer ==
  /\ Collecting /\ candles # <<>>
  /\ Last.ticks < MaxTicks
  /\ candles' = [candles EXCEPT ![Len(candles)].ticks = @ + 1]
  /\ UNCHANGED <<run, apc, chan, node, loading, size, copy>>

\* The last candle is complete.
PushCandle(start) ==
  /\ Collecting /\ candles # <<>> /\ Last.start < start
  /\ chan' = Append(chan, Len(candles))
  /\ apc' = start
  /\ UNCHANGED <<candles, run, node, loading, size, copy>>

AppendCandle ==
  /\ apc # 0
  /\ candles' = Append(candles, New(apc))
  /\ apc' = 0
  /\ UNCHANGED <<run, chan, node, loading, size, copy>>

-----------------------------------------------------------------------------
(* The Node thread: the load worker's OnOK, PriceCollector::valueOf and    *)
(* setCandles                                                              *)

\* The array gets the length the list has now.
SnapshotBegin ==
  /\ loading = "snapshot" /\ ~pumping
  /\ size' = Len(candles)
  /\ loading' = "copying"
  /\ UNCHANGED <<api, chan, node, copy>>

SnapshotCandle ==
  /\ loading = "copying" /\ Len(copy) < size
  /\ copy' = Append(copy, candles[Len(copy) + 1])
  /\ UNCHANGED <<api, chan, node, loading, size>>

SnapshotEnd ==
  /\ loading = "copying" /\ Len(copy) = size
  /\ data' = copy
  /\ loading' = "done"
  /\ UNCHANGED <<api, chan, pumping, handled, size, copy>>

-----------------------------------------------------------------------------
(* The Node thread: addCandle of dataset.js and the pump                   *)

\* A mutant: the current candle of the copy is not replaced.
AddNewCandle(list, c) ==
  IF list # <<>> /\ c.start <= list[Len(list)].start THEN list
  ELSE Append(IF Len(list) >= Limit THEN Tail(list) ELSE list, c)

\* A mutant: the list grows for ever.
AddUnlimited(list, c) ==
  IF list # <<>> /\ c.start < list[Len(list)].start THEN list
  ELSE IF list # <<>> /\ c.start = list[Len(list)].start THEN [list EXCEPT ![Len(list)] = c]
  ELSE Append(list, c)

addCandle(list, c) ==
  IF list # <<>> /\ c.start < list[Len(list)].start THEN list
  ELSE IF list # <<>> /\ c.start = list[Len(list)].start THEN [list EXCEPT ![Len(list)] = c]
  ELSE Append(IF Len(list) >= Limit THEN Tail(list) ELSE list, c)

\* The thread is not in valueOf.
NodeFree == loading # "copying"

PumpStart ==
  /\ NodeFree /\ ~pumping /\ chan # <<>>
  /\ pumping' = TRUE
  /\ UNCHANGED <<api, chan, data, handled, loading, size, copy>>

\* A mutant: an event is looked at and not taken out of the queue.
onCandleUntaken ==
  /\ pumping /\ chan # <<>>
  /\ data' = addCandle(data, candles[Head(chan)])
  /\ handled' = handled + (IF Len(chan) > 1 THEN 1 ELSE 0)
  /\ chan' = IF Len(chan) > 1 THEN Tail(chan) ELSE chan
  /\ UNCHANGED <<api, pumping, loading, size, copy>>

onCandle ==
  /\ pumping /\ chan # <<>>
  /\ data' = addCandle(data, candles[Head(chan)])
  /\ chan' = Tail(chan)
  /\ handled' = handled + 1
  /\ UNCHANGED <<api, pumping, loading, size, copy>>

PumpEnd ==
  /\ pumping /\ chan = <<>>
  /\ pumping' = FALSE
  /\ UNCHANGED <<api, chan, data, handled, loading, size, copy>>

-----------------------------------------------------------------------------
Snapshot == SnapshotBegin \/ SnapshotCandle \/ SnapshotEnd
Pump == PumpStart \/ onCandle \/ PumpEnd

FeedNext ==
  \/ RenderPrices \/ RenderFails
  \/ \E start \in 1 .. MaxStart : FirstCandle(start) \/ PushCandle(start)
  \/ FoldOffer \/ AppendCandle
  \/ Snapshot \/ Pump

FeedSpec == FeedInit /\ [][FeedNext]_feedVars

\* The Node thread goes on: between two turns of the pump's loop the callback of
\* the worker runs.  Prices need not change.
FeedFairness == WF_feedVars(Pump) /\ WF_feedVars(Snapshot)

-----------------------------------------------------------------------------
\* The types of the state: only complete candles are in the queue, the copy is
\* never longer than the list was, and nothing is collected without a history.
FeedTypeOK ==
  /\ candles \in Seq(Candle)
  /\ run \in {"FILLED", "READY", "FAILED"}
  /\ apc \in 0 .. MaxStart
  /\ chan \in Seq(1 .. Len(candles))
  /\ pumping \in BOOLEAN
  /\ loading \in {"render", "none", "snapshot", "copying", "done"}
  /\ size \in 0 .. Len(candles)
  /\ copy \in Seq(Candle) /\ Len(copy) <= size
  /\ data \in Seq(Candle)
  /\ handled \in Nat
  /\ loading = "copying" => ~pumping

\* The strategy's bars are in the order of time, each one once, whether they came
\* from the history, from the copy made while candles were appended, or from
\* events of candles that the copy already held.
CandlesOrdered == \A i, j \in DOMAIN data : i < j => data[i].start < data[j].start

\* The dataset holds no more candles than CANDLES_MAX_COUNT, or than the copy
\* brought (it is not cut: candles that were appended while the history loaded
\* for other symbols are in it as well).
LimitKept == Len(data) <= (IF loading = "done" /\ size > Limit THEN size ELSE Limit)

\* What getCandles returns is a window of the bars: in order, each one once, and
\* no longer than it may be.
BarsAreAWindow == CandlesOrdered /\ LimitKept

Pending(n) == \E k \in DOMAIN chan : chan[k] = n
Shows(n) == \E i \in DOMAIN data : data[i] = candles[n]

\* No bar is lost and none keeps the values it had before it was complete: once the
\* copy is shown, every complete candle of the native list is in the dataset in
\* its final form, still in the queue, or older than all the dataset keeps.
NothingSkipped ==
  loading = "done" =>
    \A n \in 1 .. Len(candles) - 1 :
      \/ Shows(n) \/ Pending(n)
      \/ data # <<>> /\ candles[n].start < data[1].start

\* main is called for every candle that was completed.
MainForEveryCandle ==
  \A n \in 1 .. MaxStart : (Len(candles) >= n /\ Pending(n)) ~> ~Pending(n)
=============================================================================
