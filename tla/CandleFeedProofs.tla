-------------------------- MODULE CandleFeedProofs --------------------------
(***************************************************************************)
(* The two ways in which bars reach a strategy.                            *)
(*                                                                         *)
(* The list of the dataset: its bars are a window of the native list       *)
(* (BarsAreAWindow) and no bar is skipped (NothingSkipped), for every      *)
(* limit and every number of candles.  Neither is inductive.  Both follow  *)
(* from where the window is: its last candle is the last one of the copy,  *)
(* or the last one of which the event was handled, whichever is later.     *)
(* The events in the queue are those that follow the handled ones, without *)
(* a gap.                                                                  *)
(*                                                                         *)
(* The history a strategy asks for is whole (HistoryIsWhole), for every    *)
(* size of a page, every market and whatever the server counts at the end  *)
(* of a range.  While the loop runs nothing is missing of what is newer    *)
(* than the next page.                                                     *)
(***************************************************************************)
EXTENDS CandleFeed, HistoryPaging, SequenceTheorems, TLAPS

\* How many candles of the list are complete, and of how many of them the event was
\* handled.
Pushed == IF candles = <<>> THEN 0 ELSE IF apc = 0 THEN Len(candles) - 1 ELSE Len(candles)
Taken == Pushed - Len(chan)

\* The place in the native list of the last candle of the dataset, and of the one
\* before its first.
End == IF loading = "done" /\ size > Taken THEN size ELSE Taken
Offset == End - Len(data)

\* The native list is in order of time, and so is what is appended.
ListInv ==
  /\ \A i, j \in DOMAIN candles : i < j => candles[i].start < candles[j].start
  /\ apc # 0 => candles # <<>> /\ candles[Len(candles)].start < apc
  /\ loading \in {"render", "none"} => candles = <<>>
  /\ loading = "none" <=> run = "FAILED"
  /\ loading = "render" <=> run = "FILLED"

\* The events in the queue are those of the candles that follow the handled ones.
ChanInv == Taken >= 0 /\ \A k \in DOMAIN chan : chan[k] = Taken + k

\* The copy agrees with the list, but for the candle in progress.
CopyInv ==
  /\ loading \in {"render", "none", "snapshot"} => size = 0
  /\ loading = "copying" => Taken <= size
  /\ loading # "done" =>
       \A i \in DOMAIN copy :
         copy[i].start = candles[i].start /\ (i <= Taken \/ i < size => copy[i] = candles[i])

\* The dataset is a window of the list, and has its candles as they are, but for the
\* one in progress.
WindowInv ==
  /\ Len(data) <= End
  /\ \A i \in DOMAIN data :
       /\ data[i].start = candles[Offset + i].start
       /\ Offset + i <= Taken \/ Offset + i < size => data[i] = candles[Offset + i]
  /\ loading = "done" /\ data = <<>> => End = 0

Inv == FeedTypeOK /\ ListInv /\ ChanInv /\ CopyInv /\ WindowInv /\ LimitKept

USE LimitAssumption, BoundAssumption

-----------------------------------------------------------------------------
\* What the counts are between: an event is pushed for complete candles only.
LEMMA Counts ==
  ASSUME Inv
  PROVE  /\ Pushed \in Nat /\ Taken \in Nat /\ End \in Nat /\ Offset \in Nat
         /\ Len(candles) \in Nat /\ Len(chan) \in Nat /\ Len(data) \in Nat /\ size \in Nat
         /\ Taken <= Pushed /\ Pushed <= Len(candles) /\ End <= Len(candles)
         /\ Taken <= End /\ size <= Len(candles)
         /\ candles # <<>> => Len(candles) >= 1 /\ Len(candles) - 1 <= Pushed
         /\ loading # "done" => End = Taken
<1>1. Len(candles) \in Nat /\ Len(chan) \in Nat /\ Len(data) \in Nat /\ size \in 0 .. Len(candles)
  BY DEF Inv, FeedTypeOK
<1>2. candles # <<>> => Len(candles) >= 1
  BY DEF Inv, FeedTypeOK
<1>3. Pushed \in Nat /\ Pushed <= Len(candles) /\ (candles # <<>> => Len(candles) - 1 <= Pushed)
  BY <1>1, <1>2 DEF Pushed
<1>4. Taken \in Nat /\ Taken <= Pushed
  BY <1>1, <1>3 DEF Inv, ChanInv, Taken
<1>5. End \in Nat /\ End <= Len(candles) /\ Taken <= End /\ (loading # "done" => End = Taken)
  BY <1>1, <1>3, <1>4 DEF End
<1>6. Offset \in Nat
  BY <1>1, <1>5 DEF Inv, WindowInv, Offset
<1> QED
  BY <1>1, <1>2, <1>3, <1>4, <1>5, <1>6

\* Initially everything is empty.
LEMMA InitInv == FeedInit => Inv
<1> SUFFICES ASSUME FeedInit PROVE Inv
  OBVIOUS
<1> USE DEF FeedInit
<1>1. FeedTypeOK
  <2>1. Len(candles) = 0 /\ Len(copy) = 0
    OBVIOUS
  <2>2. candles \in Seq(Candle) /\ copy \in Seq(Candle) /\ data \in Seq(Candle) /\ chan \in Seq(1 .. 0)
    OBVIOUS
  <2>3. loading = "copying" => ~pumping
    OBVIOUS
  <2>4. pumping \in BOOLEAN
    OBVIOUS
  <2>5. size \in 0 .. Len(candles) /\ Len(copy) <= size /\ apc \in 0 .. MaxStart /\ handled \in Nat
    BY <2>1
  <2>6. chan \in Seq(1 .. Len(candles))
    BY <2>1, <2>2
  <2>7. run \in {"FILLED", "READY", "FAILED"}
    OBVIOUS
  <2> QED
    BY <2>2, <2>3, <2>4, <2>5, <2>6, <2>7, Zenon DEF FeedTypeOK
<1>2. Pushed = 0 /\ Taken = 0 /\ End = 0
  <2> HIDE DEF FeedInit
  <2>1. Len(chan) = 0 /\ Len(data) = 0 /\ Pushed = 0
    BY DEF FeedInit, Pushed
  <2>2. Taken = 0
    BY <2>1 DEF Taken
  <2>3. ~(loading = "done")
    BY DEF FeedInit
  <2> QED
    BY <2>1, <2>2, <2>3 DEF End
<1>3. ListInv
  BY DEF ListInv
<1>6. ChanInv
  BY <1>2 DEF ChanInv
<1>5. CopyInv
  BY <1>2 DEF CopyInv
<1>4. WindowInv /\ LimitKept
  BY <1>2 DEF WindowInv, LimitKept
<1> QED
  BY <1>1, <1>3, <1>6, <1>4, <1>5 DEF Inv

-----------------------------------------------------------------------------
(* The API thread and the load worker                                      *)

\* The history comes to an empty list, before anybody uses it.
LEMMA RenderPricesInv == Inv /\ RenderPrices => Inv'
<1> SUFFICES ASSUME Inv, RenderPrices PROVE Inv'
  OBVIOUS
<1> USE DEF RenderPrices
<1>1. /\ candles = <<>> /\ size = 0 /\ apc = 0 /\ run = "FILLED"
  BY DEF Inv, ListInv, CopyInv, feedVars
<1>2. chan = <<>> /\ data = <<>> /\ copy = <<>> /\ Taken = 0
  <2>1. Pushed = 0 /\ Taken = 0
    BY <1>1, Counts DEF Pushed
  <2>2. Len(chan) = 0 /\ Len(data) = 0 /\ Len(copy) = 0
    BY <1>1, <2>1, Counts DEF Inv, FeedTypeOK, WindowInv, Taken
  <2>3. chan \in Seq(1 .. Len(candles)) /\ data \in Seq(Candle) /\ copy \in Seq(Candle)
    BY DEF Inv, FeedTypeOK
  <2> QED
    BY <2>1, <2>2, <2>3, EmptySeq
<1>3. PICK n \in 0 .. Limit : n <= MaxStart /\ candles' = Bars(n)
  OBVIOUS
<1>4. candles' \in Seq(Candle) /\ Len(candles') = n /\ \A i \in DOMAIN candles' : candles'[i].start = i
  BY <1>3 DEF Bars, Candle
<1>5. /\ apc' = apc /\ chan' = chan /\ data' = data /\ copy' = copy /\ size' = size
      /\ loading' = "snapshot" /\ run' = "READY" /\ pumping' = pumping /\ handled' = handled
  BY DEF node
<1>6. FeedTypeOK'
  <2>1. chan' \in Seq(1 .. Len(candles')) /\ copy' \in Seq(Candle) /\ Len(copy') = 0
    BY <1>2, <1>5, EmptySeq
  <2>2. data' \in Seq(Candle) /\ handled' \in Nat /\ apc' \in 0 .. MaxStart /\ pumping' \in BOOLEAN
    BY <1>5 DEF Inv, FeedTypeOK
  <2>3. size' \in 0 .. Len(candles') /\ Len(copy') <= size'
    BY <1>1, <1>4, <1>5, <2>1
  <2> QED
    BY <1>4, <1>5, <2>1, <2>2, <2>3, Zenon DEF FeedTypeOK
<1>7. Taken' \in Nat /\ End' = Taken'
  BY <1>1, <1>2, <1>4, <1>5 DEF Pushed, Taken, End
<1>8. ListInv'
  BY <1>1, <1>4, <1>5 DEF ListInv
<1>9. ChanInv'
  BY <1>2, <1>5, <1>7 DEF ChanInv
<1>10. CopyInv'
  BY <1>1, <1>2, <1>5 DEF CopyInv
<1>11. WindowInv' /\ LimitKept'
  BY <1>2, <1>5, <1>7 DEF WindowInv, LimitKept
<1> QED BY <1>6, <1>8, <1>9, <1>10, <1>11 DEF Inv

\* Nothing is collected.
LEMMA RenderFailsInv == Inv /\ RenderFails => Inv'
<1> SUFFICES ASSUME Inv, RenderFails PROVE Inv'
  OBVIOUS
<1>1. /\ candles' = candles /\ apc' = apc /\ chan' = chan /\ data' = data /\ copy' = copy
      /\ size' = size /\ loading = "render" /\ loading' = "none" /\ run' = "FAILED"
      /\ pumping' = pumping /\ handled' = handled
  BY DEF RenderFails, node
<1>2. Pushed' = Pushed /\ Taken' = Taken /\ End' = End /\ Offset' = Offset
  BY <1>1 DEF Pushed, Taken, End, Offset
<1>3. FeedTypeOK'
  BY <1>1, Zenon DEF Inv, FeedTypeOK
<1>4. ListInv'
  BY <1>1 DEF Inv, ListInv
<1>5. ChanInv' /\ CopyInv'
  BY <1>1, <1>2 DEF Inv, ChanInv, CopyInv
<1>6. WindowInv' /\ LimitKept'
  BY <1>1, <1>2 DEF Inv, WindowInv, LimitKept
<1> QED
  BY <1>3, <1>4, <1>5, <1>6 DEF Inv

\* What the dataset and the copy have stays right when the API thread changes the last
\* candle or appends one.
LEMMA ListGrows ==
  ASSUME Inv, UNCHANGED <<data, copy, size, loading>>, Taken' = Taken,
         Len(candles') \in Nat, Len(candles) <= Len(candles'),
         \A i \in 1 .. Len(candles) :
           /\ candles'[i].start = candles[i].start
           /\ i <= Taken \/ i < size => candles'[i] = candles[i]
  PROVE  CopyInv' /\ WindowInv' /\ LimitKept'
<1>1. End' = End /\ Offset' = Offset
  BY DEF End, Offset
<1>2. CopyInv'
  <2>1. \A i \in DOMAIN copy : i \in 1 .. Len(candles)
    BY Counts DEF Inv, FeedTypeOK
  <2> QED
    BY <2>1 DEF Inv, CopyInv
<1>3. WindowInv'
  <2>1. \A i \in DOMAIN data : Offset + i \in 1 .. Len(candles)
    BY Counts DEF Inv, FeedTypeOK, Offset
  <2> QED
    BY <1>1, <2>1 DEF Inv, WindowInv
<1>4. LimitKept'
  BY DEF Inv, LimitKept
<1> QED
  BY <1>2, <1>3, <1>4

\* The first candle, of an offer that comes when there was no history.
LEMMA FirstCandleInv ==
  ASSUME Inv, NEW start \in 1 .. MaxStart, FirstCandle(start)
  PROVE  Inv'
<1>1. /\ candles = <<>> /\ Len(candles) = 0 /\ apc = 0 /\ run = "READY" /\ candles' = <<New(start)>>
      /\ apc' = apc /\ run' = run /\ chan' = chan /\ data' = data /\ copy' = copy
      /\ size' = size /\ loading' = loading /\ pumping' = pumping /\ handled' = handled
  BY DEF FirstCandle, Collecting, node
<1>2. New(start) \in Candle
  BY DEF New, Candle
<1>3. candles' \in Seq(Candle) /\ Len(candles') = 1 /\ candles' # <<>>
  BY <1>1, <1>2
<1>4. Pushed = 0 /\ Pushed' = 0 /\ Taken' = Taken
  BY <1>1, <1>3 DEF Pushed, Taken
<1>5. Taken = 0 /\ Len(chan) = 0
  BY <1>4, Counts DEF Taken
<1>6. FeedTypeOK'
  <2>1. chan' \in Seq(1 .. Len(candles'))
    BY <1>1, <1>5, EmptySeq DEF Inv, FeedTypeOK
  <2>2. size' \in 0 .. Len(candles')
    BY <1>1, <1>3 DEF Inv, FeedTypeOK
  <2> QED
    BY <1>1, <1>3, <2>1, <2>2, Zenon DEF Inv, FeedTypeOK
<1>7. ListInv'
  BY <1>1, <1>3 DEF Inv, ListInv
<1>8. ChanInv'
  BY <1>1, <1>4 DEF Inv, ChanInv
<1>9. CopyInv' /\ WindowInv' /\ LimitKept'
  BY <1>1, <1>3, <1>4, ListGrows
<1> QED
  BY <1>6, <1>7, <1>8, <1>9 DEF Inv

\* An offer is folded into the candle in progress, of which no event was pushed.
LEMMA FoldOfferInv == Inv /\ FoldOffer => Inv'
<1> SUFFICES ASSUME Inv, FoldOffer PROVE Inv'
  OBVIOUS
<1>1. /\ candles # <<>> /\ apc = 0 /\ Last.ticks < MaxTicks
      /\ candles' = [candles EXCEPT ![Len(candles)].ticks = @ + 1]
      /\ apc' = apc /\ run' = run /\ chan' = chan /\ data' = data /\ copy' = copy
      /\ size' = size /\ loading' = loading /\ pumping' = pumping /\ handled' = handled
  BY DEF FoldOffer, Collecting, node
<1>2. candles \in Seq(Candle) /\ Len(candles) \in Nat \ {0}
  BY <1>1 DEF Inv, FeedTypeOK
<1>3. [Last EXCEPT !.ticks = @ + 1] \in Candle
  <2>1. Last \in Candle
    BY <1>2, ElementOfSeq DEF Last
  <2>2. Last.ticks + 1 \in 1 .. MaxTicks
    BY <1>1, <2>1 DEF Candle
  <2> QED
    BY <2>1, <2>2 DEF Candle
<1>4. /\ candles' \in Seq(Candle) /\ Len(candles') = Len(candles) /\ candles' # <<>>
      /\ \A i \in 1 .. Len(candles) : /\ candles'[i].start = candles[i].start
                                     /\ i # Len(candles) => candles'[i] = candles[i]
  BY <1>1, <1>2, <1>3 DEF Last, Candle
<1>5. Pushed = Len(candles) - 1 /\ Pushed' = Pushed /\ Taken' = Taken
  BY <1>1, <1>4 DEF Pushed, Taken
<1>6. FeedTypeOK'
  BY <1>1, <1>4, Zenon DEF Inv, FeedTypeOK
<1>7. ListInv'
  BY <1>1, <1>2, <1>4 DEF Inv, ListInv
<1>8. ChanInv'
  BY <1>1, <1>5 DEF Inv, ChanInv
<1>9. \A i \in 1 .. Len(candles) : i <= Taken \/ i < size => i # Len(candles)
  BY <1>2, <1>5, Counts
<1>10. CopyInv' /\ WindowInv' /\ LimitKept'
  BY <1>1, <1>2, <1>4, <1>5, <1>9, ListGrows
<1> QED
  BY <1>6, <1>7, <1>8, <1>10 DEF Inv

\* The event of a candle is pushed when the next one is about to follow it.
LEMMA PushCandleInv ==
  ASSUME Inv, NEW start \in 1 .. MaxStart, PushCandle(start)
  PROVE  Inv'
<1>1. /\ candles # <<>> /\ apc = 0 /\ Last.start < start /\ run = "READY"
      /\ chan' = Append(chan, Len(candles)) /\ apc' = start
      /\ candles' = candles /\ run' = run /\ data' = data /\ copy' = copy
      /\ size' = size /\ loading' = loading /\ pumping' = pumping /\ handled' = handled
  BY DEF PushCandle, Collecting, node
<1>2. candles \in Seq(Candle) /\ Len(candles) \in Nat \ {0} /\ chan \in Seq(1 .. Len(candles))
  BY <1>1 DEF Inv, FeedTypeOK
<1>3. /\ chan' \in Seq(1 .. Len(candles')) /\ Len(chan') = Len(chan) + 1
      /\ chan'[Len(chan) + 1] = Len(candles)
      /\ \A k \in 1 .. Len(chan) : chan'[k] = chan[k]
  BY <1>1, <1>2, AppendProperties
<1>4. Pushed = Len(candles) - 1 /\ Pushed' = Len(candles) /\ Taken' = Taken
  BY <1>1, <1>2, <1>3 DEF Pushed, Taken
<1>5. FeedTypeOK'
  <2>1. apc' \in 0 .. MaxStart
    BY <1>1
  <2> QED
    BY <1>1, <1>3, <2>1, Zenon DEF Inv, FeedTypeOK
<1>6. ListInv'
  BY <1>1 DEF Inv, ListInv, Last
<1>7. ChanInv'
  <2>1. Len(candles) = Taken + Len(chan) + 1
    BY <1>2, <1>4 DEF Taken
  <2> QED
    <3>1. Taken' >= 0
      BY <1>4, Counts
    <3>2. ASSUME NEW k \in DOMAIN chan' PROVE chan'[k] = Taken' + k
      <4>1. Len(chan) \in Nat /\ Taken \in Nat /\ k \in 1 .. Len(chan) + 1
        BY <1>3, Counts
      <4>2. CASE k = Len(chan) + 1
        BY <1>3, <1>4, <2>1, <4>1, <4>2
      <4>3. CASE k # Len(chan) + 1
        <5>1. k \in 1 .. Len(chan) /\ k \in DOMAIN chan
          BY <1>2, <4>1, <4>3
        <5> QED
          BY <1>3, <1>4, <5>1 DEF Inv, ChanInv
      <4> QED
        BY <4>2, <4>3
    <3> QED
      BY <3>1, <3>2 DEF ChanInv
<1>8. CopyInv' /\ WindowInv' /\ LimitKept'
  BY <1>1, <1>2, <1>4, ListGrows
<1> QED
  BY <1>5, <1>6, <1>7, <1>8 DEF Inv

\* The next candle is later than all others.
LEMMA AppendCandleInv == Inv /\ AppendCandle => Inv'
<1> SUFFICES ASSUME Inv, AppendCandle PROVE Inv'
  OBVIOUS
<1>1. /\ apc # 0 /\ candles' = Append(candles, New(apc)) /\ apc' = 0
      /\ run' = run /\ chan' = chan /\ data' = data /\ copy' = copy
      /\ size' = size /\ loading' = loading /\ pumping' = pumping /\ handled' = handled
  BY DEF AppendCandle, node
<1>2. /\ candles \in Seq(Candle) /\ candles # <<>> /\ Len(candles) \in Nat \ {0}
      /\ New(apc) \in Candle /\ New(apc).start = apc
      /\ \A i \in 1 .. Len(candles) : candles[i].start \in 1 .. MaxStart
  <2>1. candles \in Seq(Candle) /\ candles # <<>> /\ apc \in 1 .. MaxStart
    BY <1>1 DEF Inv, FeedTypeOK, ListInv
  <2>2. New(apc) \in Candle /\ New(apc).start = apc
    BY <2>1 DEF New, Candle
  <2>3. Len(candles) \in Nat \ {0} /\ \A i \in 1 .. Len(candles) : candles[i] \in Candle
    BY <2>1, ElementOfSeq
  <2> QED
    BY <2>1, <2>2, <2>3 DEF Candle
<1>3. /\ candles' \in Seq(Candle) /\ Len(candles') = Len(candles) + 1 /\ candles' # <<>>
      /\ candles'[Len(candles) + 1] = New(apc)
      /\ \A i \in 1 .. Len(candles) : candles'[i] = candles[i]
  BY <1>1, <1>2, AppendProperties
<1>4. Pushed' = Pushed /\ Taken' = Taken
  BY <1>1, <1>2, <1>3 DEF Pushed, Taken
<1>5. FeedTypeOK'
  <2>1. chan' \in Seq(1 .. Len(candles')) /\ size' \in 0 .. Len(candles')
    BY <1>1, <1>2, <1>3 DEF Inv, FeedTypeOK
  <2>2. apc' \in 0 .. MaxStart
    BY <1>1
  <2> QED
    BY <1>1, <1>3, <2>1, <2>2, Zenon DEF Inv, FeedTypeOK
<1>6. ListInv'
  <2>1. \A i \in 1 .. Len(candles) : candles[i].start < apc
    <3>1. Len(candles) \in DOMAIN candles /\ DOMAIN candles = 1 .. Len(candles) /\ apc \in 0 .. MaxStart
      BY <1>2 DEF Inv, FeedTypeOK
    <3>2. candles[Len(candles)].start < apc
      BY <1>1 DEF Inv, ListInv
    <3>3. ASSUME NEW i \in 1 .. Len(candles) PROVE candles[i].start < apc
      <4>1. i = Len(candles) \/ i < Len(candles)
        BY <1>2
      <4>2. i < Len(candles) => candles[i].start < candles[Len(candles)].start
        <5>1. \A a, b \in DOMAIN candles : a < b => candles[a].start < candles[b].start
          BY DEF Inv, ListInv
        <5> QED
          BY <3>1, <5>1
      <4>3. candles[i].start \in Nat /\ candles[Len(candles)].start \in Nat /\ apc \in Nat
        BY <1>2, <3>1
      <4>4. CASE i = Len(candles)
        BY <3>2, <4>4
      <4>5. CASE i < Len(candles)
        BY <3>2, <4>2, <4>3, <4>5
      <4> QED
        BY <4>1, <4>4, <4>5
    <3> QED
      BY <3>3
  <2>2. \A i, j \in DOMAIN candles' : i < j => candles'[i].start < candles'[j].start
    BY <1>2, <1>3, <2>1 DEF Inv, ListInv
  <2> QED
    BY <1>1, <1>2, <1>3, <2>2 DEF Inv, ListInv
<1>7. ChanInv'
  BY <1>1, <1>4 DEF Inv, ChanInv
<1>8. CopyInv' /\ WindowInv' /\ LimitKept'
  BY <1>1, <1>2, <1>3, <1>4, ListGrows
<1> QED
  BY <1>5, <1>6, <1>7, <1>8 DEF Inv

-----------------------------------------------------------------------------
(* The copy                                                                *)

\* The array of the copy is at least as long as the candles that were handled.
LEMMA SnapshotBeginInv == Inv /\ SnapshotBegin => Inv'
<1> SUFFICES ASSUME Inv, SnapshotBegin PROVE Inv'
  OBVIOUS
<1>1. /\ loading = "snapshot" /\ ~pumping /\ size' = Len(candles) /\ loading' = "copying"
      /\ candles' = candles /\ run' = run /\ apc' = apc /\ chan' = chan /\ copy' = copy
      /\ data' = data /\ pumping' = pumping /\ handled' = handled
  BY DEF SnapshotBegin, api, node
<1>2. size = 0 /\ copy = <<>> /\ Len(copy) = 0
  BY <1>1, EmptySeq DEF Inv, CopyInv, FeedTypeOK
<1>3. Pushed' = Pushed /\ Taken' = Taken /\ End' = End /\ Offset' = Offset /\ End = Taken
  BY <1>1, Counts DEF Pushed, Taken, End, Offset
<1>4. FeedTypeOK'
  <2>1. size' \in 0 .. Len(candles') /\ Len(copy') <= size'
    BY <1>1, <1>2, Counts
  <2>2. loading' \in {"render", "none", "snapshot", "copying", "done"}
    BY <1>1
  <2>3. loading' = "copying" => ~pumping'
    BY <1>1, Zenon
  <2> QED
    BY <1>1, <2>1, <2>2, <2>3, Zenon DEF Inv, FeedTypeOK
<1>5. ListInv' /\ ChanInv'
  BY <1>1, <1>3 DEF Inv, ListInv, ChanInv
<1>6. CopyInv'
  BY <1>1, <1>2, <1>3, Counts DEF CopyInv
<1>7. WindowInv'
  <2>1. \A i \in DOMAIN data : Offset + i <= Taken
    BY <1>3, Counts DEF Inv, FeedTypeOK, Offset
  <2> QED
    BY <1>1, <1>3, <2>1 DEF Inv, WindowInv
<1>8. LimitKept'
  BY <1>1 DEF Inv, LimitKept
<1> QED
  BY <1>4, <1>5, <1>6, <1>7, <1>8 DEF Inv

\* A candle that is copied is complete, or the last one there was.
LEMMA SnapshotCandleInv == Inv /\ SnapshotCandle => Inv'
<1> SUFFICES ASSUME Inv, SnapshotCandle PROVE Inv'
  OBVIOUS
<1>1. /\ loading = "copying" /\ Len(copy) < size /\ copy' = Append(copy, candles[Len(copy) + 1])
      /\ candles' = candles /\ run' = run /\ apc' = apc /\ chan' = chan /\ size' = size
      /\ data' = data /\ pumping' = pumping /\ handled' = handled /\ loading' = loading
  BY DEF SnapshotCandle, api, node
<1>2. copy \in Seq(Candle) /\ Len(copy) \in Nat /\ candles[Len(copy) + 1] \in Candle
  BY <1>1, Counts, ElementOfSeq DEF Inv, FeedTypeOK
<1>3. /\ copy' \in Seq(Candle) /\ Len(copy') = Len(copy) + 1
      /\ copy'[Len(copy) + 1] = candles[Len(copy) + 1]
      /\ \A i \in 1 .. Len(copy) : copy'[i] = copy[i]
  BY <1>1, <1>2, AppendProperties
<1>4. Pushed' = Pushed /\ Taken' = Taken /\ End' = End /\ Offset' = Offset
  BY <1>1 DEF Pushed, Taken, End, Offset
<1>5. FeedTypeOK'
  <2>1. Len(copy') <= size'
    BY <1>1, <1>2, <1>3, Counts
  <2> QED
    BY <1>1, <1>3, <2>1, Zenon DEF Inv, FeedTypeOK
<1>6. ListInv' /\ ChanInv'
  BY <1>1, <1>4 DEF Inv, ListInv, ChanInv
<1>7. CopyInv'
  BY <1>1, <1>2, <1>3, <1>4 DEF Inv, CopyInv
<1>8. WindowInv' /\ LimitKept'
  BY <1>1, <1>4 DEF Inv, WindowInv, LimitKept
<1> QED
  BY <1>5, <1>6, <1>7, <1>8 DEF Inv

\* The copy is the window now.
LEMMA SnapshotEndInv == Inv /\ SnapshotEnd => Inv'
<1> SUFFICES ASSUME Inv, SnapshotEnd PROVE Inv'
  OBVIOUS
<1>1. /\ loading = "copying" /\ Len(copy) = size /\ data' = copy /\ loading' = "done"
      /\ candles' = candles /\ run' = run /\ apc' = apc /\ chan' = chan /\ size' = size
      /\ copy' = copy /\ pumping' = pumping /\ handled' = handled
  BY DEF SnapshotEnd, api
<1>2. Pushed' = Pushed /\ Taken' = Taken
  BY <1>1 DEF Pushed, Taken
<1>3. End' = size /\ Offset' = 0 /\ Taken <= size
  BY <1>1, <1>2, Counts DEF Inv, CopyInv, End, Offset
<1>4. FeedTypeOK'
  <2>1. data' \in Seq(Candle) /\ loading' \in {"render", "none", "snapshot", "copying", "done"}
    BY <1>1 DEF Inv, FeedTypeOK
  <2>2. loading' # "copying"
    BY <1>1
  <2> QED
    BY <1>1, <2>1, <2>2, Zenon DEF Inv, FeedTypeOK
<1>5. ListInv' /\ ChanInv' /\ CopyInv'
  BY <1>1, <1>2 DEF Inv, ListInv, ChanInv, CopyInv
<1>6. WindowInv'
  BY <1>1, <1>2, <1>3, Counts DEF Inv, CopyInv, WindowInv, FeedTypeOK
<1>7. LimitKept'
  BY <1>1, Counts DEF LimitKept
<1> QED
  BY <1>4, <1>5, <1>6, <1>7 DEF Inv

-----------------------------------------------------------------------------
(* The pump                                                                *)

\* The pump starts and ends.
LEMMA PumpInv == Inv /\ (PumpStart \/ PumpEnd) => Inv'
<1> SUFFICES ASSUME Inv, PumpStart \/ PumpEnd PROVE Inv'
  OBVIOUS
<1>1. /\ candles' = candles /\ run' = run /\ apc' = apc /\ chan' = chan /\ size' = size
      /\ copy' = copy /\ data' = data /\ handled' = handled /\ loading' = loading
  BY DEF PumpStart, PumpEnd, api
<1>2. pumping' \in BOOLEAN /\ (loading' = "copying" => ~pumping')
  BY <1>1, Zenon DEF PumpStart, PumpEnd, NodeFree
<1>3. Pushed' = Pushed /\ Taken' = Taken /\ End' = End /\ Offset' = Offset
  BY <1>1 DEF Pushed, Taken, End, Offset
<1>4. FeedTypeOK'
  BY <1>1, <1>2, Zenon DEF Inv, FeedTypeOK
<1>5. ListInv' /\ ChanInv' /\ CopyInv'
  BY <1>1, <1>3 DEF Inv, ListInv, ChanInv, CopyInv
<1>6. WindowInv' /\ LimitKept'
  BY <1>1, <1>3 DEF Inv, WindowInv, LimitKept
<1> QED
  BY <1>4, <1>5, <1>6 DEF Inv

\* addCandle keeps the types.
LEMMA addCandleType ==
  ASSUME NEW list \in Seq(Candle), NEW c \in Candle
  PROVE  addCandle(list, c) \in Seq(Candle)
<1>1. list # <<>> => Tail(list) \in Seq(Candle) /\ [list EXCEPT ![Len(list)] = c] \in Seq(Candle)
  BY HeadTailProperties
<1>2. Len(list) >= Limit => list # <<>>
  BY EmptySeq
<1>3. (IF Len(list) >= Limit THEN Tail(list) ELSE list) \in Seq(Candle)
  BY <1>1, <1>2
<1> QED
  BY <1>1, <1>3, AppendProperties DEF addCandle

\* The oldest event is handled: its candle is in the window, where the copy has it
\* already; or the last of the window, which it replaces; or the next after it.
LEMMA onCandleInv == Inv /\ onCandle => Inv'
<1> SUFFICES ASSUME Inv, onCandle PROVE Inv'
  OBVIOUS
<1> DEFINE m == Taken + 1
           c == candles[Head(chan)]
<1>1. /\ pumping /\ chan # <<>> /\ data' = addCandle(data, c) /\ chan' = Tail(chan)
      /\ handled' = handled + 1 /\ candles' = candles /\ run' = run /\ apc' = apc
      /\ pumping' = pumping /\ loading' = loading /\ size' = size /\ copy' = copy
  BY DEF onCandle, api
<1>2. /\ candles \in Seq(Candle) /\ data \in Seq(Candle) /\ chan \in Seq(1 .. Len(candles))
      /\ DOMAIN candles = 1 .. Len(candles) /\ DOMAIN data = 1 .. Len(data)
  BY DEF Inv, FeedTypeOK
<1>3. /\ Len(chan) \in Nat \ {0} /\ Head(chan) = chan[1] /\ chan' \in Seq(1 .. Len(candles))
      /\ Len(chan') = Len(chan) - 1 /\ \A k \in 1 .. Len(chan') : chan'[k] = chan[k + 1]
  BY <1>1, <1>2, HeadTailProperties, EmptySeq
<1>4. Head(chan) = m /\ m \in 1 .. Len(candles) /\ c = candles[m] /\ c \in Candle
  <2>1. 1 \in DOMAIN chan
    BY <1>2, <1>3
  <2>2. Head(chan) = m
    BY <1>3, <2>1 DEF Inv, ChanInv
  <2>3. m \in 1 .. Len(candles)
    BY <1>2, <1>3, <2>1, <2>2
  <2> QED
    BY <1>2, <2>2, <2>3, ElementOfSeq
<1>5. Pushed' = Pushed /\ Taken' = m
  BY <1>1, <1>3, Counts DEF Pushed, Taken
<1>6. loading # "copying"
  BY <1>1 DEF Inv, FeedTypeOK
<1>7. FeedTypeOK'
  <2>1. data' \in Seq(Candle)
    BY <1>1, <1>2, <1>4, addCandleType
  <2>2. handled' \in Nat
    BY <1>1 DEF Inv, FeedTypeOK
  <2> QED
    BY <1>1, <1>3, <2>1, <2>2, Zenon DEF Inv, FeedTypeOK
<1>8. ListInv'
  BY <1>1 DEF Inv, ListInv
<1>9. ChanInv'
  <2>1. DOMAIN chan' = 1 .. Len(chan')
    BY <1>3
  <2>2. \A k \in 1 .. Len(chan') : k + 1 \in DOMAIN chan
    BY <1>2, <1>3
  <2>3. \A k \in 1 .. Len(chan') : chan'[k] = Taken + (k + 1)
    BY <1>3, <2>2 DEF Inv, ChanInv
  <2>4. m \in Nat /\ Taken \in Nat /\ Len(chan') \in Nat
    BY <1>3, Counts
  <2> QED
    BY <1>5, <2>1, <2>3, <2>4 DEF ChanInv
<1>10. CopyInv'
  <2>1. loading # "done" => copy = <<>>
    BY <1>6, EmptySeq DEF Inv, FeedTypeOK, CopyInv
  <2> QED
    BY <1>1, <1>6, <2>1 DEF Inv, CopyInv
<1>11. \A i \in 1 .. Len(data) :
         /\ Offset + i \in 1 .. Len(candles) /\ Offset + i <= End
         /\ data[i].start = candles[Offset + i].start
         /\ Offset + i <= Taken \/ Offset + i < size => data[i] = candles[Offset + i]
  <2> SUFFICES ASSUME NEW i \in 1 .. Len(data)
               PROVE  /\ Offset + i \in 1 .. Len(candles) /\ Offset + i <= End
                      /\ data[i].start = candles[Offset + i].start
                      /\ Offset + i <= Taken \/ Offset + i < size => data[i] = candles[Offset + i]
    OBVIOUS
  <2>1. Offset + i \in 1 .. Len(candles) /\ Offset + i <= End
    BY Counts DEF Offset
  <2> QED
    BY <1>2, <2>1 DEF Inv, WindowInv
<1>12. data # <<>> => /\ Len(data) \in 1 .. Len(data) /\ End \in 1 .. Len(candles)
                     /\ data[Len(data)].start = candles[End].start
  <2> SUFFICES ASSUME data # <<>>
               PROVE  /\ Len(data) \in 1 .. Len(data) /\ End \in 1 .. Len(candles)
                      /\ data[Len(data)].start = candles[End].start
    OBVIOUS
  <2>1. Len(data) \in 1 .. Len(data)
    BY <1>2, EmptySeq
  <2>2. Offset + Len(data) = End
    BY Counts DEF Offset
  <2> QED
    BY <1>11, <2>1, <2>2
<1>13. \A a, b \in 1 .. Len(candles) :
         /\ candles[a].start \in Nat
         /\ a < b => candles[a].start < candles[b].start
  <2>1. \A a \in 1 .. Len(candles) : candles[a] \in Candle
    BY <1>2, ElementOfSeq
  <2>2. \A a, b \in 1 .. Len(candles) : a < b => candles[a].start < candles[b].start
    BY <1>2 DEF Inv, ListInv
  <2> QED
    BY <2>1, <2>2 DEF Candle
<1>14. End > Taken => loading = "done" /\ End = size
  BY Counts DEF End
<1>15. CASE data # <<>> /\ m < End
  <2>1. data' = data
    BY <1>1, <1>4, <1>12, <1>13, <1>15 DEF addCandle
  <2>2. loading = "done" /\ End = size /\ End' = End /\ Offset' = Offset
    BY <1>1, <1>5, <1>14, <1>15, <2>1, Counts DEF End, Offset
  <2>3. WindowInv'
    BY <1>1, <1>2, <1>5, <1>11, <1>15, <2>1, <2>2, Counts DEF Inv, WindowInv
  <2>4. LimitKept'
    BY <1>1, <2>1 DEF Inv, LimitKept
  <2> QED
    BY <1>7, <1>8, <1>9, <1>10, <2>3, <2>4 DEF Inv
<1>16. CASE data # <<>> /\ m = End
  <2>1. data' = [data EXCEPT ![Len(data)] = c]
    BY <1>1, <1>4, <1>12, <1>13, <1>16 DEF addCandle
  <2>2. /\ Len(data') = Len(data) /\ DOMAIN data' = 1 .. Len(data) /\ data'[Len(data)] = c
        /\ \A i \in 1 .. Len(data) : i # Len(data) => data'[i] = data[i]
    <3>1. data' \in Seq(Candle) /\ DOMAIN data' = DOMAIN data
      BY <1>2, <1>4, <1>7, <2>1 DEF FeedTypeOK
    <3>2. Len(data') = Len(data)
      BY <1>2, <3>1
    <3> QED
      BY <1>2, <1>12, <1>16, <2>1, <3>2
  <2>3. End' = m /\ Offset' = Offset
    BY <1>1, <1>5, <1>14, <1>16, <2>2, Counts DEF End, Offset
  <2>4. \A i \in 1 .. Len(data) : i # Len(data) => Offset + i <= Taken
    BY <1>16, Counts DEF Offset
  <2>5. Offset + Len(data) = m
    BY <1>16, Counts DEF Offset
  <2>6. \A i \in 1 .. Len(data) : data'[i].start = candles[Offset + i].start
                               /\ (i = Len(data) \/ Offset + i <= Taken => data'[i] = candles[Offset + i])
    BY <1>4, <1>11, <2>2, <2>5
  <2>7. WindowInv'
    <3>1. Len(data') <= End' /\ data' # <<>>
      <4>1. Len(data) <= End /\ Len(data) \in 1 .. Len(data)
        BY <1>12, <1>16 DEF Inv, WindowInv
      <4>2. Len(data') = Len(data) /\ End' = End
        BY <1>16, <2>2, <2>3
      <4>3. data' # <<>>
        <5>1. Len(data') # 0
          BY <4>1, <4>2
        <5> QED
          BY <5>1
      <4> QED
        BY <4>1, <4>2, <4>3
    <3> QED
      BY <1>1, <2>2, <2>3, <2>4, <2>6, <3>1 DEF WindowInv
  <2>8. LimitKept'
    BY <1>1, <2>2 DEF Inv, LimitKept
  <2> QED
    BY <1>7, <1>8, <1>9, <1>10, <2>7, <2>8 DEF Inv
<1>17. CASE data = <<>> \/ m > End
  <2> DEFINE base == IF Len(data) >= Limit THEN Tail(data) ELSE data
             k == IF Len(data) >= Limit THEN 1 ELSE 0
  <2>1. m = End + 1 /\ End = Taken
    <3>1. data = <<>> => End = Taken
      BY Counts DEF Inv, WindowInv
    <3> QED
      BY <1>17, <3>1, Counts
  <2>2. data' = Append(base, c)
    <3>1. data # <<>> => candles[m].start > data[Len(data)].start /\ candles[m].start \in Nat
                         /\ data[Len(data)].start \in Nat
      BY <1>4, <1>12, <1>13, <2>1, Counts
    <3> QED
      BY <1>1, <1>4, <3>1 DEF addCandle
  <2>3. /\ base \in Seq(Candle) /\ Len(base) = Len(data) - k /\ Len(base) \in Nat
        /\ \A i \in 1 .. Len(base) : i + k \in 1 .. Len(data) /\ base[i] = data[i + k]
    <3>1. CASE Len(data) >= Limit
      <4>1. data # <<>>
        BY <3>1, EmptySeq
      <4> QED
        BY <1>2, <3>1, <4>1, HeadTailProperties
    <3>2. CASE ~(Len(data) >= Limit)
      BY <1>2, <3>2
    <3> QED
      BY <3>1, <3>2
  <2>4. /\ Len(data') = Len(base) + 1 /\ DOMAIN data' = 1 .. Len(base) + 1
        /\ data'[Len(base) + 1] = c
        /\ \A i \in 1 .. Len(base) : data'[i] = data[i + k]
    BY <1>4, <2>2, <2>3, AppendProperties
  <2>5. End' = m /\ (loading = "done" => size <= End)
    BY <1>1, <1>5, <2>1, Counts DEF End
  <2>6. Offset' = Offset + k
    BY <2>1, <2>3, <2>4, <2>5, Counts DEF Offset
  <2>7. ASSUME NEW i \in DOMAIN data'
        PROVE  /\ data'[i].start = candles[Offset' + i].start
               /\ Offset' + i <= Taken' \/ Offset' + i < size' => data'[i] = candles[Offset' + i]
    <3>1. CASE i = Len(base) + 1
      <4>1. Offset' + i = m
        <5>1. k \in Nat /\ Len(data) \in Nat /\ End \in Nat /\ Offset = End - Len(data)
          BY Counts DEF Offset
        <5>2. i = Len(data) - k + 1 /\ Offset' = Offset + k
          BY <2>3, <2>6, <3>1
        <5> HIDE DEF k
        <5> QED
          BY <2>1, <5>1, <5>2
      <4> QED
        BY <1>4, <2>4, <3>1, <4>1
    <3>2. CASE i # Len(base) + 1
      <4>1. i \in 1 .. Len(base) /\ i + k \in 1 .. Len(data) /\ data'[i] = data[i + k]
        BY <2>3, <2>4, <3>2
      <4>2. Offset' + i = Offset + (i + k) /\ Offset + (i + k) <= Taken
        <5>1. i \in Nat /\ k \in Nat /\ Offset \in Nat
          BY <4>1, Counts
        <5>2. Offset + (i + k) <= End
          BY <1>11, <4>1
        <5> QED
          BY <2>1, <2>6, <5>1, <5>2
      <4> QED
        BY <1>11, <4>1, <4>2
    <3> QED
      BY <3>1, <3>2
  <2>8. WindowInv'
    <3>1. Len(data') <= End' /\ data' # <<>>
      BY <2>1, <2>3, <2>4, <2>5, Counts DEF Inv, WindowInv
    <3> QED
      BY <1>1, <2>7, <3>1 DEF WindowInv
  <2>9. LimitKept'
    BY <1>1, <2>3, <2>4, Counts DEF Inv, LimitKept
  <2> QED
    BY <1>7, <1>8, <1>9, <1>10, <2>8, <2>9 DEF Inv
<1> QED
  BY <1>4, <1>15, <1>16, <1>17, Counts

-----------------------------------------------------------------------------
(* The invariant and what follows from it                                  *)

\* Every step keeps the invariant.
LEMMA NextInv == Inv /\ [FeedNext]_feedVars => Inv'
<1> SUFFICES ASSUME Inv, [FeedNext]_feedVars PROVE Inv'
  OBVIOUS
<1>1. CASE UNCHANGED feedVars
  <2>1. /\ candles' = candles /\ run' = run /\ apc' = apc /\ chan' = chan /\ size' = size
        /\ copy' = copy /\ data' = data /\ handled' = handled /\ loading' = loading
        /\ pumping' = pumping
    BY <1>1 DEF feedVars, api, node
  <2>2. Pushed' = Pushed /\ Taken' = Taken /\ End' = End /\ Offset' = Offset
    BY <2>1 DEF Pushed, Taken, End, Offset
  <2>3. FeedTypeOK'
    BY <2>1, Zenon DEF Inv, FeedTypeOK
  <2>4. ListInv' /\ ChanInv' /\ CopyInv'
    BY <2>1, <2>2 DEF Inv, ListInv, ChanInv, CopyInv
  <2>5. WindowInv' /\ LimitKept'
    BY <2>1, <2>2 DEF Inv, WindowInv, LimitKept
  <2> QED
    BY <2>3, <2>4, <2>5 DEF Inv
<1>2. CASE FeedNext
  <2>1. CASE RenderPrices \/ RenderFails
    BY <2>1, RenderPricesInv, RenderFailsInv
  <2>2. ASSUME NEW start \in 1 .. MaxStart, FirstCandle(start) \/ PushCandle(start) PROVE Inv'
    BY <2>2, FirstCandleInv, PushCandleInv
  <2>3. CASE FoldOffer \/ AppendCandle
    BY <2>3, FoldOfferInv, AppendCandleInv
  <2>4. CASE Snapshot
    BY <2>4, SnapshotBeginInv, SnapshotCandleInv, SnapshotEndInv DEF Snapshot
  <2>5. CASE Pump
    BY <2>5, PumpInv, onCandleInv DEF Pump
  <2> QED
    BY <1>2, <2>1, <2>2, <2>3, <2>4, <2>5 DEF FeedNext
<1> QED
  BY <1>1, <1>2

\* The invariant holds in every state.
THEOREM Invariant == FeedSpec => []Inv
<1> QED
  BY InitInv, NextInv, PTL DEF FeedSpec

\* The types of the state: events are of candles there are, the copy is no longer than the
\* list, nothing runs in the middle of the copy.
THEOREM TypeCorrect == FeedSpec => []FeedTypeOK
<1>1. Inv => FeedTypeOK
  BY DEF Inv
<1> QED
  BY <1>1, Invariant, PTL

\* What getCandles returns is in order, each bar once, and no longer than it may be.
THEOREM Window == FeedSpec => []BarsAreAWindow
<1>1. Inv => BarsAreAWindow
  <2> SUFFICES ASSUME Inv, NEW i \in DOMAIN data, NEW j \in DOMAIN data, i < j
               PROVE  data[i].start < data[j].start
    BY DEF BarsAreAWindow, CandlesOrdered, Inv
  <2>1. /\ Offset + i \in DOMAIN candles /\ Offset + j \in DOMAIN candles
        /\ Offset + i < Offset + j
    <3>1. i \in 1 .. Len(data) /\ j \in 1 .. Len(data)
      BY DEF Inv, FeedTypeOK
    <3>2. Offset + i \in 1 .. Len(candles) /\ Offset + j \in 1 .. Len(candles)
      <4>1. /\ Offset \in Nat /\ End \in Nat /\ Len(data) \in Nat /\ Len(candles) \in Nat
            /\ End <= Len(candles) /\ Offset = End - Len(data)
        BY Counts DEF Offset
      <4> QED
        BY <3>1, <4>1
    <3>3. Offset \in Nat /\ i \in Nat /\ j \in Nat
      BY <3>1, Counts
    <3> QED
      BY <3>2, <3>3 DEF Inv, FeedTypeOK
  <2>2. candles[Offset + i].start < candles[Offset + j].start
    BY <2>1 DEF Inv, ListInv
  <2> QED
    BY <2>2 DEF Inv, WindowInv
<1> QED
  BY <1>1, Invariant, PTL

\* No bar is lost on the way to the strategy, and none keeps the values it had before it was
\* complete.
THEOREM Skipped == FeedSpec => []NothingSkipped
<1>1. Inv => NothingSkipped
  <2> SUFFICES ASSUME Inv, loading = "done", NEW n \in 1 .. Len(candles) - 1, ~Pending(n),
                      ~(data # <<>> /\ candles[n].start < data[1].start)
               PROVE  Shows(n)
    BY DEF NothingSkipped
  <2>1. n \in Nat /\ n <= Pushed /\ n \in DOMAIN candles
    <3>1. candles # <<>>
      BY EmptySeq
    <3> QED
      BY <3>1, Counts DEF Inv, FeedTypeOK
  <2>2. n <= Taken
    <3> SUFFICES ASSUME n > Taken PROVE FALSE
      BY <2>1, Counts
    <3>1. n - Taken \in DOMAIN chan /\ n = Taken + (n - Taken)
      <4>2. /\ Taken \in Nat /\ Pushed \in Nat /\ Len(chan) \in Nat
            /\ Taken = Pushed - Len(chan)
        BY Counts DEF Taken
      <4>1. n - Taken \in 1 .. Len(chan) /\ n = Taken + (n - Taken)
        BY <2>1, <4>2
      <4> QED
        BY <4>1 DEF Inv, FeedTypeOK
    <3>2. chan[n - Taken] = n
      BY <3>1 DEF Inv, ChanInv
    <3> QED
      BY <3>1, <3>2 DEF Pending
  <2>3. data # <<>> /\ Len(data) >= 1
    <3>1. End >= 1
      BY <2>1, <2>2, Counts
    <3>2. data # <<>>
      BY <3>1 DEF Inv, WindowInv
    <3> QED
      BY <3>2, EmptySeq DEF Inv, FeedTypeOK
  <2>4. n > Offset
    <3> SUFFICES ASSUME n <= Offset PROVE FALSE
      BY <2>1, Counts
    <3>1. 1 \in DOMAIN data /\ Offset + 1 \in DOMAIN candles /\ n < Offset + 1
      BY <2>1, <2>3, Counts DEF Inv, FeedTypeOK, Offset
    <3>2. candles[n].start < candles[Offset + 1].start
      BY <2>1, <3>1 DEF Inv, ListInv
    <3>3. data[1].start = candles[Offset + 1].start
      BY <3>1 DEF Inv, WindowInv
    <3> QED
      BY <2>3, <3>2, <3>3
  <2>5. n - Offset \in DOMAIN data /\ Offset + (n - Offset) = n
    BY <2>1, <2>2, <2>4, Counts DEF Inv, FeedTypeOK, Offset
  <2>6. data[n - Offset] = candles[n]
    BY <2>2, <2>5 DEF Inv, WindowInv
  <2> QED
    BY <2>5, <2>6 DEF Shows
<1> QED
  BY <1>1, Invariant, PTL

-----------------------------------------------------------------------------
(* The history: Order2Go::getHistoricalPrices                             *)

\* Every bar found is one of those asked for; as long as the loop goes on, the next
\* page ends with the last bar found.
FoundInv ==
  /\ startDate = asked.from
  /\ \A i \in DOMAIN found : found[i] \in Between(asked.from, asked.to)
  /\ hpc \in {"ask", "wait"} =>
       endDate = IF found = <<>> THEN asked.to ELSE found[Len(found)]
  /\ hpc = "done" => result = IF error = "" THEN Reversed(found) ELSE <<>>

Found(d) == \E i \in DOMAIN found : found[i] = d

\* No bar asked for is missing, but those older than the end of the next page.
NoneMissing ==
  BarsApart =>
    /\ hpc \in {"ask", "wait"} /\ found # <<>> =>
         \A d \in Between(asked.from, asked.to) : d >= endDate => Found(d)
    /\ hpc \in {"over", "done"} /\ error = "" /\ ~asked.late /\ asked.unread = 0 =>
         \A d \in Between(asked.from, asked.to) : Found(d)

AskedOK ==
  asked \in [from : Dates, to : Dates, late : BOOLEAN, unread : Nat]

HistInv == HistTypeOK /\ AskedOK /\ FoundInv /\ HistoryOrdered /\ NoneMissing

\* Moments further apart than a second fall into different seconds, and seconds
\* are in the order of their moments.
LEMMA Seconds ==
  ASSUME NEW a \in Nat, NEW b \in Nat
  PROVE  /\ Second(a) \in Nat
         /\ Second(a) < Second(b) => a < b
         /\ b - a > 1 => Second(a) < Second(b)
BY DEF Second

\* Reversed is a sequence of the same elements, in the opposite order.
LEMMA ReversedIs ==
  ASSUME NEW S, NEW s \in Seq(S)
  PROVE  /\ Reversed(s) \in Seq(S) /\ Len(Reversed(s)) = Len(s)
         /\ DOMAIN Reversed(s) = 1 .. Len(s)
         /\ \A i \in 1 .. Len(s) : Reversed(s)[i] = s[Len(s) + 1 - i]
<1>1. \A i \in 1 .. Len(s) : Len(s) + 1 - i \in 1 .. Len(s)
  OBVIOUS
<1>2. \A i \in 1 .. Len(s) : s[Len(s) + 1 - i] \in S
  BY <1>1
<1>3. Reversed(s) \in [1 .. Len(s) -> S]
  BY <1>2 DEF Reversed
<1>4. Reversed(s) \in Seq(S) /\ Len(Reversed(s)) = Len(s)
  BY <1>3
<1>5. QED
  BY <1>3, <1>4 DEF Reversed

\* A list to which the first k bars of a page are added in reverse.
Grown(f, p, k) == f \o Reversed(SubSeq(p, 1, k))

LEMMA Added ==
  ASSUME NEW S, NEW f \in Seq(S), NEW p \in Seq(S), NEW k \in 0 .. Len(p)
  PROVE  /\ Grown(f, p, k) \in Seq(S) /\ Len(Grown(f, p, k)) = Len(f) + k
         /\ \A i \in 1 .. Len(f) : Grown(f, p, k)[i] = f[i]
         /\ \A i \in Len(f) + 1 .. Len(f) + k : Grown(f, p, k)[i] = p[Len(f) + k + 1 - i]
<1> DEFINE g == Grown(f, p, k)
<1> DEFINE q == SubSeq(p, 1, k)
<1>1. q \in Seq(S) /\ Len(q) = k /\ \A i \in 1 .. k : q[i] = p[i]
  OBVIOUS
<1> HIDE DEF q
<1>2. /\ Reversed(q) \in Seq(S) /\ Len(Reversed(q)) = k
      /\ \A i \in 1 .. k : Reversed(q)[i] = q[k + 1 - i]
  BY <1>1, ReversedIs
<1>3. \A i \in 1 .. k : Reversed(q)[i] = p[k + 1 - i]
  BY <1>1, <1>2
<1>4. g = f \o Reversed(q)
  BY DEF q, Grown
<1> DEFINE r == Reversed(q)
<1>5. r \in Seq(S) /\ Len(r) = k /\ g = f \o r
  BY <1>2, <1>4
<1>6. \A i \in 1 .. k : r[i] = p[k + 1 - i]
  BY <1>3
<1> HIDE DEF r, g
<1>7. g \in Seq(S) /\ Len(g) = Len(f) + k
      /\ \A i \in 1 .. Len(g) : g[i] = IF i <= Len(f) THEN f[i] ELSE r[i - Len(f)]
  <2>1. /\ f \o r \in Seq(S) /\ Len(f \o r) = Len(f) + Len(r)
        /\ \A i \in 1 .. Len(f) + Len(r) : (f \o r)[i] = IF i <= Len(f) THEN f[i] ELSE r[i - Len(f)]
    BY <1>5, ConcatProperties, Zenon
  <2>2. QED
    BY <1>5, <2>1
<1>8. \A i \in 1 .. Len(f) : g[i] = f[i]
  BY <1>7
<1>9. \A i \in Len(f) + 1 .. Len(f) + k : g[i] = p[Len(f) + k + 1 - i]
  <2> TAKE i \in Len(f) + 1 .. Len(f) + k
  <2>1. Len(f) \in Nat
    OBVIOUS
  <2>2. /\ i \in 1 .. Len(f) + k /\ ~(i <= Len(f)) /\ i - Len(f) \in 1 .. k
        /\ k + 1 - (i - Len(f)) = Len(f) + k + 1 - i
    BY <2>1
  <2>3. g[i] = r[i - Len(f)]
    BY <1>7, <2>2
  <2>4. r[i - Len(f)] = p[k + 1 - (i - Len(f))]
    BY <1>6, <2>2
  <2>5. QED
    BY <2>2, <2>3, <2>4
<1>10. QED
  BY <1>6, <1>7, <1>8, <1>9 DEF g

\* The initial states.
LEMMA HistStarts == HistInit => HistInv
<1> SUFFICES ASSUME HistInit PROVE HistInv
  OBVIOUS
<1>1. PICK s, e \in 0 .. MaxDate :
        /\ startDate = OleTime(s) /\ endDate = OleTime(e)
        /\ asked = [from |-> OleTime(s), to |-> OleTime(e), late |-> FALSE, unread |-> 0]
  BY DEF HistInit
<1>2. OleTime(s) \in Dates /\ OleTime(e) \in Dates
  BY TolAssumption DEF OleTime, Dates
<1>3. market \in SUBSET Dates /\ inclusive \in BOOLEAN /\ found = <<>> /\ result = <<>>
      /\ hpc = "ask" /\ error = ""
  BY DEF HistInit
<1>4. HistTypeOK
  <2>1. found \in Seq(market) /\ result \in Seq(market)
    BY <1>3, EmptySeq
  <2>2. endDate = asked.to
    BY <1>1
  <2>3. QED
    BY <1>1, <1>2, <1>3, <2>1, <2>2 DEF HistTypeOK
<1>5. AskedOK
  BY <1>1, <1>2 DEF AskedOK
<1>9. DOMAIN found = {}
  <2>1. found \in Seq(market) /\ Len(found) = 0
    BY <1>3, EmptySeq
  <2>2. QED
    BY <2>1
<1>6. FoundInv
  <2>1. startDate = asked.from /\ endDate = asked.to
    BY <1>1
  <2>2. QED
    BY <1>3, <1>9, <2>1 DEF FoundInv
<1>7. HistoryOrdered /\ NoneMissing
  BY <1>3, <1>9 DEF HistoryOrdered, NoneMissing
<1>8. QED
  BY <1>4, <1>5, <1>6, <1>7 DEF HistInv

\* What the type invariant gives for arithmetic.
LEMMA HistTypes ==
  ASSUME HistTypeOK, AskedOK
  PROVE  /\ market \subseteq Nat /\ startDate \in Nat /\ endDate \in Nat
         /\ asked.from \in Nat /\ asked.to \in Nat /\ endDate <= asked.to
<1>1. Dates \subseteq Nat
  BY TolAssumption DEF Dates
<1>2. market \subseteq Dates /\ startDate \in Dates /\ endDate \in Dates
  BY DEF HistTypeOK
<1>4. asked.from \in Dates /\ asked.to \in Dates
  BY DEF AskedOK
<1>3. endDate <= asked.to
  <2>1. endDate = asked.to \/ endDate < asked.to
    BY DEF HistTypeOK
  <2>2. endDate \in Nat /\ asked.to \in Nat
    BY <1>1, <1>2, <1>4
  <2>3. QED
    BY <2>1, <2>2
<1>5. QED
  BY <1>1, <1>2, <1>3, <1>4

\* A page is a sequence of bars of the market, all within the page asked for.
LEMMA PageIs ==
  ASSUME HistTypeOK, AskedOK, NEW page \in Pages, Page(page, startDate, endDate)
  PROVE  /\ page \in Seq(market) /\ Len(page) \in 1 .. Depth
         /\ \A i \in 1 .. Len(page) : startDate <= page[i] /\ page[i] <= endDate
         /\ \A i \in 1 .. Len(page) : page[1] <= page[i]
<1>1. PICK n \in 1 .. Depth : page \in [1 .. n -> Dates]
  BY DEF Pages
<1>2. n \in Nat /\ Len(page) = n /\ DOMAIN page = 1 .. n
  BY <1>1, DepthAssumption
<1>3. \A i \in 1 .. n : page[i] \in Between(startDate, endDate)
  BY <1>2 DEF Page
<1>4. \A i \in 1 .. n : page[i] \in market /\ page[i] \in Nat /\ page[i] <= endDate
                        /\ startDate <= page[i]
  <2>1. market \subseteq Nat /\ startDate \in Nat /\ endDate \in Nat
    BY HistTypes
  <2>2. \A d \in Between(startDate, endDate) : d \in market /\ d <= endDate /\ startDate <= d
    BY <2>1 DEF Between
  <2>3. QED
    BY <1>3, <2>1, <2>2
<1>5. page \in Seq(market)
  <2>1. page \in [1 .. n -> market]
    BY <1>1, <1>4
  <2>2. QED
    BY <1>2, <2>1
<1>6. \A i, j \in 1 .. n : i < j => page[i] < page[j]
  BY <1>2 DEF Page
<1>7. 1 \in 1 .. n
  BY <1>1, DepthAssumption
<1>8. \A i \in 1 .. n : page[1] <= page[i]
  <2> TAKE i \in 1 .. n
  <2>1. CASE i = 1
    BY <2>1, <1>4
  <2>2. CASE i # 1
    BY <2>2, <1>4, <1>6, <1>7
  <2>3. QED
    BY <2>1, <2>2
<1>9. QED
  BY <1>1, <1>2, <1>4, <1>5, <1>8

\* What a page does to the list, however it lies to what was found: nothing is lost,
\* the order is kept, and every bar of the page that was missing is added.
LEMMA PageAdds ==
  ASSUME HistInv, hpc = "wait", NEW page \in Pages, Page(page, startDate, endDate),
         NEW from \in 0 .. Len(page),
         found # <<>> =>
           \A i \in DOMAIN page : i > from <=> Second(page[i]) >= Second(found[Len(found)]),
         found = <<>> => from = Len(page),
         found' = found \o Reversed(SubSeq(page, 1, from))
  PROVE  /\ found' \in Seq(market)
         /\ \A i \in DOMAIN found' : found'[i] \in Between(asked.from, asked.to)
         /\ HistoryOrdered'
         /\ endDate - page[1] > Tol => found' # <<>> /\ found'[Len(found')] = page[1]
         /\ BarsApart => \A d \in Between(asked.from, asked.to) :
              d >= page[1] => \E i \in DOMAIN found' : found'[i] = d
<1> DEFINE n == Len(found)
           last == found[n]
           p == Len(page)
<1>1. /\ found \in Seq(market) /\ n \in Nat /\ DOMAIN found = 1 .. n
      /\ \A i \in 1 .. n : found[i] \in market
  <2>1. found \in Seq(market)
    BY DEF HistInv, HistTypeOK
  <2>2. QED
    BY <2>1
<1>2. /\ market \subseteq Nat /\ startDate \in Nat /\ endDate \in Nat
      /\ asked.from \in Nat /\ asked.to \in Nat /\ endDate <= asked.to
  BY HistTypes DEF HistInv
<1>3. /\ page \in Seq(market) /\ p \in 1 .. Depth /\ p \in Nat /\ p >= 1 /\ DOMAIN page = 1 .. p
      /\ \A i \in 1 .. p : page[i] \in market /\ startDate <= page[i] /\ page[i] <= endDate
      /\ \A i \in 1 .. p : page[1] <= page[i]
  <2>1. /\ page \in Seq(market) /\ p \in 1 .. Depth
        /\ \A i \in 1 .. p : startDate <= page[i] /\ page[i] <= endDate
        /\ \A i \in 1 .. p : page[1] <= page[i]
    BY PageIs DEF HistInv
  <2>2. p \in Nat /\ p >= 1 /\ DOMAIN page = 1 .. p /\ \A i \in 1 .. p : page[i] \in market
    BY <2>1, DepthAssumption
  <2>3. QED
    BY <2>1, <2>2
<1>4. startDate = asked.from /\ endDate = IF found = <<>> THEN asked.to ELSE last
  BY DEF HistInv, FoundInv
<1>5. \A i \in 1 .. p : page[i] \in Between(startDate, endDate)
  BY <1>3 DEF Page
<1>6. \A i, j \in 1 .. p : i < j => page[i] < page[j]
  BY <1>3 DEF Page
<1>7. found # <<>> => n \in 1 .. n /\ last \in market
  BY <1>1
<1>17. p \in Nat /\ 1 \in 1 .. p
  <2>1. p \in Nat /\ p >= 1
    BY <1>3
  <2> HIDE DEF p
  <2>2. QED
    BY <2>1
<1> HIDE DEF n, last, p
<1>8. from \in Nat /\ from <= p
  BY <1>17 DEF p
<1>9. /\ found' \in Seq(market) /\ Len(found') = n + from /\ DOMAIN found' = 1 .. n + from
      /\ \A i \in 1 .. n : found'[i] = found[i]
      /\ \A i \in 1 .. from : found'[n + i] = page[from + 1 - i]
  <2>1. /\ found' \in Seq(market) /\ Len(found') = n + from
        /\ \A i \in 1 .. n : found'[i] = found[i]
        /\ \A i \in 1 .. from : found'[n + i] = page[from + 1 - i]
    <3>1. found \in Seq(market) /\ page \in Seq(market) /\ from \in 0 .. Len(page)
      BY <1>1, <1>3
    <3>2. found' = found \o Reversed(SubSeq(page, 1, from))
      OBVIOUS
    <3>3. found' = Grown(found, page, from)
      BY <3>2 DEF Grown
    <3> DEFINE g == Grown(found, page, from)
    <3>4. /\ g \in Seq(market) /\ Len(g) = Len(found) + from
          /\ \A i \in 1 .. Len(found) : g[i] = found[i]
          /\ \A i \in 1 .. from : g[Len(found) + i] = page[from + 1 - i]
      <4>1. g \in Seq(market)
        BY <3>1, Added
      <4>2. Len(g) = Len(found) + from
        BY <3>1, Added
      <4>3. \A i \in 1 .. Len(found) : g[i] = found[i]
        BY <3>1, Added
      <4>4. \A i \in 1 .. from : g[Len(found) + i] = page[from + 1 - i]
        <5>1. \A i \in Len(found) + 1 .. Len(found) + from :
                 g[i] = page[Len(found) + from + 1 - i]
          BY <3>1, Added
        <5> HIDE DEF g
        <5>2. TAKE i \in 1 .. from
        <5>3. /\ Len(found) + i \in Len(found) + 1 .. Len(found) + from
              /\ Len(found) + from + 1 - (Len(found) + i) = from + 1 - i
          BY <1>1, <1>8, <5>2 DEF n
        <5>4. QED
          BY <5>1, <5>3
      <4>5. QED
        BY <4>1, <4>2, <4>3, <4>4
    <3>5. QED
      BY <3>3, <3>4 DEF n
  <2>2. DOMAIN found' = 1 .. n + from
    BY <2>1
  <2>3. QED
    BY <2>1, <2>2
<1>10. found # <<>> => \A i \in 1 .. from : page[i] < last
  <2> SUFFICES ASSUME found # <<>>, NEW i \in 1 .. from PROVE page[i] < last
    OBVIOUS
  <2>1. i \in 1 .. p /\ ~(i > from)
    BY <1>17, <1>8
  <2>6. DOMAIN page = 1 .. p
    BY <1>3
  <2>2. ~(Second(page[i]) >= Second(last))
    BY <2>1, <2>6 DEF last, n
  <2>3. page[i] \in Nat /\ last \in Nat
    BY <1>2, <1>3, <1>7, <2>1
  <2>4. Second(page[i]) < Second(last)
    <3>1. Second(page[i]) \in Nat /\ Second(last) \in Nat
      BY <2>3, Seconds
    <3>2. QED
      BY <2>2, <3>1
  <2>5. QED
    BY <2>3, <2>4, Seconds
\* An index of the new list is one of the old list, or one of the page.
<1>11. \A i \in DOMAIN found' : i \in 1 .. n \/ \E k \in 1 .. from : i = n + k /\ from + 1 - k \in 1 .. from
  <2> SUFFICES ASSUME NEW i \in DOMAIN found', i \notin 1 .. n
               PROVE  \E k \in 1 .. from : i = n + k /\ from + 1 - k \in 1 .. from
    OBVIOUS
  <2>1. i \in 1 .. n + from /\ i \in Int /\ i > n
    BY <1>1, <1>8, <1>9
  <2>5. n \in Nat
    BY <1>1
  <2> DEFINE k == i - n
  <2>2. k \in Int /\ k >= 1 /\ k <= from /\ i = n + k
    BY <1>8, <2>1, <2>5
  <2> HIDE DEF k
  <2>3. k \in 1 .. from /\ from + 1 - k \in 1 .. from
    BY <1>8, <2>2
  <2>4. QED
    BY <2>2, <2>3
<1>12. \A i \in DOMAIN found' : found'[i] \in Between(asked.from, asked.to)
  <2> TAKE i \in DOMAIN found'
  <2>1. CASE i \in 1 .. n
    BY <1>1, <1>9, <2>1 DEF HistInv, FoundInv
  <2>2. ASSUME NEW k \in 1 .. from, i = n + k, from + 1 - k \in 1 .. from
        PROVE  found'[i] \in Between(asked.from, asked.to)
    <3>1. found'[i] = page[from + 1 - k] /\ from + 1 - k \in 1 .. p
      BY <1>3, <1>8, <1>9, <2>2
    <3>2. found'[i] \in Between(startDate, endDate)
      BY <1>5, <3>1
    <3>3. QED
      <4> DEFINE d == found'[i]
      <4>1. d \in market /\ startDate <= d /\ (d < endDate \/ (inclusive /\ d = endDate))
        BY <3>2 DEF Between
      <4>2. d \in Nat
        BY <1>2, <4>1
      <4> HIDE DEF d
      <4>3. d < asked.to \/ (inclusive /\ d = asked.to)
        BY <1>2, <4>1, <4>2
      <4>4. d \in Between(asked.from, asked.to)
        BY <1>4, <4>1, <4>3 DEF Between
      <4>5. QED
        BY <4>4 DEF d
  <2>3. QED
    BY <1>11, <2>1, <2>2
<1>13. HistoryOrdered'
  <2> SUFFICES ASSUME NEW i \in DOMAIN found', NEW j \in DOMAIN found', i < j
               PROVE  found'[i] > found'[j]
    BY DEF HistoryOrdered
  <2>4. i \in Int /\ j \in Int
    BY <1>1, <1>8, <1>9
  <2>1. CASE j \in 1 .. n
    <3>1. i \in 1 .. n
      BY <1>1, <1>8, <1>9, <2>1, <2>4
    <3>2. QED
      BY <1>1, <1>9, <2>1, <3>1 DEF HistInv, HistoryOrdered
  <2>2. ASSUME NEW k \in 1 .. from, j = n + k, from + 1 - k \in 1 .. from
        PROVE  found'[i] > found'[j]
    <3>1. found'[j] = page[from + 1 - k] /\ from + 1 - k \in 1 .. p
      BY <1>3, <1>8, <1>9, <2>2
    <3>2. CASE i \in 1 .. n
      <4>1. found # <<>> /\ n \in 1 .. n /\ last \in Nat
        <5>1. n \in 1 .. n
          BY <1>1, <3>2
        <5>2. found # <<>>
          BY <1>1, <5>1, EmptySeq DEF n
        <5>3. QED
          BY <1>2, <1>7, <5>1, <5>2
      <4>2. found'[j] < last /\ found'[j] \in Nat
        BY <1>2, <1>3, <1>10, <2>2, <3>1, <4>1
      <4>3. found[i] \in Nat /\ (i = n \/ i < n)
        <5>1. found[i] \in Nat
          BY <1>1, <1>2, <3>2
        <5>2. n \in Nat
          BY <1>1
        <5>3. QED
          BY <3>2, <5>1, <5>2
      <4>4. found[i] >= last
        <5>1. CASE i = n
          BY <5>1, <4>1 DEF last
        <5>2. CASE i < n
          <6>1. found[i] > found[n]
            BY <1>1, <3>2, <4>1, <5>2 DEF HistInv, HistoryOrdered
          <6>2. QED
            BY <4>1, <4>3, <6>1 DEF last
        <5>3. QED
          BY <4>3, <5>1, <5>2
      <4>5. found'[i] = found[i]
        BY <1>9, <3>2
      <4>6. QED
        BY <4>1, <4>2, <4>3, <4>4, <4>5
    <3>3. ASSUME NEW m \in 1 .. from, i = n + m, from + 1 - m \in 1 .. from
          PROVE  found'[i] > found'[j]
      <4>1. found'[i] = page[from + 1 - m] /\ from + 1 - m \in 1 .. p
        BY <1>3, <1>8, <1>9, <3>3
      <4>2. from + 1 - k < from + 1 - m
        BY <1>1, <1>8, <2>2, <3>3
      <4>3. page[from + 1 - k] < page[from + 1 - m]
        BY <1>6, <3>1, <4>1, <4>2
      <4>4. page[from + 1 - k] \in Nat /\ page[from + 1 - m] \in Nat
        BY <1>2, <1>3, <3>1, <4>1
      <4>5. QED
        BY <3>1, <4>1, <4>3, <4>4
    <3>4. QED
      BY <1>11, <3>2, <3>3
  <2>3. QED
    BY <1>11, <2>1, <2>2
<1>14. endDate - page[1] > Tol => found' # <<>> /\ found'[Len(found')] = page[1]
  <2> SUFFICES ASSUME endDate - page[1] > Tol
               PROVE  found' # <<>> /\ found'[Len(found')] = page[1]
    OBVIOUS
  <2>1. 1 \in 1 .. p /\ page[1] \in Nat
    BY <1>2, <1>3, <1>17
  <2>2. endDate - page[1] > 1
    BY <1>2, <2>1, TolAssumption
  <2>3. from >= 1
    <3>1. CASE found = <<>>
      BY <1>3, <3>1 DEF p
    <3>2. CASE found # <<>>
      <4>1. endDate = last
        BY <1>4, <3>2
      <4>2. Second(page[1]) < Second(last) /\ Second(page[1]) \in Nat /\ Second(last) \in Nat
        BY <1>2, <2>1, <2>2, <4>1, Seconds
      <4>3. ~(Second(page[1]) >= Second(last))
        BY <4>2
      <4>4. ~(1 > from)
        BY <1>3, <2>1, <3>2, <4>3 DEF last, n
      <4>5. QED
        BY <1>8, <4>4
    <3>3. QED
      BY <3>1, <3>2
  <2>4. found'[n + from] = page[1]
    <3>1. from \in 1 .. from /\ from + 1 - from = 1
      BY <1>8, <2>3
    <3>2. QED
      BY <1>9, <3>1
  <2>5. Len(found') # 0
    BY <1>1, <1>8, <1>9, <2>3
  <2>6. QED
    BY <1>9, <2>4, <2>5, EmptySeq
<1>15. ASSUME BarsApart, NEW d \in Between(asked.from, asked.to), d >= page[1]
       PROVE  \E i \in DOMAIN found' : found'[i] = d
  <2>1. /\ d \in market /\ d \in Nat /\ asked.from <= d
        /\ d < asked.to \/ (inclusive /\ d = asked.to)
    BY <1>2, <1>15 DEF Between
  <2>5. 1 \in 1 .. p /\ page[1] \in Nat
    BY <1>2, <1>3, <1>17
  <2>2. CASE found # <<>> /\ d >= endDate
    <3>1. PICK i \in DOMAIN found : found[i] = d
      BY <1>15, <2>2 DEF HistInv, NoneMissing, Found
    <3>2. i \in DOMAIN found' /\ found'[i] = d
      BY <1>1, <1>8, <1>9, <3>1
    <3>3. QED
      BY <3>2
  <2>3. CASE found = <<>> \/ d < endDate
    <3>1. d \in Between(startDate, endDate)
      <4>1. d < endDate \/ (inclusive /\ d = endDate)
        BY <1>4, <2>1, <2>3
      <4>2. QED
        BY <1>4, <2>1, <4>1 DEF Between
    <3>2. PICK k \in 1 .. p : page[k] = d
      BY <1>3, <1>15, <2>1, <2>5, <3>1 DEF Page
    <3>3. k <= from
      <4>1. CASE found = <<>>
        BY <1>3, <3>2, <4>1 DEF p
      <4>2. CASE found # <<>>
        <5>1. endDate = last /\ d < last /\ last \in market /\ last \in Nat
          BY <1>2, <1>4, <1>7, <2>3, <4>2
        <5>2. last - d > Tol
          BY <1>15, <2>1, <5>1, TolAssumption DEF BarsApart
        <5>3. last - d > 1
          BY <2>1, <5>1, <5>2, TolAssumption
        <5>4. Second(d) < Second(last) /\ Second(d) \in Nat /\ Second(last) \in Nat
          BY <2>1, <5>1, <5>3, Seconds
        <5>5. ~(Second(page[k]) >= Second(last))
          BY <3>2, <5>4
        <5>6. ~(k > from)
          BY <1>3, <3>2, <4>2, <5>5 DEF last, n
        <5>7. QED
          BY <1>3, <1>8, <3>2, <5>6
      <4>3. QED
        BY <4>1, <4>2
    <3>4. from + 1 - k \in 1 .. from /\ from + 1 - (from + 1 - k) = k
      BY <1>3, <1>8, <3>2, <3>3
    <3>5. found'[n + (from + 1 - k)] = d
      BY <1>9, <3>2, <3>4
    <3>6. n + (from + 1 - k) \in DOMAIN found'
      BY <1>1, <1>8, <1>9, <3>4
    <3>7. QED
      BY <3>5, <3>6
  <2>4. QED
    BY <1>2, <2>1, <2>2, <2>3
<1>16. QED
  BY <1>9, <1>12, <1>13, <1>14, <1>15

\* A page that does not move the end of the range, or that ends where the range begins,
\* leaves no older bar behind: bars are further apart than the tolerance.
LEMMA NoneOlder ==
  ASSUME HistInv, NEW page \in Pages, Page(page, startDate, endDate), BarsApart,
         ~(endDate - page[1] > Tol) \/ ~(page[1] - startDate > Tol),
         NEW d \in Between(asked.from, asked.to)
  PROVE  d >= page[1]
<1> DEFINE p == Len(page)
<1>1. /\ market \subseteq Nat /\ startDate \in Nat /\ endDate \in Nat
      /\ asked.from \in Nat /\ asked.to \in Nat /\ endDate <= asked.to /\ startDate = asked.from
  BY HistTypes DEF HistInv, FoundInv
<1>2. /\ page \in Seq(market) /\ p \in 1 .. Depth
      /\ \A i \in 1 .. p : startDate <= page[i] /\ page[i] <= endDate
  BY PageIs DEF HistInv
<1>3. p \in Nat /\ p >= 1 /\ DOMAIN page = 1 .. p /\ \A i \in 1 .. p : page[i] \in market
  BY <1>2, DepthAssumption
<1>4. page[1] \in market /\ page[1] \in Nat /\ page[1] <= endDate
  <2>1. 1 \in 1 .. p
    BY <1>3
  <2>2. QED
    BY <1>1, <1>2, <1>3, <2>1
<1>5. d \in market /\ d \in Nat /\ startDate <= d
  BY <1>1 DEF Between
<1>6. ASSUME d < page[1] PROVE FALSE
  <2>1. page[1] - d > Tol
    BY <1>4, <1>5, <1>6, TolAssumption DEF BarsApart
  <2>2. page[1] - startDate > Tol
    BY <1>1, <1>4, <1>5, <2>1, TolAssumption
  <2>3. ~(endDate - page[1] > Tol)
    BY <2>2
  <2>4. d \in Between(startDate, endDate)
    BY <1>1, <1>4, <1>5, <1>6 DEF Between
  <2>5. CASE \E i \in DOMAIN page : page[i] = d
    <3>1. PICK i \in 1 .. p : page[i] = d
      BY <1>3, <2>5
    <3>2. page[1] <= page[i]
      BY <1>2, <3>1, PageIs DEF HistInv
    <3>3. QED
      BY <1>4, <1>5, <1>6, <3>1, <3>2
  <2>6. CASE p = Depth
    <3>1. 1 \in 1 .. p /\ 2 \in 1 .. p
      BY <1>3, <2>6, DepthAssumption
    <3>2. page[1] < page[2]
      BY <1>3, <3>1 DEF Page
    <3>3. page[2] \in market /\ page[2] \in Nat /\ page[2] <= endDate
      BY <1>1, <1>2, <1>3, <3>1
    <3>4. page[2] - page[1] > Tol
      BY <1>4, <3>2, <3>3, TolAssumption DEF BarsApart
    <3>5. QED
      BY <1>1, <1>4, <2>3, <3>3, <3>4, TolAssumption
  <2>7. QED
    BY <2>4, <2>5, <2>6 DEF Page
<1>7. QED
  BY <1>4, <1>5, <1>6

\* A page moves the end of the range to its first bar, or ends the loop.
LEMMA NextPageKeeps ==
  ASSUME HistInv, NextPage
  PROVE  HistInv'
<1>1. /\ hpc = "wait"
      /\ UNCHANGED <<market, inclusive, startDate, result, error, asked>>
  BY DEF NextPage
<1>2. PICK page \in Pages :
        /\ Page(page, startDate, endDate) /\ addPrices(page)
        /\ IF endDate - page[1] > Tol
           THEN /\ endDate' = page[1]
                /\ hpc' = IF page[1] - startDate > Tol THEN "ask" ELSE "over"
           ELSE hpc' = "over" /\ UNCHANGED endDate
  BY DEF NextPage
<1>3. /\ found' \in Seq(market)
      /\ \A i \in DOMAIN found' : found'[i] \in Between(asked.from, asked.to)
      /\ HistoryOrdered'
      /\ endDate - page[1] > Tol => found' # <<>> /\ found'[Len(found')] = page[1]
      /\ BarsApart => \A d \in Between(asked.from, asked.to) :
           d >= page[1] => \E i \in DOMAIN found' : found'[i] = d
  <2>1. PICK from \in 0 .. Len(page) :
          /\ found # <<>> =>
               \A i \in DOMAIN page : i > from <=> Second(page[i]) >= Second(found[Len(found)])
          /\ found = <<>> => from = Len(page)
          /\ found' = found \o Reversed(SubSeq(page, 1, from))
    BY <1>2 DEF addPrices
  <2>2. QED
    BY <1>1, <1>2, <2>1, PageAdds
<1>4. page[1] \in market /\ page[1] \in Nat /\ endDate \in Nat /\ asked.to \in Nat /\ endDate <= asked.to
  <2>1. page \in Seq(market) /\ Len(page) \in Nat /\ Len(page) >= 1
    BY <1>2, PageIs, DepthAssumption DEF HistInv
  <2>2. QED
    BY <2>1, HistTypes DEF HistInv
<1>5. HistTypeOK'
  <2>1. endDate' = asked.to \/ (endDate' \in market /\ endDate' < asked.to)
    <3>1. CASE endDate - page[1] > Tol
      <4>1. page[1] < endDate
        BY <1>4, <3>1, TolAssumption
      <4>2. QED
        BY <1>2, <1>4, <3>1, <4>1
    <3>2. CASE ~(endDate - page[1] > Tol)
      BY <1>2, <3>2 DEF HistInv, HistTypeOK
    <3>3. QED
      BY <3>1, <3>2
  <2>2. endDate' \in Dates
    BY <1>2, <1>4 DEF HistInv, HistTypeOK
  <2>3. hpc' \in {"ask", "over"}
    BY <1>2
  <2>4. QED
    BY <1>1, <1>3, <2>1, <2>2, <2>3 DEF HistInv, HistTypeOK
<1>6. AskedOK'
  BY <1>1 DEF HistInv, AskedOK
<1>7. FoundInv'
  <2>1. hpc' # "done" /\ hpc' # "wait"
    BY <1>2
  <2>2. hpc' = "ask" => endDate - page[1] > Tol
    BY <1>2
  <2>3. hpc' = "ask" => endDate' = page[1] /\ found' # <<>> /\ found'[Len(found')] = page[1]
    BY <1>2, <1>3, <2>2
  <2>4. \A i \in DOMAIN found' : found'[i] \in Between(asked.from, asked.to)'
    BY <1>1, <1>3 DEF Between
  <2>5. startDate' = asked'.from
    BY <1>1 DEF HistInv, FoundInv
  <2>6. QED
    BY <2>1, <2>3, <2>4, <2>5 DEF FoundInv
<1>8. NoneMissing'
  <2> SUFFICES ASSUME BarsApart PROVE NoneMissing'
    BY <1>1 DEF NoneMissing, BarsApart
  <2>1. \A d \in Between(asked.from, asked.to) : d >= page[1] => Found(d)'
    BY <1>3 DEF Found
  <2>2. hpc' = "ask" => endDate' = page[1]
    BY <1>2
  <2>3. ASSUME hpc' = "over", NEW d \in Between(asked.from, asked.to) PROVE Found(d)'
    <3>1. ~(endDate - page[1] > Tol) \/ ~(page[1] - startDate > Tol)
      BY <1>2, <2>3
    <3>2. d >= page[1]
      BY <1>2, <3>1, NoneOlder
    <3>3. QED
      BY <2>1, <3>2
  <2>4. hpc' \in {"ask", "over"}
    BY <1>2
  <2>5. Between(asked.from, asked.to)' = Between(asked.from, asked.to)
    BY <1>1 DEF Between
  <2>6. QED
    BY <2>1, <2>2, <2>3, <2>4, <2>5 DEF NoneMissing
<1>9. QED
  BY <1>3, <1>5, <1>6, <1>7, <1>8 DEF HistInv

\* The other steps leave what was found as it is.
LEMMA HistKeeps ==
  ASSUME HistInv, [HistNext]_histVars
  PROVE  HistInv'
<1>1. CASE Ask
  BY <1>1 DEF Ask, HistInv, HistTypeOK, AskedOK, FoundInv, HistoryOrdered, NoneMissing, BarsApart,
              Between, Found
<1>2. CASE TimesOut
  BY <1>2 DEF TimesOut, HistInv, HistTypeOK, AskedOK, FoundInv, HistoryOrdered, NoneMissing,
              BarsApart, Between, Found
<1>3. CASE Fails
  BY <1>3 DEF Fails, HistInv, HistTypeOK, AskedOK, FoundInv, HistoryOrdered, NoneMissing, BarsApart,
              Between, Found
<1>4. CASE Unreadable
  <2>1. /\ UNCHANGED <<market, inclusive, startDate, endDate, found, result, error>>
        /\ hpc = "wait" /\ hpc' \in {"ask", "over"}
        /\ asked' = [asked EXCEPT !.unread = @ + 1]
    BY <1>4 DEF Unreadable
  <2>2. /\ AskedOK' /\ asked'.from = asked.from /\ asked'.to = asked.to
        /\ asked'.unread # 0
    BY <2>1 DEF HistInv, AskedOK
  <2>3. HistTypeOK'
    BY <2>1, <2>2 DEF HistInv, HistTypeOK
  <2>4. FoundInv' /\ HistoryOrdered'
    BY <2>1, <2>2 DEF HistInv, FoundInv, HistoryOrdered, Between
  <2>5. NoneMissing'
    BY <2>1, <2>2 DEF HistInv, NoneMissing, BarsApart, Between, Found
  <2>6. QED
    BY <2>2, <2>3, <2>4, <2>5 DEF HistInv
<1>5. CASE EmptyPage
  <2>1. /\ UNCHANGED <<market, inclusive, startDate, endDate, found, result, error, asked>>
        /\ hpc = "wait" /\ hpc' = "over" /\ Between(startDate, endDate) = {}
    BY <1>5 DEF EmptyPage
  <2>2. HistTypeOK' /\ AskedOK' /\ FoundInv' /\ HistoryOrdered'
    BY <2>1 DEF HistInv, HistTypeOK, AskedOK, FoundInv, HistoryOrdered, Between
  <2>3. ASSUME BarsApart, NEW d \in Between(asked.from, asked.to) PROVE Found(d)
    <3>1. /\ d \in market /\ asked.from <= d
          /\ d < asked.to \/ (inclusive /\ d = asked.to)
      BY DEF Between
    <3>2. d \in Nat /\ endDate \in Nat /\ startDate = asked.from
      BY <3>1, HistTypes DEF HistInv, FoundInv
    <3>3. ~(d < endDate \/ (inclusive /\ d = endDate))
      BY <2>1, <3>1, <3>2 DEF Between
    <3>4. found # <<>> /\ d >= endDate
      BY <2>1, <3>1, <3>2, <3>3 DEF HistInv, FoundInv
    <3>5. QED
      BY <2>1, <2>3, <3>4 DEF HistInv, NoneMissing
  <2>4. NoneMissing'
    BY <2>1, <2>3 DEF NoneMissing, BarsApart, Between, Found
  <2>5. QED
    BY <2>2, <2>4 DEF HistInv
<1>6. CASE NextPage
  BY <1>6, NextPageKeeps
<1>7. CASE Finish
  <2>1. /\ UNCHANGED <<market, inclusive, startDate, endDate, found, error, asked>>
        /\ hpc = "over" /\ hpc' = "done"
        /\ result' = IF error = "" THEN Reversed(found) ELSE <<>>
    BY <1>7 DEF Finish
  <2>2. result' \in Seq(market)
    <3>1. found \in Seq(market) /\ <<>> \in Seq(market)
      BY EmptySeq DEF HistInv, HistTypeOK
    <3>2. Reversed(found) \in Seq(market)
      BY <3>1, ReversedIs
    <3>3. QED
      BY <2>1, <3>1, <3>2
  <2>3. HistTypeOK' /\ AskedOK'
    BY <2>1, <2>2 DEF HistInv, HistTypeOK, AskedOK
  <2>4. FoundInv' /\ HistoryOrdered' /\ NoneMissing'
    BY <2>1 DEF HistInv, FoundInv, HistoryOrdered, NoneMissing, BarsApart, Between, Found, Reversed
  <2>5. QED
    BY <2>3, <2>4 DEF HistInv
<1>8. CASE UNCHANGED histVars
  BY <1>8 DEF histVars, HistInv, HistTypeOK, AskedOK, FoundInv, HistoryOrdered, NoneMissing,
              BarsApart, Between, Found
<1>9. QED
  BY <1>1, <1>2, <1>3, <1>4, <1>5, <1>6, <1>7, <1>8 DEF HistNext, HistSteps

\* HistoryIsWhole: the promise of getHistoricalPrices gives every bar between the two
\* times, each once and in order, whatever the server counts at the end of a page and
\* however the pages overlap.
THEOREM HistoryAsAsked == HistSpec => []HistoryIsWhole
<1>1. HistInv => HistoryIsWhole
  <2>1. ASSUME HistInv, hpc = "done", error = "", ~asked.late, asked.unread = 0, BarsApart
        PROVE  {result[i] : i \in DOMAIN result} = Between(asked.from, asked.to)
    <3> DEFINE n == Len(found)
    <3>1. found \in Seq(market) /\ result = Reversed(found)
      BY <2>1 DEF HistInv, HistTypeOK, FoundInv
    <3>2. n \in Nat /\ DOMAIN found = 1 .. n
      BY <3>1
    <3>3. DOMAIN result = 1 .. n /\ \A i \in 1 .. n : result[i] = found[n + 1 - i]
      BY <3>1 DEF Reversed
    <3> HIDE DEF n
    <3>4. \A i \in 1 .. n : n + 1 - i \in 1 .. n /\ n + 1 - (n + 1 - i) = i
      BY <3>2
    <3>5. \A i \in 1 .. n : result[i] \in Between(asked.from, asked.to)
      BY <2>1, <3>2, <3>3, <3>4 DEF HistInv, FoundInv
    <3>6. \A d \in Between(asked.from, asked.to) : \E i \in 1 .. n : result[i] = d
      <4> TAKE d \in Between(asked.from, asked.to)
      <4>1. PICK i \in 1 .. n : found[i] = d
        BY <2>1, <3>2 DEF HistInv, NoneMissing, Found
      <4>2. n + 1 - i \in 1 .. n /\ result[n + 1 - i] = d
        BY <3>3, <3>4, <4>1
      <4>3. QED
        BY <4>2
    <3>7. {result[i] : i \in 1 .. n} = Between(asked.from, asked.to)
      BY <3>5, <3>6
    <3>8. QED
      BY <3>3, <3>7
  <2>2. HistInv => HistoryIsComplete
    BY <2>1 DEF HistoryIsComplete
  <2>3. QED
    BY <2>2 DEF HistInv, HistoryIsWhole
<1>2. QED
  BY <1>1, HistStarts, HistKeeps, PTL DEF HistSpec
=============================================================================
