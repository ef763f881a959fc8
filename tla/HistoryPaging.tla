--------------------------- MODULE HistoryPaging ---------------------------
(***************************************************************************)
(* Order2Go::getHistoricalPrices: the bars between two times are asked for *)
(* page by page, from the newest backwards.  A page holds the newest Depth *)
(* bars up to endDate; the oldest of them is the endDate of the next page, *)
(* and what the pages have in common is skipped by the time in seconds.    *)
(* The loop ends when a page brings nothing, ends within a tolerance of    *)
(* where it began, or when a request fails or gets no answer in time.      *)
(*                                                                         *)
(* Dates are numbers, two to a second: bars of a minute or more are        *)
(* further apart than the tolerance, ticks need not be.                    *)
(***************************************************************************)
EXTENDS Integers, Sequences

CONSTANTS
  Depth,    \* getQueryDepth: how many bars a page holds
  Tol,      \* the tolerance of 0.0001 days, more than a second
  MaxDate,  \* bound: the dates of bars are 1 .. MaxDate, the last one is now
  MaxUnread \* bound on the answers that cannot be read

ASSUME DepthAssumption == Depth \in Nat \ {0, 1}
ASSUME TolAssumption == Tol \in Nat \ {0} /\ MaxDate \in Nat \ {0} /\ MaxUnread \in Nat

VARIABLES
  market,     \* the dates of the bars there are
  inclusive,  \* does the server count a bar that begins at endDate? The code works with both
  startDate, endDate,
  found,      \* candles: the dates found up to now, the newest first
  result,     \* what JavaScript gets
  hpc,        \* the worker: "ask", "wait", "over" or "done"
  error,      \* m_Error
  asked       \* history: the dates asked for, time-outs and unreadable answers

histVars == <<market, inclusive, startDate, endDate, found, result, hpc, error, asked>>

Dates == 1 .. MaxDate
Second(date) == date \div 2

\* Utils::time2OleTime takes the time 0 for now.
OleTime(t) == IF t = 0 THEN MaxDate ELSE t

HistInit ==
  /\ market \in SUBSET Dates
  /\ inclusive \in BOOLEAN
  /\ \E s, e \in 0 .. MaxDate :
       /\ startDate = OleTime(s) /\ endDate = OleTime(e)
       /\ asked = [from |-> OleTime(s), to |-> OleTime(e), late |-> FALSE, unread |-> 0]
  /\ found = <<>> /\ result = <<>>
  /\ hpc = "ask" /\ error = ""

Between(from, to) == {d \in market : from <= d /\ (d < to \/ (inclusive /\ d = to))}

\* The server's answer: the newest Depth bars of the range, the oldest first.
Page(page, from, to) ==
  /\ \A i, j \in DOMAIN page : i < j => page[i] < page[j]
  /\ \A i \in DOMAIN page : page[i] \in Between(from, to)
  /\ \A d \in Between(from, to) :
       \/ \E i \in DOMAIN page : page[i] = d
       \/ Len(page) = Depth /\ d < page[1]

Pages == UNION {[1 .. n -> Dates] : n \in 1 .. Depth}

Reversed(s) == [i \in 1 .. Len(s) |-> s[Len(s) + 1 - i]]

\* A mutant: the bar that two pages have in common is added twice.
addPricesTwice(page) ==
  \E from \in 0 .. Len(page) :
    /\ found # <<>> =>
         \A i \in DOMAIN page : i > from <=> Second(page[i]) > Second(found[Len(found)])
    /\ found = <<>> => from = Len(page)
    /\ found' = found \o Reversed(SubSeq(page, 1, from))

\* The bars of the page are added, the newest first, from the newest on that is older
\* than all found before.
addPrices(page) ==
  \E from \in 0 .. Len(page) :
    /\ found # <<>> =>
         \A i \in DOMAIN page : i > from <=> Second(page[i]) >= Second(found[Len(found)])
    /\ found = <<>> => from = Len(page)
    /\ found' = found \o Reversed(SubSeq(page, 1, from))

Ask ==
  /\ hpc = "ask"
  /\ hpc' = "wait"
  /\ UNCHANGED <<market, inclusive, startDate, endDate, found, result, error, asked>>

\* No answer for TIMEOUT: the loop is left, and no error is set.
TimesOut ==
  /\ hpc = "wait"
  /\ hpc' = "over"
  /\ asked' = [asked EXCEPT !.late = TRUE]
  /\ UNCHANGED <<market, inclusive, startDate, endDate, found, result, error>>

Fails ==
  /\ hpc = "wait"
  /\ hpc' = "over" /\ error' = "failed"
  /\ UNCHANGED <<market, inclusive, startDate, endDate, found, result, asked>>

\* No reader can be made for the response: nothing is called, and the loop goes on.
Unreadable ==
  /\ hpc = "wait" /\ asked.unread < MaxUnread
  /\ hpc' = IF endDate - startDate > Tol THEN "ask" ELSE "over"
  /\ asked' = [asked EXCEPT !.unread = @ + 1]
  /\ UNCHANGED <<market, inclusive, startDate, endDate, found, result, error>>

EmptyPage ==
  /\ hpc = "wait" /\ Between(startDate, endDate) = {}
  /\ hpc' = "over"
  /\ UNCHANGED <<market, inclusive, startDate, endDate, found, result, error, asked>>

\* A mutant: the loop only looks at the start of the range.
AnyPage ==
  /\ hpc = "wait"
  /\ \E page \in Pages :
       /\ Page(page, startDate, endDate) /\ addPrices(page)
       /\ endDate' = page[1]
       /\ hpc' = IF page[1] - startDate > Tol THEN "ask" ELSE "over"
  /\ UNCHANGED <<market, inclusive, startDate, result, error, asked>>

NextPage ==
  /\ hpc = "wait"
  /\ \E page \in Pages :
       /\ Page(page, startDate, endDate) /\ addPrices(page)
       /\ IF endDate - page[1] > Tol
          THEN /\ endDate' = page[1]
               /\ hpc' = IF page[1] - startDate > Tol THEN "ask" ELSE "over"
          ELSE hpc' = "over" /\ UNCHANGED endDate
  /\ UNCHANGED <<market, inclusive, startDate, result, error, asked>>

\* The promise is resolved with the reversed list, or rejected with the error.
Finish ==
  /\ hpc = "over"
  /\ hpc' = "done"
  /\ result' = IF error = "" THEN Reversed(found) ELSE <<>>
  /\ UNCHANGED <<market, inclusive, startDate, endDate, found, error, asked>>

HistSteps == Ask \/ TimesOut \/ Fails \/ EmptyPage \/ NextPage \/ Finish
HistNext == HistSteps \/ Unreadable

HistSpec == HistInit /\ [][HistNext]_histVars

\* A wait ends, by an answer or the time-out.
HistFairness == WF_histVars(HistSteps)

-----------------------------------------------------------------------------
\* The types of the state: what is found is in the market, and a page ends where
\* the first one does or with a bar.
HistTypeOK ==
  /\ market \subseteq Dates /\ inclusive \in BOOLEAN
  /\ startDate \in Dates /\ endDate \in Dates
  /\ found \in Seq(market) /\ result \in Seq(market)
  /\ hpc \in {"ask", "wait", "over", "done"}
  /\ error \in {"", "failed"}
  /\ endDate = asked.to \/ (endDate \in market /\ endDate < asked.to)

\* The pages are put together in order: every bar found is older than the one
\* before it, so none comes twice, wherever pages overlap and whether or not the
\* server counts a bar at the end of the range.
HistoryOrdered == \A i, j \in DOMAIN found : i < j => found[i] > found[j]

BarsApart == \A a, b \in market : a # b => a - b > Tol \/ b - a > Tol

\* README.md:161: getHistoricalPrices gives the prices between startTime and
\* endTime.  For bars (not for ticks of the same second) a promise that resolves
\* holds all of them and nothing else - unless a request timed out: the code
\* leaves its loop then without an error, and resolves with the newest part.
HistoryIsComplete ==
  hpc = "done" /\ error = "" /\ ~asked.late /\ asked.unread = 0 /\ BarsApart =>
    {result[i] : i \in DOMAIN result} = Between(asked.from, asked.to)

\* What the pages are put together to is the history asked for, each bar once.
HistoryIsWhole == HistoryOrdered /\ HistoryIsComplete

\* The loop ends: every page begins earlier than the one before.  (A response that
\* no reader can be made for would be asked for again for ever.)
HistoryEnds == (hpc = "wait") ~> (hpc = "done")
=============================================================================
