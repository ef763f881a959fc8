----------------------------- MODULE MCCandles -----------------------------
(***************************************************************************)
(* The two ways in which bars reach a strategy: the list of the dataset    *)
(* (CandleFeed) and the history it asks for (HistoryPaging).  They share   *)
(* nothing but the library, so that each behaviour follows one of them and *)
(* leaves the other in one of its initial states.                          *)
(***************************************************************************)
EXTENDS CandleFeed, HistoryPaging

VARIABLE part

allVars == <<feedVars, histVars, part>>

CandlesInit ==
  \/ part = "feed" /\ FeedInit /\ HistInit
       /\ market = {} /\ ~inclusive /\ asked.from = 1 /\ asked.to = 1
  \/ part = "history" /\ FeedInit /\ HistInit

CandlesNext ==
  \/ part = "feed" /\ FeedNext /\ UNCHANGED <<histVars, part>>
  \/ part = "history" /\ HistNext /\ UNCHANGED <<feedVars, part>>

CandlesSpec ==
  /\ CandlesInit /\ [][CandlesNext]_allVars
  /\ WF_allVars(part = "feed" /\ Pump /\ UNCHANGED <<histVars, part>>)
  /\ WF_allVars(part = "feed" /\ Snapshot /\ UNCHANGED <<histVars, part>>)
  /\ WF_allVars(part = "history" /\ HistSteps /\ UNCHANGED <<feedVars, part>>)
=============================================================================
