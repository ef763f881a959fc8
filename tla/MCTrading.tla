----------------------------- MODULE MCTrading -----------------------------
(***************************************************************************)
(* What a strategy trades on and trades with: its order functions          *)
(* (Orders), what is in its candles (CandleFold) and what is in its rows   *)
(* (Rows).  They share nothing but the library, so that each behaviour     *)
(* follows one of them and leaves the others in one of their initial       *)
(* states.                                                                 *)
(***************************************************************************)
EXTENDS Orders, CandleFold, Rows

VARIABLE part

tradingVars == <<ordersVars, foldVars, rowVars, part>>

OrdersRest == OrdersInit /\ trades = <<>>
FoldRest == FoldInit /\ tick.price = CHOOSE price \in Price : TRUE
RowsRest == RowsInit /\ kind = "summary" /\ row = <<>>

TradingInit ==
  \/ part = "orders" /\ OrdersInit /\ FoldRest /\ RowsRest
  \/ part = "candles" /\ OrdersRest /\ FoldInit /\ RowsRest
  \/ part = "rows" /\ OrdersRest /\ FoldRest /\ RowsInit

TradingNext ==
  \/ part = "orders" /\ OrdersNext /\ UNCHANGED <<foldVars, rowVars, part>>
  \/ part = "candles" /\ FoldNext /\ UNCHANGED <<ordersVars, rowVars, part>>
  \/ part = "rows" /\ RowsNext /\ UNCHANGED <<ordersVars, foldVars, part>>

TradingSpec == TradingInit /\ [][TradingNext]_tradingVars
=============================================================================
