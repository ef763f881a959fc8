-------------------------- MODULE MCPriceCollector --------------------------
(***************************************************************************)
(* TLC instances of PriceCollector.                                        *)
(***************************************************************************)
EXTENDS PriceCollector

CONSTANTS m1, m5

\* Candles of one and of two units of time.
MCLength == m1 :> 1 @@ m5 :> 2
=============================================================================
