----------------------------- MODULE MCWinEvent -----------------------------
(***************************************************************************)
(* TLC instances of WinEvent: two threads wait on one auto-reset event.    *)
(***************************************************************************)
EXTENDS WinEvent
=============================================================================
