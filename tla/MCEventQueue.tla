---------------------------- MODULE MCEventQueue ----------------------------
(***************************************************************************)
(* TLC instances of EventQueue: a ForexConnect callback thread, a libuv    *)
(* worker and the Node thread.                                             *)
(***************************************************************************)
EXTENDS EventQueue
=============================================================================
