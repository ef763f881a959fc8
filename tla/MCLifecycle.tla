---------------------------- MODULE MCLifecycle ----------------------------
(***************************************************************************)
(* Lifecycle for TLC: all its constants are numbers and sets of names, and *)
(* the configurations give them values.                                    *)
(***************************************************************************)
EXTENDS Lifecycle
=============================================================================
