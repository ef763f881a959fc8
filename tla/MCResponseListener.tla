------------------------- MODULE MCResponseListener -------------------------
(***************************************************************************)
(* TLC instances of ResponseListener.                                      *)
(***************************************************************************)
EXTENDS ResponseListener

\* The Node thread alone uses all the requests; once a price worker has made one,
\* the last request is not used any more (two interleaved clients have many states).
OneLessWithWorkers ==
  (\E c \in Workers : kind'[c] # None) => \E r \in Request : answer'[r] = "unused"

SharedSpec ==
  /\ Init /\ [][Next /\ OneLessWithWorkers]_vars
  /\ WF_vars(ApiStep) /\ \A c \in Clients : WF_vars(ClientStep(c))
=============================================================================
