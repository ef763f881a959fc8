---------------------------- MODULE EventChannel ----------------------------
(***************************************************************************)
(* What EventQueue promises to the rest of the addon, with no mutex and no *)
(* threads in it: an unbounded first-in first-out channel.  Any thread may *)
(* send an event in one atomic step; the Node thread takes the oldest      *)
(* event, or throws all of them away when the session is closed.  An event *)
(* that was sent is either still in the channel or was taken, exactly once *)
(* and in the order it was sent.                                           *)
(***************************************************************************)
EXTENDS Sequences

CONSTANT Event   \* the events that may be sent

VARIABLES
  chan,      \* the events in the channel, oldest first
  removed    \* the events that left it, in the order they left it

vars == <<chan, removed>>

Init == chan = <<>> /\ removed = <<>>

Send == \E e \in Event : chan' = Append(chan, e) /\ UNCHANGED removed

Take == /\ chan # <<>>
        /\ chan' = Tail(chan)
        /\ removed' = Append(removed, Head(chan))

Discard == chan' = <<>> /\ removed' = removed \o chan

Next == Send \/ Take \/ Discard

Spec == Init /\ [][Next]_vars
=============================================================================
