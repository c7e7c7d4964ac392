----------------------------- MODULE ChannelLog -----------------------------
(***************************************************************************)
(* What the message repository promises of its channels: every channel is  *)
(* one growing sequence of messages.  A message gets the next number when  *)
(* it is accepted, and neither a message nor its number changes after.     *)
(***************************************************************************)
EXTENDS Sequences

CONSTANTS Channel, Sender

VARIABLE log

Init == log = [c \in Channel |-> <<>>]

Post(c, s) == log' = [log EXCEPT ![c] = Append(@, s)]

Next == \E c \in Channel, s \in Sender : Post(c, s)

Spec == Init /\ [][Next]_log
=============================================================================
