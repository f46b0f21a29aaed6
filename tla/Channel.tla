-------------------------------- MODULE Channel --------------------------------
(* What one direction of a connection promises: messages arrive whole, once   *)
(* each, and in the order in which the sender's threads sent them.            *)
EXTENDS Naturals, Sequences

CONSTANT Messages

VARIABLES
  sent,  \* the messages sent so far
  rcvd   \* the messages received so far

ChannelInit == sent = <<>> /\ rcvd = <<>>

Send    == /\ \E m \in Messages : sent' = Append(sent, m)
           /\ UNCHANGED rcvd
Receive == /\ Len(rcvd) < Len(sent)
           /\ rcvd' = Append(rcvd, sent[Len(rcvd) + 1])
           /\ UNCHANGED sent

ChannelNext == Send \/ Receive

ChannelSpec == ChannelInit /\ [][ChannelNext]_<<sent, rcvd>>
===============================================================================
