-------------------------------- MODULE MCResend --------------------------------
(* The instance of Resend, with a cache of three and a cycle of four.         *)
EXTENDS Resend, TLC

AllPackets == SentPackets

Symmetry == Permutations(Nodes) \cup Permutations(Senders)
===============================================================================
