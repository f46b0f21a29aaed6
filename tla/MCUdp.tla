--------------------------------- MODULE MCUdp ---------------------------------
(* Instances of UdpGame.                                                      *)
EXTENDS UdpGame, TLC

CONSTANTS n1, n2

\* Every kind of datagram, and every shape from every player.
Arriving ==
  {d \in Datagrams : \/ d.type = "G" /\ d.to = d.sender
                     \/ d.type # "G" /\ d.state = "piedra" /\ d.sender = n1 /\ d.to = n2}

Symmetry == Permutations(Threads)
===============================================================================
