------------------------------- MODULE MCStorage -------------------------------
(* The instance of Storage.                                                   *)
EXTENDS Storage, TLC

\* On the first node every request that changes something, on the second one few.
Arriving ==
  [op : {"C"}, node : {2}, new : {1}] \cup [op : {"D"}, node : {2}, old : {Star}]
  \cup {j \in Jobs : j.node = 1 /\ (j.op = "U" => j.old # j.new)}

Symmetry == Permutations(Threads)
===============================================================================
