--------------------------------- MODULE Graph ---------------------------------
(* What the storage promises of one node: each request is one step on the set *)
(* of nodes it is related to.                                                 *)
CONSTANTS
  Nodes,  \* the nodes a node may be related to
  Absent  \* the node does not exist

VARIABLES
  rel,    \* the nodes it is related to, or Absent
  answer  \* what a read of the node returned last

GraphInit == rel = Absent /\ answer = Absent

Create(new) == /\ rel' = IF rel = Absent THEN {new} ELSE rel \cup {new}
               /\ UNCHANGED answer

Read == /\ rel # Absent
        /\ answer' = rel
        /\ UNCHANGED rel

Replace(old, new) == /\ rel # Absent
                     /\ rel' = (rel \ {old}) \cup {new}
                     /\ UNCHANGED answer

Delete(old) == /\ rel # Absent
               /\ rel' = rel \ {old}
               /\ UNCHANGED answer

DeleteAll == /\ rel' = Absent
             /\ UNCHANGED answer

GraphNext == \/ Read \/ DeleteAll
             \/ \E old \in Nodes : Delete(old)
             \/ \E new \in Nodes : Create(new) \/ \E old \in Nodes : Replace(old, new)

GraphSpec == GraphInit /\ [][GraphNext]_<<rel, answer>>
===============================================================================
