--------------------------------- MODULE Cache ---------------------------------
(* final/lib/cache.h: the list of cached packets, used last first, and the    *)
(* map from a key to its node in that list.  A node is a place in memory: an  *)
(* iterator kept in the map dangles once its node is erased, and the place    *)
(* may be given to the next node.  Each call runs to completion.              *)
EXTENDS Sequences, Naturals

CONSTANTS
  Keys, Values,
  Size,      \* Cache::size
  Nodes,     \* places for list nodes
  NoNode     \* no entry in cache_map

ASSUME CacheAssumption ==
  /\ Size \in Nat \ {0}
  /\ NoNode \notin Nodes
  /\ Keys # {} /\ Values # {}

VARIABLES
  cache_list,  \* the nodes from front to back
  cache_map,   \* the node of a key
  node,        \* what a place in memory holds
  inserted,    \* history: the value inserted last under a key
  reused       \* history: a key was inserted while the list still had a node of it

vars == <<cache_list, cache_map, node, inserted, reused>>

Packets == [key : Keys, value : Values]

Linked == {cache_list[i] : i \in 1..Len(cache_list)}

Init ==
  /\ cache_list = <<>>
  /\ cache_map = [k \in Keys |-> NoNode]
  /\ node = [n \in Nodes |-> CHOOSE p \in Packets : TRUE]
  /\ inserted = [k \in Keys |-> CHOOSE v \in Values : TRUE]
  /\ reused = FALSE

\* Mutant of Full: the test is made after the push.
FullMutant == Len(cache_list) = Size + 1

Full      == Len(cache_list) = Size
Popped(s) == SubSeq(s, 1, Len(s) - 1)

\* Mutant of PushFront: an iterator that is in the map stays.
PushFrontMutant(rest, map, k, v) ==
  \E n \in Nodes \ {rest[i] : i \in 1..Len(rest)} :
    /\ cache_list' = <<n>> \o rest
    /\ node' = [node EXCEPT ![n] = [key |-> k, value |-> v]]
    /\ cache_map' = IF map[k] = NoNode THEN [map EXCEPT ![k] = n] ELSE map

\* push_front of a new node for k and v, with its iterator in the map.
PushFront(rest, map, k, v) ==
  \E n \in Nodes \ {rest[i] : i \in 1..Len(rest)} :
    /\ cache_list' = <<n>> \o rest
    /\ node' = [node EXCEPT ![n] = [key |-> k, value |-> v]]
    /\ cache_map' = [map EXCEPT ![k] = n]

\* Mutants of Evicted: the key stays in the map; the key of the front is erased.
EvictedMutant == cache_map
EvictedFront  == [cache_map EXCEPT ![node[cache_list[1]].key] = NoNode]

\* The map without the key of the last node.
Evicted == [cache_map EXCEPT ![node[cache_list[Len(cache_list)]].key] = NoNode]

insert(k, v) ==
  /\ IF Full THEN PushFront(Popped(cache_list), Evicted, k, v)
             ELSE PushFront(cache_list, cache_map, k, v)
  /\ inserted' = [inserted EXCEPT ![k] = v]
  /\ reused' = (reused \/ \E n \in Linked : node[n].key = k)

\* Mutant of Erased: the old node is not erased.
ErasedMutant(s, i) == s

\* The list without the node at place i.
Erased(s, i) == SubSeq(s, 1, i - 1) \o SubSeq(s, i + 1, Len(s))

\* A key that is found moves to the front, in a new node; for the others get
\* returns an empty packet.
get(k) ==
  /\ cache_map[k] # NoNode
  /\ \E i \in 1..Len(cache_list) :
       /\ cache_list[i] = cache_map[k]
       /\ PushFront(Erased(cache_list, i), cache_map, k, node[cache_map[k]].value)
  /\ UNCHANGED <<inserted, reused>>

Next == \E k \in Keys : get(k) \/ \E v \in Values : insert(k, v)

Spec == Init /\ [][Next]_vars

-------------------------------------------------------------------------------
(* Properties.                                                                *)

\* No iterator in the map dangles, whatever keys are inserted again: it leads to
\* a node that is in the list and holds that key.
NoDangling ==
  \A k \in Keys :
    cache_map[k] # NoNode => cache_map[k] \in Linked /\ node[cache_map[k]].key = k

\* The list never grows beyond the size of the cache: the test for room is an
\* equality, so that one node too many would never be noticed again.
Bounded == Len(cache_list) <= Size

\* A packet that is found is the one inserted last under its number, also when
\* an older packet with that number is still in the list: a packet that is sent
\* again is never an old one.
LatestFound ==
  \A k \in Keys :
    cache_map[k] # NoNode => node[cache_map[k]].value = inserted[k]

\* As long as numbers are not used again while an old packet is cached, the list
\* is a bounded store of the packets used last, and a key is found just when
\* its packet is in the store.
contents == [i \in 1..Len(cache_list) |-> node[cache_list[i]]]

B == INSTANCE BoundedStore WITH store <- contents

ImplementsStore ==
  /\ B!StoreInit
  /\ [][reused' \/ B!StoreNext]_contents

FoundWhenHeld ==
  ~reused => \A k \in Keys : B!Holds(k) => cache_map[k] # NoNode
===============================================================================
