----------------------------- MODULE BoundedStore -----------------------------
(* What a cache of the last packets promises: the Size entries used most       *)
(* recently, each key at most once, the one unused for longest dropped first.  *)
EXTENDS Sequences, Naturals

CONSTANTS Keys, Values, Size

VARIABLE store   \* the entries, the one used last first

Entry(k, v) == [key |-> k, value |-> v]
Holds(k)    == \E i \in 1..Len(store) : store[i].key = k

StoreInit == store = <<>>

\* A key that is not there yet.
Put(k, v) ==
  /\ ~Holds(k)
  /\ store' = <<Entry(k, v)>> \o SubSeq(store, 1, IF Len(store) < Size THEN Len(store)
                                                                     ELSE Size - 1)

\* A look-up makes an entry the one used last.
Use(k) ==
  \E i \in 1..Len(store) :
    /\ store[i].key = k
    /\ store' = <<store[i]>> \o SubSeq(store, 1, i - 1) \o SubSeq(store, i + 1, Len(store))

StoreNext == \E k \in Keys : Use(k) \/ \E v \in Values : Put(k, v)

StoreSpec == StoreInit /\ [][StoreNext]_store
===============================================================================
