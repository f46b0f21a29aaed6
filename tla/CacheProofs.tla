------------------------------ MODULE CacheProofs ------------------------------
(* Proofs about Cache, for every size, every set of keys and every memory.    *)
EXTENDS Cache, SequenceTheorems, TLAPS

\* Every variable holds a value of the kind the code gives it.
TypeOK ==
  /\ cache_list \in Seq(Nodes)
  /\ cache_map \in [Keys -> Nodes \cup {NoNode}]
  /\ node \in [Nodes -> Packets]
  /\ inserted \in [Keys -> Values]
  /\ reused \in BOOLEAN

\* A place in memory holds one node of the list at a time.
OnePlace ==
  \A i, j \in 1..Len(cache_list) : cache_list[i] = cache_list[j] => i = j

\* Without a number used again, the map leads to every node of the list.
AllMapped ==
  ~reused =>
    \A i \in 1..Len(cache_list) : cache_map[node[cache_list[i]].key] = cache_list[i]

CacheInv == TypeOK /\ Bounded /\ OnePlace /\ NoDangling /\ LatestFound /\ AllMapped

-------------------------------------------------------------------------------
(* The lists that insert and get push onto.                                   *)

LEMMA PoppedList ==
  ASSUME NEW S, NEW s \in Seq(S), Len(s) >= 1
  PROVE  /\ Popped(s) \in Seq(S)
         /\ Len(Popped(s)) = Len(s) - 1
         /\ \A i \in 1..(Len(s) - 1) : Popped(s)[i] = s[i]
  <1>1. Len(s) \in Nat /\ \A i \in 1..Len(s) : s[i] \in S
    BY LenProperties, ElementOfSeq
  <1>2. \A i \in 1..(Len(s) - 1) : s[i] \in S
    BY <1>1
  <1>3. /\ SubSeq(s, 1, Len(s) - 1) \in Seq(S)
        /\ Len(SubSeq(s, 1, Len(s) - 1)) = IF 1 <= Len(s) - 1 THEN Len(s) - 1 - 1 + 1 ELSE 0
        /\ \A i \in 1..(Len(s) - 1 - 1 + 1) : SubSeq(s, 1, Len(s) - 1)[i] = s[1 + i - 1]
    <2>1. 1 \in Int /\ Len(s) - 1 \in Int
      BY <1>1
    <2>2. QED
      BY <1>2, <2>1, SubSeqProperties
  <1>4. Len(SubSeq(s, 1, Len(s) - 1)) = Len(s) - 1
    <2> DEFINE l == Len(s)
               p == Len(SubSeq(s, 1, Len(s) - 1))
    <2>1. l \in Nat /\ l >= 1 /\ p = IF 1 <= l - 1 THEN l - 1 - 1 + 1 ELSE 0
      BY <1>1, <1>3
    <2> HIDE DEF l, p
    <2>2. p = l - 1
      BY <2>1
    <2>3. QED
      BY <2>2 DEF l, p
  <1>5. \A i \in 1..(Len(s) - 1) : SubSeq(s, 1, Len(s) - 1)[i] = s[i]
    BY <1>1, <1>3
  <1>6. QED
    BY <1>3, <1>4, <1>5 DEF Popped

LEMMA ErasedList ==
  ASSUME NEW S, NEW s \in Seq(S), NEW i \in 1..Len(s)
  PROVE  /\ Erased(s, i) \in Seq(S)
         /\ Len(Erased(s, i)) = Len(s) - 1
         /\ \A j \in 1..(Len(s) - 1) : Erased(s, i)[j] = IF j < i THEN s[j] ELSE s[j + 1]
  <1> DEFINE a == SubSeq(s, 1, i - 1)
             b == SubSeq(s, i + 1, Len(s))
  <1>1. Len(s) \in Nat /\ i \in Nat /\ \A j \in 1..Len(s) : s[j] \in S
    BY LenProperties, ElementOfSeq
  <1>2. a \in Seq(S) /\ Len(a) = i - 1 /\ \A j \in 1..(i - 1) : a[j] = s[j]
    <2>1. \A j \in 1..(i - 1) : s[j] \in S
      BY <1>1
    <2>2. QED
      BY <1>1, <2>1, SubSeqProperties
  <1>3. /\ b \in Seq(S) /\ Len(b) = Len(s) - i
        /\ \A j \in 1..(Len(s) - i) : b[j] = s[i + j]
    <2>1. \A j \in (i + 1)..Len(s) : s[j] \in S
      BY <1>1
    <2>2. /\ b \in Seq(S)
          /\ Len(b) = IF i + 1 <= Len(s) THEN Len(s) - (i + 1) + 1 ELSE 0
          /\ \A j \in 1..(Len(s) - (i + 1) + 1) : b[j] = s[i + 1 + j - 1]
      BY <1>1, <2>1, SubSeqProperties
    <2>3. QED
      BY <1>1, <2>2
  <1>4. /\ a \o b \in Seq(S) /\ Len(a \o b) = Len(a) + Len(b)
        /\ \A j \in 1..(Len(a) + Len(b)) :
             (a \o b)[j] = IF j <= Len(a) THEN a[j] ELSE b[j - Len(a)]
    BY <1>2, <1>3, ConcatProperties
  <1> HIDE DEF a, b
  <1>5. Len(a \o b) = Len(s) - 1
    BY <1>1, <1>2, <1>3, <1>4
  <1>6. \A j \in 1..(Len(s) - 1) : (a \o b)[j] = IF j < i THEN s[j] ELSE s[j + 1]
    <2> TAKE j \in 1..(Len(s) - 1)
    <2>1. CASE j < i
      BY <2>1, <1>1, <1>2, <1>3, <1>4
    <2>2. CASE j >= i
      <3>1. (a \o b)[j] = b[j - (i - 1)]
        BY <2>2, <1>1, <1>2, <1>3, <1>4
      <3>2. j - (i - 1) \in 1..(Len(s) - i) /\ i + (j - (i - 1)) = j + 1
        BY <2>2, <1>1
      <3>3. QED
        BY <3>1, <3>2, <1>3, <2>2, <1>1
    <2>3. i \in Int /\ j \in Int
      BY <1>1
    <2>4. j < i \/ j >= i
      BY <2>3
    <2>5. QED
      BY <2>1, <2>2, <2>4
  <1>7. QED
    BY <1>4, <1>5, <1>6 DEF Erased, a, b

\* What a push leaves in memory.
LEMMA Pushed ==
  ASSUME TypeOK, NEW rest \in Seq(Nodes), NEW map \in [Keys -> Nodes \cup {NoNode}],
         NEW k \in Keys, NEW v \in Values, PushFront(rest, map, k, v)
  PROVE  /\ cache_list' \in Seq(Nodes) /\ Len(cache_list') = Len(rest) + 1
         /\ node' \in [Nodes -> Packets]
         /\ cache_map' \in [Keys -> Nodes \cup {NoNode}]
         /\ \A i \in 1..Len(rest) : cache_list'[i + 1] = rest[i]
                                    /\ node'[rest[i]] = node[rest[i]]
                                    /\ rest[i] # cache_list'[1]
         /\ cache_list'[1] \in Nodes
         /\ node'[cache_list'[1]] = [key |-> k, value |-> v]
         /\ cache_map' = [map EXCEPT ![k] = cache_list'[1]]
  <1>1. PICK n \in Nodes \ {rest[i] : i \in 1..Len(rest)} :
          /\ cache_list' = <<n>> \o rest
          /\ node' = [node EXCEPT ![n] = [key |-> k, value |-> v]]
          /\ cache_map' = [map EXCEPT ![k] = n]
    BY DEF PushFront
  <1>2. <<n>> \in Seq(Nodes) /\ Len(<<n>>) = 1 /\ <<n>>[1] = n
    OBVIOUS
  <1>3. /\ cache_list' \in Seq(Nodes) /\ Len(cache_list') = 1 + Len(rest)
        /\ \A i \in 1..(1 + Len(rest)) :
             cache_list'[i] = IF i <= 1 THEN <<n>>[i] ELSE rest[i - 1]
    BY <1>1, <1>2, ConcatProperties
  <1>4. Len(rest) \in Nat /\ \A i \in 1..Len(rest) : rest[i] \in Nodes
    BY LenProperties, ElementOfSeq
  <1>5. cache_list'[1] = n /\ \A i \in 1..Len(rest) : cache_list'[i + 1] = rest[i]
    BY <1>2, <1>3, <1>4
  <1>6. [key |-> k, value |-> v] \in Packets
    BY DEF Packets
  <1>7. node' \in [Nodes -> Packets] /\ node'[n] = [key |-> k, value |-> v]
        /\ \A m \in Nodes \ {n} : node'[m] = node[m]
    BY <1>1, <1>6 DEF TypeOK
  <1>8. \A i \in 1..Len(rest) : rest[i] # n
    BY <1>1
  <1>9. cache_map' \in [Keys -> Nodes \cup {NoNode}]
    BY <1>1
  <1>10. QED
    BY <1>1, <1>3, <1>4, <1>5, <1>7, <1>8, <1>9

-------------------------------------------------------------------------------
(* The invariant.                                                             *)

LEMMA CacheInit == Init => CacheInv
  <1> SUFFICES ASSUME Init PROVE CacheInv
    OBVIOUS
  <1>1. cache_list = <<>> /\ Len(cache_list) = 0 /\ cache_list \in Seq(Nodes)
    BY EmptySeq DEF Init
  <1>2. node \in [Nodes -> Packets]
    <2>1. \E p \in Packets : TRUE
      <3>1. PICK k \in Keys, v \in Values : TRUE
        BY CacheAssumption
      <3>2. [key |-> k, value |-> v] \in Packets
        BY DEF Packets
      <3>3. QED
        BY <3>2
    <2>2. (CHOOSE p \in Packets : TRUE) \in Packets
      BY <2>1
    <2>3. QED
      BY <2>2 DEF Init
  <1>3. inserted \in [Keys -> Values]
    BY CacheAssumption DEF Init
  <1>4. cache_map \in [Keys -> Nodes \cup {NoNode}] /\ \A k \in Keys : cache_map[k] = NoNode
    BY DEF Init
  <1>5. TypeOK
    BY <1>1, <1>2, <1>3, <1>4 DEF TypeOK, Init
  <1>6. Bounded
    BY <1>1, CacheAssumption DEF Bounded
  <1>7. OnePlace /\ AllMapped
    BY <1>1 DEF OnePlace, AllMapped
  <1>8. NoDangling /\ LatestFound
    BY <1>4 DEF NoDangling, LatestFound
  <1>9. QED
    BY <1>5, <1>6, <1>7, <1>8 DEF CacheInv

\* What a list that is pushed onto must be: the nodes of the old list, but for
\* one at most, and a map that still leads to none but them.
Shrunk(rest, map, k) ==
  /\ Len(rest) < Size
  /\ \A i, j \in 1..Len(rest) : rest[i] = rest[j] => i = j
  /\ \A h \in Keys \ {k} :
       map[h] # NoNode => map[h] = cache_map[h] /\ \E i \in 1..Len(rest) : rest[i] = map[h]

LEMMA PushKeeps ==
  ASSUME CacheInv, NEW rest \in Seq(Nodes), NEW map \in [Keys -> Nodes \cup {NoNode}],
         NEW k \in Keys, NEW v \in Values, Shrunk(rest, map, k),
         PushFront(rest, map, k, v), inserted' = [inserted EXCEPT ![k] = v], reused' \in BOOLEAN
  PROVE  TypeOK' /\ Bounded' /\ OnePlace' /\ NoDangling' /\ LatestFound'
  <1>1. TypeOK /\ Len(rest) \in Nat
    BY LenProperties DEF CacheInv
  <1>2. /\ cache_list' \in Seq(Nodes) /\ Len(cache_list') = Len(rest) + 1
        /\ node' \in [Nodes -> Packets]
        /\ cache_map' \in [Keys -> Nodes \cup {NoNode}]
        /\ \A i \in 1..Len(rest) : cache_list'[i + 1] = rest[i]
                                   /\ node'[rest[i]] = node[rest[i]]
                                   /\ rest[i] # cache_list'[1]
        /\ cache_list'[1] \in Nodes
        /\ node'[cache_list'[1]] = [key |-> k, value |-> v]
        /\ cache_map' = [map EXCEPT ![k] = cache_list'[1]]
    BY <1>1, Pushed
  <1>3. TypeOK'
    BY <1>1, <1>2 DEF TypeOK
  <1>4. Bounded'
    BY <1>1, <1>2, CacheAssumption DEF Bounded, Shrunk
  <1>5. OnePlace'
    <2> SUFFICES ASSUME NEW i \in 1..Len(cache_list'), NEW j \in 1..Len(cache_list'),
                        cache_list'[i] = cache_list'[j]
                 PROVE  i = j
      BY DEF OnePlace
    <2>1. i = 1 \/ (i - 1 \in 1..Len(rest) /\ (i - 1) + 1 = i)
      BY <1>1, <1>2
    <2>2. j = 1 \/ (j - 1 \in 1..Len(rest) /\ (j - 1) + 1 = j)
      BY <1>1, <1>2
    <2>3. i # 1 => cache_list'[i] = rest[i - 1] /\ rest[i - 1] # cache_list'[1]
      BY <2>1, <1>2
    <2>4. j # 1 => cache_list'[j] = rest[j - 1] /\ rest[j - 1] # cache_list'[1]
      BY <2>2, <1>2
    <2>5. i # 1 /\ j # 1 => i - 1 = j - 1
      BY SMTT(60), <2>1, <2>2, <2>3, <2>4 DEF Shrunk
    <2>6. QED
      BY <2>1, <2>2, <2>3, <2>4, <2>5
  <1>6. ASSUME NEW h \in Keys, cache_map'[h] # NoNode
        PROVE  /\ cache_map'[h] \in Linked' /\ node'[cache_map'[h]].key = h
               /\ node'[cache_map'[h]].value = inserted'[h]
    <2>1. CASE h = k
      <3>1. cache_map'[h] = cache_list'[1] /\ inserted'[h] = v
        BY <2>1, <1>1, <1>2 DEF TypeOK
      <3>2. 1 \in 1..Len(cache_list')
        BY <1>1, <1>2
      <3>3. QED
        BY <2>1, <3>1, <3>2, <1>2 DEF Linked
    <2>2. CASE h # k
      <3>1. cache_map'[h] = map[h] /\ inserted'[h] = inserted[h]
        BY <2>2, <1>1, <1>2 DEF TypeOK
      <3>2. PICK i \in 1..Len(rest) : rest[i] = map[h] /\ map[h] = cache_map[h]
        BY <2>2, <3>1, <1>6 DEF Shrunk
      <3>3. /\ node'[cache_map'[h]] = node[cache_map[h]] /\ cache_map[h] # NoNode
            /\ cache_list'[i + 1] = cache_map'[h] /\ i + 1 \in 1..Len(cache_list')
        <4>1. node'[rest[i]] = node[rest[i]] /\ cache_list'[i + 1] = rest[i]
          BY <1>2
        <4>2. i + 1 \in 1..Len(cache_list')
          BY <1>1, <1>2
        <4>3. QED
          BY <4>1, <4>2, <3>1, <3>2, <1>6
      <3>4. node[cache_map[h]].key = h /\ node[cache_map[h]].value = inserted[h]
        BY <3>3 DEF CacheInv, NoDangling, LatestFound
      <3>5. cache_map'[h] \in Linked'
        BY <3>3 DEF Linked
      <3>6. QED
        BY <3>1, <3>3, <3>4, <3>5
    <2>3. QED
      BY <2>1, <2>2
  <1>7. QED
    BY <1>3, <1>4, <1>5, <1>6 DEF NoDangling, LatestFound

LEMMA PushMaps ==
  ASSUME TypeOK, NEW rest \in Seq(Nodes), NEW map \in [Keys -> Nodes \cup {NoNode}],
         NEW k \in Keys, NEW v \in Values, PushFront(rest, map, k, v),
         \A i \in 1..Len(rest) : /\ node[rest[i]].key \in Keys \ {k}
                                 /\ map[node[rest[i]].key] = rest[i]
  PROVE  AllMapped'
  <1>1. /\ Len(cache_list') = Len(rest) + 1 /\ Len(rest) \in Nat
        /\ \A i \in 1..Len(rest) : cache_list'[i + 1] = rest[i]
                                   /\ node'[rest[i]] = node[rest[i]]
        /\ node'[cache_list'[1]] = [key |-> k, value |-> v]
        /\ cache_map' = [map EXCEPT ![k] = cache_list'[1]]
    BY Pushed, LenProperties
  <1>2. ASSUME NEW i \in 1..Len(cache_list')
        PROVE  cache_map'[node'[cache_list'[i]].key] = cache_list'[i]
    <2>1. CASE i = 1
      BY <2>1, <1>1
    <2>2. CASE i # 1
      <3>1. i - 1 \in 1..Len(rest) /\ (i - 1) + 1 = i
        BY <2>2, <1>1
      <3>2. cache_list'[i] = rest[i - 1] /\ node'[rest[i - 1]] = node[rest[i - 1]]
        BY <3>1, <1>1
      <3>3. /\ node[rest[i - 1]].key \in Keys \ {k}
            /\ map[node[rest[i - 1]].key] = rest[i - 1]
        BY <3>1
      <3>4. QED
        BY <3>2, <3>3, <1>1
    <2>3. QED
      BY <2>1, <2>2
  <1>3. QED
    BY <1>2 DEF AllMapped

LEMMA InsertKeeps ==
  ASSUME CacheInv, NEW k \in Keys, NEW v \in Values, insert(k, v)
  PROVE  CacheInv'
  <1> DEFINE L == Len(cache_list)
  <1>1. /\ TypeOK /\ L \in Nat /\ L <= Size /\ Size \in Nat /\ Size >= 1
        /\ \A i \in 1..L : cache_list[i] \in Nodes
        /\ \A i \in 1..L : node[cache_list[i]].key \in Keys
    BY LenProperties, ElementOfSeq, CacheAssumption DEF CacheInv, TypeOK, Bounded, Packets
  <1>2. /\ inserted' = [inserted EXCEPT ![k] = v] /\ reused' \in BOOLEAN
        /\ ~reused' => ~reused /\ \A i \in 1..L : node[cache_list[i]].key # k
    BY <1>1 DEF insert, Linked, TypeOK
  <1>3. ASSUME NEW h \in Keys, cache_map[h] # NoNode
        PROVE  \E i \in 1..L : cache_list[i] = cache_map[h] /\ node[cache_list[i]].key = h
    BY <1>3 DEF CacheInv, NoDangling, Linked
  <1>4. CASE Full
    <2> DEFINE rest == Popped(cache_list)
               old  == node[cache_list[L]].key
    <2>1. L >= 1 /\ L \in 1..L /\ L = Size
      BY <1>1, <1>4 DEF Full
    <2>2. /\ rest \in Seq(Nodes) /\ Len(rest) = L - 1
          /\ \A i \in 1..(L - 1) : rest[i] = cache_list[i]
      BY <1>1, <2>1, PoppedList DEF TypeOK
    <2>3. PushFront(rest, Evicted, k, v)
      BY <1>4 DEF insert
    <2>4. /\ Evicted \in [Keys -> Nodes \cup {NoNode}]
          /\ Evicted[old] = NoNode /\ \A h \in Keys \ {old} : Evicted[h] = cache_map[h]
      BY <1>1, <2>1 DEF Evicted, TypeOK
    <2> HIDE DEF rest, old
    <2>5. ASSUME NEW h \in Keys \ {k}, Evicted[h] # NoNode
          PROVE  Evicted[h] = cache_map[h] /\ \E i \in 1..Len(rest) : rest[i] = Evicted[h]
      <3>1. h # old /\ Evicted[h] = cache_map[h]
        BY <2>4, <2>5
      <3>2. PICK i \in 1..L : cache_list[i] = cache_map[h] /\ node[cache_list[i]].key = h
        BY <1>3, <2>5, <3>1
      <3>3. i # L
        BY <3>1, <3>2 DEF old
      <3>4. i \in 1..(L - 1)
        BY <1>1, <3>2, <3>3
      <3>5. QED
        BY <2>2, <3>1, <3>2, <3>4
    <2>6. Shrunk(rest, Evicted, k)
      <3>1. \A i, j \in 1..Len(rest) : rest[i] = rest[j] => i = j
        BY <1>1, <2>1, <2>2 DEF CacheInv, OnePlace
      <3>2. Len(rest) < Size
        BY <1>1, <2>1, <2>2
      <3>3. QED
        BY <2>5, <3>1, <3>2 DEF Shrunk
    <2>7. TypeOK' /\ Bounded' /\ OnePlace' /\ NoDangling' /\ LatestFound'
      BY <1>2, <2>2, <2>3, <2>4, <2>6, PushKeeps
    <2>8. AllMapped'
      <3>1. CASE ~reused'
        <4>1. ASSUME NEW i \in 1..Len(rest)
              PROVE  /\ node[rest[i]].key \in Keys \ {k}
                     /\ Evicted[node[rest[i]].key] = rest[i]
          <5>1. i \in 1..L /\ i # L /\ rest[i] = cache_list[i]
            BY <1>1, <2>1, <2>2
          <5>2. /\ node[rest[i]].key \in Keys \ {k}
                /\ cache_map[node[rest[i]].key] = cache_list[i]
                /\ cache_map[old] = cache_list[L]
            BY <1>1, <1>2, <2>1, <3>1, <5>1 DEF CacheInv, AllMapped, old
          <5>3. cache_list[i] # cache_list[L]
            BY <2>1, <5>1 DEF CacheInv, OnePlace
          <5>4. QED
            BY <2>4, <5>1, <5>2, <5>3
        <4>2. QED
          BY <1>1, <2>2, <2>3, <2>4, <4>1, PushMaps
      <3>2. CASE reused'
        BY <3>2 DEF AllMapped
      <3>3. QED
        BY <1>2, <3>1, <3>2
    <2>9. QED
      BY <2>7, <2>8 DEF CacheInv
  <1>5. CASE ~Full
    <2>1. PushFront(cache_list, cache_map, k, v)
      BY <1>5 DEF insert
    <2>2. /\ cache_list \in Seq(Nodes) /\ cache_map \in [Keys -> Nodes \cup {NoNode}]
          /\ L < Size
      BY <1>1, <1>5 DEF TypeOK, Full
    <2>3. Shrunk(cache_list, cache_map, k)
      BY <1>3, <2>2 DEF Shrunk, CacheInv, OnePlace
    <2>4. TypeOK' /\ Bounded' /\ OnePlace' /\ NoDangling' /\ LatestFound'
      BY <1>2, <2>1, <2>2, <2>3, PushKeeps
    <2>5. AllMapped'
      <3>1. CASE ~reused'
        <4>1. \A i \in 1..L : /\ node[cache_list[i]].key \in Keys \ {k}
                              /\ cache_map[node[cache_list[i]].key] = cache_list[i]
          BY <1>1, <1>2, <3>1 DEF CacheInv, AllMapped
        <4>2. QED
          BY <1>1, <2>1, <2>2, <4>1, PushMaps
      <3>2. CASE reused'
        BY <3>2 DEF AllMapped
      <3>3. QED
        BY <1>2, <3>1, <3>2
    <2>6. QED
      BY <2>4, <2>5 DEF CacheInv
  <1>6. QED
    BY <1>4, <1>5

LEMMA GetKeeps ==
  ASSUME CacheInv, NEW k \in Keys, get(k)
  PROVE  CacheInv'
  <1> DEFINE L == Len(cache_list)
             v == node[cache_map[k]].value
  <1>1. /\ TypeOK /\ L \in Nat /\ L <= Size /\ Size \in Nat
        /\ \A i \in 1..L : cache_list[i] \in Nodes
        /\ \A i \in 1..L : node[cache_list[i]].key \in Keys
    BY LenProperties, ElementOfSeq, CacheAssumption DEF CacheInv, TypeOK, Bounded, Packets
  <1>2. PICK i \in 1..L : /\ cache_map[k] # NoNode /\ cache_list[i] = cache_map[k]
                          /\ PushFront(Erased(cache_list, i), cache_map, k, v)
                          /\ inserted' = inserted /\ reused' = reused
    BY DEF get
  <1> DEFINE rest == Erased(cache_list, i)
  <1>3. v = inserted[k] /\ v \in Values /\ inserted' = [inserted EXCEPT ![k] = v]
    BY <1>1, <1>2 DEF CacheInv, LatestFound, TypeOK
  <1>4. /\ rest \in Seq(Nodes) /\ Len(rest) = L - 1
        /\ \A j \in 1..(L - 1) : rest[j] = IF j < i THEN cache_list[j] ELSE cache_list[j + 1]
    BY <1>1, ErasedList DEF TypeOK
  <1>5. PushFront(rest, cache_map, k, v)
    BY <1>2
  <1> HIDE DEF rest, v
  <1>6. ASSUME NEW j \in 1..(L - 1)
        PROVE  \E m \in 1..L : m # i /\ rest[j] = cache_list[m]
                               /\ m = IF j < i THEN j ELSE j + 1
    BY <1>1, <1>4
  <1>7. Shrunk(rest, cache_map, k)
    <2>1. ASSUME NEW h \in Keys \ {k}, cache_map[h] # NoNode
          PROVE  \E j \in 1..Len(rest) : rest[j] = cache_map[h]
      <3>1. PICK m \in 1..L : cache_list[m] = cache_map[h] /\ node[cache_list[m]].key = h
        BY <2>1 DEF CacheInv, NoDangling, Linked
      <3>2. node[cache_list[i]].key = k
        BY <1>2 DEF CacheInv, NoDangling
      <3>3. m # i
        BY <3>1, <3>2
      <3>4. CASE m < i
        <4>1. m \in 1..(L - 1) /\ rest[m] = cache_list[m]
          BY <1>1, <1>4, <3>4
        <4>2. QED
          BY <1>4, <3>1, <4>1
      <3>5. CASE m > i
        <4>1. m - 1 \in 1..(L - 1) /\ ~(m - 1 < i) /\ (m - 1) + 1 = m
          BY <1>1, <3>5
        <4>2. rest[m - 1] = cache_list[m]
          BY <1>4, <4>1
        <4>3. QED
          BY <1>4, <3>1, <4>1, <4>2
      <3>6. QED
        BY <1>1, <3>3, <3>4, <3>5
    <2>2. ASSUME NEW j \in 1..Len(rest), NEW m \in 1..Len(rest), rest[j] = rest[m]
          PROVE  j = m
      <3>1. PICK p \in 1..L : rest[j] = cache_list[p] /\ p = IF j < i THEN j ELSE j + 1
        BY <1>4, <1>6
      <3>2. PICK q \in 1..L : rest[m] = cache_list[q] /\ q = IF m < i THEN m ELSE m + 1
        BY <1>4, <1>6
      <3>3. p = q
        BY <2>2, <3>1, <3>2 DEF CacheInv, OnePlace
      <3>4. j \in Nat /\ m \in Nat /\ i \in Nat
        BY <1>1, <1>4
      <3>5. QED
        BY <3>1, <3>2, <3>3, <3>4
    <2>3. Len(rest) < Size
      BY <1>1, <1>4
    <2>4. QED
      BY <2>1, <2>2, <2>3 DEF Shrunk
  <1>8. TypeOK' /\ Bounded' /\ OnePlace' /\ NoDangling' /\ LatestFound'
    <2>1. reused' \in BOOLEAN /\ cache_map \in [Keys -> Nodes \cup {NoNode}]
      BY <1>1, <1>2 DEF TypeOK
    <2>2. QED
      BY <1>3, <1>4, <1>5, <1>7, <2>1, PushKeeps
  <1>9. AllMapped'
    <2>1. CASE ~reused
      <3>1. ASSUME NEW j \in 1..Len(rest)
            PROVE  /\ node[rest[j]].key \in Keys \ {k}
                   /\ cache_map[node[rest[j]].key] = rest[j]
        <4>1. PICK m \in 1..L : m # i /\ rest[j] = cache_list[m]
          BY <1>4, <1>6
        <4>2. /\ cache_map[node[rest[j]].key] = cache_list[m]
              /\ node[rest[j]].key \in Keys
          BY <1>1, <2>1, <4>1 DEF CacheInv, AllMapped
        <4>3. cache_list[m] # cache_list[i]
          BY <4>1 DEF CacheInv, OnePlace
        <4>4. QED
          BY <1>2, <4>1, <4>2, <4>3
      <3>2. cache_map \in [Keys -> Nodes \cup {NoNode}]
        BY <1>1 DEF TypeOK
      <3>3. QED
        BY <1>1, <1>3, <1>4, <1>5, <3>1, <3>2, PushMaps
    <2>2. CASE reused
      BY <1>2, <2>2 DEF AllMapped
    <2>3. QED
      BY <2>1, <2>2
  <1>10. QED
    BY <1>8, <1>9 DEF CacheInv

LEMMA CacheStep == ASSUME CacheInv, [Next]_vars PROVE CacheInv'
  <1>1. CASE Next
    BY <1>1, InsertKeeps, GetKeeps DEF Next
  <1>2. CASE UNCHANGED vars
    BY <1>2 DEF vars, CacheInv, TypeOK, Bounded, OnePlace, NoDangling, LatestFound,
                AllMapped, Linked
  <1>3. QED
    BY <1>1, <1>2

THEOREM CacheInvariant == Spec => []CacheInv
  BY CacheInit, CacheStep, PTL DEF Spec

\* The list never outgrows the size of the cache.
THEOREM BoundedTheorem == Spec => []Bounded
  BY CacheInvariant, PTL DEF CacheInv

\* No call ever follows an iterator to a node that was erased.
THEOREM NoDanglingTheorem == Spec => []NoDangling
  BY CacheInvariant, PTL DEF CacheInv

\* A packet that is found is the one inserted last under its number.
THEOREM LatestFoundTheorem == Spec => []LatestFound
  BY CacheInvariant, PTL DEF CacheInv

-------------------------------------------------------------------------------
(* The cache implements the bounded store.                                    *)

LEMMA Contents ==
  ASSUME TypeOK
  PROVE  /\ contents \in Seq(Packets) /\ Len(contents) = Len(cache_list)
         /\ Len(cache_list) \in Nat
         /\ \A i \in 1..Len(cache_list) : contents[i] = node[cache_list[i]]
  <1>1. Len(cache_list) \in Nat /\ \A i \in 1..Len(cache_list) : node[cache_list[i]] \in Packets
    BY LenProperties, ElementOfSeq DEF TypeOK
  <1>2. contents \in Seq(Packets)
    BY <1>1, Z3 DEF contents
  <1>3. QED
    BY <1>1, <1>2 DEF contents

\* When every node is in the map, a key that the store holds is found.
LEMMA Found == CacheInv => FoundWhenHeld
  <1> SUFFICES ASSUME CacheInv, ~reused, NEW k \in Keys, B!Holds(k)
               PROVE  cache_map[k] # NoNode
    BY DEF FoundWhenHeld
  <1>1. TypeOK
    BY DEF CacheInv
  <1>2. PICK i \in 1..Len(cache_list) : contents[i].key = k
    BY <1>1, Contents DEF B!Holds
  <1>3. node[cache_list[i]].key = k
    BY <1>1, <1>2, Contents
  <1>4. cache_map[k] = cache_list[i] /\ cache_list[i] \in Nodes
    BY <1>1, <1>2, <1>3, ElementOfSeq DEF CacheInv, AllMapped, TypeOK
  <1>5. QED
    BY <1>4, CacheAssumption

\* What a push does to the contents.
LEMMA PushedContents ==
  ASSUME TypeOK, TypeOK', NEW rest \in Seq(Nodes),
         NEW map \in [Keys -> Nodes \cup {NoNode}],
         NEW k \in Keys, NEW v \in Values, PushFront(rest, map, k, v),
         NEW s \in Seq(Packets), Len(s) = Len(rest),
         \A i \in 1..Len(rest) : s[i] = node[rest[i]]
  PROVE  contents' = <<[key |-> k, value |-> v]>> \o s
  <1> DEFINE e == [key |-> k, value |-> v]
             t == <<e>> \o s
  <1>1. /\ Len(cache_list') = Len(rest) + 1 /\ Len(rest) \in Nat
        /\ \A i \in 1..Len(rest) : cache_list'[i + 1] = rest[i]
                                   /\ node'[rest[i]] = node[rest[i]]
        /\ node'[cache_list'[1]] = e
    BY Pushed, LenProperties
  <1>2. /\ contents' \in Seq(Packets) /\ Len(contents') = Len(cache_list')
        /\ \A i \in 1..Len(cache_list') : contents'[i] = node'[cache_list'[i]]
    <2>1. (TypeOK => /\ contents \in Seq(Packets) /\ Len(contents) = Len(cache_list)
                     /\ \A i \in 1..Len(cache_list) : contents[i] = node[cache_list[i]])'
      BY Contents, PTL
    <2>2. QED
      BY <2>1
  <1>3. e \in Packets /\ <<e>> \in Seq(Packets) /\ Len(<<e>>) = 1 /\ <<e>>[1] = e
    BY DEF Packets
  <1> HIDE DEF e
  <1>4. /\ t \in Seq(Packets) /\ Len(t) = 1 + Len(s)
        /\ \A i \in 1..(1 + Len(s)) : t[i] = IF i <= 1 THEN <<e>>[i] ELSE s[i - 1]
    BY <1>3, ConcatProperties
  <1> HIDE DEF t
  <1>5. ASSUME NEW i \in 1..Len(contents')
        PROVE  contents'[i] = t[i]
    <2>1. CASE i = 1
      BY <2>1, <1>1, <1>2, <1>3, <1>4
    <2>2. CASE i # 1
      <3>1. i - 1 \in 1..Len(rest) /\ (i - 1) + 1 = i /\ i \in 1..Len(cache_list')
        BY <2>2, <1>1, <1>2
      <3>2. contents'[i] = node[rest[i - 1]]
        BY <3>1, <1>1, <1>2
      <3>3. t[i] = s[i - 1]
        BY <3>1, <2>2, <1>1, <1>4
      <3>4. QED
        BY <3>1, <3>2, <3>3
    <2>3. QED
      BY <2>1, <2>2
  <1>6. Len(contents') = Len(t)
    BY <1>1, <1>2, <1>4
  <1>7. QED
    BY <1>2, <1>4, <1>5, <1>6, SeqEqual DEF t, e

LEMMA InsertPuts ==
  ASSUME CacheInv, CacheInv', NEW k \in Keys, NEW v \in Values, insert(k, v), ~reused'
  PROVE  B!Put(k, v)
  <1> DEFINE L == Len(cache_list)
             m == IF Len(contents) < Size THEN Len(contents) ELSE Size - 1
             s == SubSeq(contents, 1, m)
  <1>1. /\ TypeOK /\ TypeOK' /\ L \in Nat /\ L <= Size /\ Size \in Nat /\ Size >= 1
        /\ contents \in Seq(Packets) /\ Len(contents) = L
        /\ \A i \in 1..L : contents[i] = node[cache_list[i]]
    BY Contents, CacheAssumption DEF CacheInv, Bounded
  <1>2. ~B!Holds(k)
    BY <1>1 DEF insert, Linked, B!Holds
  <1>3. /\ m \in Nat /\ m <= L /\ s \in Seq(Packets) /\ Len(s) = m
        /\ \A i \in 1..m : s[i] = contents[i]
    <2>1. m \in Nat /\ m <= L
      BY <1>1
    <2> HIDE DEF m
    <2>2. \A i \in 1..m : contents[i] \in Packets
      BY <1>1, <2>1, ElementOfSeq
    <2>3. /\ s \in Seq(Packets) /\ Len(s) = IF 1 <= m THEN m - 1 + 1 ELSE 0
          /\ \A i \in 1..(m - 1 + 1) : s[i] = contents[1 + i - 1]
      BY <2>1, <2>2, SubSeqProperties
    <2>4. Len(s) = m
      <3> DEFINE l == Len(s)
      <3>1. l = IF 1 <= m THEN m - 1 + 1 ELSE 0
        BY <2>3
      <3> HIDE DEF l
      <3>2. l = m
        BY <2>1, <3>1
      <3>3. QED
        BY <3>2 DEF l
    <2>5. QED
      BY <2>1, <2>3, <2>4
  <1>4. PICK rest \in Seq(Nodes), map \in [Keys -> Nodes \cup {NoNode}] :
          /\ PushFront(rest, map, k, v) /\ Len(rest) = m
          /\ \A i \in 1..Len(rest) : rest[i] = cache_list[i]
    <2>1. CASE Full
      <3>1. L >= 1 /\ m = L - 1
        BY <1>1, <2>1 DEF Full
      <3>2. /\ Popped(cache_list) \in Seq(Nodes) /\ Len(Popped(cache_list)) = m
            /\ \A i \in 1..m : Popped(cache_list)[i] = cache_list[i]
        BY <1>1, <3>1, PoppedList DEF TypeOK
      <3>3. Evicted \in [Keys -> Nodes \cup {NoNode}]
        BY <1>1 DEF Evicted, TypeOK
      <3>4. PushFront(Popped(cache_list), Evicted, k, v)
        BY <2>1 DEF insert
      <3>5. QED
        BY <3>2, <3>3, <3>4
    <2>2. CASE ~Full
      <3>1. m = L
        BY <1>1, <2>2 DEF Full
      <3>2. PushFront(cache_list, cache_map, k, v)
        BY <2>2 DEF insert
      <3>3. QED
        BY <1>1, <3>1, <3>2 DEF TypeOK
    <2>3. QED
      BY <2>1, <2>2
  <1>5. \A i \in 1..Len(rest) : s[i] = node[rest[i]]
    BY <1>1, <1>3, <1>4
  <1>6. contents' = <<[key |-> k, value |-> v]>> \o s
    <2>1. TypeOK /\ TypeOK' /\ s \in Seq(Packets) /\ Len(s) = Len(rest)
      BY <1>1, <1>3, <1>4
    <2> HIDE DEF s, m
    <2>2. QED
      BY <1>4, <1>5, <2>1, PushedContents
  <1>7. QED
    BY <1>2, <1>6 DEF B!Put, B!Entry

LEMMA GetUses ==
  ASSUME CacheInv, CacheInv', NEW k \in Keys, get(k)
  PROVE  B!Use(k)
  <1> DEFINE L == Len(cache_list)
             v == node[cache_map[k]].value
  <1>1. /\ TypeOK /\ TypeOK' /\ L \in Nat
        /\ contents \in Seq(Packets) /\ Len(contents) = L
        /\ \A i \in 1..L : contents[i] = node[cache_list[i]]
        /\ \A i \in 1..L : cache_list[i] \in Nodes
    BY Contents, ElementOfSeq DEF CacheInv, TypeOK
  <1>2. PICK i \in 1..L : /\ cache_map[k] # NoNode /\ cache_list[i] = cache_map[k]
                          /\ PushFront(Erased(cache_list, i), cache_map, k, v)
    BY DEF get
  <1> DEFINE rest == Erased(cache_list, i)
             s    == Erased(contents, i)
  <1>3. contents[i] = [key |-> k, value |-> v] /\ v \in Values
    <2>1. node[cache_list[i]] \in Packets /\ node[cache_list[i]].key = k
      BY <1>1, <1>2 DEF CacheInv, NoDangling, TypeOK
    <2>2. QED
      BY <1>1, <1>2, <2>1 DEF Packets
  <1>4. /\ rest \in Seq(Nodes) /\ Len(rest) = L - 1
        /\ \A j \in 1..(L - 1) : rest[j] = IF j < i THEN cache_list[j] ELSE cache_list[j + 1]
    BY <1>1, ErasedList DEF TypeOK
  <1>5. /\ s \in Seq(Packets) /\ Len(s) = L - 1
        /\ \A j \in 1..(L - 1) : s[j] = IF j < i THEN contents[j] ELSE contents[j + 1]
    <2>1. i \in 1..Len(contents)
      BY <1>1
    <2>2. /\ s \in Seq(Packets) /\ Len(s) = Len(contents) - 1
          /\ \A j \in 1..(Len(contents) - 1) :
               s[j] = IF j < i THEN contents[j] ELSE contents[j + 1]
      BY <1>1, <2>1, ErasedList
    <2>3. QED
      BY <1>1, <2>2
  <1> HIDE DEF rest, s
  <1>6. ASSUME NEW j \in 1..Len(rest)
        PROVE  s[j] = node[rest[j]]
    <2>1. j \in 1..(L - 1) /\ j \in 1..L /\ j + 1 \in 1..L
      BY <1>1, <1>4
    <2>2. CASE j < i
      BY <2>1, <2>2, <1>1, <1>4, <1>5
    <2>3. CASE ~(j < i)
      BY <2>1, <2>3, <1>1, <1>4, <1>5
    <2>4. QED
      BY <2>2, <2>3
  <1>7. contents' = <<contents[i]>> \o s
    <2>1. PushFront(rest, cache_map, k, v)
      BY <1>2 DEF rest
    <2>2. cache_map \in [Keys -> Nodes \cup {NoNode}]
      BY <1>1 DEF TypeOK
    <2> HIDE DEF v
    <2>3. contents' = <<[key |-> k, value |-> v]>> \o s
      <3>1. TypeOK /\ TypeOK' /\ Len(s) = Len(rest)
        BY <1>1, <1>4, <1>5
      <3>2. v \in Values /\ rest \in Seq(Nodes) /\ s \in Seq(Packets)
        BY <1>3, <1>4, <1>5
      <3>3. QED
        BY <1>6, <2>1, <2>2, <3>1, <3>2, PushedContents
    <2>4. QED
      BY <1>3, <2>3
  <1>8. contents[i].key = k
    BY <1>3
  <1>9. <<contents[i]>> \o SubSeq(contents, 1, i - 1)
          \o SubSeq(contents, i + 1, Len(contents)) = <<contents[i]>> \o s
    <2> DEFINE a == SubSeq(contents, 1, i - 1)
               b == SubSeq(contents, i + 1, Len(contents))
    <2>1. /\ <<contents[i]>> \in Seq(Packets)
          /\ \A j \in 1..Len(contents) : contents[j] \in Packets
      BY <1>1, ElementOfSeq
    <2>2. a \in Seq(Packets)
      <3>1. \A j \in 1..(i - 1) : contents[j] \in Packets
        BY <1>1, <2>1
      <3>2. QED
        BY <1>1, <3>1, SubSeqProperties
    <2>3. b \in Seq(Packets)
      <3>1. \A j \in (i + 1)..Len(contents) : contents[j] \in Packets
        BY <1>1, <2>1
      <3>2. QED
        BY <1>1, <3>1, SubSeqProperties
    <2>4. s = a \o b
      BY DEF s, Erased
    <2> HIDE DEF a, b
    <2>5. (<<contents[i]>> \o a) \o b = <<contents[i]>> \o (a \o b)
      BY <2>1, <2>2, <2>3, ConcatAssociative
    <2>6. QED
      BY <2>4, <2>5 DEF a, b
  <1>10. QED
    BY <1>1, <1>7, <1>8, <1>9 DEF B!Use

LEMMA StoreStep ==
  ASSUME CacheInv, CacheInv', [Next]_vars
  PROVE  [reused' \/ B!StoreNext]_contents
  <1>1. CASE Next
    BY <1>1, InsertPuts, GetUses DEF Next, B!StoreNext
  <1>2. CASE UNCHANGED vars
    BY <1>2 DEF vars, contents
  <1>3. QED
    BY <1>1, <1>2

\* A key whose packet is in the list is found, unless a number was used again.
THEOREM FoundWhenHeldTheorem == Spec => []FoundWhenHeld
  BY CacheInvariant, Found, PTL

\* The list and the map implement the bounded store: every insertion and every
\* look-up is one of its steps until a number is used again.
THEOREM StoreTheorem == Spec => ImplementsStore
  <1>1. Init => B!StoreInit
    BY DEF Init, B!StoreInit, contents
  <1>2. CacheInv /\ CacheInv' /\ [Next]_vars => [reused' \/ B!StoreNext]_contents
    BY StoreStep
  <1>3. QED
    BY <1>1, <1>2, CacheInvariant, PTL DEF Spec, ImplementsStore
===============================================================================
