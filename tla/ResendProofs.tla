------------------------------ MODULE ResendProofs ------------------------------
(* Proofs about Resend, for every cycle, every size of the cache and any      *)
(* number of threads: its calls are those of Cache, and what an               *)
(* acknowledgement brings back is the packet acknowledged or one a whole      *)
(* cycle later.                                                               *)
EXTENDS Resend, CacheProofs

-------------------------------------------------------------------------------
(* Numbers modulo Cycle.                                                      *)

LEMMA DivMod ==
  ASSUME NEW C \in Nat \ {0}, NEW a \in Nat
  PROVE  /\ a \div C \in Nat /\ a % C \in 0..(C - 1)
         /\ a = C * (a \div C) + (a % C)
  OBVIOUS

LEMMA Multiples ==
  ASSUME NEW C \in Nat \ {0}, NEW x \in Nat, NEW y \in Nat, x < y
  PROVE  C * x + C <= C * y
  <1>1. PICK d \in Nat : y = x + 1 + d
    <2>1. y - x - 1 \in Nat
      OBVIOUS
    <2>2. QED
      BY <2>1
  <1>2. C * y = C * x + C + C * d
    BY <1>1
  <1>3. C * d >= 0
    OBVIOUS
  <1>4. C * x \in Int /\ C * d \in Int
    OBVIOUS
  <1>5. QED
    BY <1>2, <1>3, <1>4

LEMMA Remainder ==
  ASSUME NEW C \in Nat \ {0}, NEW q \in Nat, NEW r \in 0..(C - 1)
  PROVE  (C * q + r) % C = r
  OBVIOUS

LEMMA Apart ==
  ASSUME NEW C \in Nat \ {0}, NEW a \in Nat, NEW b \in Nat, a % C = b % C, a < b
  PROVE  a + C <= b
  <1> DEFINE x == a \div C
             y == b \div C
             r == a % C
  <1>1. x \in Nat /\ r \in 0..(C - 1) /\ a = C * x + r
    BY DivMod
  <1>2. y \in Nat /\ b = C * y + r
    BY DivMod
  <1> HIDE DEF x, y, r
  <1>3. C * x \in Int /\ C * y \in Int /\ r \in Int
    BY <1>1, <1>2
  <1>4. x < y
    <2>1. CASE y = x
      BY <2>1, <1>1, <1>2
    <2>2. CASE y < x
      <3>1. C * y + C <= C * x
        BY <2>2, <1>1, <1>2, Multiples
      <3>2. QED
        BY <3>1, <1>1, <1>2, <1>3
    <2>3. QED
      BY <2>1, <2>2, <1>1, <1>2
  <1>5. C * x + C <= C * y
    BY <1>1, <1>2, <1>4, Multiples
  <1>6. QED
    BY <1>1, <1>2, <1>3, <1>5

LEMMA Successor ==
  ASSUME NEW C \in Nat \ {0}, NEW a \in Nat
  PROVE  ((a % C) + 1) % C = (a + 1) % C
  <1> DEFINE q == a \div C
             r == a % C
  <1>1. q \in Nat /\ r \in 0..(C - 1) /\ a = C * q + r
    BY DivMod
  <1>2. CASE r + 1 < C
    <2>1. (r + 1) % C = r + 1 /\ r + 1 \in 0..(C - 1)
      BY <1>1, <1>2
    <2>2. a + 1 = C * q + (r + 1)
      BY <1>1
    <2> HIDE DEF q, r
    <2>3. QED
      BY <1>1, <2>1, <2>2, Remainder
  <1>3. CASE r + 1 = C
    <2>1. C % C = 0
      OBVIOUS
    <2>2. a + 1 = C * (q + 1) + 0
      BY <1>1, <1>3
    <2>3. q + 1 \in Nat /\ 0 \in 0..(C - 1)
      BY <1>1
    <2> HIDE DEF q, r
    <2>4. (C * (q + 1) + 0) % C = 0
      BY <2>3, Remainder
    <2>5. QED
      BY <1>3, <2>1, <2>2, <2>4
  <1>4. QED
    BY <1>1, <1>2, <1>3

\* The number of the packet made as the s-th.
NumberOf(s) == (s - 1) % Cycle

LEMMA Numbers ==
  ASSUME NEW s \in Nat \ {0}
  PROVE  /\ NumberOf(s) \in Keys
         /\ Following(NumberOf(s)) = NumberOf(s + 1)
  <1>1. s - 1 \in Nat /\ (s + 1) - 1 = (s - 1) + 1 /\ Cycle \in Nat \ {0}
    BY ResendAssumption
  <1>2. (s - 1) % Cycle \in 0..(Cycle - 1)
    BY <1>1, DivMod
  <1>3. (((s - 1) % Cycle) + 1) % Cycle = ((s - 1) + 1) % Cycle
    BY <1>1, Successor
  <1>4. QED
    BY <1>1, <1>2, <1>3, ResendAssumption DEF NumberOf, Following

LEMMA FirstNumber == NumberOf(1) = 0 /\ 0 \in Keys
  <1>1. Cycle \in Nat \ {0} /\ 0 \in 0..(Cycle - 1)
    BY ResendAssumption
  <1>2. (Cycle * 0 + 0) % Cycle = 0
    BY <1>1, Remainder
  <1>3. QED
    BY <1>1, <1>2, ResendAssumption DEF NumberOf

LEMMA SameNumber ==
  ASSUME NEW s \in Nat \ {0}, NEW u \in Nat \ {0}, NumberOf(s) = NumberOf(u), s <= u
  PROVE  s = u \/ u >= s + Cycle
  <1>1. s - 1 \in Nat /\ u - 1 \in Nat /\ Cycle \in Nat \ {0}
    BY ResendAssumption
  <1>2. CASE s < u
    <2> DEFINE a == s - 1
               b == u - 1
    <2>1. a % Cycle = b % Cycle
      BY DEF NumberOf
    <2>2. a \in Nat /\ b \in Nat /\ a < b
      BY <1>1, <1>2
    <2>3. a + Cycle <= b
      <3> HIDE DEF a, b
      <3>1. QED
        BY <1>1, <2>1, <2>2, Apart
    <2>4. QED
      BY <1>1, <2>3
  <1>3. QED
    BY <1>2

-------------------------------------------------------------------------------
(* The calls of the cache are made with its types, and so it stays what it is. *)

SendType ==
  /\ seq_number \in Keys
  /\ made \in Nat /\ made <= MaxSent
  /\ at \in [Senders -> {"idle", "insert", "send", "store"}]
  /\ packet \in [Senders -> SentPackets \cup {NoPacket}]
  /\ next \in [Senders -> Keys]
  /\ delivered \subseteq SentPackets
  /\ overlapped \in BOOLEAN
  /\ \A t \in Senders : at[t] # "idle" => packet[t] \in SentPackets

LEMMA PacketFields ==
  ASSUME NEW p \in SentPackets
  PROVE  p.num \in Keys /\ p.serial \in Nat \ {0} /\ p.serial <= MaxSent
  BY ResendAssumption DEF SentPackets

LEMMA NextNumber ==
  ASSUME NEW k \in Keys
  PROVE  Following(k) \in Keys
  <1>1. k \in Nat /\ k + 1 \in Nat /\ Cycle \in Nat \ {0}
    BY ResendAssumption
  <1>2. (k + 1) % Cycle \in 0..(Cycle - 1)
    BY <1>1, DivMod
  <1>3. QED
    BY <1>2, ResendAssumption DEF Following

LEMMA SendTypeInit == ResendInit => SendType
  <1> SUFFICES ASSUME ResendInit PROVE SendType
    OBVIOUS
  <1>1. 0 \in Keys /\ MaxSent \in Nat
    BY FirstNumber, ResendAssumption
  <1>2. made \in Nat /\ made <= MaxSent
    BY <1>1 DEF ResendInit
  <1>3. /\ at \in [Senders -> {"idle", "insert", "send", "store"}]
        /\ \A t \in Senders : at[t] = "idle"
    BY DEF ResendInit
  <1>4. packet \in [Senders -> SentPackets \cup {NoPacket}] /\ next \in [Senders -> Keys]
    BY <1>1 DEF ResendInit
  <1>5. seq_number \in Keys /\ delivered \subseteq SentPackets /\ overlapped \in BOOLEAN
    BY <1>1 DEF ResendInit
  <1>6. QED
    BY <1>2, <1>3, <1>4, <1>5 DEF SendType

LEMMA SendTypeStep == ASSUME SendType, [ResendNext]_resendVars PROVE SendType'
  <1>1. ASSUME NEW t \in Senders, Stamp(t)
        PROVE  SendType'
    <2>1. [num |-> seq_number, serial |-> made + 1] \in SentPackets
      BY <1>1, ResendAssumption DEF Stamp, SendType, SentPackets
    <2>2. QED
      BY <1>1, <2>1, ResendAssumption DEF Stamp, Step, SendType, vars
  <1>2. ASSUME NEW t \in Senders, Keep(t)
        PROVE  SendType'
    BY <1>2 DEF Keep, Step, SendType
  <1>3. ASSUME NEW t \in Senders, SendTo(t)
        PROVE  SendType'
    BY <1>3, NextNumber DEF SendTo, Step, SendType, vars
  <1>4. ASSUME NEW t \in Senders, Store(t)
        PROVE  SendType'
    BY <1>4, FirstNumber DEF Store, Step, SendType, vars
  <1>5. ASSUME NEW p \in delivered, ProcessAck(p)
        PROVE  SendType'
    BY <1>5 DEF ProcessAck, SendType, senders
  <1>6. CASE UNCHANGED resendVars
    BY <1>6 DEF resendVars, senders, SendType
  <1>7. QED
    BY <1>1, <1>2, <1>3, <1>4, <1>5, <1>6 DEF ResendNext

\* Every step is a call of the cache or leaves it alone.
LEMMA CallsCache == ASSUME SendType, [ResendNext]_resendVars PROVE [Next]_vars
  <1>1. ASSUME NEW t \in Senders, Keep(t)
        PROVE  Next
    <2>1. seq_number \in Keys /\ packet[t] \in Values /\ insert(seq_number, packet[t])
      BY <1>1, ResendAssumption DEF Keep, Step, SendType
    <2>2. QED
      BY <2>1 DEF Next
  <1>2. ASSUME NEW p \in delivered, ProcessAck(p)
        PROVE  Next \/ UNCHANGED vars
    <2>1. p.num \in Keys
      BY PacketFields DEF SendType
    <2>2. QED
      BY <1>2, <2>1 DEF ProcessAck, Next
  <1>3. ASSUME NEW t \in Senders, Stamp(t) \/ SendTo(t) \/ Store(t)
        PROVE  UNCHANGED vars
    BY <1>3 DEF Stamp, SendTo, Store, vars
  <1>4. CASE UNCHANGED resendVars
    BY <1>4 DEF resendVars, vars
  <1>5. QED
    BY <1>1, <1>2, <1>3, <1>4 DEF ResendNext

\* Whatever the threads of a client and the acknowledgements do, in whatever order,
\* the cache they share goes through steps of its own specification.
THEOREM ResendCache == ResendSpec => Spec
  <1>1. ResendInit => Init
    BY DEF ResendInit
  <1>2. QED
    BY <1>1, SendTypeInit, SendTypeStep, CallsCache, PTL DEF ResendSpec, Spec

\* As long as no number is used again while a packet with it is cached, the
\* client's cache is the bounded store of the packets it used last.
THEOREM ResendStore == ResendSpec => ImplementsStore
  BY ResendCache, StoreTheorem, PTL

-------------------------------------------------------------------------------
(* What is sent again, as long as the threads do not meet in send_packet.     *)

Busy(t) == at[t] # "idle"

\* A packet's number is that of its place in the order of making.
Numbered(p) == p.num = NumberOf(p.serial)

\* The thread that sends is alone and has the packet made last.
Alone ==
  \A t \in Senders : Busy(t) =>
    /\ \A u \in Senders : Busy(u) => u = t
    /\ made # 0 /\ seq_number = NumberOf(made)
    /\ packet[t] = [num |-> seq_number, serial |-> made]
    /\ at[t] = "send" => inserted[seq_number] = packet[t]
    /\ at[t] = "store" => next[t] = NumberOf(made + 1)

\* Between two of them the number is that of the packet to come.
Ready == (\A t \in Senders : ~Busy(t)) => seq_number = NumberOf(made + 1)

\* The packet cached last under the number of one that was sent is that one or
\* a later one.
Superseded ==
  \A p \in delivered :
    /\ Numbered(p) /\ p.serial <= made
    /\ inserted[p.num] \in SentPackets
    /\ Numbered(inserted[p.num]) /\ inserted[p.num].num = p.num
    /\ inserted[p.num].serial >= p.serial

ResendInv ==
  /\ SendType /\ CacheInv
  /\ ~overlapped => Alone /\ Ready /\ Superseded
  /\ ResendsAcked

LEMMA ResendInvInit == ResendInit => ResendInv
  <1> SUFFICES ASSUME ResendInit PROVE ResendInv
    OBVIOUS
  <1>1. SendType /\ CacheInv
    BY SendTypeInit, CacheInit DEF ResendInit
  <1>2. Alone /\ Superseded /\ ResendsAcked
    BY DEF ResendInit, Alone, Busy, Superseded, ResendsAcked
  <1>3. Ready
    BY FirstNumber DEF ResendInit, Ready
  <1>4. QED
    BY <1>1, <1>2, <1>3 DEF ResendInv

\* A packet is made: it was nobody's turn.
LEMMA StampStep ==
  ASSUME ResendInv, NEW t \in Senders, Stamp(t), ~overlapped'
  PROVE  Alone' /\ Ready' /\ Superseded'
  <1>1. /\ ~overlapped /\ \A u \in Senders : ~Busy(u)
        /\ at' = [at EXCEPT ![t] = "insert"] /\ at[t] = "idle" /\ made' = made + 1
        /\ packet' = [packet EXCEPT ![t] = [num |-> seq_number, serial |-> made + 1]]
        /\ UNCHANGED <<seq_number, next, delivered, inserted>>
    BY DEF Stamp, Step, Busy, vars
  <1>2. /\ SendType /\ seq_number = NumberOf(made + 1) /\ Superseded
        /\ made \in Nat /\ made' # 0
    BY <1>1 DEF ResendInv, Ready, SendType
  <1>3. Alone'
    BY <1>1, <1>2 DEF Alone, Busy, SendType
  <1>4. Ready'
    BY <1>1, <1>2 DEF Ready, Busy, SendType
  <1>5. Superseded'
    <2> SUFFICES ASSUME NEW p \in delivered
                 PROVE  p.serial <= made + 1
      BY <1>1, <1>2 DEF Superseded, Numbered
    <2>1. p.serial <= made /\ p.serial \in Nat
      BY <1>2, PacketFields DEF Superseded, SendType
    <2>2. QED
      BY <1>2, <2>1
  <1>6. QED
    BY <1>3, <1>4, <1>5

\* It is cached under its own number, in the place of older ones.
LEMMA KeepStep ==
  ASSUME ResendInv, NEW t \in Senders, Keep(t), ~overlapped'
  PROVE  Alone' /\ Ready' /\ Superseded'
  <1>1. /\ ~overlapped /\ Busy(t)
        /\ at' = [at EXCEPT ![t] = "send"] /\ at[t] = "insert"
        /\ inserted' = [inserted EXCEPT ![seq_number] = packet[t]]
        /\ UNCHANGED <<seq_number, made, packet, next, delivered>>
    BY DEF Keep, Step, Busy, insert
  <1>2. /\ SendType /\ TypeOK /\ Alone /\ Superseded
        /\ made \in Nat \ {0} /\ seq_number = NumberOf(made) /\ seq_number \in Keys
        /\ packet[t] = [num |-> seq_number, serial |-> made] /\ packet[t] \in SentPackets
    BY <1>1 DEF ResendInv, CacheInv, Alone, Busy, SendType
  <1>3. inserted'[seq_number] = packet[t]
    BY <1>1, <1>2 DEF TypeOK
  <1>4. Alone'
    BY <1>1, <1>2, <1>3 DEF Alone, Busy, SendType
  <1>5. Ready'
    BY <1>1, <1>2 DEF Ready, Busy, SendType
  <1>6. Superseded'
    <2> SUFFICES ASSUME NEW p \in delivered
                 PROVE  /\ Numbered(p) /\ p.serial <= made
                        /\ inserted'[p.num] \in SentPackets
                        /\ Numbered(inserted'[p.num]) /\ inserted'[p.num].num = p.num
                        /\ inserted'[p.num].serial >= p.serial
      BY <1>1 DEF Superseded, Numbered
    <2>1. /\ Numbered(p) /\ p.serial <= made /\ p.num \in Keys
          /\ p.serial \in Nat
      BY <1>2, PacketFields DEF Superseded, SendType
    <2>2. CASE p.num = seq_number
      <3>1. packet[t].num = seq_number /\ packet[t].serial = made
        BY <1>2
      <3>2. QED
        BY <2>1, <2>2, <3>1, <1>2, <1>3 DEF Numbered
    <2>3. CASE p.num # seq_number
      <3>1. inserted'[p.num] = inserted[p.num]
        BY <1>1, <1>2, <2>1, <2>3 DEF TypeOK
      <3>2. QED
        BY <3>1, <2>1, <1>2 DEF Superseded
    <2>4. QED
      BY <2>2, <2>3
  <1>7. QED
    BY <1>4, <1>5, <1>6

\* It is sent, and from now on may be acknowledged.
LEMMA SendToStep ==
  ASSUME ResendInv, NEW t \in Senders, SendTo(t), ~overlapped'
  PROVE  Alone' /\ Ready' /\ Superseded'
  <1>1. /\ ~overlapped /\ Busy(t)
        /\ at' = [at EXCEPT ![t] = "store"] /\ at[t] = "send"
        /\ next' = [next EXCEPT ![t] = Following(seq_number)]
        /\ delivered' = delivered \cup {packet[t]}
        /\ UNCHANGED <<seq_number, made, packet, inserted>>
    BY DEF SendTo, Step, Busy, vars
  <1>2. /\ SendType /\ Alone /\ Superseded
        /\ made \in Nat \ {0} /\ seq_number = NumberOf(made)
        /\ packet[t] = [num |-> seq_number, serial |-> made] /\ packet[t] \in SentPackets
        /\ inserted[seq_number] = packet[t]
    BY <1>1 DEF ResendInv, Alone, Busy, SendType
  <1>3. Following(seq_number) = NumberOf(made + 1)
    BY <1>2, Numbers
  <1>4. Alone'
    BY <1>1, <1>2, <1>3 DEF Alone, Busy, SendType
  <1>5. Ready'
    BY <1>1, <1>2 DEF Ready, Busy, SendType
  <1>6. Superseded'
    <2> SUFFICES ASSUME NEW p \in delivered'
                 PROVE  /\ Numbered(p) /\ p.serial <= made
                        /\ inserted[p.num] \in SentPackets
                        /\ Numbered(inserted[p.num]) /\ inserted[p.num].num = p.num
                        /\ inserted[p.num].serial >= p.serial
      BY <1>1 DEF Superseded, Numbered
    <2>1. CASE p = packet[t]
      <3>1. p.num = seq_number /\ p.serial = made
        BY <2>1, <1>2
      <3>2. QED
        BY <2>1, <3>1, <1>2 DEF Numbered
    <2>2. CASE p \in delivered
      BY <2>2, <1>2 DEF Superseded
    <2>3. QED
      BY <1>1, <2>1, <2>2
  <1>7. QED
    BY <1>4, <1>5, <1>6

\* The number becomes that of the packet to come.
LEMMA StoreStepAlone ==
  ASSUME ResendInv, NEW t \in Senders, Store(t), ~overlapped'
  PROVE  Alone' /\ Ready' /\ Superseded'
  <1>1. /\ ~overlapped /\ Busy(t)
        /\ at' = [at EXCEPT ![t] = "idle"] /\ at[t] = "store"
        /\ seq_number' = next[t]
        /\ UNCHANGED <<made, delivered, inserted>>
    BY DEF Store, Step, Busy, vars
  <1>2. /\ SendType /\ Alone /\ Superseded /\ next[t] = NumberOf(made + 1)
        /\ \A u \in Senders : Busy(u) => u = t
    BY <1>1 DEF ResendInv, Alone, Busy
  <1>3. \A u \in Senders : ~Busy(u)'
    BY <1>1, <1>2 DEF Busy, SendType
  <1>4. Alone' /\ Ready'
    BY <1>1, <1>2, <1>3 DEF Alone, Ready
  <1>5. Superseded'
    BY <1>1, <1>2 DEF Superseded, Numbered
  <1>6. QED
    BY <1>4, <1>5

\* The answer to an acknowledgement: what is found is what was cached last.
LEMMA AckStep ==
  ASSUME ResendInv, NEW p \in delivered, ProcessAck(p)
  PROVE  ResendsAcked' /\ (~overlapped' => Alone' /\ Ready' /\ Superseded')
  <1>1. UNCHANGED <<seq_number, made, at, packet, next, delivered, overlapped, inserted>>
    BY DEF ProcessAck, senders, get, vars
  <1>2. ~overlapped' => Alone' /\ Ready' /\ Superseded'
    BY <1>1 DEF ResendInv, Alone, Ready, Superseded, Numbered, Busy
  <1>3. ResendsAcked'
    <2> DEFINE r == IF cache_map[p.num] = NoNode THEN NoPacket
                    ELSE node[cache_map[p.num]].value
               q == inserted[p.num]
    <2>1. resent' = [acked |-> p, packet |-> r]
      BY DEF ProcessAck
    <2> SUFFICES ASSUME ~overlapped, r # NoPacket
                 PROVE  r = p \/ (r.num = p.num /\ r.serial >= p.serial + Cycle)
      BY <1>1, <2>1 DEF ResendsAcked
    <2>2. /\ p \in SentPackets /\ Numbered(p) /\ q \in SentPackets /\ Numbered(q)
          /\ q.num = p.num /\ q.serial >= p.serial
      BY DEF ResendInv, SendType, Superseded
    <2>3. /\ p.num \in Keys /\ p.serial \in Nat \ {0} /\ q.serial \in Nat \ {0}
      BY <2>2, PacketFields
    <2>4. r = q
      <3>1. cache_map[p.num] # NoNode => node[cache_map[p.num]].value = inserted[p.num]
        BY <2>3 DEF ResendInv, CacheInv, LatestFound
      <3>2. QED
        BY <3>1
    <2> HIDE DEF r, q
    <2>5. p.serial = q.serial \/ q.serial >= p.serial + Cycle
      BY <2>2, <2>3, SameNumber DEF Numbered
    <2>6. CASE p.serial = q.serial
      <3>1. p = q
        BY <2>2, <2>6 DEF SentPackets
      <3>2. QED
        BY <3>1, <2>4
    <2>7. QED
      BY <2>2, <2>4, <2>5, <2>6
  <1>4. QED
    BY <1>2, <1>3

LEMMA ResendInvStep == ASSUME ResendInv, [ResendNext]_resendVars PROVE ResendInv'
  <1>1. SendType' /\ CacheInv'
    BY SendTypeStep, CallsCache, CacheStep DEF ResendInv
  <1>2. ASSUME NEW t \in Senders, Stamp(t) \/ Keep(t) \/ SendTo(t) \/ Store(t)
        PROVE  ResendsAcked' /\ (~overlapped' => Alone' /\ Ready' /\ Superseded')
    <2>1. resent' = NoPacket
      BY <1>2 DEF Stamp, Keep, SendTo, Store
    <2>2. QED
      BY <1>2, <2>1, StampStep, KeepStep, SendToStep, StoreStepAlone DEF ResendsAcked
  <1>3. CASE UNCHANGED resendVars
    <2>1. UNCHANGED <<senders, resent, inserted>>
      BY <1>3 DEF resendVars, vars
    <2>2. ResendsAcked'
      BY <2>1 DEF ResendInv, ResendsAcked, senders
    <2>3. ~overlapped' => Alone' /\ Ready' /\ Superseded'
      BY <2>1 DEF ResendInv, senders, Alone, Ready, Superseded, Numbered, Busy
    <2>4. QED
      BY <1>1, <2>2, <2>3 DEF ResendInv
  <1>4. QED
    BY <1>1, <1>2, <1>3, AckStep DEF ResendNext, ResendInv

\* For every cycle of numbers, every size of the cache and any number of packets
\* and threads: what an acknowledgement brings back from the cache, evicted, used again or
\* not, is the packet acknowledged, or one a whole cycle later, as long as
\* threads do not meet in send_packet.
THEOREM ResendsAckedTheorem == ResendSpec => []ResendsAcked
  <1>1. ResendInv => ResendsAcked
    BY DEF ResendInv
  <1>2. QED
    BY <1>1, ResendInvInit, ResendInvStep, PTL DEF ResendSpec
===============================================================================
