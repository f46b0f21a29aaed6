--------------------------------- MODULE Resend ---------------------------------
(* The sending half of final/client.cpp with final/lib/ack.h: every line      *)
(* typed starts a thread that sends a packet under the next sequence number   *)
(* and keeps it in the cache; every acknowledgement makes a thread send a     *)
(* packet again.  The threads share seq_number and the cache without a lock.  *)
(* The cache is the one ack.h:12 and client.cpp:256 intend: neither compiles. *)
EXTENDS Cache

CONSTANTS
  Cycle,    \* sequence numbers run from 0 to Cycle - 1
  Senders,  \* the threads that may be sending at a time
  NoPacket,
  MaxSent   \* bound: the packets that are made

\* A packet: its number, and a serial number that tells packets apart.
SentPackets == [num : Keys, serial : 1..MaxSent]

ASSUME ResendAssumption ==
  /\ Cycle \in Nat \ {0} /\ MaxSent \in Nat
  /\ Keys = 0..(Cycle - 1) /\ Values = SentPackets
  /\ NoPacket \notin SentPackets

VARIABLES
  seq_number,
  made,       \* how many packets have been made
  at,         \* where a thread is in send_packet
  packet,     \* the packet of a thread
  next,       \* the number a thread is about to store
  delivered,  \* the packets sent, each of which may be acknowledged at any time
  resent,     \* the acknowledged packet and the one sent again, just now
  overlapped  \* history: two threads have been in send_packet at a time

senders    == <<seq_number, made, at, packet, next, delivered, overlapped>>
resendVars == <<vars, senders, resent>>

ResendInit ==
  /\ Init
  /\ seq_number = 0 /\ made = 0
  /\ at = [t \in Senders |-> "idle"]
  /\ packet = [t \in Senders |-> NoPacket]
  /\ next = [t \in Senders |-> 0]
  /\ delivered = {} /\ resent = NoPacket
  /\ overlapped = FALSE

\* Thread t goes from k to l.
Step(t, k, l) == at[t] = k /\ at' = [at EXCEPT ![t] = l]

\* The header is made with the number as it is now.
Stamp(t) ==
  /\ made < MaxSent /\ Step(t, "idle", "insert")
  /\ made' = made + 1
  /\ packet' = [packet EXCEPT ![t] = [num |-> seq_number, serial |-> made + 1]]
  /\ overlapped' = (overlapped \/ \E u \in Senders \ {t} : at[u] # "idle")
  /\ resent' = NoPacket
  /\ UNCHANGED <<vars, seq_number, next, delivered>>

\* The packet is cached under the number as it is by then.
Keep(t) ==
  /\ Step(t, "insert", "send")
  /\ insert(seq_number, packet[t])
  /\ resent' = NoPacket
  /\ UNCHANGED <<seq_number, made, packet, next, delivered, overlapped>>

\* Mutant of Following: the number is not incremented.
FollowingMutant(s) == s

Following(s) == (s + 1) % Cycle

\* sendto, and the number is read to be incremented.
SendTo(t) ==
  /\ Step(t, "send", "store")
  /\ delivered' = delivered \cup {packet[t]}
  /\ next' = [next EXCEPT ![t] = Following(seq_number)]
  /\ resent' = NoPacket
  /\ UNCHANGED <<vars, seq_number, made, packet, overlapped>>

Store(t) ==
  /\ Step(t, "store", "idle")
  /\ seq_number' = next[t]
  /\ next' = [next EXCEPT ![t] = 0]
  /\ packet' = [packet EXCEPT ![t] = NoPacket]
  /\ resent' = NoPacket
  /\ UNCHANGED <<vars, made, delivered, overlapped>>

\* An acknowledgement of p arrives, late or for the second time.  process_ack looks
\* its number up in acks_to_recv, which nothing fills: the packet is always
\* sent again, from the cache; a packet that is not there is sent empty.
ProcessAck(p) ==
  /\ resent' = [acked |-> p, packet |-> IF cache_map[p.num] = NoNode THEN NoPacket
                                        ELSE node[cache_map[p.num]].value]
  /\ \/ get(p.num)
     \/ cache_map[p.num] = NoNode /\ UNCHANGED vars
  /\ UNCHANGED senders

ResendNext ==
  \/ \E t \in Senders : Stamp(t) \/ Keep(t) \/ SendTo(t) \/ Store(t)
  \/ \E p \in delivered : ProcessAck(p)

ResendSpec == ResendInit /\ [][ResendNext]_resendVars

-------------------------------------------------------------------------------
(* Properties.                                                                *)

\* What is sent again is the packet that was acknowledged, unless the number
\* was used again for a later one, which takes a whole cycle of packets: as long
\* as threads do not meet in send_packet, eviction and resending in any order
\* never put another packet in its place.
ResendsAcked ==
  ~overlapped /\ resent # NoPacket /\ resent.packet # NoPacket =>
    \/ resent.packet = resent.acked
    \/ /\ resent.packet.num = resent.acked.num
       /\ resent.packet.serial >= resent.acked.serial + Cycle
===============================================================================
