-------------------------------- MODULE UdpGame --------------------------------
(* udpsocket/server.cpp: one detached thread per datagram; online_clients and *)
(* first_gamer are shared by all of them without a lock.  UDP loses, repeats  *)
(* and delays datagrams and a client sends what it likes when it likes, so    *)
(* any datagram a client can encode may arrive at any time.  A statement that *)
(* reads or writes first_gamer is a step; so is a call on online_clients that *)
(* may change it.                                                             *)
EXTENDS Naturals

CONSTANTS
  Nicks,     \* the nicknames
  Addrs,     \* the addresses datagrams come from
  NoAddr,    \* no entry in online_clients
  ZeroAddr,  \* the entry operator[] makes up for a missing key
  NoState,   \* the null State*
  Threads,   \* the threads that may run at a time
  Arrivals   \* the datagrams that may arrive

Shapes == {"piedra", "papel", "tijera"}
States == [nickname : Nicks, state : Shapes]

\* The client pads a shape to six characters and the server strips the padding.
Wire(s) == IF s = "papel" THEN "papel_" ELSE s
\* Mutant of Unwire: the padding stays.
UnwireMutant(w) == w

Unwire(w) == IF w = "papel_" THEN "papel" ELSE w

\* A decoded datagram: `to` is the receiver of an M, state the word of a G.
Datagrams == [type : {"M", "P", "G"}, sender : Nicks, from : Addrs, to : Nicks,
              state : {Wire(s) : s \in Shapes}]

ASSUME UdpAssumption ==
  /\ {NoAddr, ZeroAddr} \cap Addrs = {} /\ NoAddr # ZeroAddr
  /\ NoState \notin States
  /\ Arrivals \subseteq Datagrams

\* State::winner and State::loser of p against q.
win_to == [s \in Shapes |-> CASE s = "piedra" -> "tijera"
                              [] s = "papel"  -> "piedra"
                              [] s = "tijera" -> "papel"]
WinnerOf(p, q) == IF win_to[p.state] = q.state THEN p ELSE q

\* Mutant of LoserOf: the branches of winner are copied.
LoserOfMutant(p, q) == IF win_to[p.state] = q.state THEN p ELSE q
LoserOf(p, q)  == IF win_to[p.state] = q.state THEN q ELSE p

VARIABLES
  up,       \* FALSE once the process has died
  online,   \* online_clients
  first,    \* *first_gamer, or NoState when it is null
  pc,       \* where a thread is; "idle" when there is none
  job,      \* the datagram of a thread
  told,     \* the result a thread has computed so far
  result,   \* history: the result of the last round that has ended
  raced     \* history: first_gamer was written while another thread relied on
            \* what it had read there

Local == <<pc, job, told>>
vars  == <<up, online, first, Local, result, raced>>

Init ==
  /\ up = TRUE
  /\ online = [n \in Nicks |-> NoAddr]
  /\ first = NoState
  /\ pc = [t \in Threads |-> "idle"]
  /\ job = [t \in Threads |-> NoState]
  /\ told = [t \in Threads |-> NoState]
  /\ result = NoState /\ raced = FALSE

At(t, l) == up /\ pc[t] = l

\* Thread t goes on at l, having computed r; its locals die when it returns.
Goto(t, l, r) ==
  /\ pc'   = [pc EXCEPT ![t] = l]
  /\ told' = [told EXCEPT ![t] = r]
  /\ job'  = IF l = "idle" THEN [job EXCEPT ![t] = NoState] ELSE job
  /\ up' = up

Crash == up' = FALSE /\ UNCHANGED <<online, Local>>

\* The State of the thread's own player.
Mine(t) == [nickname |-> job[t].sender, state |-> Unwire(job[t].state)]

\* online_clients[n] for the nicknames ns, to assign to an entry or to send to it:
\* operator[] makes an entry up for a missing one.
Subscript(ns) ==
  online' = [n \in Nicks |-> IF n \in ns /\ online[n] = NoAddr THEN ZeroAddr
                                                              ELSE online[n]]

\* The threads that have tested first_gamer and have not written it yet.
Relying == {t \in Threads : pc[t] \in {"G1", "G2", "D", "W1", "W2", "Z"}}

\* Thread t writes first_gamer.
SetFirst(t, p) == first' = p /\ raced' = (raced \/ Relying # {t})

-------------------------------------------------------------------------------
(* main and processing.                                                       *)

Receive(t, d) ==
  /\ At(t, "idle")
  /\ pc' = [pc EXCEPT ![t] = "find"]
  /\ job' = [job EXCEPT ![t] = d]
  /\ UNCHANGED <<up, online, first, told, result, raced>>

\* Mutant of FindSender: the validation is dropped.
FindSenderMutant(t) ==
  /\ At(t, "find")
  /\ Goto(t, job[t].type, NoState)
  /\ UNCHANGED <<online, first, result, raced>>

FindSender(t) ==
  /\ At(t, "find")
  /\ Goto(t, IF online[job[t].sender] = NoAddr THEN "add" ELSE job[t].type, NoState)
  /\ UNCHANGED <<online, first, result, raced>>

\* operator[] of line 96 makes the entry; it stays if another thread of the same
\* sender has made it since.
AddSender(t) ==
  /\ At(t, "add")
  /\ Subscript({job[t].sender})
  /\ Goto(t, "assign", NoState)
  /\ UNCHANGED <<first, result, raced>>

\* The assignment of line 96, which fills the entry.
AssignAddress(t) ==
  /\ At(t, "assign")
  /\ online' = [online EXCEPT ![job[t].sender] = job[t].from]
  /\ Goto(t, job[t].type, NoState)
  /\ UNCHANGED <<first, result, raced>>

SendMessage(t) ==
  /\ At(t, "M")
  /\ IF online[job[t].to] = NoAddr THEN UNCHANGED online ELSE Subscript({job[t].to})
  /\ Goto(t, "idle", NoState)
  /\ UNCHANGED <<first, result, raced>>

\* process_struct only prints.
ProcessStruct(t) ==
  /\ At(t, "P")
  /\ Goto(t, "idle", NoState)
  /\ UNCHANGED <<online, first, result, raced>>

-------------------------------------------------------------------------------
(* process_game.                                                              *)

\* Mutant of ProcessGame: the two branches of the test are swapped.
ProcessGameMutant(t) ==
  /\ At(t, "G")
  /\ Goto(t, IF first = NoState THEN "G2" ELSE "G1", NoState)
  /\ UNCHANGED <<online, first, result, raced>>

ProcessGame(t) ==
  /\ At(t, "G")
  /\ Goto(t, IF first = NoState THEN "G1" ELSE "G2", NoState)
  /\ UNCHANGED <<online, first, result, raced>>

FirstGamer(t) ==
  /\ At(t, "G1")
  /\ SetFirst(t, Mine(t))
  /\ Subscript({job[t].sender})
  /\ result' = NoState
  /\ Goto(t, "idle", NoState)

Compare(t) ==
  /\ At(t, "G2")
  /\ IF first = NoState THEN Crash ELSE
       /\ Goto(t, IF Mine(t).state = first.state THEN "D" ELSE "W1", NoState)
       /\ UNCHANGED online
  /\ UNCHANGED <<first, result, raced>>

\* A draw: to the sender, then to the player first_gamer has by then.
Tie(t) ==
  /\ At(t, "D")
  /\ IF first = NoState THEN Crash ELSE
       /\ Subscript({job[t].sender, first.nickname})
       /\ Goto(t, "Z", [draw |-> {Mine(t), first}])
  /\ UNCHANGED <<first, result, raced>>

PickWinner(t) ==
  /\ At(t, "W1")
  /\ IF first = NoState THEN Crash ELSE
       /\ Goto(t, "W2", [winner |-> WinnerOf(first, Mine(t))])
       /\ UNCHANGED online
  /\ UNCHANGED <<first, result, raced>>

\* The loser from first_gamer as it is by then, and the result to both.
PickLoser(t) ==
  /\ At(t, "W2")
  /\ IF first = NoState THEN Crash ELSE
       LET w == told[t].winner
           l == LoserOf(first, Mine(t))
       IN  Subscript({w.nickname, l.nickname}) /\ Goto(t, "Z", [winner |-> w, loser |-> l])
  /\ UNCHANGED <<first, result, raced>>

EndRound(t) ==
  /\ At(t, "Z")
  /\ SetFirst(t, NoState)
  /\ result' = told[t]
  /\ Goto(t, "idle", NoState)
  /\ UNCHANGED online

-------------------------------------------------------------------------------
Handle(t) ==
  \/ FindSender(t) \/ AddSender(t) \/ AssignAddress(t) \/ SendMessage(t)
  \/ ProcessStruct(t) \/ ProcessGame(t) \/ FirstGamer(t) \/ Compare(t) \/ Tie(t)
  \/ PickWinner(t) \/ PickLoser(t) \/ EndRound(t)

Next == \E t \in Threads : Handle(t) \/ \E d \in Arrivals : Receive(t, d)

Spec == Init /\ [][Next]_vars

-------------------------------------------------------------------------------
(* Properties.                                                                *)

\* What a thread may have computed: a winner, a winner and a loser, or a draw.
Outcomes == [winner : States] \cup [winner : States, loser : States]
            \cup [draw : SUBSET States]

\* Every variable holds a value of the kind the code gives it.
TypeOK ==
  /\ {up, raced} \subseteq BOOLEAN
  /\ online \in [Nicks -> Addrs \cup {NoAddr, ZeroAddr}]
  /\ first \in States \cup {NoState}
  /\ pc \in [Threads -> {"idle", "find", "add", "assign", "M", "P", "G", "G1", "G2",
                         "D", "W1", "W2", "Z"}]
  /\ job \in [Threads -> Datagrams \cup {NoState}]
  /\ told \in [Threads -> Outcomes \cup {NoState}]
  /\ \A t \in Threads : /\ pc[t] # "idle" => job[t] \in Datagrams
                        /\ pc[t] = "W2" => told[t] \in [winner : States]

\* An entry without an address never outlives line 96: while operator[] has made
\* the entry of a nickname and the assignment has not filled it, another thread of
\* the same sender finds it at line 95 and goes on, and what it answers is lost at
\* address zero.  Outside that window every notification has a place to go to: a
\* sender, a receiver or the waiting player of a round that began long ago is never
\* entered by the operator[] of a sendto.
NobodyMadeUp ==
  \A n \in Nicks :
    online[n] = ZeroAddr => \E t \in Threads : pc[t] = "assign" /\ job[t].sender = n

\* A null first_gamer is dereferenced only after a race: as long as no thread
\* wrote the pointer while another relied on it, the server is up, whatever
\* datagrams are lost, repeated or late.
UpUnlessRaced == ~raced => up

\* In the same circumstances the threads, interleaved as they are, play the
\* rounds of the abstract server: every datagram either waits for a partner
\* or settles the round of the one waiting, with the result the rules give.
R == INSTANCE Rounds WITH waiting <- first

ImplementsRounds == R!RoundsInit /\ [][raced' \/ R!RoundsNext]_<<first, result>>
===============================================================================
