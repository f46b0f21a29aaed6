------------------------------- MODULE UdpProofs -------------------------------
(* Proofs about UdpGame, for any number of threads and any players.           *)
EXTENDS UdpGame, TLAPS

Labels == {"idle", "find", "add", "assign", "M", "P", "G", "G1", "G2", "D", "W1",
           "W2", "Z"}

LEMMA DatagramFields ==
  ASSUME NEW d \in Datagrams
  PROVE  /\ d.sender \in Nicks /\ d.to \in Nicks /\ d.from \in Addrs
         /\ d.type \in {"M", "P", "G"} /\ Unwire(d.state) \in Shapes
  BY DEF Datagrams, Unwire, Wire, Shapes

LEMMA MineState ==
  ASSUME NEW t \in Threads, job[t] \in Datagrams
  PROVE  Mine(t) \in States
  BY DatagramFields DEF Mine, States

LEMMA PickOne ==
  ASSUME NEW p \in States, NEW q \in States
  PROVE  WinnerOf(p, q) \in {p, q} /\ LoserOf(p, q) \in {p, q}
  BY DEF WinnerOf, LoserOf

\* win_to and the two branches of winner and loser are the rules of the game.
LEMMA Rules ==
  ASSUME NEW p \in States, NEW q \in States, p.state # q.state
  PROVE  [winner |-> WinnerOf(p, q), loser |-> LoserOf(p, q)] \in R!Results(q, p)
  <1>1. p.state \in Shapes /\ q.state \in Shapes
    BY DEF States
  <1>2. \A s, r \in Shapes :
          s # r => IF win_to[s] = r THEN <<s, r>> \in R!Beats ELSE <<r, s>> \in R!Beats
    BY DEF Shapes, win_to, R!Beats
  <1>3. R!States = States
    BY DEF R!States, States, R!Shapes, Shapes
  <1>4. CASE win_to[p.state] = q.state
    <2>1. WinnerOf(p, q) = p /\ LoserOf(p, q) = q
      BY <1>4 DEF WinnerOf, LoserOf
    <2>2. <<p.state, q.state>> \in R!Beats
      BY <1>1, <1>2, <1>4
    <2>3. QED
      BY <1>3, <2>1, <2>2 DEF R!Results
  <1>5. CASE win_to[p.state] # q.state
    <2>1. WinnerOf(p, q) = q /\ LoserOf(p, q) = p
      BY <1>5 DEF WinnerOf, LoserOf
    <2>2. <<q.state, p.state>> \in R!Beats
      BY <1>1, <1>2, <1>5
    <2>3. QED
      BY <1>3, <2>1, <2>2 DEF R!Results
  <1>6. QED
    BY <1>4, <1>5

-------------------------------------------------------------------------------
(* Type correctness.                                                          *)

LEMMA TypeInit == Init => TypeOK
  BY DEF Init, TypeOK

LEMMA GotoType ==
  ASSUME TypeOK, NEW t \in Threads, NEW l \in Labels, NEW r \in Outcomes \cup {NoState},
         l = "W2" => r \in [winner : States], pc[t] # "idle", Goto(t, l, r)
  PROVE  /\ up' = up /\ pc' \in [Threads -> Labels]
         /\ job' \in [Threads -> Datagrams \cup {NoState}]
         /\ told' \in [Threads -> Outcomes \cup {NoState}]
         /\ \A u \in Threads : /\ pc'[u] # "idle" => job'[u] \in Datagrams
                               /\ pc'[u] = "W2" => told'[u] \in [winner : States]
  <1>1. /\ pc \in [Threads -> Labels] /\ job \in [Threads -> Datagrams \cup {NoState}]
        /\ told \in [Threads -> Outcomes \cup {NoState}]
    BY DEF TypeOK, Labels
  <1>2. /\ pc' = [pc EXCEPT ![t] = l] /\ told' = [told EXCEPT ![t] = r]
        /\ job' = (IF l = "idle" THEN [job EXCEPT ![t] = NoState] ELSE job) /\ up' = up
    BY DEF Goto
  <1>3. ASSUME NEW u \in Threads
        PROVE  /\ pc'[u] # "idle" => job'[u] \in Datagrams
               /\ pc'[u] = "W2" => told'[u] \in [winner : States]
    BY <1>1, <1>2 DEF TypeOK
  <1>4. QED
    BY <1>1, <1>2, <1>3

LEMMA SubscriptType ==
  ASSUME TypeOK, NEW ns, Subscript(ns)
  PROVE  online' \in [Nicks -> Addrs \cup {NoAddr, ZeroAddr}]
  BY DEF TypeOK, Subscript

LEMMA TypeStep == ASSUME TypeOK, [Next]_vars PROVE TypeOK'
  <1>1. ASSUME NEW t \in Threads, NEW d \in Arrivals, Receive(t, d)
        PROVE  TypeOK'
    <2>1. d \in Datagrams
      BY UdpAssumption
    <2>2. QED
      BY <1>1, <2>1 DEF Receive, At, TypeOK
  <1>2. ASSUME NEW t \in Threads, NEW l \in Labels, NEW r \in Outcomes \cup {NoState},
               l = "W2" => r \in [winner : States], pc[t] # "idle", Goto(t, l, r),
               online' \in [Nicks -> Addrs \cup {NoAddr, ZeroAddr}],
               first' \in States \cup {NoState}, raced' \in BOOLEAN
        PROVE  TypeOK'
    BY <1>2, GotoType DEF TypeOK, Labels
  <1>3. ASSUME Crash, UNCHANGED <<first, raced>>
        PROVE  TypeOK'
    BY <1>3 DEF Crash, Local, TypeOK
  <1>4. ASSUME NEW t \in Threads, Handle(t)
        PROVE  TypeOK'
    <2>1. CASE pc[t] = "idle"
      BY <1>4, <2>1 DEF Handle, At, FindSender, AddSender, AssignAddress, SendMessage,
        ProcessStruct, ProcessGame, FirstGamer, Compare, Tie, PickWinner, PickLoser, EndRound
    <2>2. CASE pc[t] # "idle"
      <3>1. /\ job[t] \in Datagrams /\ Mine(t) \in States /\ job[t].from \in Addrs
            /\ job[t].sender \in Nicks /\ job[t].type \in Labels \ {"W2"}
            /\ online \in [Nicks -> Addrs \cup {NoAddr, ZeroAddr}]
            /\ first \in States \cup {NoState} /\ raced \in BOOLEAN
        BY <2>2, MineState, DatagramFields DEF TypeOK, Labels
      <3>2. CASE FindSender(t)
        BY <1>2, <2>2, <3>1, <3>2 DEF FindSender, Labels
      <3>3. CASE AddSender(t)
        <4>1. online' \in [Nicks -> Addrs \cup {NoAddr, ZeroAddr}]
          BY <3>3, SubscriptType DEF AddSender
        <4>2. QED
          BY <1>2, <2>2, <3>1, <3>3, <4>1 DEF AddSender, Labels
      <3>3a. CASE AssignAddress(t)
        <4>1. online' \in [Nicks -> Addrs \cup {NoAddr, ZeroAddr}]
          BY <3>1, <3>3a DEF AssignAddress
        <4>2. QED
          BY <1>2, <2>2, <3>1, <3>3a, <4>1 DEF AssignAddress
      <3>4. CASE SendMessage(t)
        <4>1. online' \in [Nicks -> Addrs \cup {NoAddr, ZeroAddr}]
          BY <3>1, <3>4, SubscriptType DEF SendMessage
        <4>2. QED
          BY <1>2, <2>2, <3>1, <3>4, <4>1 DEF SendMessage, Labels
      <3>5. CASE ProcessStruct(t)
        BY <1>2, <2>2, <3>1, <3>5 DEF ProcessStruct, Labels
      <3>6. CASE ProcessGame(t)
        BY <1>2, <2>2, <3>1, <3>6 DEF ProcessGame, Labels
      <3>7. CASE FirstGamer(t)
        <4>1. online' \in [Nicks -> Addrs \cup {NoAddr, ZeroAddr}]
          BY <3>7, SubscriptType DEF FirstGamer
        <4>2. first' \in States \cup {NoState} /\ raced' \in BOOLEAN
          BY <3>1, <3>7 DEF FirstGamer, SetFirst
        <4>3. QED
          BY <1>2, <2>2, <3>7, <4>1, <4>2 DEF FirstGamer, Labels
      <3>8. CASE Compare(t)
        BY <1>2, <1>3, <2>2, <3>1, <3>8 DEF Compare, Labels
      <3>9. CASE Tie(t)
        <4>1. CASE first = NoState
          BY <1>3, <3>9, <4>1 DEF Tie
        <4>2. CASE first # NoState
          <5>1. [draw |-> {Mine(t), first}] \in Outcomes
            BY <3>1, <4>2 DEF Outcomes
          <5>2. online' \in [Nicks -> Addrs \cup {NoAddr, ZeroAddr}]
            BY <3>9, <4>2, SubscriptType DEF Tie
          <5>3. QED
            BY <1>2, <2>2, <3>1, <3>9, <4>2, <5>1, <5>2 DEF Tie, Labels
        <4>3. QED
          BY <4>1, <4>2
      <3>10. CASE PickWinner(t)
        <4>1. CASE first = NoState
          BY <1>3, <3>10, <4>1 DEF PickWinner
        <4>2. CASE first # NoState
          <5>1. [winner |-> WinnerOf(first, Mine(t))] \in [winner : States]
            BY <3>1, <4>2, PickOne
          <5>2. QED
            BY <1>2, <2>2, <3>1, <3>10, <4>2, <5>1 DEF PickWinner, Labels, Outcomes
        <4>3. QED
          BY <4>1, <4>2
      <3>11. CASE PickLoser(t)
        <4>1. CASE first = NoState
          BY <1>3, <3>11, <4>1 DEF PickLoser
        <4>2. CASE first # NoState
          <5>1. told[t].winner \in States /\ LoserOf(first, Mine(t)) \in States
            BY <3>1, <3>11, <4>2, PickOne DEF TypeOK, PickLoser, At
          <5>2. [winner |-> told[t].winner, loser |-> LoserOf(first, Mine(t))] \in Outcomes
            BY <5>1 DEF Outcomes
          <5>3. online' \in [Nicks -> Addrs \cup {NoAddr, ZeroAddr}]
            BY <3>11, <4>2, SubscriptType DEF PickLoser
          <5>4. QED
            BY <1>2, <2>2, <3>1, <3>11, <4>2, <5>2, <5>3 DEF PickLoser, Labels
        <4>3. QED
          BY <4>1, <4>2
      <3>12. CASE EndRound(t)
        <4>1. first' \in States \cup {NoState} /\ raced' \in BOOLEAN
          BY <3>1, <3>12 DEF EndRound, SetFirst
        <4>2. QED
          BY <1>2, <2>2, <3>1, <3>12, <4>1 DEF EndRound, Labels
      <3>13. QED
        BY <1>4, <3>2, <3>3, <3>4, <3>5, <3>6, <3>7, <3>8, <3>9, <3>10, <3>11, <3>12,
          <3>3a DEF Handle
    <2>3. QED
      BY <2>1, <2>2
  <1>5. CASE UNCHANGED vars
    BY <1>5 DEF vars, Local, TypeOK
  <1>6. QED
    BY <1>1, <1>4, <1>5 DEF Next

\* Every variable keeps its type, whatever arrives.
THEOREM Typing == Spec => []TypeOK
  BY TypeInit, TypeStep, PTL DEF Spec

-------------------------------------------------------------------------------
(* Whoever is sent a notification has an entry, and an address once line 96   *)
(* has been executed to its end.                                              *)

Known(n) == online[n] # NoAddr

Handling == Labels \ {"idle", "find", "add"}

\* The nicknames that will be notified have an entry: the sender of a datagram from
\* its registration on, the waiting player, and a winner that was picked.
AllKnown ==
  /\ NobodyMadeUp
  /\ \A t \in Threads : pc[t] \in Handling => Known(job[t].sender)
  /\ first # NoState => Known(first.nickname)
  /\ \A t \in Threads : pc[t] = "W2" => Known(told[t].winner.nickname)

AddrInv == TypeOK /\ AllKnown

\* operator[] finds the entries that are there.
LEMMA KnownStays ==
  ASSUME AddrInv, NEW ns, Subscript(ns), \A n \in ns : n \in Nicks => Known(n)
  PROVE  UNCHANGED online
  <1>1. online \in [Nicks -> Addrs \cup {NoAddr, ZeroAddr}]
    BY DEF AddrInv, TypeOK
  <1>2. \A n \in Nicks : online'[n] = online[n]
    BY DEF Subscript, Known
  <1>3. online' = [n \in Nicks |-> online'[n]]
    BY DEF Subscript
  <1>4. QED
    BY <1>1, <1>2, <1>3

\* A step of a handler that keeps every known nickname known.
LEMMA StepKnown ==
  ASSUME AddrInv, TypeOK', NEW t \in Threads, pc[t] # "idle",
         NEW l \in Labels, NEW r, Goto(t, l, r),
         \A n \in Nicks :
           /\ Known(n) => Known(n)'
           /\ online'[n] = ZeroAddr =>
                \/ online[n] = ZeroAddr /\ (pc[t] = "assign" => job[t].sender # n)
                \/ l = "assign" /\ job[t].sender = n,
         l \in Handling => Known(job[t].sender)',
         l = "W2" => Known(r.winner.nickname)',
         first' # NoState /\ first' # first => Known(first.nickname)'
  PROVE  AllKnown'
  <1>1. first' # NoState => Known(first.nickname)'
    <2>1. CASE first' = first /\ first # NoState
      <3>1. first.nickname \in Nicks /\ Known(first.nickname)
        BY <2>1 DEF AddrInv, AllKnown, TypeOK, States
      <3>2. Known(first.nickname)' <=> online'[first.nickname] # NoAddr
        BY <2>1 DEF Known
      <3>3. QED
        BY <3>1, <3>2 DEF Known
    <2>2. QED
      BY <2>1
  <1>2. ASSUME NEW u \in Threads, pc'[u] \in Handling
        PROVE  Known(job[u].sender)'
    <2>1. CASE u = t
      BY <1>2, <2>1 DEF Goto, AddrInv, TypeOK, Handling, Labels, Known
    <2>2. CASE u # t
      <3>1. pc[u] \in Handling /\ job'[u] = job[u]
        BY <1>2, <2>2 DEF Goto, AddrInv, TypeOK
      <3>2. job[u].sender \in Nicks
        BY <3>1, DatagramFields DEF AddrInv, TypeOK, Handling
      <3>3. QED
        BY <3>1, <3>2 DEF AddrInv, AllKnown, Known
    <2>3. QED
      BY <2>1, <2>2
  <1>3. ASSUME NEW u \in Threads, pc'[u] = "W2"
        PROVE  Known(told[u].winner.nickname)'
    <2>1. CASE u = t
      BY <1>3, <2>1 DEF Goto, AddrInv, TypeOK, Known
    <2>2. CASE u # t
      <3>1. pc[u] = "W2" /\ told'[u] = told[u]
        BY <1>3, <2>2 DEF Goto, AddrInv, TypeOK
      <3>2. told[u].winner.nickname \in Nicks
        BY <3>1 DEF AddrInv, TypeOK, States
      <3>3. QED
        BY <3>1, <3>2 DEF AddrInv, AllKnown, Known
    <2>3. QED
      BY <2>1, <2>2
  <1>4. ASSUME NEW n \in Nicks, online'[n] = ZeroAddr
        PROVE  \E u \in Threads : pc'[u] = "assign" /\ job'[u].sender = n
    <2>1. CASE l = "assign" /\ job[t].sender = n
      <3>1. pc'[t] = "assign" /\ job'[t] = job[t]
        BY <2>1 DEF Goto, AddrInv, TypeOK
      <3>2. QED
        BY <2>1, <3>1
    <2>2. CASE online[n] = ZeroAddr /\ (pc[t] = "assign" => job[t].sender # n)
      <3>1. PICK u \in Threads : pc[u] = "assign" /\ job[u].sender = n
        BY <2>2 DEF AddrInv, AllKnown, NobodyMadeUp
      <3>2. u # t
        BY <2>2, <3>1
      <3>3. pc'[u] = pc[u] /\ job'[u] = job[u]
        BY <3>2 DEF Goto, AddrInv, TypeOK
      <3>4. QED
        BY <3>1, <3>3
    <2>3. QED
      BY <1>4, <2>1, <2>2
  <1>5. QED
    BY <1>1, <1>2, <1>3, <1>4 DEF AllKnown, NobodyMadeUp, Known

LEMMA AddrStep == ASSUME AddrInv, [Next]_vars PROVE AddrInv'
  <1>1. TypeOK /\ TypeOK' /\ AllKnown
    BY TypeStep DEF AddrInv
  <1>2. ASSUME UNCHANGED <<online, first, pc, job, told>>
        PROVE  AllKnown'
    BY <1>1, <1>2 DEF AllKnown, NobodyMadeUp, Known
  <1>3. ASSUME NEW t \in Threads, NEW d \in Arrivals, Receive(t, d)
        PROVE  AllKnown'
    <2>1. \A u \in Threads : pc'[u] \in Handling => u # t
      BY <1>1, <1>3 DEF Receive, TypeOK, Handling
    <2>2. \A u \in Threads : u # t => pc'[u] = pc[u] /\ job'[u] = job[u]
      BY <1>1, <1>3 DEF Receive, TypeOK
    <2>3. \A u \in Threads : pc'[u] = "W2" => u # t
      BY <1>1, <1>3 DEF Receive, TypeOK
    <2>4. NobodyMadeUp'
      <3>1. UNCHANGED online /\ pc[t] = "idle"
        BY <1>3 DEF Receive, At
      <3>2. ASSUME NEW n \in Nicks, online'[n] = ZeroAddr
            PROVE  \E u \in Threads : pc'[u] = "assign" /\ job'[u].sender = n
        <4>1. PICK u \in Threads : pc[u] = "assign" /\ job[u].sender = n
          BY <1>1, <3>1, <3>2 DEF AllKnown, NobodyMadeUp
        <4>2. QED
          BY <2>2, <3>1, <4>1
      <3>3. QED
        BY <3>2 DEF NobodyMadeUp
    <2>5. QED
      BY <1>1, <1>3, <2>1, <2>2, <2>3, <2>4 DEF Receive, AllKnown, Known
  <1>4. ASSUME NEW t \in Threads, NEW l \in Labels, NEW r, pc[t] \notin {"idle", "assign"},
               Goto(t, l, r), UNCHANGED online, first' \in {first, NoState},
               l \in Handling => Known(job[t].sender),
               l = "W2" => Known(r.winner.nickname)
        PROVE  AllKnown'
    <2>1. \A n \in Nicks : online'[n] = online[n] /\ (Known(n) => Known(n)')
      BY <1>4 DEF Known
    <2>2. l \in Handling => Known(job[t].sender)'
      BY <1>1, <1>4 DEF Goto, Known, Handling
    <2>3. l = "W2" => Known(r.winner.nickname)'
      BY <1>4 DEF Known
    <2>4. QED
      BY <1>1, <1>4, <2>1, <2>2, <2>3, StepKnown DEF AddrInv
  <1>5. ASSUME NEW t \in Threads, Handle(t)
        PROVE  AllKnown'
    <2>1. CASE pc[t] = "idle"
      BY <1>5, <2>1 DEF Handle, At, FindSender, AddSender, AssignAddress, SendMessage,
        ProcessStruct, ProcessGame, FirstGamer, Compare, Tie, PickWinner, PickLoser, EndRound
    <2>2. CASE pc[t] # "idle"
      <3>1. /\ job[t] \in Datagrams /\ Mine(t) \in States /\ job[t].from \in Addrs
            /\ job[t].sender \in Nicks /\ job[t].to \in Nicks
            /\ job[t].type \in Labels \ {"W2"}
        BY <1>1, <2>2, MineState, DatagramFields DEF TypeOK, Labels
      <3>2. Mine(t).nickname = job[t].sender
        BY DEF Mine
      <3>3. CASE FindSender(t)
        <4>1. online[job[t].sender] # NoAddr => Known(job[t].sender)
          BY DEF Known
        <4>2. QED
          BY <1>4, <2>2, <3>1, <3>3, <4>1 DEF FindSender, At, Labels, Handling
      <3>4. CASE AddSender(t)
        <4>1. online \in [Nicks -> Addrs \cup {NoAddr, ZeroAddr}] /\ pc[t] = "add"
          BY <1>1, <3>4 DEF TypeOK, AddSender, At
        <4>2. \A n \in Nicks :
                /\ Known(n) => Known(n)'
                /\ online'[n] = ZeroAddr => online[n] = ZeroAddr \/ job[t].sender = n
          BY <3>4 DEF AddSender, Subscript, Known
        <4>3. Known(job[t].sender)'
          <5>1. job' = job
            BY <3>4 DEF AddSender, Goto
          <5>2. online'[job[t].sender] # NoAddr
            BY <3>1, <3>4, UdpAssumption DEF AddSender, Subscript
          <5>3. QED
            BY <5>1, <5>2 DEF Known
        <4>4. QED
          BY <1>1, <2>2, <3>4, <4>1, <4>2, <4>3, StepKnown DEF AddrInv, AddSender, Labels
      <3>4a. CASE AssignAddress(t)
        <4>1. pc[t] = "assign" /\ online'[job[t].sender] = job[t].from
          BY <1>1, <3>1, <3>4a DEF TypeOK, AssignAddress, At
        <4>2. \A n \in Nicks : n # job[t].sender => online'[n] = online[n]
          BY <1>1, <3>4a DEF TypeOK, AssignAddress
        <4>3. job[t].from \notin {NoAddr, ZeroAddr}
          BY <3>1, UdpAssumption
        <4>4. \A n \in Nicks :
                /\ Known(n) => Known(n)'
                /\ online'[n] = ZeroAddr => online[n] = ZeroAddr /\ job[t].sender # n
          BY <4>1, <4>2, <4>3 DEF Known
        <4>5. Known(job[t].sender)'
          <5>1. job'[t] = job[t]
            BY <3>1, <3>4a, DatagramFields DEF AssignAddress, Goto
          <5>2. QED
            BY <4>1, <4>3, <5>1 DEF Known
        <4>6. QED
          BY <1>1, <2>2, <3>1, <3>4a, <4>1, <4>4, <4>5, StepKnown DEF AddrInv, AssignAddress
      <3>5. CASE SendMessage(t)
        <4>1. UNCHANGED online
          BY <1>1, <3>1, <3>5, KnownStays DEF SendMessage, AddrInv, Known
        <4>2. QED
          BY <1>4, <2>2, <3>5, <4>1 DEF SendMessage, At, Labels, Handling
      <3>6. CASE ProcessStruct(t)
        BY <1>4, <2>2, <3>6 DEF ProcessStruct, At, Labels, Handling
      <3>7. CASE ProcessGame(t)
        <4>1. Known(job[t].sender)
          BY <1>1, <3>7 DEF ProcessGame, At, AllKnown, Handling, Labels
        <4>2. QED
          BY <1>4, <2>2, <3>7, <4>1 DEF ProcessGame, At, Labels, Handling
      <3>8. CASE FirstGamer(t)
        <4>1. Known(job[t].sender)
          BY <1>1, <3>8 DEF FirstGamer, At, AllKnown, Handling, Labels
        <4>2. UNCHANGED online
          BY <1>1, <3>8, <4>1, KnownStays DEF FirstGamer, AddrInv
        <4>3. first'.nickname = job[t].sender
          BY <3>2, <3>8 DEF FirstGamer, SetFirst
        <4>4. Known(first.nickname)'
          BY <4>1, <4>2, <4>3 DEF Known
        <4>5. pc[t] = "G1" /\ \A n \in Nicks : online'[n] = online[n] /\ (Known(n) => Known(n)')
          BY <3>8, <4>2 DEF FirstGamer, At, Known
        <4>6. "idle" \in Labels /\ "idle" \notin Handling
          BY DEF Labels, Handling
        <4>7. QED
          BY <1>1, <2>2, <3>8, <4>4, <4>5, <4>6, StepKnown DEF AddrInv, FirstGamer
      <3>9. CASE Compare(t)
        <4>1. Known(job[t].sender)
          BY <1>1, <3>9 DEF Compare, At, AllKnown, Handling, Labels
        <4>2. QED
          BY <1>2, <1>4, <2>2, <3>9, <4>1 DEF Compare, At, Crash, Local, Labels
      <3>10. CASE Tie(t)
        <4>1. Known(job[t].sender)
          BY <1>1, <3>10 DEF Tie, At, AllKnown, Handling, Labels
        <4>2. CASE first = NoState
          BY <1>2, <3>10, <4>2 DEF Tie, Crash, Local
        <4>3. CASE first # NoState
          <5>1. UNCHANGED online
            BY <1>1, <3>10, <4>1, <4>3, KnownStays DEF Tie, AddrInv, AllKnown
          <5>2. QED
            BY <1>4, <2>2, <3>10, <4>1, <4>3, <5>1 DEF Tie, At, Labels
        <4>4. QED
          BY <4>2, <4>3
      <3>11. CASE PickWinner(t)
        <4>1. Known(job[t].sender)
          BY <1>1, <3>11 DEF PickWinner, At, AllKnown, Handling, Labels
        <4>2. CASE first = NoState
          BY <1>2, <3>11, <4>2 DEF PickWinner, Crash, Local
        <4>3. CASE first # NoState
          <5>1. WinnerOf(first, Mine(t)) \in {first, Mine(t)}
            BY <1>1, <3>1, <4>3, PickOne DEF TypeOK
          <5>2. Known(WinnerOf(first, Mine(t)).nickname)
            BY <1>1, <3>2, <4>1, <4>3, <5>1 DEF AllKnown
          <5>3. QED
            BY <1>4, <2>2, <3>11, <4>1, <4>3, <5>2 DEF PickWinner, At, Labels
        <4>4. QED
          BY <4>2, <4>3
      <3>12. CASE PickLoser(t)
        <4>1. Known(job[t].sender) /\ Known(told[t].winner.nickname)
          BY <1>1, <3>12 DEF PickLoser, At, AllKnown, Handling, Labels
        <4>2. CASE first = NoState
          BY <1>2, <3>12, <4>2 DEF PickLoser, Crash, Local
        <4>3. CASE first # NoState
          <5>1. LoserOf(first, Mine(t)) \in {first, Mine(t)}
            BY <1>1, <3>1, <4>3, PickOne DEF TypeOK
          <5>2. Known(LoserOf(first, Mine(t)).nickname)
            BY <1>1, <3>2, <4>1, <4>3, <5>1 DEF AllKnown
          <5>3. UNCHANGED online
            BY <1>1, <3>12, <4>1, <4>3, <5>2, KnownStays DEF PickLoser, AddrInv
          <5>4. QED
            BY <1>4, <2>2, <3>12, <4>1, <4>3, <5>3 DEF PickLoser, At, Labels
        <4>4. QED
          BY <4>2, <4>3
      <3>13. CASE EndRound(t)
        BY <1>4, <2>2, <3>13 DEF EndRound, At, SetFirst, Labels, Handling
      <3>14. QED
        BY <1>5, <3>3, <3>4, <3>5, <3>6, <3>7, <3>8, <3>9, <3>10, <3>11, <3>12, <3>13,
          <3>4a DEF Handle
    <2>3. QED
      BY <2>1, <2>2
  <1>6. ASSUME UNCHANGED vars
        PROVE  AllKnown'
    BY <1>2, <1>6 DEF vars, Local
  <1>7. AllKnown'
    BY <1>3, <1>5, <1>6 DEF Next
  <1>8. QED
    BY <1>1, <1>7 DEF AddrInv

\* Nobody is entered without an address, but for the moment in which line 96 makes
\* the entry and fills it: whoever is notified has an entry then.
THEOREM Addressed == Spec => []NobodyMadeUp
  <1>1. Init => AddrInv
    BY TypeInit, UdpAssumption
      DEF Init, AddrInv, AllKnown, NobodyMadeUp, Handling, Labels
  <1>2. AddrInv => NobodyMadeUp
    BY DEF AddrInv, AllKnown
  <1>3. QED
    BY <1>1, <1>2, AddrStep, PTL DEF Spec

-------------------------------------------------------------------------------
(* Without a race the rounds are those of the abstract server.                *)

Reading == {"G2", "D", "W1", "W2", "Z"}

\* What thread t may rely on between its test of first_gamer and its write.
Relies(t) ==
  /\ pc[t] = "G1" => first = NoState
  /\ pc[t] \in Reading => first # NoState
  /\ pc[t] = "D" => Mine(t).state = first.state
  /\ pc[t] \in {"W1", "W2"} => Mine(t).state # first.state
  /\ pc[t] = "W2" => told[t].winner = WinnerOf(first, Mine(t))
  /\ pc[t] = "Z" =>
       \/ Mine(t).state = first.state /\ told[t] = [draw |-> {Mine(t), first}]
       \/ /\ Mine(t).state # first.state
          /\ told[t] = [winner |-> WinnerOf(first, Mine(t)),
                        loser |-> LoserOf(first, Mine(t))]

Unraced == up /\ \A t \in Threads : Relies(t)
RaceInv == TypeOK /\ (~raced => Unraced)

LEMMA ReliesSame ==
  ASSUME NEW t \in Threads, Relies(t), pc'[t] = pc[t], job'[t] = job[t],
         told'[t] = told[t], UNCHANGED first
  PROVE  Relies(t)'
  <1>1. Mine(t)' = Mine(t)
    BY DEF Mine
  <1>2. QED
    BY <1>1 DEF Relies

\* A thread that does not stand between its test and its write relies on nothing.
LEMMA ReliesNot ==
  ASSUME NEW t \in Threads, pc'[t] \notin Reading \cup {"G1"}
  PROVE  Relies(t)'
  BY DEF Relies, Reading

LEMMA GotoFields ==
  ASSUME TypeOK, NEW t \in Threads, NEW l, NEW r, Goto(t, l, r)
  PROVE  /\ up' = up /\ pc'[t] = l /\ told'[t] = r
         /\ l # "idle" => Mine(t)' = Mine(t)
         /\ \A u \in Threads : u # t => /\ pc'[u] = pc[u] /\ job'[u] = job[u]
                                        /\ told'[u] = told[u]
  <1>1. /\ up' = up /\ pc'[t] = l /\ told'[t] = r
        /\ \A u \in Threads : u # t => pc'[u] = pc[u] /\ told'[u] = told[u]
    BY DEF Goto, TypeOK
  <1>2. \A u \in Threads : u # t => job'[u] = job[u]
    BY DEF Goto, TypeOK
  <1>3. l # "idle" => job' = job
    BY DEF Goto
  <1>4. l # "idle" => Mine(t)' = Mine(t)
    BY <1>3 DEF Mine
  <1>5. QED
    BY <1>1, <1>2, <1>4

\* A step that leaves first_gamer alone.
LEMMA Undisturbed ==
  ASSUME TypeOK, Unraced, NEW t \in Threads, NEW l, NEW r, Goto(t, l, r),
         UNCHANGED first, Relies(t)'
  PROVE  Unraced'
  <1>1. ASSUME NEW u \in Threads, u # t
        PROVE  Relies(u)'
    BY <1>1, GotoFields, ReliesSame DEF Unraced
  <1>2. QED
    BY <1>1, GotoFields DEF Unraced

\* A write that raced with nobody.
LEMMA LonelyWrite ==
  ASSUME TypeOK, Unraced, NEW t \in Threads, NEW r, Goto(t, "idle", r),
         Relying = {t}
  PROVE  Unraced'
  <1>1. ASSUME NEW u \in Threads
        PROVE  Relies(u)'
    <2>1. pc'[u] \notin Reading \cup {"G1"}
      BY <1>1, GotoFields DEF Relying, Reading
    <2>2. QED
      BY <1>1, <2>1, ReliesNot
  <1>2. QED
    BY <1>1, GotoFields DEF Unraced

LEMMA RaceStep == ASSUME RaceInv, [Next]_vars PROVE RaceInv'
  <1> SUFFICES ASSUME ~raced'
               PROVE  Unraced'
    BY TypeStep DEF RaceInv
  <1>1. TypeOK
    BY DEF RaceInv
  <1>2. ASSUME NEW t \in Threads, NEW d \in Arrivals, Receive(t, d)
        PROVE  Unraced'
    <2>1. Unraced
      BY <1>2 DEF RaceInv, Receive
    <2>2. ASSUME NEW u \in Threads, u # t
          PROVE  Relies(u)'
      BY <1>1, <1>2, <2>1, <2>2, ReliesSame DEF Receive, TypeOK, Unraced
    <2>3. Relies(t)'
      <3>1. pc'[t] = "find"
        BY <1>1, <1>2 DEF Receive, TypeOK
      <3>2. QED
        BY <3>1, ReliesNot DEF Reading
    <2>4. QED
      BY <1>2, <2>1, <2>2, <2>3 DEF Receive, Unraced
  <1>3. ASSUME NEW t \in Threads, NEW l, NEW r, Goto(t, l, r), UNCHANGED <<first, raced>>,
               l \notin Reading \cup {"G1"}
        PROVE  Unraced'
    <2>1. Relies(t)'
      BY <1>1, <1>3, GotoFields, ReliesNot
    <2>2. QED
      BY <1>1, <1>3, <2>1, Undisturbed DEF RaceInv
  <1>4. ASSUME NEW t \in Threads, Handle(t)
        PROVE  Unraced'
    <2>1. CASE FindSender(t)
      <3>1. At(t, "find")
        BY <2>1 DEF FindSender
      <3>2. job[t].type \notin Reading \cup {"G1"}
        BY <1>1, <3>1, DatagramFields DEF At, TypeOK, Reading
      <3>3. QED
        BY <1>3, <2>1, <3>2 DEF FindSender, Reading
    <2>2. CASE AddSender(t)
      BY <1>3, <2>2 DEF AddSender, Reading
    <2>2a. CASE AssignAddress(t)
      <3>1. At(t, "assign")
        BY <2>2a DEF AssignAddress
      <3>2. job[t].type \notin Reading \cup {"G1"}
        BY <1>1, <3>1, DatagramFields DEF At, TypeOK, Reading
      <3>3. QED
        BY <1>3, <2>2a, <3>2 DEF AssignAddress
    <2>3. CASE SendMessage(t)
      BY <1>3, <2>3 DEF SendMessage, Reading
    <2>4. CASE ProcessStruct(t)
      BY <1>3, <2>4 DEF ProcessStruct, Reading
    <2>5. CASE ProcessGame(t)
      <3>1. Relies(t)'
        BY <1>1, <2>5, GotoFields DEF ProcessGame, Relies, Reading
      <3>2. QED
        BY <1>1, <2>5, <3>1, Undisturbed DEF ProcessGame, RaceInv
    <2>6. CASE FirstGamer(t)
      BY <1>1, <2>6, LonelyWrite DEF FirstGamer, SetFirst, RaceInv
    <2>7. CASE Compare(t)
      <3>1. Unraced /\ first # NoState
        BY <2>7 DEF Compare, At, RaceInv, Unraced, Relies, Reading
      <3>2. Goto(t, IF Mine(t).state = first.state THEN "D" ELSE "W1", NoState)
        BY <2>7, <3>1 DEF Compare
      <3>3. Relies(t)'
        BY <1>1, <2>7, <3>1, <3>2, GotoFields DEF Compare, Relies, Reading
      <3>4. QED
        BY <1>1, <2>7, <3>1, <3>2, <3>3, Undisturbed DEF Compare
    <2>8. CASE Tie(t)
      <3>1. Unraced /\ first # NoState /\ Mine(t).state = first.state
        BY <2>8 DEF Tie, At, RaceInv, Unraced, Relies, Reading
      <3>2. Goto(t, "Z", [draw |-> {Mine(t), first}])
        BY <2>8, <3>1 DEF Tie
      <3>3. Relies(t)'
        <4>1. /\ pc'[t] = "Z" /\ told'[t] = [draw |-> {Mine(t), first}]
              /\ Mine(t)' = Mine(t) /\ first' = first
          BY <1>1, <2>8, <3>2, GotoFields DEF Tie
        <4>2. /\ Mine(t)'.state = first'.state
              /\ told'[t] = [draw |-> {Mine(t)', first'}]
          BY <3>1, <4>1
        <4>3. QED
          BY <3>1, <4>1, <4>2 DEF Relies, Reading
      <3>4. QED
        BY <1>1, <2>8, <3>1, <3>2, <3>3, Undisturbed DEF Tie
    <2>9. CASE PickWinner(t)
      <3>1. Unraced /\ first # NoState /\ Mine(t).state # first.state
        BY <2>9 DEF PickWinner, At, RaceInv, Unraced, Relies, Reading
      <3>2. Goto(t, "W2", [winner |-> WinnerOf(first, Mine(t))])
        BY <2>9, <3>1 DEF PickWinner
      <3>3. WinnerOf(first, Mine(t))' = WinnerOf(first, Mine(t))
        BY <1>1, <2>9, <3>2, GotoFields DEF PickWinner, WinnerOf
      <3>4. Relies(t)'
        <4>1. /\ pc'[t] = "W2" /\ told'[t].winner = WinnerOf(first, Mine(t))
              /\ Mine(t)' = Mine(t) /\ first' = first
          BY <1>1, <2>9, <3>2, GotoFields DEF PickWinner
        <4>2. Mine(t)'.state # first'.state
          BY <3>1, <4>1
        <4>3. QED
          BY <3>1, <3>3, <4>1, <4>2 DEF Relies, Reading
      <3>5. QED
        BY <1>1, <2>9, <3>1, <3>2, <3>4, Undisturbed DEF PickWinner
    <2>10. CASE PickLoser(t)
      <3>1. /\ Unraced /\ first # NoState /\ Mine(t).state # first.state
            /\ told[t].winner = WinnerOf(first, Mine(t))
        BY <2>10 DEF PickLoser, At, RaceInv, Unraced, Relies, Reading
      <3>2. Goto(t, "Z", [winner |-> WinnerOf(first, Mine(t)),
                          loser |-> LoserOf(first, Mine(t))])
        BY <2>10, <3>1 DEF PickLoser
      <3>3. /\ WinnerOf(first, Mine(t))' = WinnerOf(first, Mine(t))
            /\ LoserOf(first, Mine(t))' = LoserOf(first, Mine(t))
        BY <1>1, <2>10, <3>2, GotoFields DEF PickLoser, WinnerOf, LoserOf
      <3>4. Relies(t)'
        BY <1>1, <2>10, <3>1, <3>2, <3>3, GotoFields DEF PickLoser, Relies, Reading
      <3>5. QED
        BY <1>1, <2>10, <3>1, <3>2, <3>4, Undisturbed DEF PickLoser
    <2>11. CASE EndRound(t)
      BY <1>1, <2>11, LonelyWrite DEF EndRound, SetFirst, RaceInv
    <2>12. QED
      BY <1>4, <2>1, <2>2, <2>3, <2>4, <2>5, <2>6, <2>7, <2>8, <2>9, <2>10, <2>11, <2>2a
        DEF Handle
  <1>5. ASSUME UNCHANGED vars
        PROVE  Unraced'
    <2>1. Unraced
      BY <1>5 DEF vars, RaceInv
    <2>2. QED
      BY <1>5, <2>1, ReliesSame DEF vars, Local, Unraced
  <1>6. QED
    BY <1>2, <1>4, <1>5 DEF Next

LEMMA RaceInit == Init => RaceInv
  BY TypeInit DEF Init, RaceInv, Unraced, Relies, Reading

\* The null pointer is dereferenced after a race only.
THEOREM Survives == Spec => []UpUnlessRaced
  <1>1. RaceInv => UpUnlessRaced
    BY DEF RaceInv, Unraced, UpUnlessRaced
  <1>2. QED
    BY <1>1, RaceInit, RaceStep, PTL DEF Spec

-------------------------------------------------------------------------------
LEMMA RoundStep ==
  ASSUME RaceInv, [Next]_vars
  PROVE  [raced' \/ R!RoundsNext]_<<first, result>>
  <1> SUFFICES ASSUME ~raced'
               PROVE  [R!RoundsNext]_<<first, result>>
    OBVIOUS
  <1>1. TypeOK /\ R!States = States
    BY DEF RaceInv, R!States, States, R!Shapes, Shapes
  <1>2. ASSUME NEW t \in Threads, FirstGamer(t)
        PROVE  R!RoundsNext
    <2>1. Mine(t) \in States
      BY <1>1, <1>2, MineState DEF FirstGamer, At, TypeOK
    <2>2. first = NoState
      BY <1>2 DEF FirstGamer, SetFirst, At, RaceInv, Unraced, Relies
    <2>3. R!Wait(Mine(t))
      BY <1>2, <2>2 DEF FirstGamer, SetFirst, R!Wait
    <2>4. QED
      BY <1>1, <2>1, <2>3 DEF R!RoundsNext
  <1>3. ASSUME NEW t \in Threads, EndRound(t)
        PROVE  R!RoundsNext
    <2>1. Mine(t) \in States
      BY <1>1, <1>3, MineState DEF EndRound, At, TypeOK
    <2>2. pc[t] = "Z" /\ Relies(t)
      BY <1>3 DEF EndRound, SetFirst, At, RaceInv, Unraced
    <2>3. first \in States
      BY <1>1, <2>2 DEF TypeOK, Relies, Reading
    <2>4. first # NoState
      BY <2>2 DEF Relies, Reading
    <2>5. first' = NoState /\ result' = told[t]
      BY <1>3 DEF EndRound, SetFirst
    <2>6. \/ R!Draw(Mine(t), first) /\ result' = [draw |-> {Mine(t), first}]
          \/ result' \in R!Results(Mine(t), first)
      <3>1. CASE Mine(t).state = first.state
        BY <2>2, <2>5, <3>1 DEF Relies, R!Draw
      <3>2. CASE Mine(t).state # first.state
        BY <2>1, <2>2, <2>3, <2>5, <3>2, Rules DEF Relies
      <3>3. QED
        BY <3>1, <3>2
    <2>7. R!Settle(Mine(t))
      BY <2>4, <2>5, <2>6 DEF R!Settle
    <2>8. QED
      BY <1>1, <2>1, <2>7 DEF R!RoundsNext
  <1>4. ASSUME NEW t \in Threads, Handle(t), ~FirstGamer(t), ~EndRound(t)
        PROVE  UNCHANGED <<first, result>>
    BY <1>4 DEF Handle, FindSender, AddSender, AssignAddress, SendMessage, ProcessStruct,
      ProcessGame, Compare, Tie, PickWinner, PickLoser
  <1>5. ASSUME NEW t \in Threads, NEW d \in Arrivals, Receive(t, d)
        PROVE  UNCHANGED <<first, result>>
    BY <1>5 DEF Receive
  <1>6. ASSUME UNCHANGED vars
        PROVE  UNCHANGED <<first, result>>
    BY <1>6 DEF vars
  <1>7. QED
    BY <1>2, <1>3, <1>4, <1>5, <1>6 DEF Next

\* Without a race every step plays, or leaves alone, the rounds of Rounds.
THEOREM PlaysRounds == Spec => ImplementsRounds
  <1>1. Init => R!RoundsInit
    BY DEF Init, R!RoundsInit
  <1>2. QED
    BY <1>1, RaceInit, RaceStep, RoundStep, PTL DEF Spec, ImplementsRounds
===============================================================================
