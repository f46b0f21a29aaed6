----------------------------- MODULE PoliteProofs -----------------------------
(* Proofs about GameServer when its clients behave: they stay, keep their      *)
(* nicknames, do not ask to view a board, and at most two of them play, each    *)
(* only when it may.  Then, for any number of clients that chat meanwhile, the   *)
(* process stays up, every move lands in the game it was checked for, only a    *)
(* game that is over is dropped, and the winner is the player who moved last.   *)
EXTENDS GameServerProofs

\* The handlers these clients ask for.  N and Q take an entry of the registry away
\* that M, W or the game is about to use, R does not test for it, and V uses the
\* game after another thread may have dropped it.
TameKinds == {"B", "P", "M", "F", "W", "L", "C"}

Tame ==
  /\ Polite /\ Steady
  /\ \A a, b, c \in Gamers : a = b \/ b = c \/ a = c
  /\ \A r \in Requests : r.kind \in TameKinds

-------------------------------------------------------------------------------
(* The chat half is calm: nobody leaves, nothing is erased, and a receiver that *)
(* was found stays.                                                            *)

CalmLabels ==
  {"none", "new", "Recv", "Dispatch", "M", "M2", "F", "W", "W2", "L", "C"} \cup GameLabels

Quiet(c) ==
  /\ sock[c] \in {"none", "open"} /\ ~disc[c]
  /\ pc[c] \in CalmLabels
  /\ stream[c].kind # "dead"
  /\ pc[c] = "Dispatch" => stream[c].kind \in TameKinds
  /\ pc[c] = "M2" => frame[c].name \in Registered
  /\ pc[c] = "W2" => frame[c].at \in Registered

Calm ==
  /\ ~meddled
  /\ greeting # NoConn /\ pc[greeting] = "none" => Registered \subseteq seen
  /\ \A c \in Conns : Quiet(c)

\* A thread finds its own client, and whoever is registered can be sent to.
LEMMA CalmRegistry ==
  ASSUME TypeOK, RegInv, Calm
  PROVE  /\ \A c \in Conns : pc[c] \notin {"none", "new"} => Me(c) = c
         /\ \A c \in Conns : pc[c] # "none" => sock[c] = "open"
         /\ \A n \in Names : online[n] # NoConn =>
              /\ online[n] \in Conns /\ sock[online[n]] = "open" /\ nick[online[n]] = n
         /\ \A c \in Conns : Loop(c) = "Recv"
  <1>1. ASSUME NEW c \in Conns
        PROVE  /\ pc[c] \notin {"none", "new"} => Me(c) = c
               /\ pc[c] # "none" => sock[c] = "open"
    BY DEF Calm, Quiet, CalmLabels, GameLabels, RegInv, Aligned, Me,
           Listed, InRegistry, Waiting
  <1>2. ASSUME NEW n \in Names, online[n] # NoConn
        PROVE  online[n] \in Conns /\ sock[online[n]] = "open" /\ nick[online[n]] = n
    <2>1. online[n] \in Conns
      BY <1>2 DEF TypeOK
    <2>2. pc[online[n]] \notin {"none", "new", "N4"}
      BY <1>2, <2>1 DEF Calm, Quiet, CalmLabels, GameLabels, RegInv, Aligned,
             Filed, Served
    <2>3. QED
      BY <1>1, <1>2, <2>1, <2>2 DEF Calm, RegInv, Aligned, Filed, NameOf
  <1>3. QED
    BY <1>1, <1>2 DEF Calm, Quiet, Loop

\* What is sent to clients that are connected returns.
LEMMA LiveSend ==
  ASSUME NEW c, NEW ds, NEW l, Send(c, ds, l),
         \A d \in ds : d # NoConn /\ sock[d] = "open"
  PROVE  Goto(c, l)
  BY DEF Send

\* Where a thread is, as far as the game goes: a request to play that has not been
\* dispatched yet is on its way to the handler.
Asks(c, k) == pc[c] = "Dispatch" /\ stream[c].kind = k

place == [c \in Conns |-> IF Asks(c, "B") THEN "B"
                          ELSE IF Asks(c, "P") THEN "P"
                          ELSE IF pc[c] \in GameLabels THEN pc[c] ELSE "away"]

\* A step of one thread that leaves the registry and the sockets alone.
LEMMA QuietStep ==
  ASSUME TypeOK, Calm, NEW c \in Conns, Quiet(c)', {pc[c], pc'[c]} \cap {"none", "new"} = {},
         UNCHANGED <<greeting, seen, online, nick, meddled, sock, disc>>,
         \A d \in Conns \ {c} :
           pc'[d] = pc[d] /\ stream'[d] = stream[d] /\ frame'[d] = frame[d]
  PROVE  Calm'
  <1>1. Registered' = Registered
    <2>1. \A d \in Conns : pc[d] # "N3a" /\ pc'[d] # "N3a"
      BY DEF Calm, Quiet, CalmLabels, GameLabels
    <2>2. \A d \in Conns : pc'[d] = "new" <=> pc[d] = "new"
      OBVIOUS
    <2>3. Made' = Made
      BY <2>1, <2>2 DEF Made
    <2>4. QED
      BY <2>3 DEF Registered
  <1>2. ASSUME NEW d \in Conns \ {c} PROVE Quiet(d)'
    BY <1>1 DEF Calm, Quiet
  <1>3. greeting # NoConn => (pc'[greeting] = "none" <=> pc[greeting] = "none")
    BY DEF TypeOK
  <1>4. QED
    BY <1>1, <1>2, <1>3 DEF Calm

LEMMA PlaceStep ==
  ASSUME TypeOK, NEW c \in Conns, NEW p, place'[c] = p,
         \A d \in Conns \ {c} : pc'[d] = pc[d] /\ stream'[d] = stream[d]
  PROVE  place' = [place EXCEPT ![c] = p]
  <1>1. \A d \in Conns \ {c} : place'[d] = place[d]
    BY DEF place, Asks
  <1>2. place' = [d \in Conns |-> place'[d]] /\ place = [d \in Conns |-> place[d]]
    BY DEF place
  <1>3. QED
    BY <1>1, <1>2

\* A thread that goes on at l, away from Dispatch, with the stream it has.
LEMMA GoesTo ==
  ASSUME TypeOK, Calm, NEW c \in Conns, NEW l \in CalmLabels \ {"none", "new", "Dispatch"},
         NEW f, Enter(c, l, f), pc[c] \notin {"none", "new"},
         l = "M2" => f.name \in Registered, l = "W2" => f.at \in Registered,
         UNCHANGED <<accepting, registry, io>>
  PROVE  /\ Calm'
         /\ place' = [place EXCEPT ![c] = IF l \in GameLabels THEN l ELSE "away"]
  <1> USE DEF accepting, registry, io
  <1>1. /\ pc'[c] = l /\ frame'[c] = f
        /\ \A d \in Conns \ {c} : pc'[d] = pc[d] /\ frame'[d] = frame[d]
    BY DEF Enter, TypeOK
  <1>2. Quiet(c)'
    <2>1. Registered \subseteq Registered'
      <3>1. \A d \in Conns : pc[d] # "N3a" /\ (pc[d] = "new" => pc'[d] = "new")
        BY <1>1 DEF Calm, Quiet, CalmLabels, GameLabels
      <3>2. QED
        BY <3>1 DEF Registered, Made
    <2>2. QED
      BY <1>1, <2>1 DEF Calm, Quiet, TypeOK
  <1>3. place'[c] = IF l \in GameLabels THEN l ELSE "away"
    BY <1>1 DEF place, Asks
  <1>4. QED
    BY <1>1, <1>2, <1>3, QuietStep, PlaceStep

\* A connection that arrives.
LEMMA CalmArrival ==
  ASSUME TypeOK, RegInv, Calm, NEW c \in Conns, Arrive(c)
  PROVE  /\ Calm' /\ place' = place /\ up /\ up'
         /\ \A n \in Names : online[n] # NoConn => online'[n] = online[n]
  <1> USE DEF accepting, registry, io, thread
  <1>1. ~RegisterEmpty(c) /\ ~RecvEnd(c)
    BY DEF RegisterEmpty, RecvEnd, Calm, Quiet
  <1>m. \A d \in Conns : pc[d] # "N3a"
    BY DEF Calm, Quiet, CalmLabels, GameLabels
  <1>2. CASE Accept(c)
    <2>1. UNCHANGED <<online, nick, pc, frame, stream, up, meddled>> /\ up
      BY <1>2 DEF Accept
    <2>2. place' = place
      BY <2>1 DEF place, Asks
    <2>3. Registered' = Registered /\ seen' = Registered
      BY <1>2, <2>1 DEF Accept, Registered, Made
    <2>4. ASSUME NEW d \in Conns PROVE Quiet(d)'
      BY <1>2, <2>3 DEF Accept, Calm, Quiet, TypeOK
    <2>5. QED
      BY <2>1, <2>2, <2>3, <2>4 DEF Calm
  <1>3. ASSUME NEW l \in {"new", "Recv"}, pc[c] \in {"none", "new"}, c # NoConn,
               Goto(c, l), UNCHANGED io, Registered \subseteq Registered', ~meddled',
               greeting' \in {c, NoConn},
               \A n \in Names : online[n] # NoConn => online'[n] = online[n]
        PROVE  Calm' /\ place' = place
    <2>1. /\ pc'[c] = l
          /\ \A d \in Conns \ {c} : pc'[d] = pc[d] /\ frame'[d] = frame[d]
          /\ UNCHANGED <<sock, disc, stream>>
      BY <1>3 DEF Goto, Enter, TypeOK
    <2>2. place' = place
      <3>1. place'[c] = "away" /\ place[c] = "away"
        BY <1>3, <2>1 DEF place, Asks, GameLabels
      <3>2. place' = [place EXCEPT ![c] = "away"]
        BY <2>1, <3>1, PlaceStep
      <3>3. QED
        BY <3>1, <3>2 DEF place
    <2>3. ASSUME NEW d \in Conns PROVE Quiet(d)'
      BY <1>3, <2>1 DEF Calm, Quiet, CalmLabels
    <2>4. QED
      BY <1>3, <2>1, <2>2, <2>3 DEF Calm
  <1>4. ASSUME NEW n \in Names, Register(c, n)
        PROVE  /\ Calm' /\ place' = place /\ up /\ up'
               /\ \A m \in Names : online[m] # NoConn => online'[m] = online[m]
    <2>1. pc[c] = "none" /\ greeting = c /\ c # NoConn /\ up /\ up' = up
      BY <1>4, ChatAssumption DEF Register, At, Goto, Enter
    <2>2. n \notin Registered
      BY <1>4, <2>1 DEF Register, Calm
    <2>3. /\ Goto(c, "new") /\ UNCHANGED <<greeting, online, sock, disc, stream>>
          /\ nick' = [nick EXCEPT ![c] = n]
      BY <1>4 DEF Register
    <2>4. ~meddled'
      BY <1>4, <2>2, Zenon DEF Register, Insert, Calm
    <2>5. Registered \subseteq Registered'
      <3>1. \A d \in Conns : pc[d] = "new" => pc'[d] = "new" /\ nick'[d] = nick[d]
        BY <2>1, <2>3 DEF Goto, Enter, TypeOK
      <3>2. QED
        BY <1>m, <2>3, <3>1 DEF Registered, Made
    <2>6. QED
      BY <1>3, <2>1, <2>3, <2>4, <2>5
  <1>5. CASE StartThread(c)
    <2>1. pc[c] = "new" /\ c # NoConn /\ up /\ up' = up
      BY <1>5, ChatAssumption DEF StartThread, At, Goto, Enter
    <2>2. /\ Goto(c, "Recv") /\ UNCHANGED <<nick, meddled, sock, disc, stream>>
          /\ greeting' = NoConn /\ online' = [online EXCEPT ![nick[c]] = c]
      BY <1>5 DEF StartThread
    <2>3. nick[c] \in Names /\ online[nick[c]] = NoConn
      BY <2>1 DEF Calm, RegInv, Aligned, Claiming, Claims, Claim, TypeOK
    <2>4. \A m \in Names : online[m] # NoConn => online'[m] = online[m]
      BY <2>2, <2>3 DEF TypeOK
    <2>5. Registered \subseteq Registered'
      <3>1. \A d \in Conns \ {c} : pc'[d] = pc[d]
        BY <2>2 DEF Goto, Enter, TypeOK
      <3>2. online'[nick[c]] # NoConn
        BY <2>1, <2>2, <2>3 DEF TypeOK
      <3>3. \A m \in Names : online[m] # NoConn => online'[m] # NoConn
        BY <2>4
      <3>4. QED
        BY <1>m, <2>2, <2>3, <3>1, <3>2, <3>3 DEF Registered, Made
    <2>6. ~meddled'
      BY <2>2 DEF Calm
    <2>7. QED
      BY <1>3, <2>1, <2>2, <2>4, <2>5, <2>6
  <1>6. QED
    BY <1>1, <1>2, <1>4, <1>5 DEF Arrive

\* A request: the thread of a client that asks to play or to join is on its way.
LEMMA CalmRecv ==
  ASSUME TypeOK, Calm, NEW c \in Conns, NEW r \in Requests, r.kind \in TameKinds, Recv(c, r)
  PROVE  /\ Calm' /\ up /\ up' /\ online' = online /\ place[c] = "away"
         /\ place' = [place EXCEPT ![c] = IF r.kind \in {"B", "P"} THEN r.kind ELSE "away"]
  <1> USE DEF accepting, registry, io, thread
  <1>1. /\ pc[c] = "Recv" /\ pc' = [pc EXCEPT ![c] = "Dispatch"] /\ up /\ up'
        /\ frame' = [frame EXCEPT ![c] = frame[c]]
        /\ stream' = [stream EXCEPT ![c] = r]
    BY DEF Recv, At, Goto, Enter, Calm, Quiet
  <1>2. r.kind # "dead"
    BY DEF TameKinds
  <1>3. Quiet(c)'
    BY <1>1, <1>2 DEF Recv, Calm, Quiet, CalmLabels, TypeOK
  <1>4. place'[c] = IF r.kind \in {"B", "P"} THEN r.kind ELSE "away"
    BY <1>1 DEF place, Asks, TypeOK, GameLabels
  <1>5. place[c] = "away"
    BY <1>1 DEF place, Asks, GameLabels
  <1>6. Calm'
    BY <1>1, <1>3, QuietStep DEF Recv, TypeOK
  <1>7. place' = [place EXCEPT ![c] = IF r.kind \in {"B", "P"} THEN r.kind ELSE "away"]
    BY <1>1, <1>4, PlaceStep DEF TypeOK
  <1>8. QED
    BY <1>1, <1>5, <1>6, <1>7 DEF Recv

\* processing: the thread finds its own stream, with a request that is in it.
LEMMA CalmDispatch ==
  ASSUME TypeOK, RegInv, Calm, NEW c \in Conns, Dispatch(c)
  PROVE  Calm' /\ place' = place /\ up /\ up' /\ online' = online
  <1> USE DEF accepting, registry, io, thread
  <1> DEFINE s == stream[c]
  <1>1. pc[c] = "Dispatch" /\ Me(c) = c /\ Me(c) # NoConn /\ s.kind \in TameKinds
    <2>1. pc[c] = "Dispatch" /\ s.kind \in TameKinds
      BY DEF Dispatch, At, Calm, Quiet
    <2>2. Me(c) = c
      BY <2>1, CalmRegistry
    <2>3. QED
      BY <2>1, <2>2, ChatAssumption
  <1>2. PICK k \in Residue(s.kind) : stream' = [stream EXCEPT ![c] = Rest(k)]
    BY <1>1 DEF Dispatch
  <1>3. Enter(c, s.kind, [NoFrame EXCEPT !.name = s.name, !.pos = s.pos])
    <2>1. s.kind \notin {"left", "spent", "dead", "none"}
      BY <1>1 DEF TameKinds
    <2>2. Picked(s) = {s} /\ s.kind # "left"
      BY <2>1 DEF Picked, Residues
    <2>3. QED
      BY <1>1, <2>1, <2>2 DEF Dispatch
  <1>4. k # "dead"
    BY <1>1, <1>2 DEF Residue, TameKinds
  <1>5. /\ pc'[c] = s.kind /\ stream'[c] = Rest(k) /\ up /\ up'
        /\ \A d \in Conns \ {c} :
             pc'[d] = pc[d] /\ stream'[d] = stream[d] /\ frame'[d] = frame[d]
    BY <1>2, <1>3 DEF Enter, TypeOK, Dispatch, At
  <1>6. Quiet(c)'
    <2>1. s.kind \in CalmLabels \ {"none", "new"} /\ s.kind \notin {"M2", "W2", "Dispatch"}
      BY <1>1 DEF TameKinds, CalmLabels, GameLabels
    <2>2. Rest(k).kind # "dead"
      BY <1>4 DEF Rest
    <2>3. sock'[c] = sock[c] /\ disc'[c] = disc[c]
      BY DEF Dispatch
    <2>4. QED
      BY <1>5, <2>1, <2>2, <2>3 DEF Calm, Quiet
  <1>7. place'[c] = place[c]
    <2>1. place'[c] = IF s.kind \in GameLabels THEN s.kind ELSE "away"
      BY <1>1, <1>5 DEF place, Asks, TameKinds
    <2>2. place[c] = IF s.kind \in {"B", "P"} THEN s.kind ELSE "away"
      BY <1>1 DEF place, Asks, GameLabels
    <2>3. QED
      BY <1>1, <2>1, <2>2 DEF TameKinds, GameLabels
  <1>8. place' = place
    <2>1. place' = [place EXCEPT ![c] = place[c]]
      BY <1>5, <1>7, PlaceStep
    <2>2. QED
      BY <2>1 DEF place
  <1>9. Calm'
    BY <1>1, <1>5, <1>6, QuietStep DEF Dispatch, TameKinds
  <1>10. QED
    BY <1>5, <1>8, <1>9 DEF Dispatch

\* The handlers of the chat that these clients ask for, and no other, run to their
\* end: the receiver they found is still there, and if its entry is filled it is sent to.
LEMMA CalmHandlers ==
  ASSUME TypeOK, RegInv, Calm, NEW c \in Conns, ChatHandle(c), ~Dispatch(c)
  PROVE  Calm' /\ place' = place /\ online' = online /\ up /\ (up' \/ MeetsUnfilled')
  <1> DEFINE Ends == \E l \in {"Recv", "M2", "W2"} : \E f :
                       /\ Enter(c, l, f)
                       /\ l = "M2" => f.name \in Registered
                       /\ l = "W2" => f.at \in Registered
             Dies == Crash /\ MeetsUnfilled
  <1>r. /\ pc[c] \notin {"none", "new"} => Me(c) = c /\ sock[c] = "open"
        /\ \A n \in Names : online[n] # NoConn => sock[online[n]] = "open"
        /\ Loop(c) = "Recv" /\ c # NoConn
        /\ pc[c] \in CalmLabels
        /\ frame[c].name \in Names /\ frame[c].at \in Names
    BY CalmRegistry, ChatAssumption DEF Calm, Quiet, TypeOK, Frames
  <1>g. Goto(c, "Recv") => Ends
    BY DEF Goto
  <1>s. \A ds : (\A d \in ds : d # NoConn /\ sock[d] = "open") /\ Send(c, ds, "Recv") => Ends
    BY <1>g, LiveSend
  <1>n. \A k : \A n \in NextName(k) : n \in Names /\ n \in Registered
    BY DEF NextName, Registered, Made, TypeOK, Frames
  <1>w. \A n \in Registered : Enter(c, "W2", [frame[c] EXCEPT !.at = n]) => Ends
    BY DEF TypeOK, Frames
  <1>0. SendToOne(c) \/ Forward(c) \/ SendToAll(c) \/ RelayToNext(c)
        \/ SendOnlineClients(c) \/ GetConfirmation(c)
    BY <1>r DEF ChatHandle, ChangeNickname, EraseOldName, InsertNewName, FillNewName,
                AssignNewName, SendFileConfirmation, Quit, QuitShut, QuitErase, KillShut,
                KillErase, At, CalmLabels, GameLabels
  <1>1. UNCHANGED <<accepting, registry, io>>
        /\ pc[c] \in {"M", "F", "M2", "W", "W2", "L", "C"} /\ up
    BY <1>0 DEF SendToOne, Forward, SendToAll, RelayToNext, SendOnlineClients,
                GetConfirmation, At
  <1>2. Me(c) = c /\ sock[c] = "open"
    BY <1>1, <1>r
  <1>3. Ends \/ Dies
    <2>1. CASE SendToOne(c)
      <3>1. CASE frame[c].name \notin Registered
        BY <2>1, <3>1, <1>2, <1>r, <1>s DEF SendToOne
      <3>2. CASE frame[c].name \in Registered
        BY <2>1, <3>2 DEF SendToOne, Goto
      <3>3. QED
        BY <3>1, <3>2
    <2>2. CASE Forward(c)
      <3>1. /\ pc[c] = "M2" /\ frame[c].name \in Registered
            /\ Send(c, {online[frame[c].name]}, "Recv")
        BY <2>2, <1>2, <1>r DEF Forward, At, Calm, Quiet
      <3>2. CASE online[frame[c].name] # NoConn
        BY <3>1, <3>2, <1>r, <1>s
      <3>3. CASE online[frame[c].name] = NoConn
        BY <3>1, <3>3 DEF Send, MeetsUnfilled, Registered
      <3>4. QED
        BY <3>2, <3>3
    <2>3. CASE SendToAll(c)
      BY <2>3, <1>2, <1>r, <1>n, <1>w DEF SendToAll
    <2>4. CASE RelayToNext(c)
      <3>1. pc[c] = "W2" /\ frame[c].at \in Registered
        BY <2>4 DEF RelayToNext, At, Calm, Quiet
      <3>2. CASE online[frame[c].at] # NoConn
        <4>1. sock[online[frame[c].at]] = "open"
          BY <3>2, <1>r
        <4>2. \/ Goto(c, "Recv")
              \/ \E n \in NextName(frame[c].at) : Enter(c, "W2", [frame[c] EXCEPT !.at = n])
          BY <2>4, <3>1, <3>2, <4>1, <1>r DEF RelayToNext
        <4>3. QED
          BY <4>2, <1>g, <1>n, <1>w
      <3>3. CASE online[frame[c].at] = NoConn
        BY <2>4, <3>1, <3>3 DEF RelayToNext, MeetsUnfilled, Registered
      <3>4. QED
        BY <3>2, <3>3
    <2>5. CASE SendOnlineClients(c)
      BY <2>5, <1>2, <1>r, <1>s DEF SendOnlineClients
    <2>6. CASE GetConfirmation(c)
      BY <2>6, <1>2, <1>r, <1>g DEF GetConfirmation
    <2>7. QED
      BY <1>0, <2>1, <2>2, <2>3, <2>4, <2>5, <2>6
  <1>4. CASE Ends
    <2>1. PICK l \in {"Recv", "M2", "W2"} : \E f :
            /\ Enter(c, l, f)
            /\ l = "M2" => f.name \in Registered
            /\ l = "W2" => f.at \in Registered
      BY <1>4
    <2>2. PICK f :
            /\ Enter(c, l, f)
            /\ l = "M2" => f.name \in Registered
            /\ l = "W2" => f.at \in Registered
      BY <2>1
    <2>3. Calm' /\ place' = [place EXCEPT ![c] = "away"]
      BY <1>1, <2>2, GoesTo DEF CalmLabels, GameLabels
    <2>4. place[c] = "away"
      BY <1>1 DEF place, Asks, GameLabels
    <2>5. place' = place
      BY <2>3, <2>4 DEF place
    <2>6. QED
      BY <1>1, <2>2, <2>3, <2>5 DEF registry, Enter
  <1>5. CASE Dies
    <2>1. UNCHANGED <<accepting, registry, io, pc, frame>>
      BY <1>1, <1>5 DEF Crash
    <2>2. Registered' = Registered /\ MeetsUnfilled'
      BY <1>5, <2>1 DEF Registered, Made, MeetsUnfilled, registry
    <2>3. Calm'
      BY <2>1, <2>2 DEF Calm, Quiet, accepting, registry, io
    <2>4. place' = place
      BY <2>1 DEF place, Asks, io
    <2>5. QED
      BY <1>1, <2>1, <2>2, <2>3, <2>4 DEF registry
  <1>6. QED
    BY <1>3, <1>4, <1>5

-------------------------------------------------------------------------------
(* The invariant of the game.  Every client that plays is at one stage: free, or *)
(* on the way to a seat; waiting in its seat; about to open the game; on turn;   *)
(* closing the game; or out of a game that is being closed.  At most one client   *)
(* holds the game, that is, is at a stage at which its thread may change it.      *)

MoveLabels == {"P", "P2", "P4", "P5", "P6", "P7", "P8", "P11"}

Away(c)  == place[c] = "away"
Owner(i) == online[players[i].name]
Seat(c)  == \E i \in 1..Len(players) : Owner(i) = c
Window   == \E c \in Conns : place[c] \in {"P10", "R1"}

Holds(c) == mood[c] = "turn" \/ place[c] \in MoveLabels \cup {"B3", "B4", "P10", "R1"}

Free(c)    == mood[c] = "idle" /\ place[c] \in {"away", "R2"}
Joining(c) == mood[c] = "waiting" /\ \/ place[c] \in {"B", "B1"}
                                     \/ place[c] = "B2" /\ Len(players) = 1
Patient(c) == mood[c] = "waiting" /\ Away(c)
Opening(c) == /\ mood[c] = "waiting" /\ Len(players) = 2 /\ Owner(2) = c
              /\ \/ place[c] = "B3" /\ ttt = NoGame
                 \/ place[c] = "B4" /\ ttt # NoGame
OnTurn(c)  == /\ ttt # NoGame
              /\ \/ mood[c] = "turn" /\ Away(c)
                 \/ /\ mood[c] = "waiting" /\ place[c] \in MoveLabels
                    /\ place[c] = "P4" => c \in checked
                    /\ place[c] = "P7" => Finished(ttt)
Leaving(c) == /\ mood[c] = "idle" /\ Len(players) = 2
              /\ \/ place[c] = "P10" /\ ttt # NoGame /\ Finished(ttt)
                 \/ place[c] = "R1" /\ ttt = NoGame
Over(c)    == \/ mood[c] = "idle" /\ Away(c)
              \/ mood[c] = "waiting" /\ place[c] = "B"

Stage(c) ==
  /\ c \notin Gamers => mood[c] = "idle" /\ Away(c)
  /\ c \in Gamers /\ ~Seat(c) => Free(c) \/ Joining(c)
  /\ c \in Gamers /\ Seat(c) /\ Window => Leaving(c) \/ Over(c)
  /\ c \in Gamers /\ Seat(c) /\ ~Window => Patient(c) \/ Opening(c) \/ OnTurn(c)

Stages == \A c \in Conns : Stage(c)

OneHolds == \A c, d \in Conns : Holds(c) /\ Holds(d) => c = d

Seated ==
  /\ Len(players) <= 2
  /\ \A i \in 1..Len(players) : Owner(i) \in Gamers
  /\ Len(players) = 2 => Owner(1) # Owner(2)
  /\ ttt # NoGame => /\ Len(players) = 2
                     /\ ttt.player_1 = players[1] /\ ttt.player_2 = players[2]

\* A line can only be the work of the player whose turn it is no longer, and the
\* winner is recorded by a thread that is about to drop the game.
Lined(g) == \A i \in 1..8 : Complete(g.board, i) => g.board[Lines[i][1]] = Other(g.turn)
Judged(g) == g.winner # Blank => /\ g.winner = Other(g.turn)
                                 /\ \E c \in Conns : place[c] \in {"P7", "P10"}

Ruled == ttt # NoGame => Lined(ttt) /\ Judged(ttt)

Safe == (up \/ MeetsUnfilled) /\ ~stray /\ viewers = {}

Manners == Safe /\ Seated /\ Stages /\ OneHolds /\ Ruled

\* Thread c goes to p, as far as the game goes, and no other thread moves.
Stands(c, p) == /\ place'[c] = p
                /\ \A d \in Conns \ {c} : place'[d] = place[d]

LEMMA StandsWhen ==
  ASSUME NEW c \in Conns, NEW p, place' = [place EXCEPT ![c] = p]
  PROVE  Stands(c, p)
  BY DEF Stands, place

\* With at most two who play, a third has no seat left.
LEMMA ThirdHasNoSeat ==
  ASSUME Tame, Seated, NEW c \in Gamers, ~Seat(c), players \in Seq(Players(Names))
  PROVE  Len(players) < 2
  <1>0. Len(players) \in Nat /\ Len(players) <= 2
    BY DEF Seated
  <1>n. \A n \in Nat : n <= 2 /\ n # 2 => n < 2
    OBVIOUS
  <1> SUFFICES ASSUME Len(players) = 2 PROVE FALSE
    BY <1>0, <1>n
  <1>1. 1 \in 1..Len(players) /\ 2 \in 1..Len(players)
    OBVIOUS
  <1>2. Owner(1) \in Gamers /\ Owner(2) \in Gamers /\ Owner(1) # Owner(2)
    BY <1>1 DEF Seated
  <1>3. Owner(1) # c /\ Owner(2) # c
    BY <1>1 DEF Seat
  <1>4. QED
    BY <1>2, <1>3 DEF Tame

\* A client that holds the game has a seat, both seats are taken, and it is at one
\* of the stages at which the game is held.
LEMMA HolderIs ==
  ASSUME GameTypeOK, Seated, Stages, NEW c \in Conns, Holds(c)
  PROVE  /\ c \in Gamers /\ Seat(c) /\ Len(players) = 2
         /\ Window => Leaving(c)
         /\ ~Window => Opening(c) \/ OnTurn(c)
  <1>1. Stage(c)
    BY DEF Stages
  <1>2. ~Free(c) /\ ~Joining(c) /\ ~Patient(c) /\ ~Over(c) /\ ~(mood[c] = "idle" /\ Away(c))
    BY DEF Holds, Free, Joining, Patient, Over, Away, MoveLabels
  <1>3. c \in Gamers /\ Seat(c) /\ (Window => Leaving(c)) /\ (~Window => Opening(c) \/ OnTurn(c))
    BY <1>1, <1>2 DEF Stage
  <1>4. Len(players) = 2
    BY <1>3 DEF Leaving, Opening, OnTurn, Seated
  <1>5. QED
    BY <1>3, <1>4

\* Where the others are while c holds the game.
LEMMA Bystander ==
  ASSUME Stages, OneHolds, NEW c \in Conns, Holds(c), NEW d \in Conns \ {c}
  PROVE  /\ d \notin Gamers => mood[d] = "idle" /\ Away(d)
         /\ d \in Gamers /\ ~Seat(d) => Free(d) \/ Joining(d)
         /\ d \in Gamers /\ Seat(d) => IF Window THEN Over(d) ELSE Patient(d)
         /\ ~Holds(d)
  <1>1. ~Holds(d) /\ Stage(d)
    BY DEF OneHolds, Stages
  <1>2. ~Leaving(d) /\ ~Opening(d) /\ ~OnTurn(d)
    BY <1>1 DEF Holds, Leaving, Opening, OnTurn, MoveLabels
  <1>3. QED
    BY <1>1, <1>2 DEF Stage

\* Only a holder can be in the window or at the end of a move.
LEMMA WindowHolds ==
  ASSUME OneHolds, NEW c \in Conns, Holds(c)
  PROVE  Window <=> place[c] \in {"P10", "R1"}
  BY DEF OneHolds, Window, Holds

\* Steps of the chat leave the game where it was.
LEMMA ChatKeepsManners ==
  ASSUME TypeOK, GameTypeOK, Manners, place' = place, up' \/ MeetsUnfilled', UNCHANGED gameVars,
         \A n \in Names : online[n] # NoConn => online'[n] = online[n]
  PROVE  Manners'
  <1> USE DEF gameVars
  <1>1. \A i \in 1..Len(players) : Owner(i) \in Gamers /\ players[i].name \in Names
    <2>1. \A i \in 1..Len(players) : players[i] \in Players(Names)
      BY DEF GameTypeOK
    <2>2. QED
      BY <2>1 DEF Manners, Seated, Players
  <1>2. \A i \in 1..Len(players) : Owner(i)' = Owner(i)
    BY <1>1, ChatAssumption, GameAssumption DEF Owner
  <1>3. \A c \in Conns : Seat(c)' = Seat(c)
    BY <1>2 DEF Seat
  <1>4. Window' = Window /\ OneHolds'
    BY DEF Window, Manners, OneHolds, Holds
  <1>5. Seated'
    BY <1>2 DEF Manners, Seated
  <1>6. Stages'
    <2> SUFFICES ASSUME NEW c \in Conns PROVE Stage(c)'
      BY DEF Stages
    <2>1. Stage(c)
      BY DEF Manners, Stages
    <2>2. Opening(c) => Opening(c)'
      BY <1>2 DEF Opening, GameTypeOK
    <2>3. QED
      BY <1>3, <1>4, <2>1, <2>2 DEF Stage, Free, Joining, Patient, OnTurn, Leaving, Over, Away
  <1>7. Ruled'
    BY DEF Manners, Ruled, Judged
  <1>8. QED
    BY <1>4, <1>5, <1>6, <1>7 DEF Manners, Safe

\* A request arrives: a client that knows of no game may join, one that is on turn
\* may play.
LEMMA RecvKeepsManners ==
  ASSUME Tame, TypeOK, GameTypeOK, Calm, Manners,
         NEW c \in Conns, NEW r \in Requests, GameRecv(c, r)
  PROVE  Calm' /\ Manners'
  <1>1. r.kind \in TameKinds /\ Polite /\ Recv(c, r)
        /\ UNCHANGED <<ttt, players, viewers, rand_num, checked, stray>>
    BY DEF Tame, GameRecv
  <1>2. /\ Calm' /\ up' /\ online' = online /\ Away(c)
        /\ Stands(c, IF r.kind \in {"B", "P"} THEN r.kind ELSE "away")
    BY <1>1, CalmRecv, StandsWhen DEF Away
  <1>3. /\ mood[c] \in {"idle", "waiting", "turn"}
        /\ mood'[c] = (IF r.kind \in {"B", "P"} THEN "waiting" ELSE mood[c])
        /\ \A d \in Conns \ {c} : mood'[d] = mood[d]
    BY <1>1 DEF GameRecv, Tell, GameTypeOK
  <1>4. /\ r.kind = "B" => c \in Gamers /\ mood[c] = "idle"
        /\ r.kind = "P" => mood[c] = "turn"
    BY <1>1 DEF GameRecv
  <1>5. \A i : Owner(i)' = Owner(i)
    BY <1>1, <1>2 DEF Owner
  <1>6. \A d \in Conns : Seat(d)' = Seat(d)
    BY <1>1, <1>5 DEF Seat
  <1>7. Window' = Window
    BY <1>2 DEF Window, Stands, Away
  <1>8. \A d \in Conns : Holds(d)' => Holds(d)
    BY <1>2, <1>3, <1>4 DEF Holds, Stands, Away, MoveLabels
  <1>9. Stages'
    <2> SUFFICES ASSUME NEW d \in Conns PROVE Stage(d)'
      BY DEF Stages
    <2>1. Stage(d)
      BY DEF Manners, Stages
    <2>2. CASE d # c
      <3>1. place'[d] = place[d] /\ mood'[d] = mood[d]
        BY <1>2, <1>3, <2>2 DEF Stands
      <3>2. QED
        BY <1>1, <1>5, <1>6, <1>7, <2>1, <3>1
        DEF Stage, Free, Joining, Patient, Opening, OnTurn, Leaving, Over, Away
    <2>3. CASE d = c /\ r.kind \notin {"B", "P"}
      <3>1. place'[d] = place[d] /\ mood'[d] = mood[d]
        BY <1>2, <1>3, <2>3 DEF Stands, Away
      <3>2. QED
        BY <1>1, <1>5, <1>6, <1>7, <2>1, <3>1
        DEF Stage, Free, Joining, Patient, Opening, OnTurn, Leaving, Over, Away
    <2>4. CASE d = c /\ r.kind = "B"
      <3>1. place'[c] = "B" /\ mood'[c] = "waiting" /\ c \in Gamers /\ mood[c] = "idle"
        BY <1>2, <1>3, <1>4, <2>4 DEF Stands
      <3>2. Seat(c) => Window
        BY <2>1, <2>4, <3>1 DEF Stage, Patient, Opening, OnTurn
      <3>3. QED
        BY <1>6, <1>7, <2>4, <3>1, <3>2 DEF Stage, Joining, Over
    <2>5. CASE d = c /\ r.kind = "P"
      <3>1. place'[c] = "P" /\ mood'[c] = "waiting" /\ Holds(c) /\ mood[c] = "turn"
        BY <1>2, <1>3, <1>4, <2>5 DEF Stands, Holds
      <3>2. c \in Gamers /\ Seat(c) /\ ~Window /\ ttt # NoGame
        BY <3>1, HolderIs DEF Manners, Leaving, Opening, OnTurn
      <3>3. OnTurn(c)'
        BY <1>1, <3>1, <3>2 DEF OnTurn, MoveLabels
      <3>4. QED
        BY <1>6, <1>7, <2>5, <3>2, <3>3 DEF Stage
    <2>6. QED
      BY <2>2, <2>3, <2>4, <2>5
  <1>10. Seated'
    BY <1>1, <1>5 DEF Manners, Seated
  <1>11. Ruled'
    <2>1. \A d \in Conns : place[d] \in {"P7", "P10"} => place'[d] = place[d]
      BY <1>2 DEF Stands, Away
    <2>2. QED
      BY <1>1, <2>1 DEF Manners, Ruled, Judged
  <1>12. OneHolds'
    BY <1>8 DEF Manners, OneHolds
  <1>13. Safe'
    BY <1>1, <1>2 DEF Manners, Safe
  <1>14. QED
    BY <1>2, <1>9, <1>10, <1>11, <1>12, <1>13 DEF Manners

-------------------------------------------------------------------------------
(* The handlers of the game.                                                   *)

\* A thread in a handler finds its own client, and stands where its pc says.
LEMMA HandlerFacts ==
  ASSUME TypeOK, RegInv, Calm, NEW c \in Conns, pc[c] \in GameLabels
  PROVE  /\ Me(c) = c /\ c # NoConn /\ sock[c] = "open" /\ Loop(c) = "Recv"
         /\ place[c] = pc[c] /\ nick[c] \in Names
  <1>1. pc[c] \notin {"none", "new", "Dispatch"}
    BY DEF GameLabels
  <1>2. QED
    BY <1>1, CalmRegistry, ChatAssumption DEF place, Asks, TypeOK

\* Where it goes on.
LEMMA HandlerGoes ==
  ASSUME TypeOK, Calm, NEW c \in Conns, NEW l \in GameLabels \cup {"Recv"},
         pc[c] \in GameLabels, Goto(c, l) \/ \E f : Enter(c, l, f), UNCHANGED chatRest
  PROVE  /\ Calm' /\ up' = up /\ online' = online /\ nick' = nick
         /\ Stands(c, IF l = "Recv" THEN "away" ELSE l)
  <1>1. PICK f : Enter(c, l, f)
    BY DEF Goto
  <1>2. /\ l \in CalmLabels \ {"none", "new", "Dispatch"} /\ l # "M2" /\ l # "W2"
        /\ pc[c] \notin {"none", "new"} /\ (l \in GameLabels <=> l # "Recv")
    BY DEF CalmLabels, GameLabels
  <1>3. UNCHANGED <<accepting, registry, io>>
    BY DEF chatRest
  <1>4. /\ Calm' /\ place' = [place EXCEPT ![c] = IF l \in GameLabels THEN l ELSE "away"]
    BY <1>1, <1>2, <1>3, GoesTo
  <1>5. Stands(c, IF l = "Recv" THEN "away" ELSE l)
    BY <1>2, <1>4, StandsWhen
  <1>6. QED
    BY <1>1, <1>3, <1>4, <1>5 DEF Enter, registry

\* A step of thread c that changes nothing but where it is, and what its client
\* believes, leaves the others where they were.
LEMMA LocalStep ==
  ASSUME Manners, up, NEW c \in Conns, NEW p, Stands(c, p),
         UNCHANGED <<ttt, players, online, stray, up>>, viewers' \in {viewers, {}},
         \A d \in Conns \ {c} : mood'[d] = mood[d] /\ (d \in checked => d \in checked'),
         Holds(c)' => Holds(c),
         p \in {"P10", "R1"} <=> place[c] \in {"P10", "R1"},
         place[c] \in {"P7", "P10"} => p \in {"P7", "P10"},
         Window' = Window /\ Seat(c)' = Seat(c) => Stage(c)'
  PROVE  Manners'
  <1>1. \A i : Owner(i)' = Owner(i)
    BY DEF Owner
  <1>2. \A d \in Conns : Seat(d)' = Seat(d)
    BY <1>1 DEF Seat
  <1>3. Window' = Window
    <2>1. \A d \in Conns : place'[d] \in {"P10", "R1"} <=> place[d] \in {"P10", "R1"}
      BY DEF Stands
    <2>2. QED
      BY <2>1 DEF Window
  <1>4. Stages'
    <2>1. ASSUME NEW d \in Conns \ {c} PROVE Stage(d)'
      <3>1. Stage(d) /\ place'[d] = place[d] /\ mood'[d] = mood[d]
        BY DEF Manners, Stages, Stands
      <3>2. QED
        BY <1>1, <1>2, <1>3, <3>1
        DEF Stage, Free, Joining, Patient, Opening, OnTurn, Leaving, Over, Away
    <2>2. QED
      BY <1>2, <1>3, <2>1 DEF Stages
  <1>5. OneHolds'
    <2>1. \A d \in Conns : Holds(d)' => Holds(d)
      BY DEF Holds, Stands
    <2>2. QED
      BY <2>1 DEF Manners, OneHolds
  <1>6. Seated'
    BY <1>1 DEF Manners, Seated
  <1>7. Ruled'
    <2>1. \A d \in Conns : place[d] \in {"P7", "P10"} => place'[d] \in {"P7", "P10"}
      BY DEF Stands
    <2>2. QED
      BY <2>1 DEF Manners, Ruled, Judged
  <1>8. Safe'
    BY DEF Manners, Safe
  <1>9. QED
    BY <1>4, <1>5, <1>6, <1>7, <1>8 DEF Manners

\* A reply to the client itself: its thread is out of the handler.
LEMMA AnswerGoes ==
  ASSUME Tame, TypeOK, RegInv, Calm, NEW c \in Conns, pc[c] \in GameLabels,
         NEW m, Answer(c, m), UNCHANGED chatRest, mood \in [Conns -> {"idle", "waiting", "turn"}]
  PROVE  /\ Goto(c, "Recv") /\ Calm' /\ up' = up /\ online' = online /\ Stands(c, "away")
         /\ mood'[c] = m /\ \A d \in Conns \ {c} : mood'[d] = mood[d]
  <1>1. Me(c) = c /\ c # NoConn /\ sock[c] = "open" /\ Loop(c) = "Recv"
    BY HandlerFacts
  <1>2. Send(c, {c}, "Recv") /\ Tell({c}, m)
    BY <1>1 DEF Answer
  <1>3. Goto(c, "Recv")
    BY <1>1, <1>2, LiveSend
  <1>4. mood'[c] = m /\ \A d \in Conns \ {c} : mood'[d] = mood[d]
    BY <1>2 DEF Tell, Tame
  <1>5. QED
    BY <1>3, <1>4, HandlerGoes

LEMMA InitializeKeeps ==
  ASSUME Tame, TypeOK, RegInv, GameTypeOK, Calm, Manners, up, NEW c \in Conns, InitializeGame(c)
  PROVE  Calm' /\ Manners'
  <1>1. /\ pc[c] = "B" /\ pc[c] \in GameLabels /\ UNCHANGED chatRest
        /\ UNCHANGED <<ttt, players, viewers, checked, stray>> /\ Len(players) \in Nat
    BY DEF InitializeGame, At, GameLabels, GameTypeOK
  <1>2. place[c] = "B" /\ Stage(c) /\ c \in Gamers
    BY <1>1, HandlerFacts DEF Manners, Stages, Stage, Away
  <1>3. ~Seat(c) => mood[c] = "waiting"
    BY <1>2 DEF Stage, Free, Joining
  <1>4. Seat(c) => Window /\ Len(players) # 0 /\ Len(players) # 1
    <2>1. ASSUME Seat(c) PROVE Window
      BY <1>2, <2>1 DEF Stage, Patient, Opening, OnTurn, MoveLabels, Away
    <2>2. ASSUME Window PROVE Len(players) = 2
      <3>1. PICK d \in Conns : Holds(d)
        BY <2>2 DEF Window, Holds
      <3>2. QED
        BY <3>1, HolderIs DEF Manners
    <2>3. QED
      BY <2>1, <2>2
  <1>5. ASSUME NEW l \in {"B1", "B2"}, Goto(c, l), mood' = mood, l = "B1" => Len(players) = 0,
               l = "B2" => Len(players) = 1
        PROVE  Calm' /\ Manners'
    <2>1. Calm' /\ up' = up /\ online' = online /\ Stands(c, l)
      BY <1>1, <1>5, HandlerGoes DEF GameLabels
    <2>2. ~Seat(c) /\ mood[c] = "waiting"
      BY <1>3, <1>4, <1>5
    <2>3. place'[c] = l /\ ~Holds(c)'
      BY <1>5, <2>1, <2>2 DEF Holds, Stands, MoveLabels
    <2>4. Joining(c)'
      BY <1>1, <1>5, <2>2, <2>3 DEF Joining
    <2>5. Seat(c)' = Seat(c) => Stage(c)'
      BY <1>2, <2>2, <2>4 DEF Stage
    <2>6. QED
      BY <1>1, <1>2, <1>5, <2>1, <2>3, <2>5, LocalStep
  <1>6. CASE Answer(c, "idle")
    <2>1. Calm' /\ up' = up /\ online' = online /\ Stands(c, "away") /\ mood'[c] = "idle"
          /\ \A d \in Conns \ {c} : mood'[d] = mood[d]
      BY <1>1, <1>6, AnswerGoes DEF GameTypeOK
    <2>2. place'[c] = "away" /\ ~Holds(c)'
      BY <2>1 DEF Holds, Stands, MoveLabels
    <2>3. Free(c)' /\ Over(c)'
      BY <2>1, <2>2 DEF Free, Over, Away
    <2>4. Window' = Window /\ Seat(c)' = Seat(c) => Stage(c)'
      BY <1>2, <1>4, <2>3 DEF Stage
    <2>5. QED
      BY <1>1, <1>2, <2>1, <2>2, <2>4, LocalStep
  <1>7. QED
    BY <1>5, <1>6 DEF InitializeGame

\* A client takes a seat: the first, or the second if one is taken.
LEMMA SeatTaken ==
  ASSUME GameTypeOK, NEW c \in Conns, Me(c) = c, online' = online,
         NEW s \in Marks, nick[c] \in Names, NEW n \in Nat, Len(players) = n,
         players' = Append(players, [name |-> nick[c], symbol |-> s])
  PROVE  /\ Len(players') = n + 1
         /\ \A i \in 1..n : Owner(i)' = Owner(i)
         /\ Owner(n + 1)' = c
         /\ Seat(c)'
         /\ \A d \in Conns \ {c} : Seat(d)' <=> Seat(d)
  <1>1. Len(players') = n + 1
    BY DEF GameTypeOK
  <1>2. /\ \A i \in 1..n : players'[i] = players[i]
        /\ players'[n + 1].name = nick[c]
    BY DEF GameTypeOK
  <1>3. \A i \in 1..n : Owner(i)' = Owner(i)
    BY <1>2 DEF Owner
  <1>4. Owner(n + 1)' = c
    BY <1>2 DEF Owner, Me
  <1>5. 1..(n + 1) = 1..n \cup {n + 1}
    OBVIOUS
  <1>6. Seat(c)'
    BY <1>1, <1>4, <1>5 DEF Seat
  <1>7. ASSUME NEW d \in Conns \ {c} PROVE Seat(d)' <=> Seat(d)
    <2>1. Seat(d)' <=> \E i \in 1..n : Owner(i)' = d
      BY <1>1, <1>4, <1>5 DEF Seat
    <2>2. QED
      BY <1>3, <2>1 DEF Seat
  <1>8. QED
    BY <1>1, <1>3, <1>4, <1>6, <1>7

\* Nothing is held while a seat is free.
LEMMA NoGameYet ==
  ASSUME GameTypeOK, Manners, Len(players) # 2
  PROVE  /\ ttt = NoGame /\ ~Window
         /\ \A d \in Conns : ~Holds(d)
  <1>1. \A d \in Conns : ~Holds(d)
    BY HolderIs DEF Manners
  <1>2. QED
    BY <1>1 DEF Manners, Seated, Window, Holds

LEMMA JoinKeeps ==
  ASSUME Tame, TypeOK, RegInv, GameTypeOK, Calm, Manners, up, NEW c \in Conns,
         FirstPlayer(c) \/ SecondPlayer(c)
  PROVE  Calm' /\ Manners'
  <1>1. /\ pc[c] \in {"B1", "B2"} /\ pc[c] \in GameLabels /\ UNCHANGED chatRest
        /\ Len(players) \in Nat
        /\ UNCHANGED <<ttt, viewers, mood, checked, stray>>
    BY DEF FirstPlayer, SecondPlayer, At, GameLabels, GameTypeOK
  <1>2. /\ Me(c) = c /\ c # NoConn /\ sock[c] = "open" /\ Loop(c) = "Recv"
        /\ place[c] = pc[c] /\ nick[c] \in Names
    BY <1>1, HandlerFacts
  <1>3. PICK p \in {"away", "B3"} :
          /\ Calm' /\ up' = up /\ online' = online /\ Stands(c, p)
          /\ p = "B3" <=> pc[c] = "B2"
    <2>1. CASE FirstPlayer(c)
      <3>1. Goto(c, "Recv") /\ pc[c] = "B1"
        BY <2>1, <1>2, LiveSend DEF FirstPlayer, At
      <3>2. QED
        BY <1>1, <3>1, HandlerGoes
    <2>2. CASE SecondPlayer(c)
      <3>1. Goto(c, "B3") /\ pc[c] = "B2"
        BY <2>2 DEF SecondPlayer, At
      <3>2. QED
        BY <1>1, <3>1, HandlerGoes DEF GameLabels
    <2>3. QED
      BY <2>1, <2>2
  <1>4. c \in Gamers /\ ~Seat(c) /\ mood[c] = "waiting" /\ (pc[c] = "B2" => Len(players) = 1)
    BY <1>1, <1>2 DEF Manners, Stages, Stage, Free, Joining, Patient, Opening, OnTurn, Leaving,
                      Over, Away, MoveLabels
  <1>5. Len(players) < 2
    BY <1>4, ThirdHasNoSeat DEF Manners, GameTypeOK
  <1>6. ttt = NoGame /\ ~Window /\ (\A d \in Conns : ~Holds(d))
    BY <1>5, NoGameYet
  <1>7. PICK s \in Marks : players' = Append(players, [name |-> nick[c], symbol |-> s])
    <2>1. Symbol(rand_num) \in Marks /\ Symbol(1 - rand_num) \in Marks
      BY DEF Symbol, Marks
    <2>2. QED
      BY <2>1 DEF FirstPlayer, SecondPlayer
  <1>n. PICK n \in {0, 1} : Len(players) = n
    <2>1. \A m \in Nat : m < 2 => m \in {0, 1}
      OBVIOUS
    <2>2. QED
      BY <1>1, <1>5, <2>1
  <1>8. /\ Len(players') = n + 1
        /\ \A i \in 1..n : Owner(i)' = Owner(i)
        /\ Owner(n + 1)' = c
        /\ Seat(c)'
        /\ \A d \in Conns \ {c} : Seat(d)' <=> Seat(d)
    BY <1>n, <1>2, <1>3, <1>7, SeatTaken
  <1>9. n = 1 => Owner(1) \in Gamers /\ Owner(1)' = Owner(1) /\ Owner(1) # c
    <2>1. n = 1 => 1 \in 1..n
      OBVIOUS
    <2>2. \A i \in 1..n : Owner(i) \in Gamers /\ Owner(i) # c
      BY <1>n, <1>4 DEF Manners, Seated, Seat
    <2>3. QED
      BY <1>8, <2>1, <2>2
  <1>10. Seated'
    <2>1. CASE n = 0
      <3>1. Len(players') = 1 /\ Owner(1)' = c
        BY <1>8, <2>1
      <3>2. 1..1 = {1}
        OBVIOUS
      <3>3. QED
        BY <1>1, <1>4, <1>6, <3>1, <3>2 DEF Seated
    <2>2. CASE n = 1
      <3>1. Len(players') = 2 /\ Owner(2)' = c
        BY <1>8, <2>2
      <3>2. \A i \in 1..2 : i = 1 \/ i = 2
        OBVIOUS
      <3>3. QED
        BY <1>1, <1>4, <1>6, <1>9, <2>2, <3>1, <3>2 DEF Seated
    <2>3. QED
      BY <1>n, <2>1, <2>2
  <1>11. ~Window' /\ \A d \in Conns \ {c} : ~Holds(d)'
    BY <1>1, <1>3, <1>6 DEF Window, Holds, Stands
  <1>12. Stages'
    <2> SUFFICES ASSUME NEW d \in Conns PROVE Stage(d)'
      BY DEF Stages
    <2>1. Stage(d)
      BY DEF Manners, Stages
    <2>2. CASE d = c
      <3>1. mood'[c] = "waiting" /\ place'[c] = p
        BY <1>1, <1>3, <1>4 DEF Stands
      <3>2. p = "B3" => Opening(c)'
        <4>1. ASSUME p = "B3" PROVE Len(players') = 2 /\ Owner(2)' = c
          <5>1. n = 1
            BY <1>n, <1>3, <1>4, <4>1
          <5>2. QED
            BY <1>8, <5>1
        <4>2. QED
          BY <1>1, <1>6, <3>1, <4>1 DEF Opening
      <3>3. QED
        BY <1>3, <1>4, <1>8, <1>11, <2>2, <3>1, <3>2 DEF Stage, Patient, Away
    <2>3. CASE d # c
      <3>1. mood'[d] = mood[d] /\ place'[d] = place[d] /\ (Seat(d)' <=> Seat(d))
        BY <1>1, <1>3, <1>8, <2>3 DEF Stands
      <3>2. d \in Gamers /\ ~Seat(d) => n # 1
        <4>1. ASSUME n = 1 PROVE Seat(Owner(1))
          BY <1>n, <4>1 DEF Seat
        <4>2. QED
          BY <1>4, <1>9, <2>3, <4>1 DEF Tame
      <3>3. d \in Gamers /\ ~Seat(d) => Free(d)' \/ Joining(d)'
        BY <1>n, <2>1, <3>1, <3>2 DEF Stage, Free, Joining
      <3>4. d \in Gamers /\ Seat(d) => Patient(d)'
        BY <1>6, <2>1, <3>1 DEF Stage, Patient, Opening, OnTurn, Holds, MoveLabels, Away
      <3>5. QED
        BY <1>11, <2>1, <3>1, <3>3, <3>4 DEF Stage, Away
    <2>4. QED
      BY <2>2, <2>3
  <1>13. OneHolds'
    BY <1>11 DEF OneHolds
  <1>14. Ruled' /\ Safe'
    BY <1>1, <1>3, <1>6 DEF Manners, Ruled, Safe
  <1>15. QED
    BY <1>3, <1>10, <1>12, <1>13, <1>14 DEF Manners

\* A step of the thread that holds the game, outside the window: the others wait,
\* whatever it does to the game.
LEMMA HolderStep ==
  ASSUME Manners, up, NEW c \in Conns, Holds(c), ~Window,
         NEW p, p \notin {"P10", "R1"}, Stands(c, p),
         UNCHANGED <<players, online, viewers, stray, up>>,
         \A d \in Conns \ {c} : mood'[d] = mood[d],
         Seat(c), c \in Gamers, Patient(c)' \/ Opening(c)' \/ OnTurn(c)',
         ttt' # NoGame => /\ Len(players) = 2 /\ ttt'.player_1 = players[1]
                          /\ ttt'.player_2 = players[2],
         Ruled'
  PROVE  Manners'
  <1>1. \A i : Owner(i)' = Owner(i)
    BY DEF Owner
  <1>2. \A d \in Conns : Seat(d)' = Seat(d)
    BY <1>1 DEF Seat
  <1>3. ~Window'
    BY DEF Window, Stands
  <1>4. \A d \in Conns \ {c} : ~Holds(d)'
    <2>1. \A d \in Conns \ {c} : ~Holds(d)
      BY DEF Manners, OneHolds
    <2>2. QED
      BY <2>1 DEF Holds, Stands
  <1>5. Stages'
    <2>1. ASSUME NEW d \in Conns \ {c} PROVE Stage(d)'
      <3>1. /\ d \notin Gamers => mood[d] = "idle" /\ Away(d)
            /\ d \in Gamers /\ ~Seat(d) => Free(d) \/ Joining(d)
            /\ d \in Gamers /\ Seat(d) => Patient(d)
        BY Bystander DEF Manners
      <3>2. place'[d] = place[d] /\ mood'[d] = mood[d]
        BY DEF Stands
      <3>3. QED
        BY <1>2, <1>3, <3>1, <3>2 DEF Stage, Free, Joining, Patient, Away
    <2>2. Stage(c)'
      BY <1>2, <1>3 DEF Stage
    <2>3. QED
      BY <2>1, <2>2 DEF Stages
  <1>6. Seated'
    BY <1>1 DEF Manners, Seated
  <1>7. OneHolds'
    BY <1>4 DEF OneHolds
  <1>8. Safe'
    BY DEF Manners, Safe
  <1>9. QED
    BY <1>5, <1>6, <1>7, <1>8 DEF Manners

\* The turn goes to e, the only client that will hold the game.
LEMMA TurnStep ==
  ASSUME Manners, up, NEW c \in Conns, Holds(c), ~Window, Stands(c, "away"),
         UNCHANGED <<ttt, players, online, viewers, stray, up>>, ttt # NoGame,
         NEW e \in Conns, mood'[e] = "turn", \A d \in Conns \ {e} : mood'[d] = mood[d],
         e \in Gamers, Seat(e), c \in Gamers, Seat(c), mood[c] = "waiting",
         place[c] \notin {"P7", "P10"}
  PROVE  Manners'
  <1>1. \A i : Owner(i)' = Owner(i)
    BY DEF Owner
  <1>2. \A d \in Conns : Seat(d)' = Seat(d)
    BY <1>1 DEF Seat
  <1>3. ~Window'
    BY DEF Window, Stands
  <1>4. \A d \in Conns \ {e} : ~Holds(d)'
    <2>1. \A d \in Conns \ {c} : ~Holds(d)
      BY DEF Manners, OneHolds
    <2>2. QED
      BY <2>1 DEF Holds, Stands, MoveLabels
  <1>5. Stages'
    <2>1. ASSUME NEW d \in Conns \ {e} PROVE Stage(d)'
      <3>1. CASE d # c
        <4>1. /\ d \notin Gamers => mood[d] = "idle" /\ Away(d)
              /\ d \in Gamers /\ ~Seat(d) => Free(d) \/ Joining(d)
              /\ d \in Gamers /\ Seat(d) => Patient(d)
          BY <3>1, Bystander DEF Manners
        <4>2. place'[d] = place[d] /\ mood'[d] = mood[d]
          BY <3>1 DEF Stands
        <4>3. QED
          BY <1>2, <1>3, <4>1, <4>2 DEF Stage, Free, Joining, Patient, Away
      <3>2. CASE d = c
        BY <1>2, <1>3, <3>2 DEF Stage, Stands, Patient, Away
      <3>3. QED
        BY <3>1, <3>2
    <2>2. Away(e)'
      <3>1. e # c => Patient(e)
        BY Bystander DEF Manners
      <3>2. QED
        BY <3>1 DEF Patient, Away, Stands
    <2>3. Stage(e)'
      BY <1>2, <1>3, <2>2 DEF Stage, OnTurn
    <2>4. QED
      BY <2>1, <2>3 DEF Stages
  <1>6. Seated'
    BY <1>1 DEF Manners, Seated
  <1>7. OneHolds'
    BY <1>4 DEF OneHolds
  <1>8. Ruled'
    <2>1. \A d \in Conns : place[d] \in {"P7", "P10"} => place'[d] = place[d]
      BY DEF Stands
    <2>2. QED
      BY <2>1 DEF Manners, Ruled, Judged
  <1>9. Safe'
    BY DEF Manners, Safe
  <1>10. QED
    BY <1>5, <1>6, <1>7, <1>8, <1>9 DEF Manners

\* The thread that stands at B3, B4 or inside a move holds the game.
LEMMA HolderFacts ==
  ASSUME TypeOK, RegInv, GameTypeOK, Calm, Manners, NEW c \in Conns,
         pc[c] \in MoveLabels \cup {"B3", "B4", "P10", "R1"}
  PROVE  /\ pc[c] \in GameLabels /\ place[c] = pc[c] /\ Holds(c)
         /\ c \in Gamers /\ Seat(c) /\ Len(players) = 2
         /\ Me(c) = c /\ c # NoConn /\ sock[c] = "open" /\ Loop(c) = "Recv"
         /\ nick[c] \in Names
         /\ pc[c] \in {"B3", "B4"} => Opening(c) /\ ~Window
         /\ pc[c] \in MoveLabels => OnTurn(c) /\ mood[c] = "waiting" /\ ~Window
         /\ pc[c] \in {"P10", "R1"} => Leaving(c) /\ Window
  <1>1. pc[c] \in GameLabels
    BY DEF MoveLabels, GameLabels
  <1>2. /\ Me(c) = c /\ c # NoConn /\ sock[c] = "open" /\ Loop(c) = "Recv"
        /\ place[c] = pc[c] /\ nick[c] \in Names
    BY <1>1, HandlerFacts
  <1>3. Holds(c)
    BY <1>2 DEF Holds
  <1>4. /\ c \in Gamers /\ Seat(c) /\ Len(players) = 2
        /\ Window => Leaving(c)
        /\ ~Window => Opening(c) \/ OnTurn(c)
    BY <1>3, HolderIs DEF Manners
  <1>5. Window <=> pc[c] \in {"P10", "R1"}
    BY <1>2, <1>3, WindowHolds DEF Manners
  <1>6. pc[c] \in {"B3", "B4"} => Opening(c) /\ ~Window
    BY <1>2, <1>4, <1>5 DEF OnTurn, Away, MoveLabels
  <1>7. pc[c] \in MoveLabels => OnTurn(c) /\ mood[c] = "waiting" /\ ~Window
    BY <1>2, <1>4, <1>5 DEF OnTurn, Opening, Away, MoveLabels
  <1>8. QED
    BY <1>1, <1>2, <1>3, <1>4, <1>5, <1>6, <1>7

\* Both seats and what the board is sent to can be reached.
LEMMA SeatsAreLive ==
  ASSUME TypeOK, RegInv, GameTypeOK, Calm, Manners, Len(players) = 2
  PROVE  /\ \A i \in {1, 2} : /\ Owner(i) \in Conns /\ Owner(i) \in Gamers /\ Seat(Owner(i))
                              /\ sock[Owner(i)] = "open" /\ Owner(i) # NoConn
                              /\ SlotName(i) = {players[i].name}
                              /\ SlotPlayer(i) = {players[i]}
                              /\ players[i].name \in Names
         /\ Owner(1) # Owner(2)
         /\ \A d \in Conns : Seat(d) <=> d \in {Owner(1), Owner(2)}
  <1>1. 1..2 = {1, 2} /\ 1 <= 2 /\ 2 <= 2
    OBVIOUS
  <1>2. ASSUME NEW i \in {1, 2}
        PROVE  /\ Owner(i) \in Conns /\ Owner(i) \in Gamers /\ Seat(Owner(i))
               /\ sock[Owner(i)] = "open" /\ Owner(i) # NoConn
               /\ players[i].name \in Names
    <2>1. players[i] \in Players(Names)
      <3>1. i \in 1..Len(players) /\ players \in Seq(Players(Names))
        BY <1>1 DEF GameTypeOK
      <3>2. QED
        BY <3>1
    <2>2. Owner(i) \in Gamers /\ Seat(Owner(i))
      BY <1>1 DEF Manners, Seated, Seat
    <2>3. Owner(i) # NoConn /\ Owner(i) \in Conns
      BY <2>2, ChatAssumption, GameAssumption
    <2>4. QED
      BY <2>1, <2>2, <2>3, CalmRegistry DEF Owner, Players
  <1>3. \A i \in {1, 2} : SlotName(i) = {players[i].name} /\ SlotPlayer(i) = {players[i]}
    BY DEF SlotName, SlotPlayer
  <1>4. \A d \in Conns : Seat(d) <=> d \in {Owner(1), Owner(2)}
    BY <1>1 DEF Seat
  <1>5. QED
    BY <1>2, <1>3, <1>4 DEF Manners, Seated

LEMMA BoardGoes ==
  ASSUME TypeOK, RegInv, GameTypeOK, Calm, Manners, Len(players) = 2,
         NEW c \in Conns, NEW l, SendBoard(c, l)
  PROVE  Goto(c, l)
  <1>1. viewers = {}
    BY DEF Manners, Safe
  <1>2. Send(c, Clients({players[1].name, players[2].name} \cup {}), l)
    BY <1>1, SeatsAreLive DEF SendBoard
  <1>3. \A d \in Clients({players[1].name, players[2].name} \cup {}) : d = Owner(1) \/ d = Owner(2)
    BY DEF Clients, Owner
  <1>4. QED
    BY <1>2, <1>3, LiveSend, SeatsAreLive

\* A new game has no line and no winner.
LEMMA NewGameRules ==
  ASSUME NEW p1 \in Players(Names), NEW p2 \in Players(Names)
  PROVE  /\ NewGame(p1, p2, p1.symbol) \in Games(Names)
         /\ Lined(NewGame(p1, p2, p1.symbol))
         /\ NewGame(p1, p2, p1.symbol).winner = Blank
         /\ NewGame(p1, p2, p1.symbol).player_1 = p1
         /\ NewGame(p1, p2, p1.symbol).player_2 = p2
  <1> DEFINE g == NewGame(p1, p2, p1.symbol)
  <1>1. g \in Games(Names) /\ g.winner = Blank /\ g.player_1 = p1 /\ g.player_2 = p2
    BY DEF NewGame, Games, Players, Squares, Marks, Blank
  <1>2. \A s \in Squares : g.board[s] = Blank
    BY DEF NewGame
  <1>3. Lined(g)
    BY <1>2, LinesLieOnTheBoard DEF Lined, Complete
  <1>4. QED
    BY <1>1, <1>3

LEMMA SquaresOfALine ==
  \A i \in 1..8 : \A j \in 1..3 : Lines[i][j] \in Squares
  BY DEF Lines, Squares

\* Where there was no line, a move makes lines of its own mark only.
LEMMA PlayRules ==
  ASSUME NEW g \in Games(Names), NEW pos, CanPlay(g, pos), ~HasLine(g)
  PROVE  /\ Lined(Play(g, pos)) /\ Play(g, pos).winner = g.winner
         /\ Play(g, pos).player_1 = g.player_1 /\ Play(g, pos).player_2 = g.player_2
  <1> DEFINE h == Play(g, pos)
             s == pos - 1
  <1>1. /\ h.turn = Other(g.turn) /\ h.winner = g.winner
        /\ h.player_1 = g.player_1 /\ h.player_2 = g.player_2
        /\ h.board = [g.board EXCEPT ![s] = g.turn]
    BY DEF Play, Games
  <1>2. g.turn = Other(h.turn)
    BY <1>1 DEF Other, Games, Marks
  <1>3. ASSUME NEW i \in 1..8, Complete(h.board, i) PROVE h.board[Lines[i][1]] = g.turn
    <2> DEFINE a == Lines[i][1]
               b == Lines[i][2]
               c == Lines[i][3]
    <2>1. a \in Squares /\ b \in Squares /\ c \in Squares
      BY SquaresOfALine
    <2>2. h.board[a] = h.board[b] /\ h.board[b] = h.board[c] /\ h.board[a] # Blank
      BY <1>3 DEF Complete
    <2>3. ~(g.board[a] = g.board[b] /\ g.board[b] = g.board[c] /\ g.board[a] # Blank)
      BY DEF HasLine, Complete
    <2>4. \A x \in Squares : h.board[x] = IF x = s THEN g.turn ELSE g.board[x]
      BY <1>1 DEF Games
    <2>5. QED
      BY <2>1, <2>2, <2>3, <2>4
  <1>4. QED
    BY <1>1, <1>2, <1>3 DEF Lined

\* The winner found is the one who has played the line.
LEMMA WinnerRules ==
  ASSUME NEW g \in Games(Names), HasLine(g), Lined(g)
  PROVE  /\ Lined(SetWinner(g)) /\ SetWinner(g).winner = Other(SetWinner(g).turn)
         /\ HasLine(SetWinner(g))
         /\ SetWinner(g).player_1 = g.player_1 /\ SetWinner(g).player_2 = g.player_2
  <1> DEFINE h == SetWinner(g)
  <1>1. /\ h.turn = g.turn /\ h.board = g.board
        /\ h.player_1 = g.player_1 /\ h.player_2 = g.player_2
        /\ h.winner = g.board[Lines[FirstLine(g.board)][1]]
    BY DEF SetWinner, Games
  <1>2. h.winner = Other(g.turn)
    BY <1>1, LineFound DEF HasLine, Lined
  <1>3. QED
    BY <1>1, <1>2 DEF Lined, HasLine

LEMMA CreateKeeps ==
  ASSUME TypeOK, RegInv, GameTypeOK, Calm, Manners, up, NEW c \in Conns, CreateGame(c)
  PROVE  Calm' /\ Manners'
  <1>1. pc[c] = "B3" /\ UNCHANGED chatRest /\ UNCHANGED <<players, viewers, mood, stray>>
    BY DEF CreateGame, At
  <1>2. /\ Holds(c) /\ c \in Gamers /\ Seat(c) /\ Len(players) = 2 /\ Opening(c) /\ ~Window
    BY <1>1, HolderFacts
  <1>3. Calm' /\ up' = up /\ online' = online /\ Stands(c, "B4")
    BY <1>1, HandlerGoes DEF CreateGame, GameLabels
  <1>4. ttt' = NewGame(players[1], players[2], players[1].symbol)
    BY <1>2, SeatsAreLive DEF CreateGame
  <1>5. players[1] \in Players(Names) /\ players[2] \in Players(Names)
    <2>1. 1 \in 1..Len(players) /\ 2 \in 1..Len(players) /\ players \in Seq(Players(Names))
      BY <1>2 DEF GameTypeOK
    <2>2. QED
      BY <2>1
  <1>6. /\ ttt' # NoGame /\ Lined(ttt') /\ ttt'.winner = Blank
        /\ ttt'.player_1 = players[1] /\ ttt'.player_2 = players[2]
    BY <1>4, <1>5, NewGameRules, GameAssumption
  <1>7. Opening(c)'
    BY <1>1, <1>2, <1>3, <1>6 DEF Opening, Owner, Stands
  <1>8. Ruled'
    BY <1>6 DEF Ruled, Judged
  <1>9. QED
    BY <1>1, <1>2, <1>3, <1>6, <1>7, <1>8, HolderStep

LEMMA OpenKeeps ==
  ASSUME Tame, TypeOK, RegInv, GameTypeOK, Calm, Manners, up, NEW c \in Conns, OpenGame(c)
  PROVE  Calm' /\ Manners'
  <1>1. pc[c] = "B4" /\ UNCHANGED chatRest /\ UNCHANGED <<ttt, players, viewers, stray>>
    BY DEF OpenGame, At
  <1>2. /\ Holds(c) /\ c \in Gamers /\ Seat(c) /\ Len(players) = 2 /\ Opening(c) /\ ~Window
        /\ place[c] = "B4" /\ Loop(c) = "Recv"
    BY <1>1, HolderFacts
  <1>3. ttt # NoGame /\ mood[c] = "waiting"
    BY <1>2 DEF Opening
  <1>4. SendBoard(c, "Recv") /\ Tell({online[players[1].name]}, "turn")
    BY <1>2, <1>3, SeatsAreLive DEF OpenGame
  <1>5. Goto(c, "Recv")
    BY <1>2, <1>4, BoardGoes
  <1>6. Calm' /\ up' = up /\ online' = online /\ Stands(c, "away")
    BY <1>1, <1>5, HandlerGoes DEF GameLabels
  <1>7. Owner(1) \in Conns /\ Owner(1) \in Gamers /\ Seat(Owner(1))
    BY <1>2, SeatsAreLive
  <1>8. mood'[Owner(1)] = "turn" /\ \A d \in Conns \ {Owner(1)} : mood'[d] = mood[d]
    BY <1>4, <1>7 DEF Tell, Owner, Tame
  <1>9. QED
    BY <1>1, <1>2, <1>3, <1>6, <1>7, <1>8, TurnStep

LEMMA ProbeKeeps ==
  ASSUME Tame, TypeOK, RegInv, GameTypeOK, Calm, Manners, up, NEW c \in Conns,
         PlayGame(c) \/ VerifyPlayerAndTurn(c)
  PROVE  Calm' /\ Manners'
  <1>1. /\ pc[c] \in {"P", "P2"} /\ UNCHANGED chatRest
        /\ UNCHANGED <<ttt, players, viewers, stray>>
        /\ checked \subseteq checked'
    BY DEF PlayGame, VerifyPlayerAndTurn, At
  <1>2. /\ Holds(c) /\ c \in Gamers /\ Seat(c) /\ OnTurn(c) /\ mood[c] = "waiting" /\ ~Window
        /\ place[c] = pc[c] /\ pc[c] \in GameLabels
    BY <1>1, HolderFacts DEF MoveLabels
  <1>3. ttt # NoGame
    BY <1>2 DEF OnTurn
  <1>4. ASSUME NEW l \in {"P2", "P4"}, Goto(c, l), mood' = mood, l = "P4" => c \in checked'
        PROVE  Calm' /\ Manners'
    <2>1. Calm' /\ up' = up /\ online' = online /\ Stands(c, l)
      BY <1>1, <1>4, HandlerGoes DEF GameLabels
    <2>2. OnTurn(c)'
      BY <1>1, <1>2, <1>3, <1>4, <2>1 DEF OnTurn, Stands, MoveLabels
    <2>3. Window' = Window /\ Seat(c)' = Seat(c) => Stage(c)'
      BY <1>2, <2>2 DEF Stage
    <2>4. QED
      BY <1>1, <1>2, <1>4, <2>1, <2>3, LocalStep
  <1>5. CASE Answer(c, "waiting")
    <2>1. Calm' /\ up' = up /\ online' = online /\ Stands(c, "away") /\ mood'[c] = "waiting"
          /\ \A d \in Conns \ {c} : mood'[d] = mood[d]
      BY <1>1, <1>2, <1>5, AnswerGoes DEF GameTypeOK
    <2>2. Patient(c)'
      BY <2>1 DEF Patient, Away, Stands
    <2>3. Window' = Window /\ Seat(c)' = Seat(c) => Stage(c)'
      BY <1>2, <2>2 DEF Stage
    <2>4. QED
      BY <1>1, <1>2, <2>1, <2>3, LocalStep
  <1>6. QED
    BY <1>3, <1>4, <1>5 DEF PlayGame, VerifyPlayerAndTurn

\* On a board with a line, or a full one, it is the holder who stands where the game
\* is going to be dropped: nobody spins in a send.
LEMMA PendingIsHeld ==
  ASSUME TypeOK, RegInv, GameTypeOK, ResetPending, Calm, Manners,
         ttt # NoGame, NEW c \in Conns, Holds(c)
  PROVE  /\ HasLine(ttt) => pc[c] \in {"P5", "P6", "P7", "P10"}
         /\ IsFull(ttt)  => pc[c] \in {"P5", "P6", "P7", "P8", "P10"}
  <1>1. ASSUME NEW d \in Conns, pc[d] \in {"P5", "P6", "P7", "P8", "P10"} PROVE d = c
    <2>1. Holds(d)
      BY <1>1, HolderFacts DEF MoveLabels
    <2>2. QED
      BY <2>1 DEF Manners, OneHolds
  <1>2. \A d \in Conns : pc[d] # "spin"
    BY DEF Calm, Quiet, CalmLabels, GameLabels
  <1>3. QED
    BY <1>1, <1>2 DEF ResetPending, Somewhere

LEMMA MoveKeeps ==
  ASSUME Tame, TypeOK, RegInv, GameTypeOK, ResetPending, Calm, Manners, up,
         NEW c \in Conns, PlayMove(c)
  PROVE  Calm' /\ Manners'
  <1>1. /\ pc[c] = "P4" /\ UNCHANGED chatRest /\ UNCHANGED <<players, viewers>>
        /\ checked' = checked \ {c}
    BY DEF PlayMove, At
  <1>2. /\ Holds(c) /\ c \in Gamers /\ Seat(c) /\ OnTurn(c) /\ mood[c] = "waiting" /\ ~Window
        /\ place[c] = "P4" /\ pc[c] \in GameLabels /\ Len(players) = 2
    BY <1>1, HolderFacts DEF MoveLabels
  <1>3. ttt # NoGame /\ ttt \in Games(Names) /\ c \in checked
    BY <1>2 DEF OnTurn, GameTypeOK, Away
  <1>4. ~HasLine(ttt)
    BY <1>1, <1>2, <1>3, PendingIsHeld
  <1>5. ttt.winner = Blank
    <2>1. \A d \in Conns : place[d] \in {"P7", "P10"} => d = c
      BY <1>2 DEF Manners, OneHolds, Holds, MoveLabels
    <2>2. QED
      BY <1>2, <1>3, <2>1 DEF Manners, Ruled, Judged
  <1>6. ASSUME CanPlay(ttt, frame[c].pos), ttt' = Play(ttt, frame[c].pos),
               stray' = (stray \/ c \notin checked), Enter(c, "P5", NoFrame), UNCHANGED mood
        PROVE  Calm' /\ Manners'
    <2>1. Calm' /\ up' = up /\ online' = online /\ Stands(c, "P5")
      BY <1>1, <1>6, HandlerGoes DEF GameLabels
    <2>2. stray' = stray
      BY <1>3, <1>6 DEF GameTypeOK
    <2>3. ttt' \in Games(Names) /\ ttt' # NoGame
      BY <1>3, <1>6, GameMoves, GameAssumption
    <2>4. /\ Lined(ttt') /\ ttt'.winner = Blank
          /\ ttt'.player_1 = ttt.player_1 /\ ttt'.player_2 = ttt.player_2
      BY <1>3, <1>4, <1>5, <1>6, PlayRules
    <2>5. OnTurn(c)'
      BY <1>2, <1>6, <2>1, <2>3 DEF OnTurn, Stands, MoveLabels
    <2>6. Ruled'
      BY <2>4 DEF Ruled, Judged
    <2>7. ttt'.player_1 = players[1] /\ ttt'.player_2 = players[2]
      BY <1>3, <2>4 DEF Manners, Seated
    <2>8. QED
      BY <1>1, <1>2, <1>6, <2>1, <2>2, <2>5, <2>6, <2>7, HolderStep
  <1>7. ASSUME Answer(c, "turn"), UNCHANGED <<ttt, stray>> PROVE Calm' /\ Manners'
    <2>1. Calm' /\ up' = up /\ online' = online /\ Stands(c, "away") /\ mood'[c] = "turn"
          /\ \A d \in Conns \ {c} : mood'[d] = mood[d]
      BY <1>1, <1>2, <1>7, AnswerGoes DEF GameTypeOK
    <2>2. OnTurn(c)'
      BY <1>3, <1>7, <2>1 DEF OnTurn, Away, Stands
    <2>3. Window' = Window /\ Seat(c)' = Seat(c) => Stage(c)'
      BY <1>2, <2>2 DEF Stage
    <2>4. QED
      BY <1>1, <1>2, <1>7, <2>1, <2>3, LocalStep
  <1>8. QED
    BY <1>3, <1>6, <1>7 DEF PlayMove

LEMMA LookKeeps ==
  ASSUME TypeOK, RegInv, GameTypeOK, Calm, Manners, up, NEW c \in Conns,
         SendBoardState(c) \/ VerifyFull(c)
  PROVE  Calm' /\ Manners'
  <1>1. pc[c] \in {"P5", "P8"} /\ UNCHANGED chatRest /\ UNCHANGED gameVars
    BY DEF SendBoardState, VerifyFull, At
  <1>2. /\ Holds(c) /\ c \in Gamers /\ Seat(c) /\ OnTurn(c) /\ mood[c] = "waiting" /\ ~Window
        /\ place[c] = pc[c] /\ Len(players) = 2
    BY <1>1, HolderFacts DEF MoveLabels
  <1>3. ttt # NoGame
    BY <1>2 DEF OnTurn
  <1>4. PICK l \in {"P6", "P7", "P11"} : Goto(c, l) /\ (l = "P7" => IsFull(ttt))
    <2>1. CASE SendBoardState(c)
      <3>1. Goto(c, "P6")
        BY <1>2, <1>3, <2>1, BoardGoes DEF SendBoardState
      <3>2. QED
        BY <3>1
    <2>2. CASE VerifyFull(c)
      <3>1. Goto(c, IF IsFull(ttt) THEN "P7" ELSE "P11")
        BY <1>3, <2>2 DEF VerifyFull
      <3>2. QED
        BY <3>1
    <2>3. QED
      BY <2>1, <2>2
  <1>5. Calm' /\ up' = up /\ online' = online /\ Stands(c, l)
    BY <1>1, <1>4, HandlerGoes DEF GameLabels
  <1>6. OnTurn(c)'
    BY <1>1, <1>2, <1>3, <1>4, <1>5 DEF OnTurn, Stands, MoveLabels, Finished, gameVars
  <1>7. Window' = Window /\ Seat(c)' = Seat(c) => Stage(c)'
    BY <1>2, <1>6 DEF Stage
  <1>8. QED
    BY <1>1, <1>2, <1>4, <1>5, <1>7, LocalStep DEF gameVars

LEMMA WinnerKeeps ==
  ASSUME TypeOK, RegInv, GameTypeOK, Calm, Manners, up, NEW c \in Conns, VerifyWinner(c)
  PROVE  Calm' /\ Manners'
  <1>1. /\ pc[c] = "P6" /\ UNCHANGED chatRest
        /\ UNCHANGED <<players, viewers, mood, checked, stray>>
    BY DEF VerifyWinner, At
  <1>2. /\ Holds(c) /\ c \in Gamers /\ Seat(c) /\ OnTurn(c) /\ mood[c] = "waiting" /\ ~Window
        /\ place[c] = "P6" /\ Len(players) = 2
    BY <1>1, HolderFacts DEF MoveLabels
  <1>3. ttt # NoGame /\ ttt \in Games(Names)
    BY <1>2 DEF OnTurn, GameTypeOK
  <1>4. CASE HasLine(ttt)
    <2>1. ttt' = SetWinner(ttt) /\ Goto(c, "P7")
      BY <1>3, <1>4 DEF VerifyWinner
    <2>2. Calm' /\ up' = up /\ online' = online /\ Stands(c, "P7")
      BY <1>1, <2>1, HandlerGoes DEF GameLabels
    <2>3. /\ Lined(ttt') /\ ttt'.winner = Other(ttt'.turn) /\ HasLine(ttt')
          /\ ttt'.player_1 = ttt.player_1 /\ ttt'.player_2 = ttt.player_2
      BY <1>3, <1>4, <2>1, WinnerRules DEF Manners, Ruled
    <2>4. ttt' # NoGame
      BY <1>3, <1>4, <2>1, GameMoves, GameAssumption
    <2>5. OnTurn(c)'
      BY <1>1, <1>2, <2>2, <2>3, <2>4 DEF OnTurn, Stands, MoveLabels, Finished
    <2>6. Ruled'
      BY <2>2, <2>3 DEF Ruled, Judged, Stands
    <2>7. ttt'.player_1 = players[1] /\ ttt'.player_2 = players[2]
      BY <1>3, <2>3 DEF Manners, Seated
    <2>8. QED
      BY <1>1, <1>2, <2>2, <2>5, <2>6, <2>7, HolderStep
  <1>5. CASE ~HasLine(ttt)
    <2>1. ttt' = ttt /\ Goto(c, "P8")
      BY <1>3, <1>5 DEF VerifyWinner
    <2>2. Calm' /\ up' = up /\ online' = online /\ Stands(c, "P8")
      BY <1>1, <2>1, HandlerGoes DEF GameLabels
    <2>3. OnTurn(c)'
      BY <1>1, <1>2, <1>3, <2>1, <2>2 DEF OnTurn, Stands, MoveLabels
    <2>4. Window' = Window /\ Seat(c)' = Seat(c) => Stage(c)'
      BY <1>2, <2>3 DEF Stage
    <2>5. QED
      BY <1>1, <1>2, <2>1, <2>2, <2>4, LocalStep
  <1>6. QED
    BY <1>4, <1>5

\* The turn goes to a player: one of the two that have the seats.
LEMMA NotifyKeeps ==
  ASSUME Tame, TypeOK, RegInv, GameTypeOK, Calm, Manners, up, NEW c \in Conns, NotifyTurn(c)
  PROVE  Calm' /\ Manners'
  <1>1. pc[c] = "P11" /\ UNCHANGED chatRest /\ UNCHANGED <<ttt, players, viewers, stray>>
    BY DEF NotifyTurn, At
  <1>2. /\ Holds(c) /\ c \in Gamers /\ Seat(c) /\ OnTurn(c) /\ mood[c] = "waiting" /\ ~Window
        /\ place[c] = "P11" /\ Len(players) = 2 /\ Loop(c) = "Recv"
    BY <1>1, HolderFacts DEF MoveLabels
  <1>3. ttt # NoGame
    BY <1>2 DEF OnTurn
  <1>4. PICK i \in {1, 2} : GetTurnNow(ttt) = players[i].name
    BY <1>3 DEF GetTurnNow, Manners, Seated
  <1>5. Send(c, {Owner(i)}, "Recv") /\ Tell({Owner(i)}, "turn")
    BY <1>2, <1>3, <1>4 DEF NotifyTurn, Owner
  <1>6. Owner(i) \in Conns /\ Owner(i) \in Gamers /\ Seat(Owner(i))
        /\ sock[Owner(i)] = "open" /\ Owner(i) # NoConn
    BY <1>2, SeatsAreLive
  <1>7. Goto(c, "Recv")
    BY <1>5, <1>6, LiveSend
  <1>8. Calm' /\ up' = up /\ online' = online /\ Stands(c, "away")
    BY <1>1, <1>7, HandlerGoes DEF GameLabels
  <1>9. PICK e \in Conns : e = Owner(i)
    BY <1>6
  <1>10. mood'[e] = "turn" /\ \A d \in Conns \ {e} : mood'[d] = mood[d]
    BY <1>5, <1>9 DEF Tell, Tame
  <1>11. QED
    BY <1>1, <1>2, <1>3, <1>6, <1>8, <1>9, <1>10, TurnStep

\* The result goes to both players, and the window opens: until the seats are cleared
\* nobody but c holds the game.
LEMMA AnnounceKeeps ==
  ASSUME Tame, TypeOK, RegInv, GameTypeOK, Calm, Manners, up, NEW c \in Conns, Announce(c)
  PROVE  Calm' /\ Manners'
  <1>1. pc[c] = "P7" /\ UNCHANGED chatRest /\ UNCHANGED <<ttt, players, viewers, checked, stray>>
    BY DEF Announce, At
  <1>2. /\ Holds(c) /\ c \in Gamers /\ Seat(c) /\ OnTurn(c) /\ mood[c] = "waiting" /\ ~Window
        /\ place[c] = "P7" /\ Len(players) = 2 /\ Loop(c) = "Recv"
    BY <1>1, HolderFacts DEF MoveLabels
  <1>3. ttt # NoGame /\ Finished(ttt)
    BY <1>2 DEF OnTurn, Away
  <1> DEFINE both == {Owner(1), Owner(2)}
  <1>4. Clients({ttt.player_1.name, ttt.player_2.name}) = both /\ Clients(viewers) = {}
    BY <1>3 DEF Clients, Owner, Manners, Seated, Safe
  <1>5. Send(c, both, "P10") /\ Tell(both, "idle")
    <2>1. Send(c, both \cup {}, "P10") /\ Tell(both, "idle")
      BY <1>3, <1>4 DEF Announce
    <2>2. both \cup {} = both
      OBVIOUS
    <2>3. QED
      BY <2>1, <2>2
  <1>6. /\ \A d \in both : d \in Conns /\ d \in Gamers /\ d # NoConn /\ sock[d] = "open"
        /\ \A d \in Conns : Seat(d) <=> d \in both
    BY <1>2, SeatsAreLive
  <1>7. Goto(c, "P10")
    BY <1>5, <1>6, LiveSend
  <1>8. Calm' /\ up' = up /\ online' = online /\ Stands(c, "P10")
    BY <1>1, <1>7, HandlerGoes DEF GameLabels
  <1>9. \A d \in Conns : mood'[d] = IF Seat(d) THEN "idle" ELSE mood[d]
    BY <1>5, <1>6 DEF Tell, Tame
  <1>10. \A i : Owner(i)' = Owner(i)
    BY <1>1, <1>8 DEF Owner
  <1>11. \A d \in Conns : Seat(d)' = Seat(d)
    BY <1>1, <1>10 DEF Seat
  <1>12. Window'
    BY <1>8 DEF Window, Stands
  <1>13. \A d \in Conns \ {c} : ~Holds(d)'
    <2>1. \A d \in Conns \ {c} : ~Holds(d)
      BY <1>2 DEF Manners, OneHolds
    <2>2. QED
      BY <1>8, <1>9, <2>1 DEF Holds, Stands
  <1>14. Stages'
    <2>1. ASSUME NEW d \in Conns \ {c} PROVE Stage(d)'
      <3>1. /\ d \notin Gamers => mood[d] = "idle" /\ Away(d)
            /\ d \in Gamers /\ ~Seat(d) => Free(d) \/ Joining(d)
            /\ d \in Gamers /\ Seat(d) => Patient(d)
        BY <1>2, Bystander DEF Manners
      <3>2. place'[d] = place[d] /\ (Seat(d)' <=> Seat(d))
        BY <1>8, <1>11 DEF Stands
      <3>3. d \in Gamers /\ Seat(d) => Over(d)'
        BY <1>9, <3>1, <3>2 DEF Patient, Over, Away
      <3>4. d \in Gamers /\ ~Seat(d) => Free(d)' \/ Joining(d)'
        BY <1>1, <1>9, <3>1, <3>2 DEF Free, Joining
      <3>5. d \notin Gamers => mood'[d] = "idle" /\ Away(d)'
        BY <1>9, <3>1, <3>2 DEF Away
      <3>6. QED
        BY <1>12, <3>2, <3>3, <3>4, <3>5 DEF Stage
    <2>2. Leaving(c)'
      BY <1>1, <1>2, <1>3, <1>8, <1>9 DEF Leaving, Stands
    <2>3. Stage(c)'
      BY <1>2, <1>11, <1>12, <2>2 DEF Stage
    <2>4. QED
      BY <2>1, <2>3 DEF Stages
  <1>15. Seated'
    BY <1>1, <1>10 DEF Manners, Seated
  <1>16. OneHolds'
    BY <1>13 DEF OneHolds
  <1>17. Ruled'
    BY <1>1, <1>8 DEF Manners, Ruled, Judged, Stands
  <1>18. Safe'
    BY <1>1, <1>8 DEF Manners, Safe
  <1>19. QED
    BY <1>8, <1>14, <1>15, <1>16, <1>17, <1>18 DEF Manners

LEMMA DropKeeps ==
  ASSUME TypeOK, RegInv, GameTypeOK, Calm, Manners, up, NEW c \in Conns, DropGame(c)
  PROVE  Calm' /\ Manners'
  <1>1. /\ pc[c] = "P10" /\ UNCHANGED chatRest /\ UNCHANGED <<players, viewers, mood, stray>>
        /\ ttt' = NoGame
    BY DEF DropGame, At
  <1>2. Holds(c) /\ c \in Gamers /\ Seat(c) /\ Len(players) = 2 /\ Leaving(c) /\ Window
    BY <1>1, HolderFacts
  <1>3. Calm' /\ up' = up /\ online' = online /\ Stands(c, "R1")
    BY <1>1, HandlerGoes DEF DropGame, GameLabels
  <1>4. \A i : Owner(i)' = Owner(i)
    BY <1>1, <1>3 DEF Owner
  <1>5. \A d \in Conns : Seat(d)' = Seat(d)
    BY <1>1, <1>4 DEF Seat
  <1>6. Window'
    BY <1>3 DEF Window, Stands
  <1>7. Stages'
    <2>1. ASSUME NEW d \in Conns \ {c} PROVE Stage(d)'
      <3>1. /\ d \notin Gamers => mood[d] = "idle" /\ Away(d)
            /\ d \in Gamers /\ ~Seat(d) => Free(d) \/ Joining(d)
            /\ d \in Gamers /\ Seat(d) => Over(d)
        BY <1>2, Bystander DEF Manners
      <3>2. place'[d] = place[d] /\ mood'[d] = mood[d]
        BY <1>1, <1>3 DEF Stands
      <3>3. QED
        BY <1>1, <1>5, <1>6, <3>1, <3>2 DEF Stage, Free, Joining, Over, Away
    <2>2. Leaving(c)'
      BY <1>1, <1>2, <1>3 DEF Leaving, Stands
    <2>3. Stage(c)'
      BY <1>2, <1>5, <1>6, <2>2 DEF Stage
    <2>4. QED
      BY <2>1, <2>3 DEF Stages
  <1>8. OneHolds'
    <2>1. \A d \in Conns \ {c} : ~Holds(d)
      BY <1>2 DEF Manners, OneHolds
    <2>2. \A d \in Conns \ {c} : ~Holds(d)'
      BY <1>1, <1>3, <2>1 DEF Holds, Stands
    <2>3. QED
      BY <2>2 DEF OneHolds
  <1>9. Seated' /\ Ruled' /\ Safe'
    BY <1>1, <1>3, <1>4 DEF Manners, Seated, Ruled, Safe
  <1>10. QED
    BY <1>3, <1>7, <1>8, <1>9 DEF Manners

\* The seats are cleared: whoever was in the game may join the next one.
LEMMA ClearKeeps ==
  ASSUME TypeOK, RegInv, GameTypeOK, Calm, Manners, up, NEW c \in Conns, ClearPlayers(c)
  PROVE  Calm' /\ Manners'
  <1>1. /\ pc[c] = "R1" /\ UNCHANGED chatRest /\ UNCHANGED <<ttt, viewers, mood, stray>>
        /\ players' = <<>>
    BY DEF ClearPlayers, At
  <1>2. Holds(c) /\ c \in Gamers /\ Len(players) = 2 /\ Leaving(c) /\ Window /\ place[c] = "R1"
    BY <1>1, HolderFacts
  <1>3. ttt = NoGame /\ mood[c] = "idle"
    BY <1>2 DEF Leaving
  <1>4. Calm' /\ up' = up /\ online' = online /\ Stands(c, "R2")
    BY <1>1, HandlerGoes DEF ClearPlayers, GameLabels
  <1>5. Len(players') = 0 /\ \A d \in Conns : ~Seat(d)'
    BY <1>1 DEF Seat
  <1>6. \A d \in Conns \ {c} : ~Holds(d)
    BY <1>2 DEF Manners, OneHolds
  <1>7. Stages'
    <2>1. ASSUME NEW d \in Conns \ {c} PROVE Stage(d)'
      <3>1. /\ d \notin Gamers => mood[d] = "idle" /\ Away(d)
            /\ d \in Gamers /\ ~Seat(d) => Free(d) \/ Joining(d)
            /\ d \in Gamers /\ Seat(d) => Over(d)
        BY <1>2, Bystander DEF Manners
      <3>2. place'[d] = place[d] /\ mood'[d] = mood[d]
        BY <1>1, <1>4 DEF Stands
      <3>3. d \in Gamers => Free(d)' \/ Joining(d)'
        BY <1>2, <3>1, <3>2 DEF Free, Joining, Over, Away
      <3>4. QED
        BY <1>5, <3>1, <3>2, <3>3 DEF Stage, Away
    <2>2. Free(c)'
      BY <1>1, <1>3, <1>4 DEF Free, Stands
    <2>3. Stage(c)'
      BY <1>2, <1>5, <2>2 DEF Stage
    <2>4. QED
      BY <2>1, <2>3 DEF Stages
  <1>8. OneHolds'
    <2>1. \A d \in Conns : ~Holds(d)'
      BY <1>1, <1>3, <1>4, <1>6 DEF Holds, Stands, MoveLabels
    <2>2. QED
      BY <2>1 DEF OneHolds
  <1>9. Seated'
    <2>1. 1..0 = {}
      OBVIOUS
    <2>2. QED
      BY <1>1, <1>3, <1>5, <2>1 DEF Seated
  <1>10. Ruled' /\ Safe'
    BY <1>1, <1>3, <1>4 DEF Manners, Ruled, Safe
  <1>11. QED
    BY <1>4, <1>7, <1>8, <1>9, <1>10 DEF Manners

LEMMA ClearViewersKeeps ==
  ASSUME TypeOK, RegInv, GameTypeOK, Calm, Manners, up, NEW c \in Conns, ClearViewers(c)
  PROVE  Calm' /\ Manners'
  <1>1. /\ pc[c] = "R2" /\ pc[c] \in GameLabels /\ UNCHANGED chatRest /\ viewers' = {}
        /\ UNCHANGED <<ttt, players, mood, checked, stray>> /\ Goto(c, Loop(c))
    BY DEF ClearViewers, At, GameLabels
  <1>2. place[c] = "R2" /\ Loop(c) = "Recv"
    BY <1>1, HandlerFacts
  <1>3. Calm' /\ up' = up /\ online' = online /\ Stands(c, "away")
    BY <1>1, <1>2, HandlerGoes
  <1>4. c \in Gamers /\ ~Seat(c) /\ mood[c] = "idle"
    BY <1>2 DEF Manners, Stages, Stage, Free, Joining, Patient, Opening, OnTurn, Leaving,
                Over, Away, MoveLabels
  <1>5. place'[c] = "away" /\ ~Holds(c)'
    BY <1>1, <1>3, <1>4 DEF Holds, Stands, MoveLabels
  <1>6. Seat(c)' = Seat(c) => Stage(c)'
    BY <1>1, <1>4, <1>5 DEF Stage, Free
  <1>7. QED
    BY <1>1, <1>2, <1>3, <1>5, <1>6, LocalStep

\* Nobody has asked to view the board.
LEMMA NobodyViews ==
  ASSUME TypeOK, RegInv, Calm, Manners, NEW c \in Conns
  PROVE  ~ViewBoard(c) /\ ~AddViewer(c) /\ ~ShowBoard(c)
  <1>1. ASSUME pc[c] \in {"V", "V2", "V3"} PROVE FALSE
    <2>1. place[c] = pc[c]
      BY <1>1, HandlerFacts DEF GameLabels
    <2>2. QED
      BY <1>1, <2>1 DEF Manners, Stages, Stage, Free, Joining, Patient, Opening, OnTurn,
                        Leaving, Over, Away, MoveLabels
  <1>2. QED
    BY <1>1 DEF ViewBoard, AddViewer, ShowBoard, At

-------------------------------------------------------------------------------
(* The theorems.                                                               *)

PoliteInv == Calm /\ Manners

LEMMA PoliteInit == GameInit => PoliteInv
  <1> SUFFICES ASSUME GameInit PROVE PoliteInv
    OBVIOUS
  <1> USE DEF GameInit, Init
  <1>1. Calm
    BY DEF Calm, Quiet, Rest, CalmLabels
  <1>2. \A c \in Conns : place[c] = "away" /\ mood[c] = "idle"
    BY DEF place, Asks, GameLabels
  <1>3. Len(players) = 0 /\ 1..0 = {}
    OBVIOUS
  <1>4. \A c \in Conns : ~Seat(c) /\ ~Holds(c)
    BY <1>2, <1>3 DEF Seat, Holds, MoveLabels
  <1>5. Stages
    BY <1>2, <1>4 DEF Stages, Stage, Free, Away
  <1>6. Seated /\ OneHolds /\ Ruled /\ Safe
    BY <1>3, <1>4 DEF Seated, OneHolds, Ruled, Safe
  <1>7. QED
    BY <1>1, <1>5, <1>6 DEF PoliteInv, Manners

LEMMA PoliteStep ==
  ASSUME Tame, TypeOK, RegInv, GameTypeOK, ResetPending, PoliteInv, [GameNext]_vars
  PROVE  PoliteInv'
  <1>1. Calm /\ Manners /\ Steady
    BY DEF PoliteInv, Tame
  <1>2. ASSUME NEW c \in Conns, Arrive(c) \/ ChatHandle(c), UNCHANGED gameVars PROVE PoliteInv'
    <2>1. /\ Calm' /\ place' = place /\ (up' \/ MeetsUnfilled')
          /\ \A n \in Names : online[n] # NoConn => online'[n] = online[n]
      BY <1>1, <1>2, CalmArrival, CalmDispatch, CalmHandlers
    <2>2. QED
      BY <1>1, <1>2, <2>1, ChatKeepsManners DEF PoliteInv
  <1>3. ASSUME NEW c \in Conns, NEW r \in Requests, GameRecv(c, r) PROVE PoliteInv'
    BY <1>1, <1>3, RecvKeepsManners DEF PoliteInv
  <1>4. ASSUME NEW c \in Conns, GameHandle(c) PROVE PoliteInv'
    <2>1. up
      BY <1>4 DEF GameHandle, InitializeGame, FirstPlayer, SecondPlayer, CreateGame, OpenGame,
                  PlayGame, VerifyPlayerAndTurn, PlayMove, SendBoardState, VerifyWinner,
                  VerifyFull, Announce, NotifyTurn, DropGame, ClearPlayers, ClearViewers,
                  ViewBoard, AddViewer, ShowBoard, At
    <2>2. QED
      BY <1>1, <1>4, <2>1, InitializeKeeps, JoinKeeps, CreateKeeps, OpenKeeps, ProbeKeeps,
         MoveKeeps, LookKeeps, WinnerKeeps, NotifyKeeps, AnnounceKeeps, DropKeeps, ClearKeeps,
         ClearViewersKeeps, NobodyViews
      DEF GameHandle, PoliteInv
  <1>5. CASE UNCHANGED vars
    <2>1. place' = place /\ up' = up /\ online' = online /\ UNCHANGED gameVars
      BY <1>5 DEF vars, chatVars, registry, io, thread, place, Asks
    <2>2. Registered' = Registered /\ MeetsUnfilled' = MeetsUnfilled
      BY <1>5 DEF vars, chatVars, registry, thread, Registered, Made, MeetsUnfilled
    <2>3. Calm'
      BY <1>1, <1>5, <2>2 DEF vars, chatVars, accepting, registry, io, thread, Calm, Quiet
    <2>4. up' \/ MeetsUnfilled'
      BY <1>1, <2>1, <2>2 DEF Manners, Safe
    <2>5. QED
      BY <1>1, <2>1, <2>3, <2>4, ChatKeepsManners DEF PoliteInv
  <1>6. QED
    BY <1>1, <1>2, <1>3, <1>4, <1>5 DEF GameNext

\* The invariant of the game, for any number of clients of whom at most two play.
THEOREM PoliteInvariant == ASSUME Tame PROVE GameSpec => []PoliteInv
  <1>1. TypeOK /\ RegInv /\ GameTypeOK /\ ResetPending /\ PoliteInv /\ [GameNext]_vars => PoliteInv'
    BY PoliteStep
  <1>2. QED
    BY <1>1, PoliteInit, GameRegInv, GameTyping, ResetPendingTheorem, PTL DEF GameSpec

\* play_game dereferences ttt, and a receiver found in the registry, without a lock:
\* with clients that behave no null pointer is ever met, and every move lands in the game
\* it was checked for.
THEOREM PoliteIsSafeTheorem == ASSUME Tame PROVE GameSpec => []PoliteIsSafe
  <1>1. PoliteInv => PoliteIsSafe
    BY DEF PoliteInv, Manners, Safe, PoliteIsSafe
  <1>2. QED
    BY <1>1, PoliteInvariant, PTL

\* reinitialize_game is called for a game that is over.
THEOREM DropsOnlyFinishedTheorem == ASSUME Tame PROVE GameSpec => []DropsOnlyFinished
  <1>1. TypeOK /\ RegInv /\ GameTypeOK /\ PoliteInv => DropsOnlyFinished
    BY HolderFacts DEF PoliteInv, DropsOnlyFinished, Somewhere, Leaving
  <1>2. QED
    BY <1>1, PoliteInvariant, GameRegInv, GameTyping, PTL

\* The winner verify_winner records, from the first line it finds, is the player who has
\* just moved.
THEOREM WinnerMovedLastTheorem == ASSUME Tame PROVE GameSpec => []WinnerMovedLast
  <1>1. PoliteInv => WinnerMovedLast
    BY DEF PoliteInv, Manners, Ruled, Judged, WinnerMovedLast
  <1>2. QED
    BY <1>1, PoliteInvariant, PTL
===============================================================================
