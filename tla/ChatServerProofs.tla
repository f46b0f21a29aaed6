--------------------------- MODULE ChatServerProofs ---------------------------
(* Proofs about ChatServer: type correctness, and the agreement between the   *)
(* registry and the threads for any number of connections and nicknames.      *)
EXTENDS ChatServer, TLAPS

LEMMA TypeInit == Init => TypeOK
  <1> SUFFICES ASSUME Init PROVE TypeOK
    OBVIOUS
  <1>1. /\ up \in BOOLEAN /\ meddled \in BOOLEAN
        /\ greeting \in Conns \cup {NoConn} /\ seen \in SUBSET Names
    BY DEF Init
  <1>2. online \in [Names -> Conns \cup {NoConn}] /\ nick \in [Conns -> Names]
    BY ChatAssumption DEF Init
  <1>3. /\ sock \in [Conns -> {"none", "open", "gone", "closed"}]
        /\ disc \in [Conns -> BOOLEAN]
    BY DEF Init
  <1>4. stream \in [Conns -> [kind : Kinds \cup Residues, name : Names, pos : 0..9]]
    BY ChatAssumption DEF Init, Rest, Residues
  <1>5. pc \in [Conns -> Labels]
    BY DEF Init, Labels
  <1>6. frame \in [Conns -> Frames]
    BY ChatAssumption DEF Init, NoFrame, Frames
  <1>7. QED
    BY <1>1, <1>2, <1>3, <1>4, <1>5, <1>6 DEF TypeOK

(* What the ways to move a thread do to the variables they set.               *)
ThreadOK == /\ up \in BOOLEAN
            /\ pc \in [Conns -> Labels]
            /\ frame \in [Conns -> Frames]

LEMMA GotoType ==
  ASSUME ThreadOK, NEW c \in Conns, NEW l \in Labels, Goto(c, l)
  PROVE  ThreadOK'
  BY ChatAssumption DEF ThreadOK, Goto, Enter, NoFrame, Frames

LEMMA EnterType ==
  ASSUME ThreadOK, NEW c \in Conns, NEW l \in Labels, NEW f \in Frames,
         Enter(c, l, f)
  PROVE  ThreadOK'
  BY DEF ThreadOK, Enter

LEMMA CrashType == ASSUME ThreadOK, Crash PROVE ThreadOK'
  BY DEF ThreadOK, Crash

LEMMA SendType ==
  ASSUME ThreadOK, NEW c \in Conns, NEW ds, NEW l \in Labels, Send(c, ds, l)
  PROVE  ThreadOK'
  BY GotoType, CrashType DEF Send, Labels

LEMMA LoopType == ASSUME NEW c \in Conns PROVE Loop(c) \in Labels
  BY DEF Loop, Labels

LEMMA FrameType ==
  ASSUME NEW f \in Frames, NEW n \in Names, NEW p \in 0..9, NEW d \in Conns
  PROVE  /\ NoFrame \in Frames
         /\ [NoFrame EXCEPT !.name = n, !.pos = p] \in Frames
         /\ [f EXCEPT !.cli = d] \in Frames
         /\ [f EXCEPT !.at = n] \in Frames
  <1>1. NoFrame \in Frames
    BY ChatAssumption DEF NoFrame, Frames
  <1>2. [NoFrame EXCEPT !.name = n, !.pos = p] \in Frames
    BY <1>1 DEF Frames
  <1>3. [f EXCEPT !.cli = d] \in Frames
    BY DEF Frames
  <1>4. [f EXCEPT !.at = n] \in Frames
    BY DEF Frames
  <1>5. QED
    BY <1>1, <1>2, <1>3, <1>4

\* Whatever processing takes a stream for is a request, or nothing.
LEMMA PickedType ==
  ASSUME NEW s \in [kind : Kinds \cup Residues, name : Names, pos : 0..9],
         NEW r \in Picked(s)
  PROVE  r.kind \in Kinds \cup {"none"} /\ r.name \in Names /\ r.pos \in 0..9
  <1>1. CASE s.kind = "left"
    BY <1>1, ChatAssumption DEF Picked, Rest, RequestType
  <1>2. CASE s.kind \in Residues \ {"left"}
    BY <1>2, ChatAssumption DEF Picked, Rest
  <1>3. CASE s.kind \notin Residues
    BY <1>3 DEF Picked, Residues
  <1>4. QED
    BY <1>1, <1>2, <1>3

\* Every step keeps the types.  One step per action of Next.
LEMMA TypeStep == TypeOK /\ [Next]_chatVars => TypeOK'
  <1> SUFFICES ASSUME TypeOK, [Next]_chatVars PROVE TypeOK'
    OBVIOUS
  <1> USE DEF accepting, registry, io, thread
  <1>t. ThreadOK
    BY DEF TypeOK, ThreadOK
  <1>l. ASSUME NEW c \in Conns PROVE Loop(c) \in Labels /\ Me(c) \in Conns \cup {NoConn}
    BY <1>l, LoopType DEF TypeOK, Me
  <1>1. ASSUME NEW c \in Conns, Arrive(c) PROVE TypeOK'
    <2>1. CASE Accept(c)
      <3>1. Registered \in SUBSET Names
        BY DEF Registered, Made, TypeOK, Frames
      <3>2. QED
        BY <2>1, <3>1 DEF Accept, TypeOK
    <2>2. CASE RegisterEmpty(c)
      <3>1. ThreadOK'
        BY <2>2, <1>t, GotoType DEF RegisterEmpty, Labels
      <3>2. QED
        BY <2>2, <3>1, ChatAssumption DEF RegisterEmpty, Insert, TypeOK, ThreadOK
    <2>s. CASE StartThread(c)
      <3>1. ThreadOK'
        BY <2>s, <1>t, GotoType DEF StartThread, Labels
      <3>2. QED
        BY <2>s, <3>1, ChatAssumption DEF StartThread, TypeOK, ThreadOK
    <2>3. CASE RecvEnd(c)
      <3>1. ThreadOK'
        BY <2>3, <1>t, GotoType DEF RecvEnd, Labels
      <3>2. QED
        BY <2>3, <3>1 DEF RecvEnd, TypeOK, ThreadOK
    <2>4. ASSUME NEW n \in Names, Register(c, n) PROVE TypeOK'
      <3>1. ThreadOK'
        BY <2>4, <1>t, GotoType DEF Register, Labels
      <3>2. QED
        BY <2>4, <3>1 DEF Register, Insert, TypeOK, ThreadOK
    <2>5. QED
      BY <1>1, <2>1, <2>2, <2>s, <2>3, <2>4 DEF Arrive
  <1>2. ASSUME NEW c \in Conns, Disturb(c) PROVE TypeOK'
    <2>1. CASE Leave(c)
      BY <2>1 DEF Leave, TypeOK
    <2>2. CASE RecvFail(c)
      <3>1. ThreadOK'
        BY <2>2, <1>t, GotoType DEF RecvFail, Labels
      <3>2. QED
        BY <2>2, <3>1 DEF RecvFail, TypeOK, ThreadOK
    <2>3. QED
      BY <1>2, <2>1, <2>2 DEF Disturb
  <1>3. ASSUME NEW c \in Conns, NEW r \in Requests, Recv(c, r) PROVE TypeOK'
    <2>1. ThreadOK'
      BY <1>3, <1>t, GotoType DEF Recv, Labels
    <2>2. r \in [kind : Kinds \cup Residues, name : Names, pos : 0..9]
      BY ChatAssumption DEF RequestType
    <2>3. QED
      BY <1>3, <2>1, <2>2 DEF Recv, TypeOK, ThreadOK
  <1>4. ASSUME NEW c \in Conns, Dispatch(c) PROVE TypeOK'
    <2>1. CASE Me(c) = NoConn
      <3>1. ThreadOK'
        BY <1>4, <2>1, <1>t, CrashType DEF Dispatch
      <3>2. QED
        BY <1>4, <2>1, <3>1 DEF Dispatch, TypeOK, ThreadOK
    <2>2. CASE Me(c) # NoConn
      <3> DEFINE s == stream[Me(c)]
      <3>1. s \in [kind : Kinds \cup Residues, name : Names, pos : 0..9]
        BY <2>2, <1>l DEF TypeOK
      <3>2. PICK k \in Residue(s.kind) : stream' = [stream EXCEPT ![Me(c)] = Rest(k)]
        BY <1>4, <2>2 DEF Dispatch
      <3>3. Rest(k) \in [kind : Kinds \cup Residues, name : Names, pos : 0..9]
        <4>1. k \in Residues
          BY DEF Residue, Residues
        <4>2. QED
          BY <4>1, ChatAssumption DEF Rest
      <3>4. CASE Crash
        <4>1. ThreadOK'
          BY <3>4, <1>t, CrashType
        <4>2. QED
          BY <1>4, <3>2, <3>3, <4>1 DEF Dispatch, TypeOK, ThreadOK
      <3>5. CASE ~Crash
        <4>1. PICK r \in Picked(s) :
                IF r.kind = "none"
                  THEN Goto(c, Loop(c))
                  ELSE Enter(c, r.kind, [NoFrame EXCEPT !.name = r.name, !.pos = r.pos])
          BY <1>4, <2>2, <3>5 DEF Dispatch
        <4>2. r.kind \in Kinds \cup {"none"} /\ r.name \in Names /\ r.pos \in 0..9
          BY <3>1, PickedType
        <4>3. CASE r.kind = "none"
          BY <1>4, <3>2, <3>3, <4>1, <4>3, <1>t, <1>l, GotoType DEF Dispatch, TypeOK, ThreadOK
        <4>4. CASE r.kind # "none"
          <5>1. [NoFrame EXCEPT !.name = r.name, !.pos = r.pos] \in Frames
            BY <4>2, ChatAssumption DEF NoFrame, Frames
          <5>2. r.kind \in Labels
            BY <4>2, <4>4 DEF Labels
          <5>3. ThreadOK'
            BY <4>1, <4>4, <5>1, <5>2, <1>t, EnterType
          <5>4. QED
            BY <1>4, <3>2, <3>3, <5>3 DEF Dispatch, TypeOK, ThreadOK
        <4>5. QED
          BY <4>3, <4>4
      <3>6. QED
        BY <3>4, <3>5
    <2>3. QED
      BY <2>1, <2>2
  <1>5. ASSUME NEW c \in Conns, ChangeNickname(c) PROVE TypeOK'
    <2>1. ThreadOK'
      <3>1. CASE Send(c, {Me(c)}, Loop(c))
        BY <3>1, <1>t, <1>l, SendType
      <3>2. CASE Me(c) # NoConn /\ Enter(c, "N2", [frame[c] EXCEPT !.cli = Me(c)])
        <4>1. [frame[c] EXCEPT !.cli = Me(c)] \in Frames
          BY <3>2, <1>l DEF TypeOK, Frames
        <4>2. QED
          BY <3>2, <4>1, <1>t, EnterType DEF Labels
      <3>3. QED
        BY <1>5, <3>1, <3>2 DEF ChangeNickname
    <2>2. QED
      BY <1>5, <2>1 DEF ChangeNickname, TypeOK, ThreadOK
  <1>6. ASSUME NEW c \in Conns, EraseOldName(c) PROVE TypeOK'
    <2>1. ThreadOK'
      BY <1>6, <1>t, GotoType DEF EraseOldName, Labels
    <2>2. QED
      BY <1>6, <2>1 DEF EraseOldName, TypeOK, ThreadOK
  <1>7. ASSUME NEW c \in Conns, InsertNewName(c) PROVE TypeOK'
    <2>1. ThreadOK'
      BY <1>7, <1>t, GotoType DEF InsertNewName, Labels
    <2>2. QED
      BY <1>7, <2>1 DEF InsertNewName, Insert, TypeOK, ThreadOK
  <1>f. ASSUME NEW c \in Conns, FillNewName(c) PROVE TypeOK'
    <2>1. ThreadOK'
      BY <1>f, <1>t, GotoType DEF FillNewName, Labels
    <2>2. frame[c].cli \in Conns \cup {NoConn}
      BY DEF TypeOK, Frames
    <2>3. QED
      BY <1>f, <2>1, <2>2 DEF FillNewName, TypeOK, ThreadOK
  <1>8. ASSUME NEW c \in Conns, AssignNewName(c) PROVE TypeOK'
    <2>1. ThreadOK'
      BY <1>8, <1>t, <1>l, SendType DEF AssignNewName
    <2>2. frame[c].name \in Names
      BY DEF TypeOK, Frames
    <2>3. QED
      BY <1>8, <2>1, <2>2 DEF AssignNewName, TypeOK, ThreadOK
  <1>9. ASSUME NEW c \in Conns,
               SendToOne(c) \/ Forward(c) \/ SendFileConfirmation(c)
               \/ SendOnlineClients(c) \/ GetConfirmation(c)
        PROVE  TypeOK'
    <2>1. "M2" \in Labels
      BY DEF Labels
    <2>2. ThreadOK'
      BY <1>9, <2>1, <1>t, <1>l, SendType, GotoType, CrashType
      DEF SendToOne, Forward, SendFileConfirmation, SendOnlineClients, GetConfirmation
    <2>3. QED
      BY <1>9, <2>2
      DEF SendToOne, Forward, SendFileConfirmation, SendOnlineClients,
          GetConfirmation, TypeOK, ThreadOK
  <1>10. ASSUME NEW c \in Conns, SendToAll(c) PROVE TypeOK'
    <2>1. ThreadOK'
      <3>1. ASSUME NEW n \in NextName(-1), Enter(c, "W2", [frame[c] EXCEPT !.at = n])
            PROVE  ThreadOK'
        <4>1. [frame[c] EXCEPT !.at = n] \in Frames
          BY DEF TypeOK, Frames, NextName, Registered, Made
        <4>2. QED
          BY <3>1, <4>1, <1>t, EnterType DEF Labels
      <3>2. QED
        BY <1>10, <3>1, <1>t, CrashType DEF SendToAll
    <2>2. QED
      BY <1>10, <2>1 DEF SendToAll, TypeOK, ThreadOK
  <1>11. ASSUME NEW c \in Conns, RelayToNext(c) PROVE TypeOK'
    <2>1. ThreadOK'
      <3>1. ASSUME NEW n \in NextName(frame[c].at),
                   Enter(c, "W2", [frame[c] EXCEPT !.at = n])
            PROVE  ThreadOK'
        <4>1. [frame[c] EXCEPT !.at = n] \in Frames
          BY SMTT(60) DEF TypeOK, Frames, NextName, Registered, Made
        <4>2. QED
          BY <3>1, <4>1, <1>t, EnterType DEF Labels
      <3>2. "spin" \in Labels
        BY DEF Labels
      <3>3. QED
        BY <1>11, <3>1, <3>2, <1>t, <1>l, CrashType, GotoType DEF RelayToNext
    <2>2. QED
      BY <1>11, <2>1 DEF RelayToNext, TypeOK, ThreadOK
  <1>12. ASSUME NEW c \in Conns, Quit(c) PROVE TypeOK'
    <2>1. ThreadOK'
      BY <1>12, <1>t, GotoType, CrashType DEF Quit, Labels
    <2>2. QED
      BY <1>12, <2>1, <1>l DEF Quit, TypeOK, ThreadOK
  <1>13. ASSUME NEW c \in Conns, QuitShut(c) \/ KillShut(c) PROVE TypeOK'
    <2>1. ThreadOK'
      BY <1>13, <1>t, GotoType, CrashType DEF QuitShut, KillShut, Shut, Labels
    <2>2. QED
      BY <1>13, <2>1, <1>l DEF QuitShut, KillShut, Shut, TypeOK, ThreadOK
  <1>14. ASSUME NEW c \in Conns, QuitErase(c) \/ KillErase(c) PROVE TypeOK'
    <2>1. "end" \in Labels
      BY DEF Labels
    <2>2. ThreadOK'
      BY <1>14, <2>1, <1>t, <1>l, GotoType DEF QuitErase, KillErase, EraseEntry
    <2>3. QED
      BY <1>14, <2>2 DEF QuitErase, KillErase, EraseEntry, TypeOK, ThreadOK
  <1>15. ASSUME NEW c \in Conns, GameStep(c) PROVE TypeOK'
    <2>1. GameLabels \cup {Loop(c), "spin"} \subseteq Labels
      BY <1>l DEF Labels
    <2>2. {frame[c], NoFrame} \subseteq Frames
      BY ChatAssumption DEF NoFrame, Frames, TypeOK
    <2>3. ThreadOK'
      BY <1>15, <2>1, <2>2, <1>t, EnterType, CrashType DEF GameStep
    <2>4. QED
      BY <1>15, <2>3 DEF GameStep, TypeOK, ThreadOK
  <1>16. CASE UNCHANGED chatVars
    BY <1>16 DEF chatVars, TypeOK
  <1>17. QED
    BY <1>1, <1>2, <1>3, <1>4, <1>5, <1>6, <1>7, <1>f, <1>8, <1>9, <1>10, <1>11, <1>12,
       <1>13, <1>14, <1>15, <1>16
    DEF Next, Handle, ChatHandle

\* Every variable always holds a value of its type.
THEOREM Typing == Spec => []TypeOK
  BY TypeInit, TypeStep, PTL DEF Spec

-------------------------------------------------------------------------------
(* The invariant behind RegistryAgrees and ClosedWindow.  RegistryAgrees alone *)
(* is not inductive: a rename must be known to carry its own client to its     *)
(* entry, Q must be known to end the loop, and the state of a socket must be   *)
(* tied to where its thread is.                                                *)

\* A connection has a thread only once it was greeted and has named itself.
Waiting ==
  /\ \A c \in Conns : sock[c] = "none" => pc[c] = "none"
  /\ \A c \in Conns : greeting = c => pc[c] \in {"none", "new"} /\ sock[c] # "none"

\* Where the threads of registered, renaming, quitting and closed clients are.
Served(c) == /\ pc[c] \notin {"none", "new", "N3", "N3a", "end"}
             /\ ~(pc[c] = "K" /\ sock[c] = "closed")

NameOf(c) == IF pc[c] = "N4" THEN frame[c].name ELSE nick[c]

Listed == \A c \in Conns : InRegistry(c) => online[nick[c]] = c

Filed == \A n \in Names : online[n] # NoConn =>
           Served(online[n]) /\ n = NameOf(online[n])

Renaming ==
  \A c \in Conns : /\ pc[c] \in {"N2", "N3", "N3a", "N4"} => frame[c].cli = c
                   /\ pc[c] = "N4" => online[frame[c].name] = c

Closing ==
  \A c \in Conns : /\ sock[c] = "closed" => pc[c] \in {"Q3", "K", "K2", "end"}
                   /\ pc[c] \in {"Q2", "Q3"} => disc[c]
                   /\ pc[c] = "Q3" => sock[c] = "closed"

\* An entry that is not filled yet is the claim of one client only.
Claims(c) == pc[c] \in {"new", "N3a"}
Claim(c)  == IF pc[c] = "new" THEN nick[c] ELSE frame[c].name

Claiming ==
  \A c \in Conns : Claims(c) =>
    /\ online[Claim(c)] = NoConn
    /\ \A d \in Conns : Claims(d) /\ Claim(d) = Claim(c) => d = c

Aligned == Listed /\ Filed /\ Renaming /\ Closing /\ Claiming

RegInv == Waiting /\ (~meddled => Aligned)

LEMMA RegInit == Init => RegInv
  BY ChatAssumption
  DEF Init, RegInv, Waiting, Aligned, Listed, Filed, Renaming, Closing, Claiming, Claims,
      InRegistry, Served, NoFrame

\* The conjuncts of RegInv, to expand together.
USE DEF Waiting, Listed, Filed, Renaming, Closing, Claiming, Claims, Claim, InRegistry,
        Served, NameOf

Ordinary == Labels \ {"none", "new", "N2", "N3", "N3a", "N4", "Q2", "Q3", "K", "K2", "end",
                      "spin"}

\* A name without an entry is nobody's claim.
LEMMA Unclaimed ==
  ASSUME NEW n \in Names, n \notin Registered
  PROVE  online[n] = NoConn /\ \A c \in Conns : Claims(c) => Claim(c) # n
  BY DEF Registered, Made

\* A step of a thread that is neither renaming nor leaving, and that does not
\* begin to, keeps RegInv when it leaves the registry and the sockets alone.
LEMMA PlainStep ==
  ASSUME TypeOK, RegInv, NEW c \in Conns, pc[c] \in Ordinary,
         UNCHANGED <<greeting, online, nick, meddled, sock>>,
         \A d \in Conns : disc[d] => disc'[d],
         \/ UNCHANGED <<pc, frame>>
         \/ /\ \E l \in Ordinary \cup {"K", "spin"} : pc' = [pc EXCEPT ![c] = l]
            /\ \A d \in Conns \ {c} : frame'[d] = frame[d]
  PROVE  RegInv'
  <1>1. CASE UNCHANGED <<pc, frame>>
    BY <1>1 DEF RegInv, Aligned, TypeOK
  <1>2. ASSUME NEW l \in Ordinary \cup {"K", "spin"}, pc' = [pc EXCEPT ![c] = l],
               \A d \in Conns \ {c} : frame'[d] = frame[d]
        PROVE  RegInv'
    <2>1. /\ pc[c] \notin {"none", "new", "N2", "N3", "N3a", "N4", "Q2", "Q3", "K", "K2",
                         "end", "spin"}
          /\ l \notin {"none", "new", "N2", "N3", "N3a", "N4", "Q2", "Q3", "K2", "end"}
          /\ pc'[c] = l /\ \A d \in Conns \ {c} : pc'[d] = pc[d]
      BY <1>2 DEF Ordinary, TypeOK
    <2>2. Waiting'
      BY <2>1 DEF RegInv
    <2>3. ASSUME ~meddled' PROVE Aligned'
      <3>1. Aligned
        BY <2>3 DEF RegInv
      <3>2. Listed'
        BY <2>1, <3>1 DEF Aligned
      <3>3. Filed'
        BY <2>1, <3>1, <1>2 DEF Aligned, TypeOK
      <3>4. Renaming' /\ Closing'
        BY <2>1, <3>1, <1>2 DEF Aligned, TypeOK
      <3>5. Claiming'
        BY <2>1, <3>1, <1>2 DEF Aligned, TypeOK
      <3>6. QED
        BY <3>2, <3>3, <3>4, <3>5 DEF Aligned
    <2>4. QED
      BY <2>2, <2>3 DEF RegInv
  <1>3. QED
    BY <1>1, <1>2

\* Where the ways to move a thread can lead.
Moved(c, ls) ==
  \/ UNCHANGED <<pc, frame>>
  \/ /\ \E l \in ls : pc' = [pc EXCEPT ![c] = l]
     /\ \A d \in Conns \ {c} : frame'[d] = frame[d]

LEMMA Moves ==
  ASSUME TypeOK, NEW c \in Conns, NEW ls
  PROVE  /\ Crash => Moved(c, ls)
         /\ \A l \in ls : Goto(c, l) => Moved(c, ls)
         /\ \A l \in ls : \A f : Enter(c, l, f) => Moved(c, ls)
         /\ \A l \in ls : \A ds : Send(c, ds, l) => Moved(c, ls \cup {"spin"})
  <1>1. Crash => Moved(c, ls)
    BY DEF Crash, Moved
  <1>2. \A l \in ls : \A f : Enter(c, l, f) => Moved(c, ls)
    BY DEF Enter, Moved, TypeOK
  <1>3. \A l \in ls : Goto(c, l) => Moved(c, ls)
    BY <1>2 DEF Goto
  <1>4. \A l \in ls : \A ds : Send(c, ds, l) => Moved(c, ls \cup {"spin"})
    <2>1. \A l \in ls \cup {"spin"} : \A f : Enter(c, l, f) => Moved(c, ls \cup {"spin"})
      BY DEF Enter, Moved, TypeOK
    <2>2. Crash => Moved(c, ls \cup {"spin"})
      BY DEF Crash, Moved
    <2>3. QED
      BY <2>1, <2>2 DEF Send, Goto
  <1>5. QED
    BY <1>1, <1>2, <1>3, <1>4

\* The handlers that keep to themselves as far as the registry goes, and the
\* steps to them.
LEMMA PlainHandlers ==
  ASSUME TypeOK, RegInv, NEW c \in Conns,
         \/ RecvEnd(c) \/ RecvFail(c) \/ \E r \in Requests : Recv(c, r)
         \/ Dispatch(c) \/ SendToOne(c) \/ Forward(c) \/ SendFileConfirmation(c)
         \/ SendToAll(c) \/ RelayToNext(c) \/ SendOnlineClients(c)
         \/ GetConfirmation(c) \/ GameStep(c)
  PROVE  RegInv'
  <1> USE DEF accepting, registry, io, thread
  <1> DEFINE Aims == Ordinary \cup {"K", "spin"}
  <1>1. Kinds \cup GameLabels \cup {"Recv", "Dispatch", "M2", "W2"} \subseteq Ordinary
    BY DEF Kinds, GameLabels, Labels, Ordinary
  <1>2. pc[c] \in Ordinary
    <2>1. pc[c] \in Kinds \cup GameLabels \cup {"Recv", "Dispatch", "M2", "W2"}
      BY DEF RecvEnd, RecvFail, Recv, Dispatch, SendToOne, Forward, SendFileConfirmation,
             SendToAll, RelayToNext, SendOnlineClients, GetConfirmation, GameStep, At,
             Kinds
    <2>2. QED
      BY <2>1, <1>1
  <1>3. Loop(c) \in Aims
    BY <1>1 DEF Loop
  <1>4. Moved(c, Aims)
    <2>0. /\ Crash => Moved(c, Aims)
          /\ \A l \in Aims : Goto(c, l) => Moved(c, Aims)
          /\ \A l \in Aims : \A f : Enter(c, l, f) => Moved(c, Aims)
          /\ \A l \in Aims : \A ds : Send(c, ds, l) => Moved(c, Aims)
      <3>1. Aims \cup {"spin"} = Aims
        OBVIOUS
      <3>2. QED
        BY ONLY TypeOK, c \in Conns, Moves, <3>1
    <2>1. CASE RecvEnd(c) \/ RecvFail(c) \/ \E r \in Requests : Recv(c, r)
      BY <2>0, <2>1, <1>1 DEF RecvEnd, RecvFail, Recv
    <2>2. CASE Dispatch(c)
      <3>1. CASE Me(c) = NoConn
        BY <2>2, <3>1, <2>0 DEF Dispatch
      <3>2. CASE Me(c) # NoConn
        <4> DEFINE s == stream[Me(c)]
        <4>1. s \in [kind : Kinds \cup Residues, name : Names, pos : 0..9]
          BY <3>2 DEF TypeOK, Me
        <4>2. CASE Crash
          BY <4>2, <2>0
        <4>3. CASE ~Crash
          <5>1. PICK r \in Picked(s) :
                  IF r.kind = "none"
                    THEN Goto(c, Loop(c))
                    ELSE Enter(c, r.kind, [NoFrame EXCEPT !.name = r.name, !.pos = r.pos])
            BY <2>2, <3>2, <4>3 DEF Dispatch
          <5>2. r.kind \in Kinds \cup {"none"}
            BY <4>1, PickedType
          <5>3. QED
            BY <5>1, <5>2, <2>0, <1>1, <1>3
        <4>4. QED
          BY <4>2, <4>3
      <3>3. QED
        BY <3>1, <3>2
    <2>3. CASE SendToOne(c) \/ Forward(c) \/ SendFileConfirmation(c)
               \/ SendOnlineClients(c) \/ GetConfirmation(c)
      BY <2>0, <2>3, <1>1, <1>3
      DEF SendToOne, Forward, SendFileConfirmation, SendOnlineClients, GetConfirmation
    <2>4. CASE SendToAll(c) \/ RelayToNext(c)
      BY <2>0, <2>4, <1>1, <1>3 DEF SendToAll, RelayToNext
    <2>5. CASE GameStep(c)
      BY <2>0, <2>5, <1>1, <1>3 DEF GameStep
    <2>6. QED
      BY <2>1, <2>2, <2>3, <2>4, <2>5
  <1>5. /\ UNCHANGED <<greeting, online, nick, meddled, sock>>
        /\ \A d \in Conns : disc[d] => disc'[d]
    BY DEF RecvEnd, RecvFail, Recv, Dispatch, SendToOne, Forward, SendFileConfirmation,
           SendToAll, RelayToNext, SendOnlineClients, GetConfirmation, GameStep, TypeOK
  <1>6. QED
    BY <1>2, <1>4, <1>5, PlainStep DEF Moved

\* Connections come and go.
LEMMA ArrivalStep ==
  ASSUME TypeOK, RegInv, NEW c \in Conns,
         \/ Accept(c) \/ RegisterEmpty(c) \/ StartThread(c) \/ Leave(c)
         \/ \E n \in Names : Register(c, n)
  PROVE  RegInv'
  <1> USE DEF accepting, registry, io, thread
  <1>1. CASE Accept(c)
    <2>1. Waiting' /\ pc' = pc /\ frame' = frame
      BY <1>1 DEF Accept, RegInv, TypeOK
    <2>2. ASSUME Aligned PROVE Aligned'
      BY <1>1, <2>1, <2>2 DEF Accept, RegInv, Aligned, TypeOK
    <2>3. QED
      BY <1>1, <2>1, <2>2 DEF Accept, RegInv
  <1>2. CASE Leave(c)
    <2>1. Waiting' /\ pc' = pc /\ frame' = frame
      BY <1>2 DEF Leave, RegInv, TypeOK
    <2>2. ASSUME Aligned PROVE Aligned'
      BY <1>2, <2>1, <2>2 DEF Leave, RegInv, Aligned, TypeOK
    <2>3. QED
      BY <1>2, <2>1, <2>2 DEF Leave, RegInv
  <1>3. ASSUME NEW n \in Names, Insert(n), nick' = [nick EXCEPT ![c] = n],
               pc[c] = "none", sock[c] \in {"open", "gone"},
               Goto(c, "new"), UNCHANGED <<accepting, online, io>>
        PROVE  RegInv'
    <2>1. /\ pc' = [pc EXCEPT ![c] = "new"] /\ frame' = frame
      BY <1>3 DEF Goto, Enter, TypeOK
    <2>2. Waiting'
      BY <1>3, <2>1 DEF RegInv, TypeOK
    <2>3. ASSUME ~meddled' PROVE Aligned'
      <3>1. /\ Aligned /\ online[n] = NoConn
            /\ \A d \in Conns : Claims(d) => Claim(d) # n
        BY <1>3, <2>3, Unclaimed DEF Insert, RegInv
      <3>2. Listed'
        BY <1>3, <2>1, <3>1 DEF Aligned, TypeOK
      <3>3. Filed'
        BY <1>3, <2>1, <3>1 DEF Aligned, TypeOK
      <3>4. Renaming' /\ Closing'
        BY <1>3, <2>1, <3>1 DEF Aligned, TypeOK
      <3>5. Claiming'
        BY <1>3, <2>1, <3>1 DEF Aligned, TypeOK
      <3>6. QED
        BY <3>2, <3>3, <3>4, <3>5 DEF Aligned
    <2>4. QED
      BY <2>2, <2>3 DEF RegInv
  <1>4. CASE RegisterEmpty(c)
    BY <1>3, <1>4, ChatAssumption DEF RegisterEmpty, At
  <1>5. ASSUME NEW n \in Names, Register(c, n) PROVE RegInv'
    BY <1>3, <1>5 DEF Register, At
  <1>6. CASE StartThread(c)
    <2> DEFINE n == nick[c]
    <2>1. /\ pc[c] = "new" /\ pc' = [pc EXCEPT ![c] = "Recv"]
          /\ \A d \in Conns \ {c} : frame'[d] = frame[d]
          /\ online' = [online EXCEPT ![n] = c] /\ n \in Names
          /\ greeting' = NoConn /\ UNCHANGED <<nick, meddled, sock, disc>>
      BY <1>6 DEF StartThread, At, Goto, Enter, TypeOK
    <2>2. Waiting'
      BY <2>1, ChatAssumption DEF RegInv, TypeOK
    <2>3. ASSUME ~meddled' PROVE Aligned'
      <3>1. Aligned /\ online[n] = NoConn /\ sock[c] # "closed"
        BY <2>1, <2>3 DEF RegInv, Aligned
      <3>2. Listed'
        BY <2>1, <3>1, ChatAssumption DEF Aligned, TypeOK
      <3>3. Filed'
        BY <2>1, <3>1 DEF Aligned, TypeOK
      <3>4. Renaming'
        BY <2>1, <3>1, ChatAssumption DEF Aligned, TypeOK
      <3>5. Closing'
        BY <2>1, <3>1 DEF Aligned, TypeOK
      <3>6. Claiming'
        BY <2>1, <3>1 DEF Aligned, TypeOK
      <3>7. QED
        BY <3>2, <3>3, <3>4, <3>5, <3>6 DEF Aligned
    <2>4. QED
      BY <2>2, <2>3 DEF RegInv
  <1>7. QED
    BY <1>1, <1>2, <1>4, <1>5, <1>6

\* The steps of change_nickname.
LEMMA RenameStep ==
  ASSUME TypeOK, RegInv, NEW c \in Conns,
         ChangeNickname(c) \/ EraseOldName(c) \/ InsertNewName(c) \/ FillNewName(c)
         \/ AssignNewName(c)
  PROVE  RegInv'
  <1> USE DEF accepting, registry, io, thread
  <1>1. CASE ChangeNickname(c)
    <2>1. pc[c] = "N" /\ UNCHANGED <<greeting, online, nick, meddled, sock, disc>>
      BY <1>1 DEF ChangeNickname, At
    <2>2. CASE Send(c, {Me(c)}, Loop(c))
      <3>1. Moved(c, {Loop(c), "spin"})
        BY <2>2, Moves, {Loop(c)} \cup {"spin"} = {Loop(c), "spin"}
      <3>2. "N" \in Ordinary /\ Loop(c) \in Ordinary \cup {"K", "spin"}
        BY DEF Kinds, Labels, Ordinary, Loop
      <3>3. QED
        BY <2>1, <3>1, <3>2, PlainStep DEF Moved
    <2>3. CASE Me(c) # NoConn /\ Enter(c, "N2", [frame[c] EXCEPT !.cli = Me(c)])
      <3>1. /\ pc' = [pc EXCEPT ![c] = "N2"]
            /\ frame'[c] = [frame[c] EXCEPT !.cli = Me(c)]
            /\ \A d \in Conns \ {c} : frame'[d] = frame[d]
        BY <2>3 DEF Enter, TypeOK
      <3>2. Waiting'
        BY <2>1, <3>1 DEF RegInv, TypeOK
      <3>3. ASSUME ~meddled' PROVE Aligned'
        <4>1. Aligned /\ Me(c) = c
          BY <2>1, <3>3 DEF RegInv, Aligned, Me
        <4>2. frame'[c].cli = c
          BY <3>1, <4>1 DEF TypeOK, Frames
        <4>3. Listed' /\ Filed'
          BY <2>1, <3>1, <4>1 DEF Aligned, TypeOK
        <4>4. Renaming'
          <5>1. ASSUME NEW d \in Conns \ {c}
                PROVE  UNCHANGED <<pc[d], frame[d]>> /\ online' = online
            BY <2>1, <3>1 DEF TypeOK
          <5>2. pc'[c] = "N2"
            BY <3>1 DEF TypeOK
          <5>3. QED
            BY <4>1, <4>2, <5>1, <5>2 DEF Aligned
        <4>5. Closing' /\ Claiming'
          BY <2>1, <3>1, <4>1 DEF Aligned, TypeOK
        <4>6. QED
          BY <4>3, <4>4, <4>5 DEF Aligned
      <3>4. QED
        BY <3>2, <3>3 DEF RegInv
    <2>4. QED
      BY <1>1, <2>2, <2>3 DEF ChangeNickname
  <1>2. CASE EraseOldName(c)
    <2>1. /\ pc[c] = "N2" /\ pc' = [pc EXCEPT ![c] = "N3"] /\ frame' = frame
          /\ online' = [online EXCEPT ![nick[c]] = NoConn]
          /\ UNCHANGED <<greeting, nick, meddled, sock, disc>>
      BY <1>2 DEF EraseOldName, At, Goto, Enter, TypeOK
    <2>2. Waiting'
      BY <2>1 DEF RegInv, TypeOK
    <2>3. ASSUME ~meddled' PROVE Aligned'
      <3>1. Aligned
        BY <2>1, <2>3 DEF RegInv
      <3>2. Listed'
        BY <2>1, <3>1 DEF Aligned, TypeOK
      <3>3. Filed'
        BY <2>1, <3>1 DEF Aligned, TypeOK
      <3>4. Renaming' /\ Closing'
        BY <2>1, <3>1, ChatAssumption DEF Aligned, TypeOK
      <3>5. Claiming'
        BY <2>1, <3>1 DEF Aligned, TypeOK
      <3>6. QED
        BY <3>2, <3>3, <3>4, <3>5 DEF Aligned
    <2>4. QED
      BY <2>2, <2>3 DEF RegInv
  <1>3. CASE InsertNewName(c)
    <2> DEFINE n == frame[c].name
    <2>1. /\ pc[c] = "N3" /\ pc' = [pc EXCEPT ![c] = "N3a"] /\ frame' = frame
          /\ Insert(n) /\ n \in Names
          /\ UNCHANGED <<greeting, online, nick, sock, disc>>
      BY <1>3 DEF InsertNewName, At, Goto, Enter, TypeOK, Frames
    <2>2. Waiting'
      BY <2>1 DEF RegInv, TypeOK
    <2>3. ASSUME ~meddled' PROVE Aligned'
      <3>1. /\ Aligned /\ online[n] = NoConn
            /\ \A d \in Conns : Claims(d) => Claim(d) # n
        BY <2>1, <2>3, Unclaimed DEF Insert, RegInv
      <3>2. Listed' /\ Filed'
        BY <2>1, <3>1 DEF Aligned, TypeOK
      <3>3. Renaming' /\ Closing'
        BY <2>1, <3>1 DEF Aligned, TypeOK
      <3>4. Claiming'
        BY <2>1, <3>1 DEF Aligned, TypeOK
      <3>5. QED
        BY <3>2, <3>3, <3>4 DEF Aligned
    <2>4. QED
      BY <2>2, <2>3 DEF RegInv
  <1>f. CASE FillNewName(c)
    <2> DEFINE n == frame[c].name
    <2>1. /\ pc[c] = "N3a" /\ pc' = [pc EXCEPT ![c] = "N4"] /\ frame' = frame
          /\ online' = [online EXCEPT ![n] = frame[c].cli] /\ n \in Names
          /\ UNCHANGED <<greeting, nick, meddled, sock, disc>>
      BY <1>f DEF FillNewName, At, Goto, Enter, TypeOK, Frames
    <2>2. Waiting'
      BY <2>1 DEF RegInv, TypeOK
    <2>3. ASSUME ~meddled' PROVE Aligned'
      <3>1. /\ Aligned /\ online[n] = NoConn
            /\ online' = [online EXCEPT ![n] = c]
        BY <2>1, <2>3 DEF RegInv, Aligned
      <3>2. Listed'
        BY <2>1, <3>1, ChatAssumption DEF Aligned, TypeOK
      <3>3. Filed'
        BY <2>1, <3>1 DEF Aligned, TypeOK
      <3>4. Renaming' /\ Closing'
        BY <2>1, <3>1, ChatAssumption DEF Aligned, TypeOK
      <3>5. Claiming'
        BY <2>1, <3>1 DEF Aligned, TypeOK
      <3>6. QED
        BY <3>2, <3>3, <3>4, <3>5 DEF Aligned
    <2>4. QED
      BY <2>2, <2>3 DEF RegInv
  <1>4. CASE AssignNewName(c)
    <2> DEFINE n == frame[c].name
    <2>1. /\ pc[c] = "N4" /\ nick' = [nick EXCEPT ![frame[c].cli] = n] /\ n \in Names
          /\ UNCHANGED <<greeting, online, meddled, sock, disc>>
      BY <1>4 DEF AssignNewName, At, TypeOK, Frames
    <2>2. /\ \A d \in Conns \ {c} : frame'[d] = frame[d]
          /\ \/ pc' = pc /\ frame' = frame
             \/ \E l \in {"Recv", "K", "spin"} : pc' = [pc EXCEPT ![c] = l]
      <3>1. Moved(c, {Loop(c)} \cup {"spin"})
        BY <1>4, Moves DEF AssignNewName
      <3>2. {Loop(c)} \cup {"spin"} \subseteq {"Recv", "K", "spin"}
        BY DEF Loop
      <3>3. QED
        BY <3>1, <3>2 DEF Moved
    <2>3. Waiting'
      BY <2>1, <2>2 DEF RegInv, TypeOK
    <2>4. ASSUME ~meddled' PROVE Aligned'
      <3>1. /\ Aligned /\ online[n] = c /\ sock[c] # "closed"
            /\ nick' = [nick EXCEPT ![c] = n]
        BY <2>1, <2>4 DEF RegInv, Aligned
      <3>2. Listed'
        BY <2>1, <2>2, <3>1 DEF Aligned, TypeOK
      <3>3. Filed'
        <4>1. \A m \in Names : online[m] = c => m = n
          BY <2>1, <3>1, ChatAssumption DEF Aligned
        <4>2. ASSUME NEW m \in Names, online[m] = c
              PROVE  Served(c)' /\ m = NameOf(c)'
          BY <2>1, <2>2, <3>1, <4>1, <4>2 DEF TypeOK
        <4>3. ASSUME NEW m \in Names, online[m] # c, online[m] # NoConn
              PROVE  Served(online[m])' /\ m = NameOf(online[m])'
          BY <2>1, <2>2, <3>1, <4>3 DEF TypeOK, Aligned
        <4>4. QED
          BY <2>1, <4>2, <4>3 DEF TypeOK
      <3>4. Renaming'
        <4>1. ASSUME NEW d \in Conns \ {c} PROVE pc'[d] = pc[d] /\ frame'[d] = frame[d]
          BY <2>2 DEF TypeOK
        <4>2. pc'[c] \in {"N4", "Recv", "K", "spin"} /\ (pc'[c] = "N4" => frame'[c] = frame[c])
          BY <2>1, <2>2 DEF TypeOK
        <4>3. QED
          BY <2>1, <3>1, <4>1, <4>2 DEF Aligned
      <3>5. Closing' /\ Claiming'
        BY <2>1, <2>2, <3>1 DEF Aligned, TypeOK
      <3>6. QED
        BY <3>2, <3>3, <3>4, <3>5 DEF Aligned
    <2>5. QED
      BY <2>3, <2>4 DEF RegInv
  <1>5. QED
    BY <1>1, <1>2, <1>3, <1>f, <1>4

\* Q, and the two halves of kill_connection in both places it is called from.
LEMMA ClosingStep ==
  ASSUME TypeOK, RegInv, NEW c \in Conns,
         Quit(c) \/ QuitShut(c) \/ QuitErase(c) \/ KillShut(c) \/ KillErase(c)
  PROVE  RegInv'
  <1> USE DEF accepting, registry, io, thread
  <1>1. CASE Quit(c)
    <2>1. pc[c] = "Q" /\ UNCHANGED <<greeting, online, nick, meddled, sock>>
      BY <1>1 DEF Quit, At
    <2>2. CASE Me(c) = NoConn
      <3>1. "Q" \in Ordinary
        BY DEF Kinds, Labels, Ordinary
      <3>2. QED
        BY <1>1, <2>1, <2>2, <3>1, PlainStep DEF Quit, Crash
    <2>3. CASE Me(c) # NoConn
      <3>1. /\ pc' = [pc EXCEPT ![c] = "Q2"] /\ frame' = frame
            /\ disc' = [disc EXCEPT ![Me(c)] = TRUE]
        BY <1>1, <2>3 DEF Quit, Goto, Enter, TypeOK
      <3>2. Waiting'
        BY <2>1, <3>1 DEF RegInv, TypeOK
      <3>3. ASSUME ~meddled' PROVE Aligned'
        <4>1. Aligned /\ Me(c) = c
          BY <2>1, <3>3 DEF RegInv, Aligned, Me
        <4>2. Listed' /\ Filed' /\ Renaming'
          BY <2>1, <3>1, <4>1 DEF Aligned, TypeOK
        <4>3. Closing' /\ Claiming'
          BY <2>1, <3>1, <4>1 DEF Aligned, TypeOK
        <4>4. QED
          BY <4>2, <4>3 DEF Aligned
      <3>4. QED
        BY <3>2, <3>3 DEF RegInv
    <2>4. QED
      BY <2>2, <2>3
  <1>2. ASSUME NEW l, Shut(c, l), <<pc[c], l>> \in {<<"Q2", "Q3">>, <<"K", "K2">>}
        PROVE  RegInv'
    <2>1. CASE Me(c) = NoConn
      <3>1. UNCHANGED <<pc, frame, sock, greeting, online, nick, disc, meddled>>
        BY <1>2, <2>1 DEF Shut, Crash, TypeOK
      <3>2. QED
        BY <3>1 DEF RegInv, Aligned
    <2>2. CASE Me(c) # NoConn
      <3>1. /\ pc' = [pc EXCEPT ![c] = l] /\ frame' = frame
            /\ sock' = [sock EXCEPT ![Me(c)] = "closed"]
            /\ meddled' = (meddled \/ Me(c) # c)
            /\ UNCHANGED <<greeting, online, nick, disc>>
        BY <1>2, <2>2 DEF Shut, Goto, Enter, TypeOK
      <3>2. Waiting'
        BY <1>2, <3>1 DEF RegInv, TypeOK
      <3>3. ASSUME ~meddled' PROVE Aligned'
        <4>1. Aligned /\ Me(c) = c /\ online[nick[c]] = c /\ nick[c] \in Names
          BY <3>1, <3>3 DEF RegInv, Me, TypeOK
        <4>2. Listed'
          BY <1>2, <3>1, <4>1 DEF Aligned, TypeOK
        <4>3. Filed'
          BY <1>2, <3>1, <4>1 DEF Aligned, TypeOK
        <4>4. Renaming' /\ Closing' /\ Claiming'
          BY <1>2, <3>1, <4>1 DEF Aligned, TypeOK
        <4>5. QED
          BY <4>2, <4>3, <4>4 DEF Aligned
      <3>4. QED
        BY <3>2, <3>3 DEF RegInv
    <2>3. QED
      BY <2>1, <2>2
  <1>3. ASSUME NEW l, EraseEntry(c, l),
               <<pc[c], l>> \in {<<"Q3", Loop(c)>>, <<"K2", "end">>}
        PROVE  RegInv'
    <2>1. /\ pc' = [pc EXCEPT ![c] = l]
          /\ \A d \in Conns \ {c} : frame'[d] = frame[d]
          /\ online' = [online EXCEPT ![nick[c]] = NoConn]
          /\ UNCHANGED <<greeting, nick, meddled, sock, disc>>
      BY <1>3 DEF EraseEntry, Goto, Enter, TypeOK
    <2>2. Waiting'
      BY <1>3, <2>1 DEF RegInv, TypeOK
    <2>3. ASSUME ~meddled' PROVE Aligned'
      <3>1. Aligned /\ (pc[c] = "Q3" => disc[c])
        BY <2>1, <2>3 DEF RegInv, Aligned
      <3>2. l \in {"K", "end"} /\ pc[c] \in {"Q3", "K2"}
        BY <1>3, <3>1 DEF Loop
      <3>3. sock[c] = "closed" \/ l = "end"
        BY <1>3, <3>1 DEF Aligned
      <3>4. Listed'
        BY <2>1, <3>1, <3>2, <3>3 DEF Aligned, TypeOK
      <3>5. Filed'
        BY <2>1, <3>1, <3>2, <3>3 DEF Aligned, TypeOK
      <3>6. Renaming' /\ Closing'
        BY <2>1, <3>1, <3>2, ChatAssumption DEF Aligned, TypeOK
      <3>7. Claiming'
        BY <2>1, <3>1, <3>2 DEF Aligned, TypeOK
      <3>8. QED
        BY <3>4, <3>5, <3>6, <3>7 DEF Aligned
    <2>4. QED
      BY <2>2, <2>3 DEF RegInv
  <1>4. QED
    BY <1>1, <1>2, <1>3 DEF QuitShut, QuitErase, KillShut, KillErase, At

LEMMA RegStep == TypeOK /\ RegInv /\ [Next]_chatVars => RegInv'
  <1> SUFFICES ASSUME TypeOK, RegInv, [Next]_chatVars PROVE RegInv'
    OBVIOUS
  <1>1. ASSUME NEW c \in Conns,
               Arrive(c) \/ Disturb(c) \/ Handle(c) \/ \E r \in Requests : Recv(c, r)
        PROVE  RegInv'
    BY <1>1, PlainHandlers, ArrivalStep, RenameStep, ClosingStep
    DEF Arrive, Disturb, Handle, ChatHandle
  <1>2. CASE UNCHANGED chatVars
    BY <1>2 DEF chatVars, accepting, registry, io, thread, RegInv, Aligned
  <1>3. QED
    BY <1>1, <1>2 DEF Next

LEMMA RegConsequences == TypeOK /\ RegInv => RegistryAgrees /\ ClosedWindow
  BY DEF TypeOK, RegInv, Aligned, RegistryAgrees, ClosedWindow

\* Unless an entry is overwritten, or closed by the thread of another client,
\* every thread finds its own client under its own nickname, and every entry of
\* online_clients leads to the client it is named after.
THEOREM RegistryTheorem == Spec => []RegistryAgrees
  BY RegInit, RegStep, RegConsequences, Typing, PTL DEF Spec

\* A closed descriptor is reachable through the registry only between the close
\* and the erase of kill_connection.
THEOREM ClosedWindowTheorem == Spec => []ClosedWindow
  BY RegInit, RegStep, RegConsequences, Typing, PTL DEF Spec
==============================================================================
