------------------------------ MODULE ChatServer ------------------------------
(* The chat half of tcpsocket/server.cpp and tcpsocket/clientp.h: the accept  *)
(* loop, the registry online_clients, one reader thread per connection and    *)
(* the handlers N, M, F, R, W, L, C and Q.  Nothing is locked: a thread runs  *)
(* through the labels of pc, and between two labels any other thread may run. *)
(* One call on the registry is one step; the races inside a call of std::map  *)
(* are left out.  The handlers B, P and V are seen from here as steps that    *)
(* leave this state alone; GameServer refines them.                           *)
EXTENDS Integers

CONSTANTS
  Conns,     \* the connections that may be accepted, each with its Clientp
  NoConn,    \* the null Clientp*
  Names,     \* nicknames: naturals, in the order of the keys; 0 is ""
  Requests,  \* the requests clients may send
  Leftovers, \* what processing may take characters left of a request for
  Stale      \* what the uninitialised `type` of processing may hold

Kinds == {"N", "M", "F", "R", "W", "L", "C", "Q", "B", "P", "V"}

\* A decoded request: its letter, the nickname and the square it names.
RequestType == [kind : Kinds, name : Names, pos : 0..9]

ASSUME ChatAssumption ==
  /\ NoConn \notin Conns
  /\ Names \subseteq Nat /\ 0 \in Names
  /\ Requests \cup Leftovers \subseteq RequestType
  /\ Stale \subseteq Kinds \cup {"none"} /\ Stale # {}

\* Where a thread may be: at a handler, inside one, between two requests, in
\* send_response for ever ("spin"), not running, or about to ("new": the accept loop
\* is entering its client).
GameLabels == {"B", "B1", "B2", "B3", "B4", "P", "P2", "P4", "P5", "P6", "P7",
               "P8", "P10", "P11", "R1", "R2", "V", "V2", "V3"}
Labels == Kinds \cup GameLabels \cup
          {"none", "new", "Recv", "Dispatch", "N2", "N3", "N3a", "N4", "M2", "W2",
           "Q2", "Q3", "K", "K2", "end", "spin"}

VARIABLES
  up,        \* FALSE once the process has died
  greeting,  \* the connection whose username the accept loop waits for
  seen,      \* the nicknames that connection was sent
  online,    \* online_clients; NoConn: no entry, or one whose pointer is null (Made)
  nick,      \* Clientp.nickname
  sock,      \* "none", "open", "gone" (left by the peer), "closed" (by the server)
  disc,      \* Clientp.disconnected
  stream,    \* Clientp.ss: a request, or what is left of one
  pc,        \* where the reader thread of a connection is
  frame,     \* the locals of the handler a thread is in
  meddled    \* history: a thread has overwritten another client's entry, or
             \* closed another client's connection

accepting == <<greeting, seen>>
registry  == <<online, nick, meddled>>
io        == <<sock, disc, stream>>
thread    == <<up, pc, frame>>
chatVars  == <<accepting, registry, io, thread>>

\* name, pos: the fields of the request; cli: the Clientp* change_nickname has
\* looked up; at: the key the iterator of send_message_to_all stands on.
Frames  == [name : Names, pos : 0..9, cli : Conns \cup {NoConn}, at : Names]
NoFrame == [name |-> 0, pos |-> 0, cli |-> NoConn, at |-> 0]

\* The stream when no request is loaded: "left" (characters of the last one),
\* "spent" (at its end), "dead" (failbit set: write and >> no longer work).
Rest(k)    == [kind |-> k, name |-> 0, pos |-> 0]
Residues   == {"left", "spent", "dead"}

\* What a handler leaves in the stream.  M and F stop early when the receiver is
\* unknown, P when the game refuses the player.
Residue(k) == CASE k \in {"N", "R", "C"}           -> {"spent"}
                [] k \in {"M", "F", "P"}           -> {"left", "spent"}
                [] k \in {"W", "L", "B", "V", "Q"} -> {"left"}
                [] k = "left"                      -> Residues
                [] OTHER                           -> {"dead"}

Init ==
  /\ up = TRUE
  /\ greeting = NoConn
  /\ seen = {}
  /\ online = [n \in Names |-> NoConn]
  /\ nick = [c \in Conns |-> 0]
  /\ sock = [c \in Conns |-> "none"]
  /\ disc = [c \in Conns |-> FALSE]
  /\ stream = [c \in Conns |-> Rest("spent")]
  /\ pc = [c \in Conns |-> "none"]
  /\ frame = [c \in Conns |-> NoFrame]
  /\ meddled = FALSE

\* The nicknames whose entry operator[] has made and the assignment has not filled:
\* the accept loop is there, or a thread in change_nickname.
Made == {nick[c] : c \in {d \in Conns : pc[d] = "new"}}
        \cup {frame[c].name : c \in {d \in Conns : pc[d] = "N3a"}}

\* The keys of online_clients.
Registered == {n \in Names : online[n] # NoConn} \cup Made

\* online_clients[nickname], as nearly every line of thread c looks it up.
Me(c) == online[nick[c]]

At(c, l) == up /\ pc[c] = l

\* Thread c goes on at l, with the locals f, or with those it had; they die when
\* the handler returns to the loop test of thread_reader.
Enter(c, l, f) == /\ pc' = [pc EXCEPT ![c] = l]
                  /\ frame' = [frame EXCEPT ![c] = f]
                  /\ up' = up
Goto(c, l)     == Enter(c, l, IF l \in {"Recv", "K"} THEN NoFrame ELSE frame[c])
Loop(c)        == IF disc[c] THEN "K" ELSE "Recv"

\* The process dies: the other threads stop with it.
Crash == up' = FALSE /\ UNCHANGED <<pc, frame>>

\* send_response to the clients ds, thread c going on at l.  operator[] gives a
\* null pointer for a missing key; a peer that left may answer with a reset,
\* after which send raises SIGPIPE; on a descriptor the server has closed send
\* returns -1 and the loop of send_response never ends.
Send(c, ds, l) ==
  \/ /\ \A d \in ds : d # NoConn /\ sock[d] \in {"open", "gone"}
     /\ Goto(c, l)
  \/ /\ \E d \in ds : d # NoConn => sock[d] = "gone"
     /\ Crash
  \/ /\ \E d \in ds : d # NoConn /\ sock[d] = "closed"
     /\ Goto(c, "spin")

-------------------------------------------------------------------------------
(* The accept loop: it greets one client at a time.                           *)

Accept(c) ==
  /\ up /\ greeting = NoConn /\ sock[c] = "none"
  /\ greeting' = c
  /\ seen' = Registered
  /\ sock' = [sock EXCEPT ![c] = "open"]
  /\ UNCHANGED <<registry, disc, stream, thread>>

\* operator[] makes the entry of n, or finds one.
Insert(n) == meddled' = (meddled \/ n \in Registered)

\* The client answers with a nickname that is not in the list it was sent.
Register(c, n) ==
  /\ At(c, "none") /\ greeting = c /\ sock[c] = "open"
  /\ n # 0 /\ n \notin seen
  /\ Insert(n)
  /\ nick' = [nick EXCEPT ![c] = n]
  /\ Goto(c, "new")
  /\ UNCHANGED <<accepting, online, io>>

\* The client is gone before it answers: recv returns 0 and "" is registered.
RegisterEmpty(c) ==
  /\ At(c, "none") /\ greeting = c /\ sock[c] = "gone"
  /\ Insert(0)
  /\ nick' = [nick EXCEPT ![c] = 0]
  /\ Goto(c, "new")
  /\ UNCHANGED <<accepting, online, io>>

\* The entry is filled, and the thread starts.
StartThread(c) ==
  /\ At(c, "new")
  /\ online' = [online EXCEPT ![nick[c]] = c]
  /\ greeting' = NoConn /\ seen' = {}
  /\ Goto(c, "Recv")
  /\ UNCHANGED <<nick, meddled, io>>

\* The client process ends.
Leave(c) ==
  /\ up /\ sock[c] = "open"
  /\ sock' = [sock EXCEPT ![c] = "gone"]
  /\ UNCHANGED <<accepting, registry, disc, stream, thread>>

-------------------------------------------------------------------------------
(* thread_reader and recv_request.                                            *)

\* A whole request arrives; on a failed stream ss.write stores nothing.
Recv(c, r) ==
  /\ At(c, "Recv") /\ sock[c] = "open"
  /\ stream' = IF stream[c].kind = "dead" THEN stream
                                          ELSE [stream EXCEPT ![c] = r]
  /\ Goto(c, "Dispatch")
  /\ UNCHANGED <<accepting, registry, sock, disc>>

\* Mutant of RecvEnd: the end of the stream does not mark the client disconnected.
RecvEndMutant(c) ==
  /\ At(c, "Recv") /\ sock[c] = "gone"
  /\ Goto(c, "Dispatch")
  /\ UNCHANGED <<accepting, registry, io>>

\* recv returns 0: disconnected, but processing is still called once more.
RecvEnd(c) ==
  /\ At(c, "Recv") /\ sock[c] = "gone"
  /\ disc' = [disc EXCEPT ![c] = TRUE]
  /\ Goto(c, "Dispatch")
  /\ UNCHANGED <<accepting, registry, sock, stream>>

\* An error or a header of fewer than ten bytes: nothing is loaded, and
\* processing is called on what the last request left.
RecvFail(c) ==
  /\ At(c, "Recv") /\ sock[c] \in {"open", "closed"}
  /\ Goto(c, "Dispatch")
  /\ UNCHANGED <<accepting, registry, io>>

\* What processing takes the stream s for: characters left of a request are anything,
\* and at the end of the stream `type` keeps what the stack held, the fields zeros.
Picked(s) == IF s.kind = "left" THEN Leftovers \cup {Rest("none")}
             ELSE IF s.kind \in Residues THEN {Rest(k) : k \in Stale}
             ELSE {s}

\* processing: the first character of the stream found under the nickname picks
\* the handler, whose fields are read here too; what was left may not be numbers where
\* stoi wants them.
Dispatch(c) ==
  /\ At(c, "Dispatch")
  /\ UNCHANGED <<accepting, registry, sock, disc>>
  /\ IF Me(c) = NoConn THEN Crash /\ UNCHANGED stream ELSE
       LET d == Me(c)
           s == stream[d]
       IN  /\ \E k \in Residue(s.kind) :
                stream' = [stream EXCEPT ![d] = Rest(k)]
           /\ \/ \E r \in Picked(s) :
                   IF r.kind = "none"
                     THEN Goto(c, Loop(c))
                     ELSE Enter(c, r.kind, [NoFrame EXCEPT !.name = r.name, !.pos = r.pos])
              \/ s.kind = "left" /\ Crash

-------------------------------------------------------------------------------
(* change_nickname: look the new name up, then erase, insert and assign.      *)

ChangeNickname(c) ==
  /\ At(c, "N")
  /\ IF Me(c) = NoConn \/ frame[c].name \in Registered
       THEN Send(c, {Me(c)}, Loop(c))
       ELSE Enter(c, "N2", [frame[c] EXCEPT !.cli = Me(c)])
  /\ UNCHANGED <<accepting, registry, io>>

\* Mutant of EraseOldName: the old name is kept.
EraseOldNameMutant(c) ==
  /\ At(c, "N2")
  /\ Goto(c, "N3")
  /\ UNCHANGED <<accepting, registry, io>>

EraseOldName(c) ==
  /\ At(c, "N2")
  /\ online' = [online EXCEPT ![nick[c]] = NoConn]
  /\ Goto(c, "N3")
  /\ UNCHANGED <<accepting, nick, meddled, io>>

InsertNewName(c) ==
  /\ At(c, "N3")
  /\ Insert(frame[c].name)
  /\ Goto(c, "N3a")
  /\ UNCHANGED <<accepting, online, nick, io>>

FillNewName(c) ==
  /\ At(c, "N3a")
  /\ online' = [online EXCEPT ![frame[c].name] = frame[c].cli]
  /\ Goto(c, "N4")
  /\ UNCHANGED <<accepting, nick, meddled, io>>

AssignNewName(c) ==
  /\ At(c, "N4")
  /\ nick' = [nick EXCEPT ![frame[c].cli] = frame[c].name]
  /\ Send(c, {online[frame[c].name]}, Loop(c))
  /\ UNCHANGED <<accepting, online, meddled, io>>

-------------------------------------------------------------------------------
(* The handlers that relay.                                                   *)

\* M and F look the receiver up twice: to test that it is there, and to send.
SendToOne(c) ==
  /\ pc[c] \in {"M", "F"} /\ up
  /\ IF frame[c].name \in Registered THEN Goto(c, "M2")
                                     ELSE Send(c, {Me(c)}, Loop(c))
  /\ UNCHANGED <<accepting, registry, io>>

Forward(c) ==
  /\ At(c, "M2")
  /\ IF Me(c) = NoConn THEN Crash ELSE Send(c, {online[frame[c].name]}, Loop(c))
  /\ UNCHANGED <<accepting, registry, io>>

\* R sends to the receiver without testing that it is there.
SendFileConfirmation(c) ==
  /\ At(c, "R")
  /\ IF Me(c) = NoConn THEN Crash ELSE Send(c, {online[frame[c].name]}, Loop(c))
  /\ UNCHANGED <<accepting, registry, io>>

\* Mutant of NextName: the iterator moves on without a test for the end.
NextNameMutant(k) == {k + 1}

\* The registered name an iterator moves to from k.
NextName(k) == {n \in Registered : n > k /\ \A m \in Registered : m > k => n <= m}

SendToAll(c) ==
  /\ At(c, "W")
  /\ \/ Me(c) = NoConn /\ Crash
     \/ \E n \in NextName(-1) :
          Me(c) # NoConn /\ Enter(c, "W2", [frame[c] EXCEPT !.at = n])
  /\ UNCHANGED <<accepting, registry, io>>

\* Send to the entry and step to the next one.  An entry that is not filled yet has a
\* null pointer; one that another thread has erased leaves the iterator dangling: it
\* crashes, ends, or goes on.
RelayToNext(c) ==
  /\ At(c, "W2")
  /\ LET k == frame[c].at
         StepOn == \/ NextName(k) = {} /\ Goto(c, Loop(c))
                   \/ \E n \in NextName(k) :
                        Enter(c, "W2", [frame[c] EXCEPT !.at = n])
     IN  \/ /\ online[k] # NoConn /\ sock[online[k]] \in {"open", "gone"}
            /\ StepOn
         \/ /\ online[k] # NoConn => sock[online[k]] = "gone"
            /\ Crash
         \/ /\ online[k] # NoConn /\ sock[online[k]] = "closed"
            /\ Goto(c, "spin")
         \/ /\ k \notin Registered
            /\ StepOn \/ Goto(c, Loop(c))
  /\ UNCHANGED <<accepting, registry, io>>

SendOnlineClients(c) ==
  /\ At(c, "L")
  /\ Send(c, {Me(c)}, Loop(c))
  /\ UNCHANGED <<accepting, registry, io>>

GetConfirmation(c) ==
  /\ At(c, "C")
  /\ IF Me(c) = NoConn THEN Crash ELSE Goto(c, Loop(c))
  /\ UNCHANGED <<accepting, registry, io>>

-------------------------------------------------------------------------------
(* Q, and the end of thread_reader: both call kill_connection.                *)

Quit(c) ==
  /\ At(c, "Q")
  /\ IF Me(c) = NoConn
       THEN Crash /\ UNCHANGED disc
       ELSE disc' = [disc EXCEPT ![Me(c)] = TRUE] /\ Goto(c, "Q2")
  /\ UNCHANGED <<accepting, registry, sock, stream>>

\* kill_connection, first half: shut the socket down and close it.
Shut(c, l) ==
  /\ IF Me(c) = NoConn
       THEN Crash /\ UNCHANGED sock
       ELSE sock' = [sock EXCEPT ![Me(c)] = "closed"] /\ Goto(c, l)
  /\ meddled' = (meddled \/ Me(c) \notin {c, NoConn})
  /\ UNCHANGED <<accepting, online, nick, disc, stream>>

\* kill_connection, second half: drop the entry.
EraseEntry(c, l) ==
  /\ online' = [online EXCEPT ![nick[c]] = NoConn]
  /\ Goto(c, l)
  /\ UNCHANGED <<accepting, nick, meddled, io>>

QuitShut(c)  == At(c, "Q2") /\ Shut(c, "Q3")
QuitErase(c) == At(c, "Q3") /\ EraseEntry(c, Loop(c))
KillShut(c)  == At(c, "K") /\ Shut(c, "K2")
\* Mutant of KillErase: the connection is closed but its entry is kept.
KillEraseMutant(c) ==
  At(c, "K2") /\ Goto(c, "end") /\ UNCHANGED <<accepting, registry, io>>

KillErase(c) == At(c, "K2") /\ EraseEntry(c, "end")

\* A step of initialize_game, play_game or view_board.
GameStep(c) ==
  /\ up /\ pc[c] \in GameLabels
  /\ \/ Crash
     \/ \E l \in GameLabels \cup {Loop(c), "spin"}, f \in {frame[c], NoFrame} :
          Enter(c, l, f)
  /\ UNCHANGED <<accepting, registry, io>>

-------------------------------------------------------------------------------
\* What thread c does by itself, once recv has returned.
ChatHandle(c) ==
  \/ Dispatch(c)
  \/ ChangeNickname(c) \/ EraseOldName(c) \/ InsertNewName(c) \/ FillNewName(c)
  \/ AssignNewName(c)
  \/ SendToOne(c) \/ Forward(c) \/ SendFileConfirmation(c)
  \/ SendToAll(c) \/ RelayToNext(c) \/ SendOnlineClients(c) \/ GetConfirmation(c)
  \/ Quit(c) \/ QuitShut(c) \/ QuitErase(c) \/ KillShut(c) \/ KillErase(c)

Handle(c) == ChatHandle(c) \/ GameStep(c)

\* Clients that arrive, and the end of a stream.
Arrive(c) == Accept(c) \/ RegisterEmpty(c) \/ StartThread(c) \/ RecvEnd(c)
             \/ \E n \in Names : Register(c, n)

\* What a client or the network does to a connection in use.
Disturb(c) == Leave(c) \/ RecvFail(c)

Next == \E c \in Conns :
          \/ Arrive(c) \/ Disturb(c) \/ Handle(c)
          \/ \E r \in Requests : Recv(c, r)

Spec == Init /\ [][Next]_chatVars

-------------------------------------------------------------------------------
(* Properties.                                                                *)

\* Every variable holds a value of the kind the code gives it.
TypeOK ==
  /\ up \in BOOLEAN
  /\ greeting \in Conns \cup {NoConn}
  /\ seen \in SUBSET Names
  /\ online \in [Names -> Conns \cup {NoConn}]
  /\ nick \in [Conns -> Names]
  /\ sock \in [Conns -> {"none", "open", "gone", "closed"}]
  /\ disc \in [Conns -> BOOLEAN]
  /\ stream \in [Conns -> [kind : Kinds \cup Residues, name : Names, pos : 0..9]]
  /\ pc \in [Conns -> Labels]
  /\ frame \in [Conns -> Frames]
  /\ meddled \in BOOLEAN

\* The threads whose connection is in the registry under its own nickname: all
\* that run, except between the erase and the assignment of change_nickname, after
\* the assignment (the entry is then under the new name) and after Q has erased it.
InRegistry(c) ==
  \/ pc[c] \notin {"none", "new", "N3", "N3a", "N4", "K", "end", "spin"}
  \/ pc[c] = "K" /\ sock[c] # "closed"

\* Unless an insertion has overwritten an entry (two renames or arrivals racing
\* for a name), or a client that took a name freed by Q was found there by the
\* second kill_connection of the thread that quit, the registry and the threads
\* agree whatever renames, departures and arrivals run concurrently: a
\* connection that is being served is found under its own nickname, so a thread
\* only ever reads, closes and erases its own client; and every entry leads to
\* a client that has, or is just being given, the nickname it is filed under.
RegistryAgrees ==
  ~meddled =>
    /\ \A c \in Conns : InRegistry(c) => online[nick[c]] = c
    /\ \A n \in Names : online[n] # NoConn =>
         LET d == online[n]
         IN  IF pc[d] = "N4" THEN n = frame[d].name ELSE n = nick[d]

\* A descriptor the server has closed can be reached through the registry only
\* between the close and the erase of kill_connection: the window in which a
\* send to that client fails for ever (clientp.h, the loop of send_response).
ClosedWindow ==
  ~meddled =>
    \A n \in Names : online[n] # NoConn /\ sock[online[n]] = "closed"
                      => pc[online[n]] \in {"Q3", "K2"}

\* With fair threads (GameServer states the fairness) a client that leaves does
\* not stay listed: its thread drops the entry,
\* unless the process dies, the thread spins in a send, or entries were meddled
\* with.
GoneIsDropped ==
  \A c \in Conns :
    sock[c] = "gone" ~>
      (~up \/ meddled \/ pc[c] = "spin" \/ c \notin {online[n] : n \in Names})

\* client.cpp asks for "an username no repeated" and change_nickname refuses a
\* nickname in use: two connections being served never have the same one.
NicknamesUnique ==
  \A c, d \in {e \in Conns : InRegistry(e) /\ sock[e] = "open"} :
    c # d => nick[c] # nick[d]

\* README: to disconnect from the server, write Q.  A server that no client has
\* left in any other way is still up.
QuitOnlyDisconnects == (\A c \in Conns : sock[c] # "gone") => up
==============================================================================
