------------------------------ MODULE GameServer ------------------------------
(* The whole of tcpsocket/server.cpp: the chat server with the handlers B     *)
(* (initialize_game), P (play_game) and V (view_board) on the globals ttt,    *)
(* ttt_players, ttt_viewers and rand_num, which the reader threads share      *)
(* without a lock.  The registry, the accept loop and the other handlers are  *)
(* those of ChatServer.  All the sends of one reply are one step.             *)
EXTENDS ChatServer, TicTacToe, Sequences

CONSTANTS
  NoGame,    \* the null TicTacToe*
  Polite,    \* TRUE: clients ask to play only when they may (see mood)
  Gamers,    \* the clients that ask to play at all, if Polite
  Steady     \* TRUE: clients stay connected and requests arrive whole

ASSUME GameAssumption ==
  NoGame \notin Games(Names) /\ {Polite, Steady} \subseteq BOOLEAN /\ Gamers \subseteq Conns

VARIABLES
  ttt,       \* the game, or NoGame
  players,   \* ttt_players
  viewers,   \* ttt_viewers
  rand_num,  \* which symbol the first player gets
  mood,      \* what a polite client believes: "idle", "waiting", "turn"
  checked,   \* history: the threads that passed verify_turn in the game of ttt
  stray      \* history: a move was played on another game than it was checked for

gameVars == <<ttt, players, viewers, rand_num, mood, checked, stray>>
vars     == <<chatVars, gameVars>>

GameInit ==
  /\ Init
  /\ ttt = NoGame /\ players = <<>> /\ viewers = {} /\ rand_num \in {0, 1}
  /\ mood = [c \in Conns |-> "idle"]
  /\ checked = {} /\ stray = FALSE

chatRest == <<accepting, registry, io>>

Symbol(i) == IF i = 0 THEN "O" ELSE "X"

\* The nicknames a slot of ttt_players can yield: past the end of the vector,
\* any; the player such a read yields has any symbol.
SlotName(i)   == IF i <= Len(players) THEN {players[i].name} ELSE Names
SlotPlayer(i) == IF i <= Len(players) THEN {players[i]} ELSE Players(Names)

Clients(ns) == {online[n] : n \in ns}

\* The clients ds have read a notification that leaves them in mood m.
Tell(ds, m) == mood' = [d \in Conns |-> IF Polite /\ d \in ds THEN m ELSE mood[d]]

\* Reply to the client itself and return.
Answer(c, m) == Send(c, {Me(c)}, Loop(c)) /\ Tell({Me(c)}, m)

\* send_board_state: both slots of ttt_players and every viewer.
SendBoard(c, l) ==
  \E n1 \in SlotName(1), n2 \in SlotName(2) :
    Send(c, Clients({n1, n2} \cup viewers), l)

-------------------------------------------------------------------------------
\* A request arrives; a polite client registers when it knows no game of its
\* own, and plays when it was told that it is its turn.
GameRecv(c, r) ==
  /\ Polite /\ r.kind = "B" => c \in Gamers /\ mood[c] = "idle"
  /\ Polite /\ r.kind = "P" => mood[c] = "turn"
  /\ Recv(c, r)
  /\ IF r.kind \in {"B", "P"} THEN Tell({c}, "waiting") ELSE UNCHANGED mood
  /\ UNCHANGED <<ttt, players, viewers, rand_num, checked, stray>>

-------------------------------------------------------------------------------
(* initialize_game                                                            *)

\* The size of ttt_players decides ...
InitializeGame(c) ==
  /\ At(c, "B")
  /\ CASE Len(players) = 0 -> Goto(c, "B1") /\ UNCHANGED mood
       [] Len(players) = 1 -> Goto(c, "B2") /\ UNCHANGED mood
       [] OTHER            -> Answer(c, "idle")
  /\ UNCHANGED <<chatRest, ttt, players, viewers, rand_num, checked, stray>>

\* ... and the player is pushed later, whatever the size is by then.
FirstPlayer(c) ==
  /\ At(c, "B1")
  /\ players' = Append(players, [name |-> nick[c], symbol |-> Symbol(rand_num)])
  /\ Send(c, {Me(c)}, Loop(c))
  /\ UNCHANGED <<chatRest, ttt, viewers, rand_num, mood, checked, stray>>

\* Mutant of SecondPlayer: the board is sent before there is a game.
SecondPlayerMutant(c) ==
  /\ At(c, "B2")
  /\ players' = Append(players, [name |-> nick[c], symbol |-> Symbol(1 - rand_num)])
  /\ Goto(c, "B4")
  /\ UNCHANGED <<chatRest, ttt, viewers, rand_num, mood, checked, stray>>

SecondPlayer(c) ==
  /\ At(c, "B2")
  /\ players' = Append(players, [name |-> nick[c], symbol |-> Symbol(1 - rand_num)])
  /\ Goto(c, "B3")
  /\ UNCHANGED <<chatRest, ttt, viewers, rand_num, mood, checked, stray>>

CreateGame(c) ==
  /\ At(c, "B3")
  /\ \E p1 \in SlotPlayer(1), p2 \in SlotPlayer(2) :
       ttt' = NewGame(p1, p2, p1.symbol)
  /\ checked' = {}
  /\ Goto(c, "B4")
  /\ UNCHANGED <<chatRest, players, viewers, rand_num, mood, stray>>

\* Success to the second player, the board to everybody, the turn to the first.
OpenGame(c) ==
  /\ At(c, "B4")
  /\ IF ttt = NoGame THEN Crash /\ UNCHANGED mood ELSE
       SendBoard(c, Loop(c)) /\ \E n \in SlotName(1) : Tell({online[n]}, "turn")
  /\ UNCHANGED <<chatRest, ttt, players, viewers, rand_num, checked, stray>>

-------------------------------------------------------------------------------
(* play_game                                                                  *)

PlayGame(c) ==
  /\ At(c, "P")
  /\ IF ttt = NoGame THEN Answer(c, "idle") ELSE Goto(c, "P2") /\ UNCHANGED mood
  /\ UNCHANGED <<chatRest, ttt, players, viewers, rand_num, checked, stray>>

\* Mutant of VerifyPlayerAndTurn: any player may play at any time.
VerifyPlayerAndTurnMutant(c) ==
  /\ At(c, "P2")
  /\ IF ttt = NoGame THEN Crash /\ UNCHANGED <<mood, checked>> ELSE
     IF VerifyPlayer(ttt, nick[c])
       THEN Goto(c, "P4") /\ checked' = checked \cup {c} /\ UNCHANGED mood
       ELSE Answer(c, "waiting") /\ UNCHANGED checked
  /\ UNCHANGED <<chatRest, ttt, players, viewers, rand_num, stray>>

VerifyPlayerAndTurn(c) ==
  /\ At(c, "P2")
  /\ IF ttt = NoGame THEN Crash /\ UNCHANGED <<mood, checked>> ELSE
     IF VerifyPlayer(ttt, nick[c]) /\ VerifyTurn(ttt, nick[c])
       THEN Goto(c, "P4") /\ checked' = checked \cup {c} /\ UNCHANGED mood
       ELSE Answer(c, "waiting") /\ UNCHANGED checked
  /\ UNCHANGED <<chatRest, ttt, players, viewers, rand_num, stray>>

PlayMove(c) ==
  /\ At(c, "P4")
  /\ checked' = checked \ {c}
  /\ IF ttt = NoGame THEN Crash /\ UNCHANGED <<ttt, mood, stray>> ELSE
     IF CanPlay(ttt, frame[c].pos)
       THEN /\ ttt' = Play(ttt, frame[c].pos)
            /\ stray' = (stray \/ c \notin checked)
            /\ Enter(c, "P5", NoFrame) /\ UNCHANGED mood
       ELSE Answer(c, "turn") /\ UNCHANGED <<ttt, stray>>
  /\ UNCHANGED <<chatRest, players, viewers, rand_num>>

SendBoardState(c) ==
  /\ At(c, "P5")
  /\ IF ttt = NoGame THEN Crash ELSE SendBoard(c, "P6")
  /\ UNCHANGED <<chatRest, gameVars>>

\* Mutant of VerifyWinner: a line counts only on a full board.
VerifyWinnerMutant(c) ==
  /\ At(c, "P6")
  /\ IF ttt = NoGame THEN Crash /\ UNCHANGED ttt ELSE
     IF IsFull(ttt) /\ HasLine(ttt) THEN ttt' = SetWinner(ttt) /\ Goto(c, "P7")
                                    ELSE Goto(c, "P8") /\ UNCHANGED ttt
  /\ UNCHANGED <<chatRest, players, viewers, rand_num, mood, checked, stray>>

VerifyWinner(c) ==
  /\ At(c, "P6")
  /\ IF ttt = NoGame THEN Crash /\ UNCHANGED ttt ELSE
     IF HasLine(ttt) THEN ttt' = SetWinner(ttt) /\ Goto(c, "P7")
                     ELSE Goto(c, "P8") /\ UNCHANGED ttt
  /\ UNCHANGED <<chatRest, players, viewers, rand_num, mood, checked, stray>>

\* Mutants of VerifyFull: the scan stops one square early; a draw is not seen.
VerifyFullShort(c) ==
  /\ At(c, "P8")
  /\ IF ttt = NoGame THEN Crash ELSE
       Goto(c, IF \A s \in 0..7 : ttt.board[s] # Blank THEN "P7" ELSE "P11")
  /\ UNCHANGED <<chatRest, gameVars>>

VerifyFullMissing(c) ==
  /\ At(c, "P8")
  /\ IF ttt = NoGame THEN Crash ELSE Goto(c, "P11")
  /\ UNCHANGED <<chatRest, gameVars>>

VerifyFull(c) ==
  /\ At(c, "P8")
  /\ IF ttt = NoGame THEN Crash ELSE Goto(c, IF IsFull(ttt) THEN "P7" ELSE "P11")
  /\ UNCHANGED <<chatRest, gameVars>>

\* The result of a win or a draw, to both players and every viewer.
Announce(c) ==
  /\ At(c, "P7")
  /\ IF ttt = NoGame THEN Crash /\ UNCHANGED mood ELSE
       LET both == Clients({ttt.player_1.name, ttt.player_2.name})
       IN  Send(c, both \cup Clients(viewers), "P10") /\ Tell(both, "idle")
  /\ UNCHANGED <<chatRest, ttt, players, viewers, rand_num, checked, stray>>

NotifyTurn(c) ==
  /\ At(c, "P11")
  /\ IF ttt = NoGame THEN Crash /\ UNCHANGED mood ELSE
       LET next == {online[GetTurnNow(ttt)]}
       IN  Send(c, next, Loop(c)) /\ Tell(next, "turn")
  /\ UNCHANGED <<chatRest, ttt, players, viewers, rand_num, checked, stray>>

\* Mutant of DropGame: the pointer keeps its value.
DropGameMutant(c) ==
  /\ At(c, "P10")
  /\ checked' = {}
  /\ Goto(c, "R1")
  /\ UNCHANGED <<chatRest, ttt, players, viewers, rand_num, mood, stray>>

\* reinitialize_game: the pointer, the players, then the viewers and the symbol.
DropGame(c) ==
  /\ At(c, "P10")
  /\ ttt' = NoGame /\ checked' = {}
  /\ Goto(c, "R1")
  /\ UNCHANGED <<chatRest, players, viewers, rand_num, mood, stray>>

\* Mutant of ClearPlayers: the clients are cleared with the players.
ClearPlayersMutant(c) ==
  /\ At(c, "R1")
  /\ players' = <<>>
  /\ online' = [n \in Names |-> NoConn]
  /\ Goto(c, "R2")
  /\ UNCHANGED <<accepting, nick, meddled, io, ttt, viewers, rand_num, mood, checked,
                 stray>>

ClearPlayers(c) ==
  /\ At(c, "R1")
  /\ players' = <<>>
  /\ Goto(c, "R2")
  /\ UNCHANGED <<chatRest, ttt, viewers, rand_num, mood, checked, stray>>

\* Mutant of ClearViewers: one value too many is drawn.
ClearViewersMutant(c) ==
  /\ At(c, "R2")
  /\ viewers' = {} /\ rand_num' \in {0, 1, 2}
  /\ Goto(c, Loop(c))
  /\ UNCHANGED <<chatRest, ttt, players, mood, checked, stray>>

ClearViewers(c) ==
  /\ At(c, "R2")
  /\ viewers' = {} /\ rand_num' \in {0, 1}
  /\ Goto(c, Loop(c))
  /\ UNCHANGED <<chatRest, ttt, players, mood, checked, stray>>

-------------------------------------------------------------------------------
(* view_board                                                                 *)

ViewBoard(c) ==
  /\ At(c, "V")
  /\ IF ttt = NoGame THEN Send(c, {Me(c)}, Loop(c)) ELSE Goto(c, "V2")
  /\ UNCHANGED <<chatRest, gameVars>>

AddViewer(c) ==
  /\ At(c, "V2")
  /\ IF ttt = NoGame THEN Crash /\ UNCHANGED viewers ELSE
     IF VerifyPlayer(ttt, nick[c]) \/ nick[c] \in viewers
       THEN Send(c, {Me(c)}, Loop(c)) /\ UNCHANGED viewers
       ELSE Send(c, {Me(c)}, "V3") /\ viewers' = viewers \cup {nick[c]}
  /\ UNCHANGED <<chatRest, ttt, players, rand_num, mood, checked, stray>>

ShowBoard(c) ==
  /\ At(c, "V3")
  /\ IF ttt = NoGame THEN Crash ELSE Send(c, {Me(c)}, Loop(c))
  /\ UNCHANGED <<chatRest, gameVars>>

-------------------------------------------------------------------------------
GameHandle(c) ==
  \/ InitializeGame(c) \/ FirstPlayer(c) \/ SecondPlayer(c) \/ CreateGame(c)
  \/ OpenGame(c)
  \/ PlayGame(c) \/ VerifyPlayerAndTurn(c) \/ PlayMove(c) \/ SendBoardState(c)
  \/ VerifyWinner(c) \/ VerifyFull(c) \/ Announce(c) \/ NotifyTurn(c)
  \/ DropGame(c) \/ ClearPlayers(c) \/ ClearViewers(c)
  \/ ViewBoard(c) \/ AddViewer(c) \/ ShowBoard(c)

GameNext ==
  \E c \in Conns :
    \/ (Arrive(c) \/ ChatHandle(c)) /\ UNCHANGED gameVars
    \/ ~Steady /\ Disturb(c) /\ UNCHANGED gameVars
    \/ GameHandle(c)
    \/ \E r \in Requests : GameRecv(c, r)

GameSpec == GameInit /\ [][GameNext]_vars

\* A thread that can run runs, and recv returns once the peer has left.
GameFairness == \A c \in Conns :
  WF_vars(\/ /\ ChatHandle(c) \/ RecvEnd(c) \/ RegisterEmpty(c) \/ StartThread(c)
             /\ UNCHANGED gameVars
          \/ GameHandle(c))

GameFairSpec == GameSpec /\ GameFairness

-------------------------------------------------------------------------------
(* Properties.                                                                *)

\* Every variable of the game holds a value of the kind the code gives it.
GameTypeOK ==
  /\ ttt \in Games(Names) \cup {NoGame}
  /\ players \in Seq(Players(Names))
  /\ viewers \in SUBSET Names
  /\ rand_num \in {0, 1}
  /\ mood \in [Conns -> {"idle", "waiting", "turn"}]
  /\ checked \in SUBSET Conns
  /\ stray \in BOOLEAN

\* The server with the game is a server as ChatServer describes it: the handlers
\* of the game leave the registry, the sockets and the streams alone.
ImplementsChat == Spec

Somewhere(ls) == \E c \in Conns : pc[c] \in ls

\* A game that is over is never forgotten.  Whoever played the last move and
\* whatever the other threads did to the game since, some thread stands where it
\* will find the line (or the full board), announce it and start afresh; only a
\* thread caught for ever in send_response may have taken that with it.
ResetPending ==
  ttt # NoGame =>
    /\ HasLine(ttt) => Somewhere({"P5", "P6", "P7", "P10", "spin"})
    /\ IsFull(ttt)  => Somewhere({"P5", "P6", "P7", "P8", "P10", "spin"})

\* The same as a promise: a game that is over is replaced by none, or the
\* process dies or a thread is caught in a send.
FinishedIsReset ==
  ttt # NoGame /\ Finished(ttt) ~> ttt = NoGame \/ ~up \/ Somewhere({"spin"})

\* The turn works as a lock.  play_game verifies the turn and plays later, but
\* as long as the two players have different symbols and no move was carried
\* over from an earlier game, a thread that has verified its turn still holds it
\* when it plays, for the only thread that could take the turn is itself.
TurnHeld ==
  ttt # NoGame /\ ttt.player_1.symbol # ttt.player_2.symbol /\ ~stray /\ ~meddled =>
    \A c \in checked : pc[c] = "P4" /\ VerifyTurn(ttt, nick[c])

\* A message to one or to all has come upon an entry that is not filled yet.
MeetsUnfilled == \E c \in Conns : \/ pc[c] = "M2" /\ frame[c].name \in Made
                                  \/ pc[c] = "W2" /\ frame[c].at \in Made

\* With two polite and steady clients the game dereferences no null pointer, and no
\* move lands in a game it was not checked for; all the process may die of is a
\* message that meets an entry of line 134 before its pointer is there.
PoliteIsSafe == Polite /\ Steady => (up \/ MeetsUnfilled) /\ ~stray

\* README: when somebody has won or the board is full, the game starts afresh.
\* A thread about to drop the game finds it over, or gone.
DropsOnlyFinished ==
  Somewhere({"P10"}) => ttt = NoGame \/ Finished(ttt)

\* The winner announced is the player who moved last: nobody has moved since the
\* line was completed, and there is no second line to mistake it for.
WinnerMovedLast ==
  ttt # NoGame /\ ttt.winner # Blank => ttt.winner = Other(ttt.turn)

\* README: once two players are registered nobody else can register.
TwoPlayersAtMost == Len(players) <= 2

\* A client that was notified "It's your turn" and has not answered holds it.
InvitedMayPlay ==
  ttt # NoGame => \A c \in Conns : mood[c] = "turn" /\ Me(c) = c
                                   => VerifyTurn(ttt, nick[c])
==============================================================================
