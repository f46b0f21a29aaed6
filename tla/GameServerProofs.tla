--------------------------- MODULE GameServerProofs ---------------------------
(* Proofs about GameServer: it implements ChatServer, so that what is proved  *)
(* about the registry holds of the whole server; its variables are typed; a   *)
(* finished game always has a thread that is going to reset it; and a turn    *)
(* that was verified is held until the move.                                  *)
EXTENDS GameServer, ChatServerProofs

\* Where a step of a game handler may take its thread, and that it does.
Exits(c)  == GameLabels \cup {Loop(c), "spin"}
Strides(c) ==
  Crash \/ \E l \in Exits(c), f \in {frame[c], NoFrame} : Enter(c, l, f)

LEMMA Exit == ASSUME NEW c PROVE GameLabels \subseteq Exits(c) /\ Loop(c) \in Exits(c)
  BY DEF Exits

LEMMA MoveStrides ==
  \A c : \A l \in Exits(c) :
    /\ Goto(c, l) => Strides(c)
    /\ Enter(c, l, NoFrame) => Strides(c)
    /\ Crash => Strides(c)
  BY DEF Strides, Goto

LEMMA SendStrides == \A c, ds : \A l \in Exits(c) : Send(c, ds, l) => Strides(c)
  <1> SUFFICES ASSUME NEW c, NEW ds, NEW l \in Exits(c), Send(c, ds, l)
               PROVE  Strides(c)
    OBVIOUS
  <1>1. "spin" \in Exits(c)
    BY DEF Exits
  <1>2. Crash \/ Goto(c, l) \/ Goto(c, "spin")
    BY DEF Send
  <1>3. QED
    BY <1>1, <1>2 DEF Strides, Goto

LEMMA BoardStrides == \A c : \A l \in Exits(c) : SendBoard(c, l) => Strides(c)
  BY SendStrides DEF SendBoard

LEMMA AnswerStrides == \A c, m : Answer(c, m) => Strides(c)
  BY SendStrides, Exit DEF Answer

LEMMA GameStepsAre ==
  ASSUME NEW c \in Conns, GameHandle(c)
  PROVE  GameStep(c)
  <1>1. up /\ pc[c] \in GameLabels /\ UNCHANGED chatRest
    BY DEF GameHandle, At, GameLabels,
           InitializeGame, FirstPlayer, SecondPlayer, CreateGame, OpenGame,
           PlayGame, VerifyPlayerAndTurn, PlayMove, SendBoardState, VerifyWinner,
           VerifyFull, Announce, NotifyTurn, DropGame, ClearPlayers, ClearViewers,
           ViewBoard, AddViewer, ShowBoard
  <1>2. Strides(c)
    <2>1. Loop(c) \in Exits(c) /\ GameLabels \subseteq Exits(c)
      BY Exit
    <2>2. CASE \/ InitializeGame(c) \/ FirstPlayer(c) \/ SecondPlayer(c) \/ CreateGame(c)
               \/ OpenGame(c)
      BY <2>1, <2>2, MoveStrides, SendStrides, BoardStrides, AnswerStrides
      DEF GameLabels, InitializeGame, FirstPlayer, SecondPlayer, CreateGame, OpenGame
    <2>3. CASE PlayGame(c) \/ VerifyPlayerAndTurn(c) \/ PlayMove(c) \/ SendBoardState(c)
      BY <2>1, <2>3, MoveStrides, SendStrides, BoardStrides, AnswerStrides
      DEF GameLabels, PlayGame, VerifyPlayerAndTurn, PlayMove, SendBoardState
    <2>4. CASE VerifyWinner(c) \/ VerifyFull(c) \/ Announce(c) \/ NotifyTurn(c)
      BY <2>1, <2>4, MoveStrides, SendStrides, BoardStrides, AnswerStrides
      DEF GameLabels, VerifyWinner, VerifyFull, Announce, NotifyTurn
    <2>5. CASE \/ DropGame(c) \/ ClearPlayers(c) \/ ClearViewers(c)
               \/ ViewBoard(c) \/ AddViewer(c) \/ ShowBoard(c)
      BY <2>1, <2>5, MoveStrides, SendStrides, BoardStrides, AnswerStrides
      DEF GameLabels, DropGame, ClearPlayers, ClearViewers, ViewBoard, AddViewer, ShowBoard
    <2>6. QED
      BY <2>2, <2>3, <2>4, <2>5 DEF GameHandle
  <1>3. QED
    BY <1>1, <1>2 DEF GameStep, chatRest, Strides, Exits

\* Every step of the server with the game is a step of ChatServer or leaves its
\* variables alone: the handlers of the game are GameStep.
LEMMA GameStepsImplement == [GameNext]_vars => [Next]_chatVars
  <1> SUFFICES ASSUME [GameNext]_vars PROVE [Next]_chatVars
    OBVIOUS
  <1>1. CASE GameNext
    BY <1>1, GameStepsAre DEF GameNext, GameRecv, Next, Handle
  <1>2. CASE UNCHANGED vars
    BY <1>2 DEF vars
  <1>3. QED
    BY <1>1, <1>2

\* The server with the game implements the chat server.
THEOREM GameImplementsChat == GameSpec => ImplementsChat
  <1>1. GameInit => Init
    BY DEF GameInit
  <1>2. QED
    BY <1>1, GameStepsImplement, PTL DEF GameSpec, ImplementsChat, Spec

\* What is proved about the registry holds of the server with the game.
THEOREM GameRegistry == GameSpec => []RegistryAgrees
  BY GameImplementsChat, RegistryTheorem DEF ImplementsChat

-------------------------------------------------------------------------------
(* The variables of the game are typed.  What needs an argument is that        *)
(* verify_winner, on a board with a line, finds a mark to make the winner.     *)

LEMMA LineFound ==
  ASSUME NEW b, \E i \in 1..8 : Complete(b, i)
  PROVE  FirstLine(b) \in 1..8 /\ Complete(b, FirstLine(b))
  <1> DEFINE C(i) == Complete(b, i)
             P(i) == C(i) /\ \A j \in 1..8 : C(j) => i <= j
  <1>1. C(1) \/ C(2) \/ C(3) \/ C(4) \/ C(5) \/ C(6) \/ C(7) \/ C(8)
    OBVIOUS
  <1> HIDE DEF C
  <1>2. \E i \in 1..8 : P(i)
    BY <1>1
  <1>3. FirstLine(b) = CHOOSE i \in 1..8 : P(i)
    BY DEF FirstLine, C
  <1>4. FirstLine(b) \in 1..8 /\ P(FirstLine(b))
    BY <1>2, <1>3
  <1>5. QED
    BY <1>4 DEF C

LEMMA LinesLieOnTheBoard == \A i \in 1..8 : Lines[i][1] \in Squares
  BY DEF Lines, Squares

LEMMA GameMoves ==
  ASSUME NEW g \in Games(Names)
  PROVE  /\ \A pos : CanPlay(g, pos) => Play(g, pos) \in Games(Names)
         /\ HasLine(g) => SetWinner(g) \in Games(Names)
         /\ GetTurnNow(g) \in Names
  <1>1. ASSUME NEW pos, CanPlay(g, pos) PROVE Play(g, pos) \in Games(Names)
    BY <1>1 DEF CanPlay, Play, Games, Squares, Marks, Other
  <1>2. ASSUME HasLine(g) PROVE SetWinner(g) \in Games(Names)
    <2>1. g.board[Lines[FirstLine(g.board)][1]] \in Marks \cup {Blank}
      BY <1>2, LineFound, LinesLieOnTheBoard DEF HasLine, Games
    <2>2. QED
      BY <2>1 DEF SetWinner, Games
  <1>3. GetTurnNow(g) \in Names
    BY DEF GetTurnNow, Games, Players
  <1>4. QED
    BY <1>1, <1>2, <1>3

LEMMA TellType ==
  ASSUME mood \in [Conns -> {"idle", "waiting", "turn"}],
         NEW ds, NEW m \in {"idle", "waiting", "turn"}, Tell(ds, m)
  PROVE  mood' \in [Conns -> {"idle", "waiting", "turn"}]
  BY DEF Tell

LEMMA GameTypeInit == GameInit => GameTypeOK
  <1> SUFFICES ASSUME GameInit PROVE GameTypeOK
    OBVIOUS
  <1>1. players \in Seq(Players(Names))
    BY DEF GameInit
  <1>2. QED
    BY <1>1 DEF GameInit, GameTypeOK

LEMMA HandlersKeepTypes ==
  ASSUME TypeOK, GameTypeOK, NEW c \in Conns, GameHandle(c)
  PROVE  GameTypeOK'
  <1> USE DEF GameTypeOK
  <1>n. nick[c] \in Names
    BY DEF TypeOK
  <1>t. \A ds : \A m \in {"idle", "waiting", "turn"} :
          Tell(ds, m) => mood' \in [Conns -> {"idle", "waiting", "turn"}]
    BY TellType
  <1>s. \A i \in {1, 2} : SlotPlayer(i) \subseteq Players(Names)
    BY DEF SlotPlayer
  <1>g. ttt # NoGame => ttt \in Games(Names)
    OBVIOUS
  <1>1. CASE InitializeGame(c) \/ OpenGame(c) \/ PlayGame(c)
    BY <1>1, <1>t DEF InitializeGame, OpenGame, PlayGame, Answer
  <1>2. CASE FirstPlayer(c) \/ SecondPlayer(c)
    <2>1. Symbol(rand_num) \in Marks /\ Symbol(1 - rand_num) \in Marks
      BY DEF Symbol, Marks
    <2>2. PICK p \in Players(Names) : players' = Append(players, p)
      BY <1>2, <1>n, <2>1 DEF FirstPlayer, SecondPlayer, Players
    <2>3. players' \in Seq(Players(Names))
      BY <2>2
    <2>4. QED
      BY <1>2, <2>3 DEF FirstPlayer, SecondPlayer
  <1>3. CASE CreateGame(c)
    <2>1. PICK p1 \in SlotPlayer(1), p2 \in SlotPlayer(2) :
            ttt' = NewGame(p1, p2, p1.symbol)
      BY <1>3 DEF CreateGame
    <2>2. ttt' \in Games(Names)
      BY <2>1, <1>s DEF NewGame, Games, Players, Squares, Marks, Blank
    <2>3. QED
      BY <1>3, <2>2 DEF CreateGame
  <1>4. CASE VerifyPlayerAndTurn(c) \/ SendBoardState(c) \/ VerifyFull(c)
    BY <1>4, <1>t DEF VerifyPlayerAndTurn, SendBoardState, VerifyFull, Answer, gameVars
  <1>5. CASE PlayMove(c)
    BY <1>5, <1>t, <1>g, GameMoves DEF PlayMove, Answer
  <1>6. CASE VerifyWinner(c)
    BY <1>6, <1>g, GameMoves DEF VerifyWinner
  <1>7. CASE Announce(c) \/ NotifyTurn(c)
    BY <1>7, <1>t DEF Announce, NotifyTurn
  <1>8. CASE DropGame(c) \/ ClearPlayers(c) \/ ClearViewers(c)
    <2>1. <<>> \in Seq(Players(Names))
      OBVIOUS
    <2>2. QED
      BY <1>8, <2>1 DEF DropGame, ClearPlayers, ClearViewers
  <1>9. CASE ViewBoard(c) \/ AddViewer(c) \/ ShowBoard(c)
    BY <1>9, <1>n DEF ViewBoard, AddViewer, ShowBoard, gameVars
  <1>10. QED
    BY <1>1, <1>2, <1>3, <1>4, <1>5, <1>6, <1>7, <1>8, <1>9 DEF GameHandle

LEMMA GameTypeStep == TypeOK /\ GameTypeOK /\ [GameNext]_vars => GameTypeOK'
  <1> SUFFICES ASSUME TypeOK, GameTypeOK, [GameNext]_vars PROVE GameTypeOK'
    OBVIOUS
  <1>1. ASSUME UNCHANGED gameVars PROVE GameTypeOK'
    BY <1>1 DEF gameVars, GameTypeOK
  <1>2. ASSUME NEW c \in Conns, NEW r \in Requests, GameRecv(c, r) PROVE GameTypeOK'
    BY <1>2, TellType DEF GameRecv, GameTypeOK
  <1>3. QED
    BY <1>1, <1>2, HandlersKeepTypes DEF GameNext, vars

\* Every variable of the whole server keeps its type.
THEOREM GameTyping == GameSpec => []GameTypeOK
  <1>1. GameSpec => []TypeOK
    BY GameImplementsChat, Typing DEF ImplementsChat
  <1>2. QED
    BY <1>1, GameTypeInit, GameTypeStep, PTL DEF GameSpec

-------------------------------------------------------------------------------
(* ResetPending.  With the registry invariant (a connection that is being      *)
(* accepted has no thread yet) it is inductive: only the thread that stands at *)
(* the end of play_game can take itself away from there, and it does so only   *)
(* after it has looked at the board of the moment, or for ever in a send.      *)

WinTail  == {"P5", "P6", "P7", "P10", "spin"}
FullTail == {"P5", "P6", "P7", "P8", "P10", "spin"}

\* A step that moves at most thread c, and c only from outside ls or into it,
\* leaves some thread in ls.
Keeps(c, ls) ==
  \/ pc' = pc
  \/ \E l : /\ pc' = [pc EXCEPT ![c] = l]
            /\ pc[c] \notin ls \/ l \in ls

LEMMA KeepsSomewhere ==
  ASSUME TypeOK, NEW c \in Conns, NEW ls, Keeps(c, ls), Somewhere(ls)
  PROVE  Somewhere(ls)'
  <1>1. PICK d \in Conns : pc[d] \in ls
    BY DEF Somewhere
  <1>2. pc'[d] \in ls
    BY <1>1 DEF Keeps, TypeOK
  <1>3. QED
    BY <1>2 DEF Somewhere

\* A step of the chat server, as GameNext takes it.
ChatMove(c) == \/ Arrive(c) \/ ChatHandle(c) \/ Disturb(c)
               \/ \E r \in Requests : Recv(c, r)

\* The chat handlers, the accept loop and recv move no thread that is inside a
\* handler of the game, nor one that spins.
LEMMA ChatMoves ==
  ASSUME TypeOK, RegInv, NEW c \in Conns, ChatMove(c)
  PROVE  \/ pc' = pc
         \/ /\ \E l : pc' = [pc EXCEPT ![c] = l]
            /\ pc[c] \notin GameLabels \cup {"spin"}
  <1> DEFINE Moves1 == \E l : pc' = [pc EXCEPT ![c] = l]
  <1>1. \A l, f : Enter(c, l, f) => Moves1
    BY DEF Enter
  <1>2. \A l : Goto(c, l) => Moves1
    BY <1>1 DEF Goto
  <1>3. Crash => pc' = pc
    BY DEF Crash
  <1>4. \A ds, l : Send(c, ds, l) => pc' = pc \/ Moves1
    BY <1>2, <1>3 DEF Send
  <1> HIDE DEF Moves1
  <1>5. pc' = pc \/ (Moves1 /\ pc[c] \notin GameLabels \cup {"spin"})
    <2>1. CASE Arrive(c) \/ Disturb(c)
      <3>1. CASE Accept(c) \/ Leave(c)
        BY <3>1 DEF Accept, Leave, thread
      <3>2. CASE RegisterEmpty(c) \/ StartThread(c) \/ \E n \in Names : Register(c, n)
        BY <3>2, <1>2 DEF RegisterEmpty, StartThread, Register, At, GameLabels
      <3>3. CASE RecvEnd(c) \/ RecvFail(c)
        BY <3>3, <1>2 DEF RecvEnd, RecvFail, At, GameLabels
      <3>4. QED
        BY <2>1, <3>1, <3>2, <3>3 DEF Arrive, Disturb
    <2>2. CASE \E r \in Requests : Recv(c, r)
      BY <2>2, <1>2 DEF Recv, At, GameLabels
    <2>3. CASE Dispatch(c) \/ ChangeNickname(c) \/ EraseOldName(c)
               \/ InsertNewName(c) \/ FillNewName(c) \/ AssignNewName(c)
      BY <2>3, <1>1, <1>2, <1>3, <1>4
      DEF Dispatch, ChangeNickname, EraseOldName, InsertNewName, FillNewName,
          AssignNewName, At, GameLabels
    <2>4. CASE SendToOne(c) \/ Forward(c) \/ SendFileConfirmation(c)
               \/ SendOnlineClients(c) \/ GetConfirmation(c)
      BY <2>4, <1>1, <1>2, <1>3, <1>4
      DEF SendToOne, Forward, SendFileConfirmation, SendOnlineClients,
          GetConfirmation, At, GameLabels
    <2>5. CASE SendToAll(c) \/ RelayToNext(c)
      BY <2>5, <1>1, <1>2, <1>3 DEF SendToAll, RelayToNext, At, GameLabels
    <2>6. CASE Quit(c) \/ QuitShut(c) \/ QuitErase(c) \/ KillShut(c) \/ KillErase(c)
      BY <2>6, <1>2, <1>3
      DEF Quit, QuitShut, QuitErase, KillShut, KillErase, Shut, EraseEntry, At, GameLabels
    <2>7. QED
      BY <2>1, <2>2, <2>3, <2>4, <2>5, <2>6 DEF ChatMove, ChatHandle
  <1>6. QED
    BY <1>5 DEF Moves1

LEMMA ChatKeeps ==
  ASSUME TypeOK, RegInv, NEW c \in Conns, ChatMove(c)
  PROVE  Keeps(c, WinTail) /\ Keeps(c, FullTail)
  <1>1. WinTail \cup FullTail \subseteq GameLabels \cup {"spin"}
    BY DEF WinTail, FullTail, GameLabels
  <1>2. QED
    BY <1>1, ChatMoves DEF Keeps

\* What ResetPending says of a board, and the moves that leave a game as over as
\* it was.
Pending ==
  ttt # NoGame => /\ HasLine(ttt) => Somewhere(WinTail)
                  /\ IsFull(ttt)  => Somewhere(FullTail)

LEMMA PendingKept ==
  ASSUME TypeOK, GameTypeOK, Pending,
         NEW c \in Conns, Keeps(c, WinTail), Keeps(c, FullTail),
         ttt' = NoGame \/ ttt' = ttt \/ (ttt # NoGame /\ ttt' = SetWinner(ttt))
  PROVE  Pending'
  <1>1. CASE ttt' = NoGame
    BY <1>1 DEF Pending
  <1>2. CASE ttt # NoGame /\ (ttt' = ttt \/ ttt' = SetWinner(ttt))
    <2>1. ttt'.board = ttt.board
      BY <1>2 DEF SetWinner, GameTypeOK, Games
    <2>2. HasLine(ttt') = HasLine(ttt) /\ IsFull(ttt') = IsFull(ttt)
      BY <2>1 DEF HasLine, IsFull
    <2>3. /\ Somewhere(WinTail) => Somewhere(WinTail)'
          /\ Somewhere(FullTail) => Somewhere(FullTail)'
      BY KeepsSomewhere
    <2>4. QED
      BY <1>2, <2>2, <2>3 DEF Pending
  <1>3. QED
    BY <1>1, <1>2

\* Where the ways to move thread c lead.
LEMMA KeepsWhen ==
  ASSUME NEW c, NEW ls, NEW l, pc[c] \notin ls \/ l \in ls, pc[c] \notin ls \/ "spin" \in ls
  PROVE  /\ Crash => Keeps(c, ls)
         /\ Goto(c, l) => Keeps(c, ls)
         /\ \A f : Enter(c, l, f) => Keeps(c, ls)
         /\ \A ds : Send(c, ds, l) => Keeps(c, ls)
         /\ SendBoard(c, l) => Keeps(c, ls)
  <1>1. \A f : Enter(c, l, f) => Keeps(c, ls)
    BY DEF Enter, Keeps
  <1>2. Goto(c, l) => Keeps(c, ls)
    BY <1>1 DEF Goto
  <1>3. Goto(c, "spin") => Keeps(c, ls)
    BY DEF Goto, Enter, Keeps
  <1>4. Crash => Keeps(c, ls)
    BY DEF Crash, Keeps
  <1>5. \A ds : Send(c, ds, l) => Keeps(c, ls)
    BY <1>2, <1>3, <1>4 DEF Send
  <1>6. SendBoard(c, l) => Keeps(c, ls)
    BY <1>5 DEF SendBoard
  <1>7. QED
    BY <1>1, <1>2, <1>4, <1>5, <1>6

\* A handler that stands elsewhere, and leaves the game alone.
LEMMA ElsewhereKeeps ==
  ASSUME TypeOK, GameTypeOK, Pending, NEW c \in Conns,
         \/ InitializeGame(c) \/ FirstPlayer(c) \/ SecondPlayer(c) \/ OpenGame(c)
         \/ PlayGame(c) \/ VerifyPlayerAndTurn(c) \/ NotifyTurn(c)
         \/ ClearPlayers(c) \/ ClearViewers(c)
         \/ ViewBoard(c) \/ AddViewer(c) \/ ShowBoard(c)
  PROVE  Pending'
  <1>1. pc[c] \notin FullTail /\ pc[c] \notin WinTail /\ ttt' = ttt
    BY DEF InitializeGame, FirstPlayer, SecondPlayer, OpenGame, PlayGame,
           VerifyPlayerAndTurn, NotifyTurn, ClearPlayers, ClearViewers, ViewBoard,
           AddViewer, ShowBoard, At, FullTail, WinTail, gameVars
  <1>2. ASSUME NEW ls, pc[c] \notin ls PROVE Keeps(c, ls)
    <2>1. \A l : /\ Crash => Keeps(c, ls)
                 /\ Goto(c, l) => Keeps(c, ls)
                 /\ \A ds : Send(c, ds, l) => Keeps(c, ls)
                 /\ SendBoard(c, l) => Keeps(c, ls)
      BY <1>2, KeepsWhen
    <2>2. \A m : Answer(c, m) => Keeps(c, ls)
      BY <2>1 DEF Answer
    <2>3. QED
      BY <2>1, <2>2 DEF InitializeGame, FirstPlayer, SecondPlayer, OpenGame, PlayGame,
           VerifyPlayerAndTurn, NotifyTurn, ClearPlayers, ClearViewers, ViewBoard,
           AddViewer, ShowBoard
  <1>3. QED
    BY <1>1, <1>2, PendingKept

\* The handlers that change the game, and those of its last moves.
LEMMA HandlersKeepPending ==
  ASSUME TypeOK, GameTypeOK, Pending, NEW c \in Conns, GameHandle(c)
  PROVE  Pending'
  <1> USE DEF WinTail, FullTail
  <1>m. \A ls, l : (pc[c] \notin ls \/ l \in ls) /\ (pc[c] \notin ls \/ "spin" \in ls) =>
          /\ Crash => Keeps(c, ls)
          /\ Goto(c, l) => Keeps(c, ls)
          /\ \A f : Enter(c, l, f) => Keeps(c, ls)
          /\ \A ds : Send(c, ds, l) => Keeps(c, ls)
          /\ SendBoard(c, l) => Keeps(c, ls)
    BY KeepsWhen
  <1>1. CASE CreateGame(c)
    <2>1. PICK p1 \in SlotPlayer(1), p2 \in SlotPlayer(2) :
            ttt' = NewGame(p1, p2, p1.symbol)
      BY <1>1 DEF CreateGame
    <2>2. \A s \in Squares : ttt'.board[s] = Blank
      BY <2>1 DEF NewGame
    <2>3. ~IsFull(ttt')
      BY <2>2 DEF IsFull, Squares
    <2>4. ~HasLine(ttt')
      BY <2>2, LinesLieOnTheBoard DEF HasLine, Complete
    <2>5. QED
      BY <2>3, <2>4 DEF Pending
  <1>2. CASE PlayMove(c)
    <2>1. CASE ttt' = ttt /\ pc[c] = "P4" /\ (Crash \/ Answer(c, "turn"))
      <3>1. Keeps(c, WinTail) /\ Keeps(c, FullTail)
        BY <2>1, <1>m DEF Answer
      <3>2. QED
        BY <2>1, <3>1, PendingKept
    <2>2. CASE Enter(c, "P5", NoFrame)
      <3>1. pc'[c] = "P5"
        BY <2>2 DEF Enter, TypeOK
      <3>2. QED
        BY <3>1 DEF Pending, Somewhere
    <2>3. QED
      BY <1>2, <2>1, <2>2 DEF PlayMove, At
  <1>3. CASE SendBoardState(c) \/ Announce(c)
    <2>1. ttt' = ttt /\ Keeps(c, WinTail) /\ Keeps(c, FullTail)
      BY <1>3, <1>m DEF SendBoardState, Announce, At, gameVars
    <2>2. QED
      BY <2>1, PendingKept
  <1>4. CASE VerifyWinner(c)
    <2>1. CASE ttt = NoGame \/ HasLine(ttt)
      <3>1. Keeps(c, WinTail) /\ Keeps(c, FullTail)
        BY <1>4, <2>1, <1>m DEF VerifyWinner, At
      <3>2. QED
        BY <1>4, <2>1, <3>1, PendingKept DEF VerifyWinner
    <2>2. CASE ttt # NoGame /\ ~HasLine(ttt)
      <3>1. ttt' = ttt /\ Keeps(c, FullTail)
        BY <1>4, <2>2, <1>m DEF VerifyWinner, At
      <3>2. QED
        BY <2>2, <3>1, KeepsSomewhere DEF Pending
    <2>3. QED
      BY <2>1, <2>2
  <1>5. CASE VerifyFull(c)
    <2>1. ttt' = ttt /\ Keeps(c, WinTail)
      BY <1>5, <1>m DEF VerifyFull, At, gameVars
    <2>2. CASE ttt = NoGame \/ IsFull(ttt)
      <3>1. Keeps(c, FullTail)
        BY <1>5, <2>2, <1>m DEF VerifyFull, At
      <3>2. QED
        BY <2>1, <3>1, PendingKept
    <2>3. CASE ~IsFull(ttt)
      BY <2>1, <2>3, KeepsSomewhere DEF Pending
    <2>4. QED
      BY <2>2, <2>3
  <1>6. CASE DropGame(c)
    BY <1>6 DEF DropGame, Pending
  <1>7. QED
    BY <1>1, <1>2, <1>3, <1>4, <1>5, <1>6, ElsewhereKeeps DEF GameHandle

LEMMA GameRegInv == GameSpec => [](TypeOK /\ RegInv)
  <1>1. GameSpec => Spec
    BY GameImplementsChat DEF ImplementsChat
  <1>2. Spec => [](TypeOK /\ RegInv)
    BY RegInit, RegStep, Typing, PTL DEF Spec
  <1>3. QED
    BY <1>1, <1>2

\* A game that is over always has a thread that is about to announce it and to
\* start afresh, whatever the other threads do to the game meanwhile.
THEOREM ResetPendingTheorem == GameSpec => []ResetPending
  <1>1. GameSpec => [](TypeOK /\ RegInv)
    BY GameRegInv
  <1>2. GameInit => Pending
    BY DEF GameInit, Pending
  <1>3. TypeOK /\ RegInv /\ GameTypeOK /\ Pending /\ [GameNext]_vars => Pending'
    <2> SUFFICES ASSUME TypeOK, RegInv, GameTypeOK, Pending, [GameNext]_vars
                 PROVE  Pending'
      OBVIOUS
    <2>1. ASSUME NEW c \in Conns, ttt' = ttt, ChatMove(c)
          PROVE  Pending'
      BY <2>1, ChatKeeps, PendingKept
    <2>2. CASE UNCHANGED vars
      BY <2>2 DEF vars, gameVars, chatVars, thread, Pending, Somewhere
    <2>3. CASE GameNext
      BY <2>1, <2>3, HandlersKeepPending DEF GameNext, GameRecv, gameVars, ChatMove
    <2>4. QED
      BY <2>2, <2>3
  <1>4. Pending => ResetPending
    BY DEF Pending, ResetPending, WinTail, FullTail
  <1>5. QED
    BY <1>1, <1>2, <1>3, <1>4, GameTyping, PTL DEF GameSpec

-------------------------------------------------------------------------------
(* TurnHeld: the turn is a lock that nobody takes.  The thread that moves has   *)
(* verified its turn, so of two threads that have, both stand for the one player *)
(* whose symbol has the turn, hence for one nickname, hence are one thread.     *)

AtTheMove == \A c \in checked : pc[c] = "P4"

TurnInv == AtTheMove /\ TurnHeld

\* What TurnHeld asks of a game.
Orderly(g) == g # NoGame /\ g.player_1.symbol # g.player_2.symbol

LEMMA OneHolder ==
  ASSUME TypeOK, RegInv, GameTypeOK, TurnInv, Orderly(ttt), ~stray, ~meddled,
         NEW c \in checked, NEW d \in checked
  PROVE  c = d
  <1>1. c \in Conns /\ d \in Conns /\ pc[c] = "P4" /\ pc[d] = "P4"
    BY DEF GameTypeOK, TurnInv, AtTheMove
  <1>2. VerifyTurn(ttt, nick[c]) /\ VerifyTurn(ttt, nick[d])
    BY DEF TurnInv, TurnHeld, Orderly
  <1>3. nick[c] = nick[d]
    BY <1>2 DEF VerifyTurn, Orderly
  <1>4. online[nick[c]] = c /\ online[nick[d]] = d
    BY <1>1 DEF RegInv, Aligned, Listed, InRegistry
  <1>5. QED
    BY <1>3, <1>4

\* Steps that give nobody the turn and take it from nobody.
LEMMA TurnKept ==
  ASSUME TurnInv, checked' \subseteq checked,
         stray => stray', meddled => meddled',
         \A c \in checked' : pc'[c] = "P4" /\ (~meddled' => nick'[c] = nick[c]),
         ttt' # NoGame => /\ ttt # NoGame /\ ttt'.turn = ttt.turn
                          /\ ttt'.player_1 = ttt.player_1 /\ ttt'.player_2 = ttt.player_2
  PROVE  TurnInv'
  <1>1. AtTheMove'
    BY DEF AtTheMove
  <1>2. ASSUME Orderly(ttt'), ~stray', ~meddled', NEW c \in checked'
        PROVE  VerifyTurn(ttt', nick'[c])
    <2>1. Orderly(ttt) /\ ~stray /\ ~meddled /\ nick'[c] = nick[c]
      BY <1>2 DEF Orderly
    <2>2. VerifyTurn(ttt, nick[c])
      BY <1>2, <2>1 DEF TurnInv, TurnHeld, Orderly
    <2>3. QED
      BY <1>2, <2>1, <2>2 DEF VerifyTurn, Orderly
  <1>3. TurnHeld'
    BY <1>2 DEF TurnHeld, Orderly
  <1>4. QED
    BY <1>1, <1>3 DEF TurnInv

\* The chat server changes the nickname of nobody who is inside a handler of the game.
LEMMA ChatNames ==
  ASSUME TypeOK, RegInv, NEW c \in Conns, ChatMove(c)
  PROVE  /\ meddled => meddled'
         /\ ~meddled' => \A d \in Conns : pc[d] \in GameLabels => nick'[d] = nick[d]
  <1>1. CASE Arrive(c)
    <2>1. CASE Accept(c) \/ RecvEnd(c)
      BY <2>1 DEF Accept, RecvEnd, registry
    <2>2. CASE RegisterEmpty(c) \/ \E n \in Names : Register(c, n)
      <3>1. pc[c] = "none" /\ (meddled => meddled')
        BY <2>2, Zenon DEF RegisterEmpty, Register, At, Insert
      <3>2. \E n \in Names : nick' = [nick EXCEPT ![c] = n]
        BY <2>2, ChatAssumption DEF RegisterEmpty, Register
      <3>3. QED
        BY <3>1, <3>2 DEF GameLabels, TypeOK
    <2>3. CASE StartThread(c)
      BY <2>3 DEF StartThread
    <2>4. QED
      BY <1>1, <2>1, <2>2, <2>3 DEF Arrive
  <1>2. CASE AssignNewName(c)
    <2>1. UNCHANGED meddled /\ pc[c] = "N4" /\ nick' = [nick EXCEPT ![frame[c].cli] = frame[c].name]
      BY <1>2 DEF AssignNewName, At
    <2>2. ~meddled => frame[c].cli = c
      BY <2>1 DEF RegInv, Aligned, Renaming
    <2>3. QED
      BY <2>1, <2>2 DEF GameLabels, TypeOK
  <1>3. CASE Disturb(c) \/ \E r \in Requests : Recv(c, r)
    BY <1>3 DEF Disturb, Leave, RecvFail, Recv, registry
  <1>4. CASE Dispatch(c) \/ ChangeNickname(c) \/ EraseOldName(c) \/ InsertNewName(c)
             \/ FillNewName(c)
    <2>1. nick' = nick
      BY <1>4 DEF Dispatch, ChangeNickname, EraseOldName, InsertNewName, FillNewName, registry
    <2>2. CASE InsertNewName(c)
      BY <2>1, <2>2, Zenon DEF InsertNewName, Insert
    <2>3. CASE Dispatch(c) \/ ChangeNickname(c)
      <3>1. UNCHANGED meddled
        BY <2>3, Zenon DEF Dispatch, ChangeNickname, registry
      <3>2. QED
        BY <2>1, <3>1
    <2>4. CASE EraseOldName(c) \/ FillNewName(c)
      <3>1. UNCHANGED meddled
        BY <2>4, Zenon DEF EraseOldName, FillNewName
      <3>2. QED
        BY <2>1, <3>1
    <2>5. QED
      BY <1>4, <2>2, <2>3, <2>4
  <1>5. CASE SendToOne(c) \/ Forward(c) \/ SendFileConfirmation(c) \/ SendToAll(c)
             \/ RelayToNext(c) \/ SendOnlineClients(c) \/ GetConfirmation(c)
    BY <1>5 DEF SendToOne, Forward, SendFileConfirmation, SendToAll, RelayToNext,
                SendOnlineClients, GetConfirmation, registry
  <1>6. CASE Quit(c) \/ QuitShut(c) \/ QuitErase(c) \/ KillShut(c) \/ KillErase(c)
    <2>1. nick' = nick
      BY <1>6 DEF Quit, QuitShut, QuitErase, KillShut, KillErase, Shut, EraseEntry, registry
    <2>2. CASE QuitShut(c) \/ KillShut(c)
      BY <2>1, <2>2, Zenon DEF QuitShut, KillShut, Shut
    <2>3. CASE Quit(c) \/ QuitErase(c) \/ KillErase(c)
      BY <2>1, <2>3 DEF Quit, QuitErase, KillErase, EraseEntry, registry
    <2>4. QED
      BY <1>6, <2>2, <2>3
  <1>7. QED
    BY <1>1, <1>2, <1>3, <1>4, <1>5, <1>6 DEF ChatMove, ChatHandle

LEMMA ChatKeepsTurn ==
  ASSUME TypeOK, RegInv, GameTypeOK, TurnInv, NEW c \in Conns, ChatMove(c),
         UNCHANGED <<ttt, checked, stray>>
  PROVE  TurnInv'
  <1>1. \A d \in checked : d \in Conns /\ pc[d] = "P4" /\ pc[d] \in GameLabels
    BY DEF GameTypeOK, TurnInv, AtTheMove, GameLabels
  <1>2. \A d \in checked : pc'[d] = "P4"
    BY <1>1, ChatMoves DEF TypeOK
  <1>3. QED
    BY <1>1, <1>2, ChatNames, TurnKept

\* The handlers that stand elsewhere, and change no game that is under way.
LEMMA OthersKeepTurn ==
  ASSUME TypeOK, GameTypeOK, TurnInv, NEW c \in Conns, GameHandle(c), pc[c] # "P4",
         checked' \subseteq checked, stray' = stray,
         ttt' # NoGame => /\ ttt # NoGame /\ ttt'.turn = ttt.turn
                          /\ ttt'.player_1 = ttt.player_1 /\ ttt'.player_2 = ttt.player_2
  PROVE  TurnInv'
  <1>1. UNCHANGED <<nick, meddled>> /\ (pc' = pc \/ \E l : pc' = [pc EXCEPT ![c] = l])
    BY GameStepsAre DEF GameStep, registry, Crash, Enter
  <1>2. \A d \in checked : d \in Conns /\ pc[d] = "P4" /\ d # c
    BY DEF GameTypeOK, TurnInv, AtTheMove
  <1>3. \A d \in checked' : pc'[d] = "P4" /\ nick'[d] = nick[d]
    BY <1>1, <1>2 DEF TypeOK
  <1>4. QED
    BY <1>1, <1>3, TurnKept

LEMMA HandlersKeepTurn ==
  ASSUME TypeOK, RegInv, GameTypeOK, TurnInv, NEW c \in Conns, GameHandle(c)
  PROVE  TurnInv'
  <1>1. UNCHANGED <<nick, meddled>> /\ (pc' = pc \/ \E l : pc' = [pc EXCEPT ![c] = l])
    BY GameStepsAre DEF GameStep, registry, Crash, Enter
  <1>2. CASE VerifyPlayerAndTurn(c)
    <2>1. UNCHANGED <<ttt, stray>> /\ pc[c] # "P4"
      BY <1>2 DEF VerifyPlayerAndTurn, At
    <2>2. CASE checked' = checked
      BY <2>1, <2>2, OthersKeepTurn
    <2>3. CASE VerifyTurn(ttt, nick[c]) /\ Goto(c, "P4") /\ checked' = checked \cup {c}
      <3>1. \A d \in checked : pc[d] = "P4" /\ d # c /\ d \in Conns
        BY <2>1 DEF TurnInv, AtTheMove, GameTypeOK
      <3>2. AtTheMove'
        BY <2>3, <3>1 DEF AtTheMove, Goto, Enter, TypeOK
      <3>3. ASSUME Orderly(ttt), ~stray, ~meddled, NEW d \in checked'
            PROVE  VerifyTurn(ttt, nick[d])
        BY <2>3, <3>3 DEF TurnInv, TurnHeld, Orderly
      <3>4. TurnHeld'
        BY <1>1, <2>1, <3>2, <3>3 DEF TurnHeld, Orderly, AtTheMove
      <3>5. QED
        BY <3>2, <3>4 DEF TurnInv
    <2>4. QED
      BY <1>2, <2>2, <2>3 DEF VerifyPlayerAndTurn
  <1>3. CASE PlayMove(c)
    <2>1. checked' = checked \ {c}
      BY <1>3 DEF PlayMove
    <2>2. \A d \in checked' : pc'[d] = "P4" /\ nick'[d] = nick[d]
      BY <1>1, <2>1 DEF TurnInv, AtTheMove, GameTypeOK, TypeOK
    <2>3. CASE UNCHANGED <<ttt, stray>>
      BY <1>1, <2>1, <2>2, <2>3, TurnKept
    <2>4. CASE /\ ttt # NoGame /\ ttt' = Play(ttt, frame[c].pos)
               /\ stray' = (stray \/ c \notin checked)
      <3>1. ttt'.player_1 = ttt.player_1 /\ ttt'.player_2 = ttt.player_2
        BY <2>4 DEF Play, GameTypeOK, Games
      <3>2. ASSUME Orderly(ttt'), ~stray', ~meddled'
            PROVE  checked' = {}
        <4>1. Orderly(ttt) /\ ~stray /\ ~meddled /\ c \in checked
          BY <1>1, <2>4, <3>1, <3>2 DEF Orderly
        <4>2. QED
          BY <2>1, <4>1, OneHolder
      <3>3. TurnHeld'
        BY <3>2 DEF TurnHeld, Orderly
      <3>4. QED
        BY <2>2, <3>3 DEF TurnInv, AtTheMove
    <2>5. QED
      BY <1>3, <2>3, <2>4 DEF PlayMove
  <1>4. CASE CreateGame(c) \/ DropGame(c)
    <2>1. checked' = {}
      BY <1>4 DEF CreateGame, DropGame
    <2>2. QED
      BY <2>1 DEF TurnInv, AtTheMove, TurnHeld
  <1>5. CASE VerifyWinner(c)
    <2>1. /\ UNCHANGED <<checked, stray>> /\ pc[c] # "P4"
          /\ ttt' = ttt \/ (ttt # NoGame /\ ttt' = SetWinner(ttt))
      BY <1>5 DEF VerifyWinner, At
    <2>2. ttt' # NoGame => /\ ttt # NoGame /\ ttt'.turn = ttt.turn
                           /\ ttt'.player_1 = ttt.player_1 /\ ttt'.player_2 = ttt.player_2
      BY <2>1 DEF SetWinner, GameTypeOK, Games
    <2>3. QED
      BY <2>1, <2>2, OthersKeepTurn
  <1>6. CASE \/ InitializeGame(c) \/ FirstPlayer(c) \/ SecondPlayer(c) \/ OpenGame(c)
             \/ PlayGame(c) \/ SendBoardState(c) \/ VerifyFull(c) \/ Announce(c)
             \/ NotifyTurn(c) \/ ClearPlayers(c) \/ ClearViewers(c)
             \/ ViewBoard(c) \/ AddViewer(c) \/ ShowBoard(c)
    <2>1. UNCHANGED <<ttt, checked, stray>> /\ pc[c] # "P4"
      BY <1>6 DEF InitializeGame, FirstPlayer, SecondPlayer, OpenGame, PlayGame,
           SendBoardState, VerifyFull, Announce, NotifyTurn, ClearPlayers, ClearViewers,
           ViewBoard, AddViewer, ShowBoard, At, gameVars
    <2>2. QED
      BY <2>1, OthersKeepTurn
  <1>7. QED
    BY <1>2, <1>3, <1>4, <1>5, <1>6 DEF GameHandle

\* play_game verifies the turn in one step and plays in a later one.  For any number
\* of clients, impolite ones too: a thread that has verified its turn still holds it when
\* it plays, as long as the players have different symbols, no move came from
\* an earlier game and the registry was not meddled with.
THEOREM TurnHeldTheorem == GameSpec => []TurnHeld
  <1>1. GameInit => TurnInv
    BY DEF GameInit, TurnInv, AtTheMove, TurnHeld
  <1>2. TypeOK /\ RegInv /\ GameTypeOK /\ TurnInv /\ [GameNext]_vars => TurnInv'
    <2> SUFFICES ASSUME TypeOK, RegInv, GameTypeOK, TurnInv, [GameNext]_vars
                 PROVE  TurnInv'
      OBVIOUS
    <2>1. CASE UNCHANGED vars
      BY <2>1 DEF vars, gameVars, chatVars, thread, registry, TurnInv, AtTheMove, TurnHeld
    <2>2. CASE GameNext
      BY <2>2, ChatKeepsTurn, HandlersKeepTurn DEF GameNext, GameRecv, gameVars, ChatMove
    <2>3. QED
      BY <2>1, <2>2
  <1>3. TurnInv => TurnHeld
    BY DEF TurnInv
  <1>4. QED
    BY <1>1, <1>2, <1>3, GameRegInv, GameTyping, PTL DEF GameSpec
===============================================================================
