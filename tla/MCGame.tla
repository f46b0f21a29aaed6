-------------------------------- MODULE MCGame --------------------------------
(* Requests and an initial state for the runs of GameServer.                  *)
EXTENDS GameServer, FiniteSets, TLC

CONSTANTS c1, c2, c3

Ask(k)   == [kind |-> k, name |-> 0, pos |-> 0]
Move(ps) == [kind : {"P"}, name : {0}, pos : ps]

GameRequests   == {Ask("B"), Ask("V")} \cup Move({7, 8})
LiveRequests   == Move({7, 8}) \cup {[Ask("N") EXCEPT !.name = 3], Ask("W")}
PoliteRequests == {Ask("B")} \cup Move(1..9)
LobbyRequests  == {Ask("B")}
InviteRequests == {Ask("B")} \cup Move(1..5)

\* Bounds on the boards.  The games of game_polite open in the centre; of the game after the one
\* that game begins in (where seven squares are taken), one move is followed.
Taken  == {s \in Squares : ttt.board[s] # Blank}
Centre == ttt # NoGame => Taken = {} \/ 4 \in Taken
Ending == ttt # NoGame => Cardinality(Taken) # 2

Symmetry == Permutations(Gamers)

\* A state every server gets to: clients 1 and 2 have played seven moves and the
\* last row decides.  O (to move) wins on square 7; if it plays 6, X can only
\* fill the board.
\*     X O X
\*     X O O
\*     . . X
Board == [s \in Squares |-> IF s \in {0, 2, 3, 8} THEN "X"
                            ELSE IF s \in {1, 4, 5} THEN "O" ELSE Blank]

MidInit ==
  /\ up = TRUE /\ greeting = NoConn /\ seen = {}
  /\ online = [n \in Names |-> IF n = 1 THEN c1 ELSE IF n = 2 THEN c2 ELSE NoConn]
  /\ nick = [c \in Conns |-> IF c = c1 THEN 1 ELSE IF c = c2 THEN 2 ELSE 0]
  /\ sock = [c \in Conns |-> IF c \in {c1, c2} THEN "open" ELSE "none"]
  /\ disc = [c \in Conns |-> FALSE]
  /\ stream = [c \in Conns |-> Rest("spent")]
  /\ pc = [c \in Conns |-> IF c \in {c1, c2} THEN "Recv" ELSE "none"]
  /\ frame = [c \in Conns |-> NoFrame]
  /\ meddled = FALSE
  /\ players = << [name |-> 1, symbol |-> "X"], [name |-> 2, symbol |-> "O"] >>
  /\ ttt = [NewGame(players[1], players[2], "O") EXCEPT !.board = Board]
  /\ viewers = {} /\ rand_num = 1
  /\ mood = [c \in Conns |-> "idle"]
  /\ checked = {} /\ stray = FALSE

MidSpec == MidInit /\ [][GameNext]_vars

MidFairSpec == MidSpec /\ GameFairness
===============================================================================
