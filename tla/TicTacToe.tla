------------------------------ MODULE TicTacToe ------------------------------
(* The rules of the game as tcpsocket/ttt.h computes them: pure operators on  *)
(* a record that holds what the C++ object holds.  Squares are numbered 0..8  *)
(* (row * 3 + column) in the object and 1..9 in the requests of the clients.  *)
EXTENDS Integers

Squares == 0..8
Marks   == {"O", "X"}
Blank   == "-"

Other(m) == IF m = "X" THEN "O" ELSE "X"

\* A pair<string, char>: the nickname and the symbol of a registered player.
Players(Names) == [name : Names, symbol : Marks]

Games(Names) == [player_1 : Players(Names), player_2 : Players(Names),
                 turn : Marks, winner : Marks \cup {Blank},
                 board : [Squares -> Marks \cup {Blank}]]

NewGame(p1, p2, first) ==
  [player_1 |-> p1, player_2 |-> p2, turn |-> first, winner |-> Blank,
   board |-> [s \in Squares |-> Blank]]

\* play: refused outside 1..9 and on a marked square, otherwise the mark of the
\* turn is written, whoever asked, and the turn flips.
CanPlay(g, pos) == pos \in 1..9 /\ g.board[pos - 1] = Blank
\* Mutant of Play: the turn does not flip.
PlayMutant(g, pos) == [g EXCEPT !.board = [@ EXCEPT ![pos - 1] = g.turn]]

Play(g, pos)    == [g EXCEPT !.board = [@ EXCEPT ![pos - 1] = g.turn],
                             !.turn  = Other(@)]

IsFull(g) == \A s \in Squares : g.board[s] # Blank

\* The eight lines in the order verify_winner scans them.
Lines == << <<0, 1, 2>>, <<0, 3, 6>>, <<3, 4, 5>>, <<1, 4, 7>>,
            <<6, 7, 8>>, <<2, 5, 8>>, <<0, 4, 8>>, <<2, 4, 6>> >>

Complete(b, i) == LET l == Lines[i]
                  IN  b[l[1]] = b[l[2]] /\ b[l[2]] = b[l[3]] /\ b[l[1]] # Blank

HasLine(g)   == \E i \in 1..8 : Complete(g.board, i)
FirstLine(b) == CHOOSE i \in 1..8 :
                  Complete(b, i) /\ \A j \in 1..8 : Complete(b, j) => i <= j

\* verify_winner on a board with a complete line: the first one found decides.
SetWinner(g) == [g EXCEPT !.winner = g.board[Lines[FirstLine(g.board)][1]]]

VerifyPlayer(g, n) == n \in {g.player_1.name, g.player_2.name}
VerifyTurn(g, n)   == \E p \in {g.player_1, g.player_2} :
                        n = p.name /\ g.turn = p.symbol

GetTurnNow(g) == IF g.turn = g.player_1.symbol THEN g.player_1.name
                                               ELSE g.player_2.name
GetWinner(g)  == IF g.winner = g.player_1.symbol THEN g.player_1.name
                                                 ELSE g.player_2.name
GetLoser(g)   == IF g.winner = g.player_1.symbol THEN g.player_2.name
                                                 ELSE g.player_1.name

\* The game is over: what makes play_game announce a result and start afresh.
Finished(g) == HasLine(g) \/ IsFull(g)
==============================================================================
