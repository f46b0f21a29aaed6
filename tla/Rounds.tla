-------------------------------- MODULE Rounds --------------------------------
(* What the game server of udpsocket promises: rock-paper-scissors between    *)
(* players taken two at a time, each datagram handled at one stroke.          *)
CONSTANTS Nicks, NoState

VARIABLES
  waiting,   \* the player that waits for another, or NoState
  result     \* the result of the last round, until the next one begins

Shapes == {"piedra", "papel", "tijera"}
Beats  == {<<"piedra", "tijera">>, <<"tijera", "papel">>, <<"papel", "piedra">>}
States == [nickname : Nicks, state : Shapes]

\* The results the rules allow between two players.
Draw(p, q) == p.state = q.state
Results(p, q) == {r \in [winner : {p, q}, loser : {p, q}] :
                    <<r.winner.state, r.loser.state>> \in Beats}

RoundsInit == waiting = NoState /\ result = NoState

Wait(p) == waiting = NoState /\ waiting' = p /\ result' = NoState

Settle(p) ==
  /\ waiting # NoState /\ waiting' = NoState
  /\ \/ Draw(p, waiting) /\ result' = [draw |-> {p, waiting}]
     \/ result' \in Results(p, waiting)

RoundsNext == \E p \in States : Wait(p) \/ Settle(p)

RoundsSpec == RoundsInit /\ [][RoundsNext]_<<waiting, result>>
===============================================================================
