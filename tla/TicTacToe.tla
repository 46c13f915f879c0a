------------------------------ MODULE TicTacToe ------------------------------
(***************************************************************************)
(* What the xo transaction family promises: games of tic-tac-toe, each of  *)
(* which is a board and who plays the two marks, nothing else.  Whose turn *)
(* it is and how the game ended follows from the board.  Module XoProcessor*)
(* is shown to implement it.                                               *)
(***************************************************************************)
EXTENDS Integers, FiniteSets

CONSTANTS Names, Signers, NoPlayer, NoGame

VARIABLE games  \* the game of each name, or NoGame

Squares == 1 .. 9
X == "X"
O == "O"
Free == "-"

\* Row and column of a square, both from 0.
Row(s) == (s - 1) \div 3
Col(s) == (s - 1) % 3

\* Three squares in a row, a column or a diagonal.
Lines ==
  {{s \in Squares : Row(s) = i} : i \in 0 .. 2}
    \cup {{s \in Squares : Col(s) = i} : i \in 0 .. 2}
    \cup {{s \in Squares : Row(s) = Col(s)}, {s \in Squares : Row(s) + Col(s) = 2}}

Marks(board, mark) == {s \in Squares : board[s] = mark}
Wins(board, mark)  == \E line \in Lines : line \subseteq Marks(board, mark)
Full(board)        == Marks(board, Free) = {}
Over(board)        == Wins(board, X) \/ Wins(board, O) \/ Full(board)

\* X begins.
Turn(board) ==
  IF Cardinality(Marks(board, X)) = Cardinality(Marks(board, O)) THEN X ELSE O

RulesInit == games = [n \in Names |-> NoGame]

Begin(n) ==
  /\ games[n] = NoGame
  /\ games' = [games EXCEPT ![n] =
       [board  |-> [s \in Squares |-> Free],
        player |-> [m \in {X, O} |-> NoPlayer]]]

\* A free square of an undecided game, taken by who plays the mark whose turn it
\* is; who takes a square for a mark that nobody plays, plays it from then on.
Move(n) ==
  \E game \in {games[n]} \ {NoGame} :
    /\ \E s \in Marks(game.board, Free), signer \in Signers, mark \in {Turn(game.board)} :
         /\ game.player[mark] \in {NoPlayer, signer}
         /\ games' = [games EXCEPT ![n].board[s]     = mark,
                                   ![n].player[mark] = signer]
    /\ ~Over(game.board)

\* Anybody may delete a game.
End(n) ==
  /\ games[n] # NoGame
  /\ games' = [games EXCEPT ![n] = NoGame]

\* Every one of them changes its game; saying so first spares TLC the others.
RulesNext ==
  \E n \in Names : games'[n] # games[n] /\ (Begin(n) \/ Move(n) \/ End(n))

RulesSpec == RulesInit /\ [][RulesNext]_games
=============================================================================
