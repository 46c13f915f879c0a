------------------------------- MODULE JavaXo -------------------------------
(***************************************************************************)
(* The xo transaction family in Java: XoHandler (examples/xo_java).        *)
(*                                                                         *)
(* Unlike the Python handler it lets the creator choose the size of the    *)
(* board and knows no delete.  An entry of the validator's state is meant  *)
(* to hold every game whose name has its address, but a second game cannot *)
(* be added: the attempt raises what nobody catches.  So it holds one game *)
(* at most, which is found by every name that has its address and that its *)
(* own name begins with.  Two names have one address only if their hashes  *)
(* agree in 64 digits; Address leaves that open.                           *)
(***************************************************************************)
EXTENDS Integers, FiniteSets

CONSTANTS
  Names,      \* names of games
  BadName,    \* a name that is empty or contains a bar
  Signers,    \* public keys
  NoSigner,   \* the empty string
  Addresses,
  Address,    \* makeGameAddress
  Begins,     \* the names that begin with a name, itself among them
  NoEntry,    \* the validator has no data at the address
  Dimensions  \* bound: the sizes of board that are asked for

ASSUME JavaXoAssumption ==
  /\ BadName \notin Names /\ NoSigner \notin Signers
  /\ Address \in [Names -> Addresses]
  /\ Begins \in [Names -> SUBSET Names] /\ \A n \in Names : n \in Begins[n]
  /\ Dimensions \subseteq Int

Squares(dim) == 1 .. dim * dim
GameStates == {"P1-NEXT", "P2-NEXT", "P1-WIN", "P2-WIN", "TIE"}

\* Boards of one size.
Game(dim) ==
  [name : Names, dim : {dim}, board : [Squares(dim) -> {"-", "H", "Q"}],
   state : GameStates, player1 : Signers \cup {NoSigner},
   player2 : Signers \cup {NoSigner}]

ASSUME NoEntryAssumption == \A dim \in 1 .. 12 : NoEntry \notin Game(dim)

VARIABLES
  entries,  \* the validator's state: the game at each address, or NoEntry
  failed    \* apply has raised what ends the processor's loop

vars == <<entries, failed>>

TypeOK ==
  /\ DOMAIN entries = Addresses
  /\ \A a \in Addresses : entries[a] # NoEntry =>
       entries[a].dim \in 1 .. 12 /\ entries[a] \in Game(entries[a].dim)
  /\ failed \in BOOLEAN

Init ==
  /\ entries = [a \in Addresses |-> NoEntry]
  /\ failed = FALSE

-----------------------------------------------------------------------------
(***************************************************************************)
(* The state                                                               *)
(***************************************************************************)

\* getGameCsv compares only as many characters as the name has.
Found(name) ==
  /\ entries[Address[name]] # NoEntry
  /\ entries[Address[name]].name \in Begins[name]

Stored(name) == entries[Address[name]]

\* Fault: the game replaces whatever is at the address.
Store_Replaces(name, game) ==
  entries' = [entries EXCEPT ![Address[name]] = game] /\ UNCHANGED failed

\* A game that is not in the list yet is set one place behind its end.
Store(name, game) ==
  IF Stored(name) = NoEntry \/ Stored(name).name \in Begins[game.name]
    THEN entries' = [entries EXCEPT ![Address[name]] = game] /\ UNCHANGED failed
    ELSE failed' = TRUE /\ UNCHANGED entries

-----------------------------------------------------------------------------
(***************************************************************************)
(* The rules                                                               *)
(***************************************************************************)

Mark(state) == IF state = "P1-NEXT" THEN "H" ELSE "Q"

\* Every loop overwrites the result of the one before: what is left is the second
\* diagonal.
IsWin(board, dim, letter) ==
  \A j \in 0 .. dim - 1 : board[(j + 1) * (dim - 1) + 1] = letter

\* Fault: the turn does not change.
DetermineState_Same(board, dim, state) ==
  IF \A s \in Squares(dim) : board[s] # "-" THEN "TIE" ELSE state

DetermineState(board, dim, state) ==
  IF IsWin(board, dim, "X") THEN "P1-WIN"
  ELSE IF IsWin(board, dim, "O") THEN "P2-WIN"
  ELSE IF \A s \in Squares(dim) : board[s] # "-" THEN "TIE"
  ELSE IF state = "P1-NEXT" THEN "P2-NEXT" ELSE "P1-NEXT"

\* Who moves first in a turn that nobody has had plays its mark from then on.
PlayerOne(game, signer) == IF game.player1 = NoSigner THEN signer ELSE game.player1

PlayerTwo(game, signer) ==
  IF game.player1 # NoSigner /\ game.player2 = NoSigner THEN signer ELSE game.player2

MayTake(game, space, signer) ==
  /\ game.state \in {"P1-NEXT", "P2-NEXT"}
  /\ space \in Squares(game.dim) /\ game.board[space] = "-"
  /\ signer = IF game.state = "P1-NEXT" THEN PlayerOne(game, signer)
                                        ELSE PlayerTwo(game, signer)

Taken(game, space, signer) ==
  LET board == [game.board EXCEPT ![space] = Mark(game.state)]
  IN [game EXCEPT !.board = board,
                  !.state = DetermineState(board, game.dim, game.state),
                  !.player1 = PlayerOne(game, signer),
                  !.player2 = PlayerTwo(game, signer)]

-----------------------------------------------------------------------------
(***************************************************************************)
(* apply                                                                   *)
(***************************************************************************)
Create(name, dim) ==
  /\ dim \in 1 .. 12 /\ ~Found(name)
  /\ Store(name, [name |-> name, dim |-> dim,
                  board |-> [s \in Squares(dim) |-> "-"], state |-> "P1-NEXT",
                  player1 |-> NoSigner, player2 |-> NoSigner])

Take(name, space, signer) ==
  /\ Found(name) /\ MayTake(Stored(name), space, signer)
  /\ Store(name, Taken(Stored(name), space, signer))

\* InvalidTransactionException, of the payload: the number is looked at here for a
\* create alone.
RefusePayload(name, action, number) ==
  /\ \/ name = BadName \/ action = "other"
     \/ action = "create" /\ number \notin 1 .. 12
  /\ UNCHANGED vars

\* ... or of a game that is there or is not, a square that is not free, or a turn that
\* is another's.
Refuse(name, action, number, signer) ==
  /\ \/ action = "create" /\ Found(name)
     \/ action = "take" /\ ~(Found(name) /\ MayTake(Stored(name), number, signer))
  /\ UNCHANGED vars

\* A call of the context that fails: nothing is written.
ContextFails == UNCHANGED vars

\* The number is the size of the board or the space; 0 stands for what is no number.
Numbers == Dimensions \cup 0 .. 10

Apply(signer) ==
  \/ \E name \in Names \cup {BadName}, action \in {"create", "take", "other"},
       number \in Numbers : RefusePayload(name, action, number)
  \/ \E name \in Names, number \in Numbers :
       \/ number \in Dimensions /\ Create(name, number)
       \/ Take(name, number, signer)
       \/ \E action \in {"create", "take"} : Refuse(name, action, number, signer)
  \/ ContextFails

Next == ~failed /\ \E signer \in Signers : Apply(signer)

Spec == Init /\ [][Next]_vars

-----------------------------------------------------------------------------
(***************************************************************************)
(* Properties                                                              *)
(***************************************************************************)
Marks(game, mark) == {s \in Squares(game.dim) : game.board[s] = mark}

\* The state stored beside a board agrees with its marks, whatever a win is: marks
\* are made in turn, who has made the last one is not next and is the only one who
\* can have won, a tie needs a full board and nobody is next on one, and a player is
\* missing exactly as long as his marks are (XoHandler.applyTake, determineState).
TurnsFollowMarks ==
  \A a \in Addresses : entries[a] # NoEntry =>
    LET game == entries[a]
        lead == Cardinality(Marks(game, "H")) - Cardinality(Marks(game, "Q"))
        full == Marks(game, "-") = {}
    IN /\ lead \in {0, 1}
       /\ lead = 0 => game.state \in {"P1-NEXT", "P2-WIN", "TIE"}
       /\ lead = 1 => game.state \in {"P2-NEXT", "P1-WIN", "TIE"}
       /\ game.state = "TIE" => full
       /\ full => game.state \notin {"P1-NEXT", "P2-NEXT"}
       /\ game.player1 = NoSigner <=> Marks(game, "H") = {}
       /\ game.player2 = NoSigner <=> Marks(game, "Q") = {}

\* Nothing that was played is undone: a game stays at its address under its name,
\* every mark and every player stays, whatever other names have the same address or
\* the same beginning (XoHandler.storeGameData, applyTake).
PlayIsKept ==
  [][\A a \in Addresses : entries[a] # NoEntry =>
       /\ entries'[a] # NoEntry
       /\ entries'[a].name = entries[a].name /\ entries'[a].dim = entries[a].dim
       /\ \A m \in {"H", "Q"} : Marks(entries[a], m) \subseteq Marks(entries'[a], m)
       /\ entries[a].player1 \in {NoSigner, entries'[a].player1}
       /\ entries[a].player2 \in {NoSigner, entries'[a].player2}]_vars

Square(dim, row, column) == (row - 1) * dim + column

\* The rows, the columns and the two diagonals.
Lines(dim) ==
  {{Square(dim, i, j) : j \in 1 .. dim} : i \in 1 .. dim}
    \cup {{Square(dim, i, j) : i \in 1 .. dim} : j \in 1 .. dim}
    \cup {{Square(dim, i, i) : i \in 1 .. dim}, {Square(dim, i, dim + 1 - i) : i \in 1 .. dim}}

Completed(game, mark) == \E line \in Lines(game.dim) : line \subseteq Marks(game, mark)

\* What test_take_win expects of the handler (test_tp_xo.py:158-188), and the comment
\* of isWin says it determines: who completes a line has won.
WinsAreSeen ==
  \A a \in Addresses : entries[a] # NoEntry =>
    /\ Completed(entries[a], "H") => entries[a].state = "P1-WIN"
    /\ Completed(entries[a], "Q") => entries[a].state = "P2-WIN"
=============================================================================
