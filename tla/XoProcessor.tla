----------------------------- MODULE XoProcessor -----------------------------
(***************************************************************************)
(* The xo transaction family in Python: XoTransactionHandler (handler.py), *)
(* XoState (xo_state.py) and XoPayload (xo_payload.py) of                  *)
(* examples/xo_python/sawtooth_xo/processor.                               *)
(*                                                                         *)
(* The validator's state has one entry per address, and an address is a    *)
(* hash of the game's name: the entry holds every game whose name has that *)
(* hash.  apply reads the entry, decides, and writes or deletes it; a call *)
(* of the context that fails ends apply, and the validator discards what a *)
(* transaction wrote that did not succeed.                                 *)
(***************************************************************************)
EXTENDS Integers, FiniteSets, Functions

CONSTANTS
  Names,      \* names of games
  BadName,    \* a name that is empty or contains a bar
  Signers,    \* public keys
  NoSigner,   \* the empty string
  Addresses,
  Address,    \* _make_xo_address
  NoEntry,    \* the validator has no data at the address
  MaxMarks    \* bound: how many squares of a board are taken

ASSUME XoAssumption ==
  /\ BadName \notin Names /\ NoSigner \notin Signers
  /\ Address \in [Names -> Addresses]
  /\ MaxMarks \in 0 .. 9

Squares    == 1 .. 9
GameStates == {"P1-NEXT", "P2-NEXT", "P1-WIN", "P2-WIN", "TIE"}
Game ==
  [board   : [Squares -> {"-", "X", "O"}],
   state   : GameStates,
   player1 : Signers \cup {NoSigner},
   player2 : Signers \cup {NoSigner}]

\* Payloads that split into three fields: only "take" looks at the space, and one
\* that is no number is refused like 10.
Payload ==
  [name : Names \cup {BadName}, action : {"take"}, space : 0 .. 10]
    \cup [name : Names \cup {BadName}, action : {"create", "delete", "other"},
          space : {0}]

\* What stands for no data is neither the games of an entry nor one of the games
\* that the abstract specification knows.
ASSUME NoEntryAssumption ==
  /\ \A names \in SUBSET Names : NoEntry \notin [names -> Game]
  /\ NoEntry \notin [board  : [Squares -> {"-", "X", "O"}],
                     player : [{"X", "O"} -> Signers \cup {NoSigner}]]

VARIABLES
  entries,  \* the validator's state: the games at each address, or NoEntry
  failure   \* what apply raised that is no fault of the transaction

vars == <<entries, failure>>

TypeOK ==
  /\ DOMAIN entries = Addresses
  /\ \A a \in Addresses : entries[a] # NoEntry =>
       /\ DOMAIN entries[a] \subseteq Names
       /\ \A n \in DOMAIN entries[a] : entries[a][n] \in Game
  /\ failure \in {"none", "internal", "exception"}

Init ==
  /\ entries = [a \in Addresses |-> NoEntry]
  /\ failure = "none"

-----------------------------------------------------------------------------
(***************************************************************************)
(* XoState                                                                 *)
(***************************************************************************)
NoGames == [n \in {} |-> NoEntry]

Load(name) ==
  LET entry == entries[Address[name]]
  IN IF entry = NoEntry THEN NoGames ELSE entry

Exists(name) == name \in DOMAIN Load(name)

\* Fault: the entry is written with this game alone.
SetGame_Alone(name, game) ==
  entries' = [entries EXCEPT ![Address[name]] = [n \in {name} |-> game]]

SetGame(name, game) ==
  LET games == Load(name)
  IN entries' = [entries EXCEPT ![Address[name]] =
       [n \in DOMAIN games \cup {name} |-> IF n = name THEN game ELSE games[n]]]

\* Fault: an entry without games is written instead of deleted.
DeleteGame_Writes(name) ==
  entries' = [entries EXCEPT ![Address[name]] =
                Restrict(Load(name), DOMAIN Load(name) \ {name})]

DeleteGame(name) ==
  LET others == Restrict(Load(name), DOMAIN Load(name) \ {name})
  IN entries' = [entries EXCEPT ![Address[name]] =
                   IF DOMAIN others = {} THEN NoEntry ELSE others]

-----------------------------------------------------------------------------
(***************************************************************************)
(* The rules                                                               *)
(***************************************************************************)

\* Python indexes a string from its end with a negative number.
At(board, space) == board[IF space = 0 THEN 9 ELSE space]

wins == {{1, 2, 3}, {4, 5, 6}, {7, 8, 9}, {1, 4, 7}, {2, 5, 8}, {3, 6, 9},
         {1, 5, 9}, {3, 5, 7}}

IsWin(board, letter) == \E win \in wins : \A s \in win : board[s] = letter

UpdateBoard(board, space, state) ==
  [s \in Squares |-> IF s # space THEN board[s]
                     ELSE IF state = "P1-NEXT" THEN "X" ELSE "O"]

\* The states in which no mark is chosen and no move expected.
Ended == {"P1-WIN", "P2-WIN", "TIE"}

\* Fault: a full board is a tie before a win is looked for.
UpdateGameState_TieFirst(state, board) ==
  IF \A s \in Squares : board[s] # "-" THEN "TIE"
  ELSE IF IsWin(board, "X") THEN "P1-WIN"
  ELSE IF IsWin(board, "O") THEN "P2-WIN"
  ELSE IF state = "P1-NEXT" THEN "P2-NEXT" ELSE "P1-NEXT"

UpdateGameState(state, board) ==
  IF IsWin(board, "X") THEN "P1-WIN"
  ELSE IF IsWin(board, "O") THEN "P2-WIN"
  ELSE IF \A s \in Squares : board[s] # "-" THEN "TIE"
  ELSE IF state = "P1-NEXT" THEN "P2-NEXT" ELSE "P1-NEXT"

-----------------------------------------------------------------------------
(***************************************************************************)
(* XoTransactionHandler.apply                                              *)
(***************************************************************************)

\* XoPayload: the name, the action, and the space of a take.
WellFormed(p) ==
  /\ p.name # BadName /\ p.action # "other"
  /\ p.action = "take" => p.space \in 1 .. 9

Create(p, signer) ==
  /\ p.action = "create" /\ ~Exists(p.name)
  /\ SetGame(p.name, [board   |-> [s \in Squares |-> "-"], state |-> "P1-NEXT",
                      player1 |-> NoSigner, player2 |-> NoSigner])
  /\ UNCHANGED failure

\* Fault: the first player may move at any time.
WrongTurn_Second(game, signer) ==
  game.player2 # NoSigner /\ game.state = "P2-NEXT" /\ game.player2 # signer

WrongTurn(game, signer) ==
  \/ game.player1 # NoSigner /\ game.state = "P1-NEXT" /\ game.player1 # signer
  \/ game.player2 # NoSigner /\ game.state = "P2-NEXT" /\ game.player2 # signer

\* Fault: an ended game is played on.
MayTake_Ended(p, signer) ==
  LET game == Load(p.name)[p.name]
  IN ~WrongTurn(game, signer) /\ At(game.board, p.space) = "-"

MayTake(p, signer) ==
  LET game == Load(p.name)[p.name]
  IN /\ game.state \notin Ended
     /\ ~WrongTurn(game, signer)
     /\ At(game.board, p.space) = "-"

\* The first signer of a game becomes player 1, the next one player 2, which may
\* be the same.
Taken(game, space, signer) ==
  LET board == UpdateBoard(game.board, space, game.state)
  IN [board   |-> board,
      state   |-> UpdateGameState(game.state, board),
      player1 |-> IF game.player1 = NoSigner THEN signer ELSE game.player1,
      player2 |-> IF game.player1 # NoSigner /\ game.player2 = NoSigner
                    THEN signer ELSE game.player2]

\* In an ended game no mark would be chosen, which raises UnboundLocalError; two
\* winners raise InternalError.
Take(p, signer) ==
  /\ p.action = "take" /\ Exists(p.name) /\ MayTake(p, signer)
  /\ LET game == Load(p.name)[p.name]
         new  == Taken(game, p.space, signer)
     IN \/ /\ game.state \in Ended
           /\ failure' = "exception" /\ UNCHANGED entries
        \/ /\ game.state \notin Ended
           /\ IsWin(new.board, "X") /\ IsWin(new.board, "O")
           /\ failure' = "internal" /\ UNCHANGED entries
        \/ /\ game.state \notin Ended
           /\ ~(IsWin(new.board, "X") /\ IsWin(new.board, "O"))
           /\ Cardinality({s \in Squares : new.board[s] # "-"}) <= MaxMarks
           /\ SetGame(p.name, new)
           /\ UNCHANGED failure

Delete(p) ==
  /\ p.action = "delete" /\ Exists(p.name)
  /\ DeleteGame(p.name)
  /\ UNCHANGED failure

\* InvalidTransaction, of the payload or of what it asks for.
RefusePayload(p) ==
  /\ ~WellFormed(p)
  /\ UNCHANGED vars

Refuse(p, signer) ==
  /\ \/ p.action = "create" /\ Exists(p.name)
     \/ p.action \in {"take", "delete"} /\ ~Exists(p.name)
     \/ p.action = "take" /\ Exists(p.name) /\ ~MayTake(p, signer)
  /\ UNCHANGED vars

\* A call of the context raises: not authorised, disconnected, or no answer
\* within TIMEOUT.
ContextFails ==
  /\ UNCHANGED vars

Apply(p, signer) ==
  WellFormed(p) /\ (Create(p, signer) \/ Take(p, signer) \/ Delete(p) \/ Refuse(p, signer))

Next ==
  \/ \E p \in Payload : RefusePayload(p) \/ \E signer \in Signers : Apply(p, signer)
  \/ ContextFails

Spec == Init /\ [][Next]_vars

-----------------------------------------------------------------------------
(***************************************************************************)
(* Properties                                                              *)
(***************************************************************************)

\* No legal sequence of transactions makes apply raise anything but
\* InvalidTransaction: no board ever has two winners, and no mark is placed in a
\* state that has none.
NeverFailsInternally == failure = "none"

\* An entry holds games whose names have its address, and at least one: an entry
\* without any would not deserialise.
EntriesAreReadable ==
  \A a \in Addresses :
    entries[a] # NoEntry =>
      /\ DOMAIN entries[a] # {}
      /\ \A n \in DOMAIN entries[a] : Address[n] = a

\* The games of the abstract specification.
gamesBar ==
  [n \in Names |->
     IF ~Exists(n) THEN NoEntry
     ELSE LET game == Load(n)[n]
          IN [board  |-> game.board,
              player |-> [m \in {"X", "O"} |->
                            IF m = "X" THEN game.player1 ELSE game.player2]]]

Rules == INSTANCE TicTacToe WITH games <- gamesBar, NoPlayer <- NoSigner,
                                 NoGame <- NoEntry

\* The handler plays by the rules: every transaction is a move of a single game
\* that TicTacToe allows, or changes nothing, although whose turn it is and who
\* won is stored beside the board, and games share entries.
KeepsRules == Rules!RulesSpec

\* The state stored beside a board is the one the board shows, and a player is
\* missing exactly as long as the mark is.
StateFollowsBoard ==
  \A n \in Names : Exists(n) =>
    LET game == Load(n)[n]
        Shown(state, shows) == game.state = state <=> shows
    IN /\ Shown("P1-WIN", Rules!Wins(game.board, "X"))
       /\ Shown("P2-WIN", Rules!Wins(game.board, "O"))
       /\ Shown("P1-NEXT", ~Rules!Over(game.board) /\ Rules!Turn(game.board) = "X")
       /\ Shown("P2-NEXT", ~Rules!Over(game.board) /\ Rules!Turn(game.board) = "O")
       /\ game.player1 = NoSigner <=> Rules!Marks(game.board, "X") = {}
       /\ game.player2 = NoSigner <=> Rules!Marks(game.board, "O") = {}

\* The handler refuses nobody and nothing that the rules allow: it looks at the
\* stored state and players, where the rules look at the board.
RefusesOnlyFouls ==
  \A n \in Names, signer \in Signers, s \in Squares : Exists(n) =>
    LET board == Load(n)[n].board
    IN MayTake([name |-> n, action |-> "take", space |-> s], signer) <=>
         /\ ~Rules!Over(board) /\ board[s] = "-"
         /\ gamesBar[n].player[Rules!Turn(board)] \in {NoSigner, signer}
=============================================================================
