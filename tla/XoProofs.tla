------------------------------ MODULE XoProofs ------------------------------
(***************************************************************************)
(* Theorems about XoProcessor, for any names, addresses and signers: the   *)
(* entries keep their shape and can be read, the state beside a board is   *)
(* the one the board shows, apply never raises InternalError or anything   *)
(* unforeseen, and the handler implements the rules of TicTacToe.          *)
(*                                                                         *)
(* All of it rests on one invariant, XoInv, which says of every game that  *)
(* its state and players follow from its board, and of the board that X is *)
(* ahead of O by no mark or one and that not both have a line.  A move     *)
(* changes the lead from one to the other, and places one mark, which      *)
(* cannot complete a line of the other letter.                             *)
(***************************************************************************)
EXTENDS XoProcessor, FiniteSetTheorems, TLAPS

Marks(board, mark) == {s \in Squares : board[s] = mark}
Lead(board) == Cardinality(Marks(board, "X")) - Cardinality(Marks(board, "O"))

\* The state that belongs to a board.
Shows(board) ==
  IF IsWin(board, "X") THEN "P1-WIN"
  ELSE IF IsWin(board, "O") THEN "P2-WIN"
  ELSE IF Marks(board, "-") = {} THEN "TIE"
  ELSE IF Lead(board) = 0 THEN "P1-NEXT" ELSE "P2-NEXT"

Follows(game) ==
  /\ Lead(game.board) \in {0, 1}
  /\ ~(IsWin(game.board, "X") /\ IsWin(game.board, "O"))
  /\ game.state = Shows(game.board)
  /\ game.player1 = NoSigner <=> Marks(game.board, "X") = {}
  /\ game.player2 = NoSigner <=> Marks(game.board, "O") = {}

Sound(game) == game \in Game /\ Follows(game)

SoundEntry(entry, a) ==
  entry # NoEntry =>
    /\ DOMAIN entry \subseteq Names /\ DOMAIN entry # {}
    /\ \A n \in DOMAIN entry : Address[n] = a /\ Sound(entry[n])

XoInv ==
  /\ DOMAIN entries = Addresses
  /\ \A a \in Addresses : SoundEntry(entries[a], a)
  /\ failure = "none"

-----------------------------------------------------------------------------
\* A mark that is placed completes no line of the other letter, so that a line
\* of the other letter was complete before.
LEMMA OtherLetter ==
  ASSUME NEW game \in Game, NEW space \in Squares,
         NEW letter \in {"X", "O"},
         game.state = "P1-NEXT" => letter = "O",
         game.state # "P1-NEXT" => letter = "X",
         IsWin(UpdateBoard(game.board, space, game.state), letter)
  PROVE  IsWin(game.board, letter)
<1> DEFINE new == UpdateBoard(game.board, space, game.state)
<1>1. PICK win \in wins : \A s \in win : new[s] = letter
  BY DEF IsWin
<1>2. win \subseteq Squares
  BY DEF wins, Squares
<1>3. \A s \in win : game.board[s] = letter
  <2> SUFFICES ASSUME NEW s \in win PROVE game.board[s] = letter
    OBVIOUS
  <2>1. s \in Squares /\ new[s] = letter
    BY <1>1, <1>2
  <2>2. new[s] = IF s # space THEN game.board[s]
                 ELSE IF game.state = "P1-NEXT" THEN "X" ELSE "O"
    BY <2>1 DEF UpdateBoard
  <2> QED
    BY <2>1, <2>2
<1> QED
  BY <1>1, <1>3 DEF IsWin

LEMMA MarksAreFinite ==
  ASSUME NEW board, NEW mark
  PROVE  /\ IsFiniteSet(Marks(board, mark)) /\ Cardinality(Marks(board, mark)) \in Nat
         /\ Cardinality(Marks(board, mark)) = 0 <=> Marks(board, mark) = {}
<1>1. IsFiniteSet(Squares)
  <2>1. \A n \in Int : IsFiniteSet(1 .. n)
    BY FS_Interval
  <2>2. 9 \in Int
    OBVIOUS
  <2> QED
    BY <2>1, <2>2 DEF Squares
<1>2. IsFiniteSet(Marks(board, mark))
  BY <1>1, FS_Subset DEF Marks
<1> QED
  BY <1>2, FS_CardinalityType, FS_EmptySet

\* The marks of a board after a move.
LEMMA MarksOfMove ==
  ASSUME NEW board \in [Squares -> {"-", "X", "O"}], NEW space \in Squares,
         board[space] = "-", NEW state \in {"P1-NEXT", "P2-NEXT"}
  PROVE  LET new == UpdateBoard(board, space, state)
         IN /\ new \in [Squares -> {"-", "X", "O"}]
            /\ space \notin Marks(board, "X") /\ space \notin Marks(board, "O")
            /\ state = "P1-NEXT" =>
                 Marks(new, "X") = Marks(board, "X") \cup {space} /\ Marks(new, "O") = Marks(board, "O")
            /\ state = "P2-NEXT" =>
                 Marks(new, "O") = Marks(board, "O") \cup {space} /\ Marks(new, "X") = Marks(board, "X")
<1>1. CASE state = "P1-NEXT"
  BY <1>1 DEF UpdateBoard, Marks
<1>2. CASE state = "P2-NEXT"
  BY <1>2 DEF UpdateBoard, Marks
<1> QED
  BY <1>1, <1>2

\* A move in a game that has not ended leads to a game that follows its board too,
\* and has at most one winner.
LEMMA MoveIsSound ==
  ASSUME NEW game, Sound(game), game.state \notin Ended,
         NEW space \in Squares, game.board[space] = "-", NEW signer \in Signers
  PROVE  LET new == Taken(game, space, signer)
         IN ~(IsWin(new.board, "X") /\ IsWin(new.board, "O")) /\ Sound(new)
<1> DEFINE new   == Taken(game, space, signer)
           board == UpdateBoard(game.board, space, game.state)
<1>1. /\ game \in Game /\ ~IsWin(game.board, "X") /\ ~IsWin(game.board, "O")
      /\ Lead(game.board) \in {0, 1} /\ Marks(game.board, "-") # {}
      /\ game.state = IF Lead(game.board) = 0 THEN "P1-NEXT" ELSE "P2-NEXT"
      /\ game.player1 = NoSigner <=> Marks(game.board, "X") = {}
      /\ game.player2 = NoSigner <=> Marks(game.board, "O") = {}
  BY DEF Sound, Follows, Shows, Ended
<1>2. new.board = board /\ new.state = UpdateGameState(game.state, board)
  BY DEF Taken
<1>3. ~(IsWin(board, "X") /\ IsWin(board, "O"))
  <2>1. CASE game.state = "P1-NEXT"
    BY <1>1, <2>1, OtherLetter
  <2>2. CASE game.state # "P1-NEXT"
    BY <1>1, <2>2, OtherLetter
  <2> QED
    BY <2>1, <2>2
<1>4. /\ board \in [Squares -> {"-", "X", "O"}]
      /\ space \notin Marks(game.board, "X") /\ space \notin Marks(game.board, "O")
      /\ game.state = "P1-NEXT" =>
           /\ Marks(board, "X") = Marks(game.board, "X") \cup {space}
           /\ Marks(board, "O") = Marks(game.board, "O")
      /\ game.state = "P2-NEXT" =>
           /\ Marks(board, "O") = Marks(game.board, "O") \cup {space}
           /\ Marks(board, "X") = Marks(game.board, "X")
  <2>1. game.board \in [Squares -> {"-", "X", "O"}] /\ game.state \in {"P1-NEXT", "P2-NEXT"}
    BY <1>1 DEF Game
  <2> QED
    BY <2>1, MarksOfMove
<1>5. new.state \in GameStates
  BY <1>2 DEF UpdateGameState, GameStates
<1>6. new \in Game
  <2>1. game.player1 \in Signers \cup {NoSigner} /\ game.player2 \in Signers \cup {NoSigner}
    BY <1>1 DEF Game
  <2>2. new = [board |-> board, state |-> new.state,
               player1 |-> new.player1, player2 |-> new.player2]
    BY DEF Taken
  <2>3. new.player1 \in Signers \cup {NoSigner} /\ new.player2 \in Signers \cup {NoSigner}
    BY <2>1 DEF Taken
  <2> HIDE DEF new, board
  <2> QED
    BY <1>4, <1>5, <2>2, <2>3 DEF Game
<1>7. (\A s \in Squares : board[s] # "-") <=> Marks(board, "-") = {}
  BY DEF Marks
<1>8. /\ new.player1 = IF game.player1 = NoSigner THEN signer ELSE game.player1
      /\ new.player2 = IF game.player1 # NoSigner /\ game.player2 = NoSigner
                         THEN signer ELSE game.player2
      /\ signer # NoSigner
  BY XoAssumption DEF Taken
<1>9. /\ IsFiniteSet(Marks(game.board, "X")) /\ Cardinality(Marks(game.board, "X")) \in Nat
      /\ IsFiniteSet(Marks(game.board, "O")) /\ Cardinality(Marks(game.board, "O")) \in Nat
      /\ Cardinality(Marks(game.board, "X")) = 0 <=> Marks(game.board, "X") = {}
      /\ Cardinality(Marks(game.board, "O")) = 0 <=> Marks(game.board, "O") = {}
  BY MarksAreFinite
<1> HIDE DEF new, board
<1>10. Follows(new)
  <2>1. CASE game.state = "P1-NEXT"
    <3>1. Cardinality(Marks(board, "X")) = Cardinality(Marks(game.board, "X")) + 1
      BY <1>4, <1>9, <2>1, FS_AddElement
    <3>2. Lead(game.board) = 0 /\ Lead(board) = 1
      BY <1>1, <1>4, <1>9, <2>1, <3>1 DEF Lead
    <3>3. new.state = Shows(board)
      BY <1>2, <1>7, <2>1, <3>2 DEF UpdateGameState, Shows
    <3>4. new.player1 # NoSigner /\ Marks(board, "X") # {}
      BY <1>4, <1>8, <2>1
    <3>5. new.player2 = NoSigner <=> Marks(board, "O") = {}
      <4>1. game.player1 # NoSigner => game.player2 # NoSigner
        BY <1>1, <1>9, <3>2 DEF Lead
      <4> QED
        BY <1>1, <1>4, <1>8, <2>1, <4>1
    <3> QED
      BY <1>2, <1>3, <3>2, <3>3, <3>4, <3>5 DEF Follows
  <2>2. CASE game.state = "P2-NEXT"
    <3>1. Cardinality(Marks(board, "O")) = Cardinality(Marks(game.board, "O")) + 1
      BY <1>4, <1>9, <2>2, FS_AddElement
    <3>2. Lead(game.board) = 1 /\ Lead(board) = 0
      BY <1>1, <1>4, <1>9, <2>2, <3>1 DEF Lead
    <3>3. new.state = Shows(board)
      BY <1>2, <1>7, <2>2, <3>2 DEF UpdateGameState, Shows
    <3>4. game.player1 # NoSigner
      BY <1>1, <1>9, <3>2 DEF Lead
    <3>5. new.player1 = NoSigner <=> Marks(board, "X") = {}
      BY <1>1, <1>4, <1>8, <2>2, <3>4
    <3>6. new.player2 # NoSigner /\ Marks(board, "O") # {}
      BY <1>4, <1>8, <2>2, <3>4
    <3> QED
      BY <1>2, <1>3, <3>2, <3>3, <3>5, <3>6 DEF Follows
  <2> QED
    BY <1>1, <2>1, <2>2
<1> QED
  BY <1>2, <1>3, <1>6, <1>10 DEF Sound, new

\* A new game, as Create writes it.
Fresh == [board |-> [s \in Squares |-> "-"], state |-> "P1-NEXT",
          player1 |-> NoSigner, player2 |-> NoSigner]

LEMMA FreshIsSound == Sound(Fresh)
<1>1. Fresh \in Game
  BY DEF Fresh, Game, GameStates
<1>2. \A s \in Squares : Fresh.board[s] = "-"
  BY DEF Fresh
<1>3. ~IsWin(Fresh.board, "X") /\ ~IsWin(Fresh.board, "O")
  BY <1>2 DEF IsWin, wins, Squares
<1>4. Marks(Fresh.board, "X") = {} /\ Marks(Fresh.board, "O") = {} /\ 1 \in Marks(Fresh.board, "-")
  BY <1>2 DEF Marks, Squares
<1>5. Lead(Fresh.board) = 0
  <2>1. Cardinality(Marks(Fresh.board, "X")) = 0 /\ Cardinality(Marks(Fresh.board, "O")) = 0
    BY <1>4, FS_EmptySet
  <2> QED
    BY <2>1 DEF Lead
<1>6. Fresh.state = "P1-NEXT" /\ Fresh.player1 = NoSigner /\ Fresh.player2 = NoSigner
  BY DEF Fresh
<1> QED
  BY <1>1, <1>3, <1>4, <1>5, <1>6 DEF Sound, Follows, Shows

-----------------------------------------------------------------------------
\* What is loaded under the invariant is sound.
LEMMA LoadIsSound ==
  ASSUME XoInv, NEW name \in Names
  PROVE  /\ Address[name] \in Addresses
         /\ DOMAIN Load(name) \subseteq Names
         /\ \A n \in DOMAIN Load(name) :
              Address[n] = Address[name] /\ Sound(Load(name)[n])
<1>1. Address[name] \in Addresses
  BY XoAssumption
<1>2. CASE entries[Address[name]] = NoEntry
  BY <1>1, <1>2 DEF Load, NoGames
<1>3. CASE entries[Address[name]] # NoEntry
  BY <1>1, <1>3 DEF XoInv, SoundEntry, Load
<1> QED
  BY <1>1, <1>2, <1>3

\* Writing a sound game keeps the entries sound.
LEMMA SetGameIsSound ==
  ASSUME XoInv, NEW name \in Names, NEW game, Sound(game), SetGame(name, game),
         UNCHANGED failure
  PROVE  XoInv'
<1> DEFINE a     == Address[name]
           games == Load(name)
           new   == [n \in DOMAIN games \cup {name} |-> IF n = name THEN game ELSE games[n]]
<1>1. a \in Addresses /\ DOMAIN games \subseteq Names
      /\ \A n \in DOMAIN games : Address[n] = a /\ Sound(games[n])
  BY LoadIsSound
<1>2. entries' = [entries EXCEPT ![a] = new]
  BY DEF SetGame
<1>3. SoundEntry(new, a)
  <2>1. DOMAIN new = DOMAIN games \cup {name}
    OBVIOUS
  <2>2. DOMAIN new \subseteq Names /\ DOMAIN new # {}
    BY <1>1, <2>1
  <2>3. ASSUME NEW n \in DOMAIN new PROVE Address[n] = a /\ Sound(new[n])
    <3>1. CASE n = name
      BY <3>1
    <3>2. CASE n # name
      BY <1>1, <3>2
    <3> QED
      BY <3>1, <3>2
  <2> HIDE DEF new, a
  <2> QED
    BY <2>2, <2>3 DEF SoundEntry
<1>4. \A b \in Addresses : b # a => entries'[b] = entries[b]
  BY <1>2 DEF XoInv
<1>5. entries'[a] = new /\ DOMAIN entries' = Addresses
  BY <1>1, <1>2 DEF XoInv
<1> HIDE DEF new, a, games
<1>6. \A b \in Addresses : SoundEntry(entries'[b], b)
  BY <1>3, <1>4, <1>5 DEF XoInv, SoundEntry
<1> QED
  BY <1>5, <1>6 DEF XoInv, SoundEntry

\* So does deleting one; an entry is deleted with its last game.
LEMMA DeleteGameIsSound ==
  ASSUME XoInv, NEW name \in Names, DeleteGame(name), UNCHANGED failure
  PROVE  XoInv'
<1> DEFINE a      == Address[name]
           games  == Load(name)
           left   == DOMAIN games \ {name}
           others == Restrict(games, left)
           new    == IF DOMAIN others = {} THEN NoEntry ELSE others
<1>1. a \in Addresses /\ DOMAIN games \subseteq Names
      /\ \A n \in DOMAIN games : Address[n] = a /\ Sound(games[n])
  BY LoadIsSound
<1>2. entries' = [entries EXCEPT ![a] = new]
  BY DEF DeleteGame
<1>3. SoundEntry(new, a)
  <2>1. DOMAIN others = left /\ \A n \in left : others[n] = games[n]
    BY DEF Restrict
  <2>2. left \subseteq Names /\ \A n \in left : Address[n] = a /\ Sound(others[n])
    BY <1>1, <2>1
  <2> HIDE DEF others, left, a
  <2> QED
    BY <2>1, <2>2 DEF SoundEntry
<1>4. \A b \in Addresses : b # a => entries'[b] = entries[b]
  BY <1>2 DEF XoInv
<1>5. entries'[a] = new /\ DOMAIN entries' = Addresses
  BY <1>1, <1>2 DEF XoInv
<1> HIDE DEF new, a, games
<1>6. \A b \in Addresses : SoundEntry(entries'[b], b)
  BY <1>3, <1>4, <1>5 DEF XoInv, SoundEntry
<1> QED
  BY <1>5, <1>6 DEF XoInv, SoundEntry

-----------------------------------------------------------------------------
\* The invariant holds at first and is kept by every transaction.
LEMMA XoInvInit == Init => XoInv
BY DEF Init, XoInv, SoundEntry

LEMMA XoInvNext == XoInv /\ [Next]_vars => XoInv'
<1> SUFFICES ASSUME XoInv, [Next]_vars PROVE XoInv'
  OBVIOUS
<1>1. ASSUME UNCHANGED vars PROVE XoInv'
  BY <1>1 DEF vars, XoInv, SoundEntry
<1>2. CASE ContextFails
  BY <1>1, <1>2 DEF ContextFails
<1>3. ASSUME NEW p \in Payload, RefusePayload(p) PROVE XoInv'
  BY <1>1, <1>3 DEF RefusePayload
<1>4. ASSUME NEW p \in Payload, NEW signer \in Signers, Apply(p, signer)
      PROVE  XoInv'
  <2>2. CASE Refuse(p, signer)
    BY <1>1, <2>2 DEF Refuse
  <2>4. ASSUME WellFormed(p)
        PROVE  p.name \in Names /\ (p.action = "take" => p.space \in Squares)
    BY <2>4 DEF WellFormed, Payload, Squares
  <2>5. ASSUME WellFormed(p), Create(p, signer) PROVE XoInv'
    <3>1. SetGame(p.name, Fresh) /\ UNCHANGED failure
      BY <2>5 DEF Create, Fresh
    <3> QED
      BY <2>4, <2>5, <3>1, FreshIsSound, SetGameIsSound
  <2>6. ASSUME WellFormed(p), Take(p, signer) PROVE XoInv'
    <3> DEFINE game == Load(p.name)[p.name]
               new  == Taken(game, p.space, signer)
    <3>1. p.name \in Names /\ p.space \in Squares
      BY <2>4, <2>6 DEF Take
    <3>2. Sound(game) /\ game.state \notin Ended /\ game.board[p.space] = "-"
      BY <2>6, <3>1, LoadIsSound DEF Take, Exists, MayTake, At, Squares
    <3>3. ~(IsWin(new.board, "X") /\ IsWin(new.board, "O")) /\ Sound(new)
      BY <3>1, <3>2, MoveIsSound
    <3>4. SetGame(p.name, new) /\ UNCHANGED failure
      BY <2>6, <3>2, <3>3 DEF Take
    <3> HIDE DEF game, new
    <3> QED
      BY <3>1, <3>3, <3>4, SetGameIsSound
  <2>7. ASSUME WellFormed(p), Delete(p) PROVE XoInv'
    BY <2>4, <2>7, DeleteGameIsSound DEF Delete
  <2> QED
    BY <1>4, <2>2, <2>5, <2>6, <2>7 DEF Apply
<1> QED
  BY <1>1, <1>2, <1>3, <1>4 DEF Next

\* Every variable keeps its type.
THEOREM TypeCorrect == Spec => []TypeOK
<1>1. XoInv => TypeOK
  BY DEF XoInv, SoundEntry, Sound, TypeOK
<1> QED
  BY XoInvInit, XoInvNext, <1>1, PTL DEF Spec

\* apply raises nothing but InvalidTransaction, whatever transactions come: the
\* branches of handler.py for two winners and for an unhandled state are dead.
THEOREM ApplyNeverFails == Spec => []NeverFailsInternally
<1>1. XoInv => NeverFailsInternally
  BY DEF XoInv, NeverFailsInternally
<1> QED
  BY XoInvInit, XoInvNext, <1>1, PTL DEF Spec

\* An entry holds a game, and only games whose name has its address.
THEOREM EntriesReadable == Spec => []EntriesAreReadable
<1>1. XoInv => EntriesAreReadable
  BY DEF XoInv, SoundEntry, EntriesAreReadable
<1> QED
  BY XoInvInit, XoInvNext, <1>1, PTL DEF Spec

-----------------------------------------------------------------------------
(***************************************************************************)
(* The handler and the rules                                               *)
(***************************************************************************)

\* The rows, columns and diagonals that TicTacToe computes are the lines that
\* xo_state.py and handler.py list.
LEMMA LinesAreWins == Rules!Lines = wins
<1>1. \A s \in Squares : s \in {1, 2, 3, 4, 5, 6, 7, 8, 9}
  BY DEF Squares
<1>2. \A s \in {1, 2, 3} : Rules!Row(s) = 0
  BY DEF Rules!Row
<1>3. \A s \in {4, 5, 6} : Rules!Row(s) = 1
  BY DEF Rules!Row
<1>4. \A s \in {7, 8, 9} : Rules!Row(s) = 2
  BY DEF Rules!Row
<1>5. \A s \in {1, 4, 7} : Rules!Col(s) = 0
  BY DEF Rules!Col
<1>6. \A s \in {2, 5, 8} : Rules!Col(s) = 1
  BY DEF Rules!Col
<1>7. \A s \in {3, 6, 9} : Rules!Col(s) = 2
  BY DEF Rules!Col
<1> DEFINE RowLine(i)  == {s \in Rules!Squares : Rules!Row(s) = i}
           ColLine(i)  == {s \in Rules!Squares : Rules!Col(s) = i}
           Diagonal    == {s \in Rules!Squares : Rules!Row(s) = Rules!Col(s)}
           Other       == {s \in Rules!Squares : Rules!Row(s) + Rules!Col(s) = 2}
<1>8. RowLine(0) = {1, 2, 3} /\ RowLine(1) = {4, 5, 6} /\ RowLine(2) = {7, 8, 9}
  BY <1>1, <1>2, <1>3, <1>4 DEF Squares, Rules!Squares
<1>9. ColLine(0) = {1, 4, 7} /\ ColLine(1) = {2, 5, 8} /\ ColLine(2) = {3, 6, 9}
  BY <1>1, <1>5, <1>6, <1>7 DEF Squares, Rules!Squares
<1>10. Diagonal = {1, 5, 9} /\ Other = {3, 5, 7}
  BY <1>1, <1>2, <1>3, <1>4, <1>5, <1>6, <1>7 DEF Squares, Rules!Squares
<1>11. Rules!Lines = {RowLine(i) : i \in 0 .. 2} \cup {ColLine(i) : i \in 0 .. 2}
                       \cup {Diagonal, Other}
  BY DEF Rules!Lines
<1> HIDE DEF RowLine, ColLine, Diagonal, Other
<1>12. {RowLine(i) : i \in 0 .. 2} = {RowLine(0), RowLine(1), RowLine(2)}
       /\ {ColLine(i) : i \in 0 .. 2} = {ColLine(0), ColLine(1), ColLine(2)}
  <2>1. 0 .. 2 = {0, 1, 2}
    OBVIOUS
  <2> QED
    BY <2>1
<1> QED
  BY <1>8, <1>9, <1>10, <1>11, <1>12 DEF wins

\* So a board shows the two modules the same.
LEMMA SameBoard ==
  ASSUME NEW board \in [Squares -> {"-", "X", "O"}]
  PROVE  /\ \A mark : Rules!Marks(board, mark) = Marks(board, mark)
         /\ \A mark : Rules!Wins(board, mark) <=> IsWin(board, mark)
         /\ Rules!Full(board) <=> Marks(board, "-") = {}
         /\ Rules!Over(board) <=> \/ IsWin(board, "X") \/ IsWin(board, "O")
                                  \/ Marks(board, "-") = {}
         /\ Rules!Turn(board) = IF Lead(board) = 0 THEN "X" ELSE "O"
<1>1. ASSUME NEW mark PROVE Rules!Marks(board, mark) = Marks(board, mark)
  BY DEF Rules!Marks, Rules!Squares, Marks, Squares
<1>2. ASSUME NEW mark PROVE Rules!Wins(board, mark) <=> IsWin(board, mark)
  <2>1. \A win \in wins : win \subseteq Squares
    BY DEF wins, Squares
  <2>2. \A win \in wins : win \subseteq Marks(board, mark) <=> \A s \in win : board[s] = mark
    BY <2>1 DEF Marks
  <2> QED
    BY <1>1, <2>2, LinesAreWins DEF Rules!Wins, IsWin
<1>3. Rules!Full(board) <=> Marks(board, "-") = {}
  BY <1>1 DEF Rules!Full, Rules!Free
<1>4. Rules!Over(board) <=> \/ IsWin(board, "X") \/ IsWin(board, "O")
                           \/ Marks(board, "-") = {}
  BY <1>2, <1>3 DEF Rules!Over, Rules!X, Rules!O
<1>5. Rules!Turn(board) = IF Lead(board) = 0 THEN "X" ELSE "O"
  <2>1. Cardinality(Marks(board, "X")) \in Nat /\ Cardinality(Marks(board, "O")) \in Nat
    BY MarksAreFinite
  <2>2. Lead(board) = 0 <=> Cardinality(Marks(board, "X")) = Cardinality(Marks(board, "O"))
    BY <2>1 DEF Lead
  <2>3. \A S : Rules!Cardinality(S) = Cardinality(S)
    BY Zenon DEF Rules!Cardinality, Cardinality
  <2> QED
    BY <1>1, <2>2, <2>3 DEF Rules!Turn, Rules!X, Rules!O
<1> QED
  BY <1>1, <1>2, <1>3, <1>4, <1>5

\* The state and the players stored beside every board are the ones it shows.
THEOREM StateFollows == Spec => []StateFollowsBoard
<1>1. ASSUME XoInv PROVE StateFollowsBoard
  <2> SUFFICES ASSUME NEW n \in Names, Exists(n)
               PROVE  LET game == Load(n)[n]
                          Shown(state, shows) == game.state = state <=> shows
                      IN /\ Shown("P1-WIN", Rules!Wins(game.board, "X"))
                         /\ Shown("P2-WIN", Rules!Wins(game.board, "O"))
                         /\ Shown("P1-NEXT", ~Rules!Over(game.board) /\ Rules!Turn(game.board) = "X")
                         /\ Shown("P2-NEXT", ~Rules!Over(game.board) /\ Rules!Turn(game.board) = "O")
                         /\ game.player1 = NoSigner <=> Rules!Marks(game.board, "X") = {}
                         /\ game.player2 = NoSigner <=> Rules!Marks(game.board, "O") = {}
    BY DEF StateFollowsBoard
  <2> DEFINE game == Load(n)[n]
  <2>1. Sound(game)
    BY <1>1, LoadIsSound DEF Exists
  <2> HIDE DEF game
  <2>2. game.board \in [Squares -> {"-", "X", "O"}] /\ Follows(game)
    BY <2>1 DEF Sound, Game
  <2>3. /\ game.state = "P1-WIN" <=> Rules!Wins(game.board, "X")
        /\ game.state = "P2-WIN" <=> Rules!Wins(game.board, "O")
    BY <2>2, SameBoard DEF Follows, Shows
  <2>4. /\ game.state = "P1-NEXT" <=> (~Rules!Over(game.board) /\ Rules!Turn(game.board) = "X")
        /\ game.state = "P2-NEXT" <=> (~Rules!Over(game.board) /\ Rules!Turn(game.board) = "O")
    BY <2>2, SameBoard DEF Follows, Shows
  <2>5. /\ game.player1 = NoSigner <=> Rules!Marks(game.board, "X") = {}
        /\ game.player2 = NoSigner <=> Rules!Marks(game.board, "O") = {}
    BY <2>2, SameBoard DEF Follows
  <2> QED
    BY <2>3, <2>4, <2>5 DEF game
<1> QED
  BY XoInvInit, XoInvNext, <1>1, PTL DEF Spec

\* Nobody who may move is turned away, and nobody else is let in: the handler's
\* checks of state and players say what the board says.
THEOREM OnlyFoulsRefused == Spec => []RefusesOnlyFouls
<1>1. ASSUME XoInv PROVE RefusesOnlyFouls
  <2> SUFFICES ASSUME NEW n \in Names, NEW signer \in Signers, NEW s \in Squares, Exists(n)
               PROVE  LET board == Load(n)[n].board
                      IN MayTake([name |-> n, action |-> "take", space |-> s], signer) <=>
                           /\ ~Rules!Over(board) /\ board[s] = "-"
                           /\ gamesBar[n].player[Rules!Turn(board)] \in {NoSigner, signer}
    BY DEF RefusesOnlyFouls
  <2> DEFINE game == Load(n)[n]
  <2>1. Sound(game)
    BY <1>1, LoadIsSound DEF Exists
  <2>2. MayTake([name |-> n, action |-> "take", space |-> s], signer) <=>
          game.state \notin Ended /\ ~WrongTurn(game, signer) /\ game.board[s] = "-"
    BY DEF MayTake, At, Squares
  <2>3. gamesBar[n].player = [m \in {"X", "O"} |-> IF m = "X" THEN game.player1 ELSE game.player2]
    BY DEF gamesBar
  <2> HIDE DEF game
  <2>4. /\ game.board \in [Squares -> {"-", "X", "O"}] /\ Follows(game)
        /\ game.state \in GameStates
    BY <2>1 DEF Sound, Game
  <2>5. game.state \notin Ended <=> ~Rules!Over(game.board)
    BY <2>4, SameBoard DEF Follows, Shows, Ended
  <2>6. ASSUME game.state \notin Ended
        PROVE  ~WrongTurn(game, signer) <=>
                 gamesBar[n].player[Rules!Turn(game.board)] \in {NoSigner, signer}
    <3>1. CASE Lead(game.board) = 0
      <4>1. game.state = "P1-NEXT" /\ Rules!Turn(game.board) = "X"
        BY <2>4, <2>6, <3>1, SameBoard DEF Follows, Shows, Ended
      <4> QED
        BY <2>3, <4>1 DEF WrongTurn
    <3>2. CASE Lead(game.board) # 0
      <4>1. game.state = "P2-NEXT" /\ Rules!Turn(game.board) = "O"
        BY <2>4, <2>6, <3>2, SameBoard DEF Follows, Shows, Ended
      <4> QED
        BY <2>3, <4>1 DEF WrongTurn
    <3> QED
      BY <3>1, <3>2
  <2> QED
    BY <2>2, <2>5, <2>6 DEF game
<1> QED
  BY XoInvInit, XoInvNext, <1>1, PTL DEF Spec

\* What the rules see of a stored game.
Seen(game) ==
  [board  |-> game.board,
   player |-> [m \in {"X", "O"} |-> IF m = "X" THEN game.player1 ELSE game.player2]]

LEMMA SeenIsGame ==
  ASSUME NEW game, Sound(game)
  PROVE  Seen(game) # NoEntry
<1>1. /\ game.board \in [Squares -> {"-", "X", "O"}]
      /\ game.player1 \in Signers \cup {NoSigner} /\ game.player2 \in Signers \cup {NoSigner}
  BY DEF Sound, Game
<1>2. Seen(game) \in [board  : [Squares -> {"-", "X", "O"}],
                     player : [{"X", "O"} -> Signers \cup {NoSigner}]]
  BY <1>1 DEF Seen
<1> QED
  BY <1>2, NoEntryAssumption

LEMMA SeenGames ==
  ASSUME NEW n \in Names
  PROVE  /\ Exists(n) => gamesBar[n] = Seen(Load(n)[n])
         /\ ~Exists(n) => gamesBar[n] = NoEntry
BY DEF gamesBar, Seen

\* Writing a game changes what the rules see of it and of no other, whether or not
\* other games have its address.
LEMMA SetGameSeen ==
  ASSUME XoInv, NEW name \in Names, NEW game, Sound(game), SetGame(name, game)
  PROVE  gamesBar' = [gamesBar EXCEPT ![name] = Seen(game)]
<1> DEFINE a     == Address[name]
           games == Load(name)
           new   == [n \in DOMAIN games \cup {name} |-> IF n = name THEN game ELSE games[n]]
<1>1. /\ a \in Addresses /\ DOMAIN games \subseteq Names
      /\ \A n \in DOMAIN games : Sound(games[n])
  BY LoadIsSound
<1>2. entries' = [entries EXCEPT ![a] = new]
  BY DEF SetGame
<1>3. new # NoEntry
  <2>1. new \in [DOMAIN games \cup {name} -> Game]
    BY <1>1 DEF Sound
  <2>2. DOMAIN games \cup {name} \in SUBSET Names
    BY <1>1
  <2> HIDE DEF new
  <2> QED
    BY <2>1, <2>2, NoEntryAssumption
<1>4. ASSUME NEW n \in Names
      PROVE  gamesBar'[n] = IF n = name THEN Seen(game) ELSE gamesBar[n]
  <2>1. Address[n] \in Addresses
    BY XoAssumption
  <2>2. CASE Address[n] = a
    <3>1. entries'[Address[n]] = new
      BY <1>1, <1>2, <2>2 DEF XoInv
    <3>2. Load(n)' = new /\ Load(n) = games
      BY <1>3, <2>2, <3>1 DEF Load
    <3>3. gamesBar'[n] = IF n \in DOMAIN new THEN Seen(new[n]) ELSE NoEntry
      BY <3>2 DEF gamesBar, Exists, Seen
    <3>4. gamesBar[n] = IF n \in DOMAIN games THEN Seen(games[n]) ELSE NoEntry
      BY <3>2 DEF gamesBar, Exists, Seen
    <3> HIDE DEF games
    <3> QED
      BY <3>3, <3>4
  <2>3. CASE Address[n] # a
    <3>1. entries'[Address[n]] = entries[Address[n]] /\ n # name
      BY <1>2, <2>1, <2>3 DEF XoInv
    <3>2. Load(n)' = Load(n)
      BY <3>1 DEF Load
    <3> QED
      BY <3>1, <3>2 DEF gamesBar, Exists
  <2> QED
    BY <2>2, <2>3
<1> QED
  <2>1. gamesBar' = [n \in Names |-> gamesBar'[n]] /\ gamesBar = [n \in Names |-> gamesBar[n]]
    BY DEF gamesBar
  <2> QED
    BY <1>4, <2>1

\* Deleting a game removes it and no other.
LEMMA DeleteGameSeen ==
  ASSUME XoInv, NEW name \in Names, DeleteGame(name)
  PROVE  gamesBar' = [gamesBar EXCEPT ![name] = NoEntry]
<1> DEFINE a      == Address[name]
           games  == Load(name)
           left   == DOMAIN games \ {name}
           others == Restrict(games, left)
           new    == IF DOMAIN others = {} THEN NoEntry ELSE others
<1>1. /\ a \in Addresses /\ DOMAIN games \subseteq Names
      /\ \A n \in DOMAIN games : Sound(games[n])
  BY LoadIsSound
<1>2. entries' = [entries EXCEPT ![a] = new]
  BY DEF DeleteGame
<1>3. others = [n \in left |-> games[n]] /\ DOMAIN others = left
  BY DEF Restrict
<1>4. others # NoEntry
  <2>1. others \in [left -> Game]
    BY <1>1, <1>3 DEF Sound
  <2>2. left \in SUBSET Names
    BY <1>1
  <2> HIDE DEF others, left
  <2> QED
    BY <2>1, <2>2, NoEntryAssumption
<1>5. ASSUME NEW n \in Names
      PROVE  gamesBar'[n] = IF n = name THEN NoEntry ELSE gamesBar[n]
  <2>1. Address[n] \in Addresses
    BY XoAssumption
  <2>2. CASE Address[n] = a
    <3>1. entries'[Address[n]] = new
      BY <1>1, <1>2, <2>2 DEF XoInv
    <3>2. Load(n) = games
      BY <2>2 DEF Load
    <3>3. DOMAIN Load(n)' = left /\ \A m \in left : Load(n)'[m] = games[m]
      <4> HIDE DEF others, left, games
      <4>1. CASE left = {}
        BY <1>3, <3>1, <4>1 DEF Load, NoGames
      <4>2. CASE left # {}
        BY <1>3, <1>4, <3>1, <4>2 DEF Load
      <4> QED
        BY <4>1, <4>2
    <3>4. gamesBar'[n] = IF n \in left THEN Seen(games[n]) ELSE NoEntry
      BY <3>3 DEF gamesBar, Exists, Seen
    <3>5. gamesBar[n] = IF n \in DOMAIN games THEN Seen(games[n]) ELSE NoEntry
      BY <3>2 DEF gamesBar, Exists, Seen
    <3> HIDE DEF games
    <3> QED
      BY <3>4, <3>5
  <2>3. CASE Address[n] # a
    <3>1. entries'[Address[n]] = entries[Address[n]] /\ n # name
      BY <1>2, <2>1, <2>3 DEF XoInv
    <3>2. Load(n)' = Load(n)
      BY <3>1 DEF Load
    <3> QED
      BY <3>1, <3>2 DEF gamesBar, Exists
  <2> QED
    BY <2>2, <2>3
<1> QED
  <2>1. gamesBar' = [n \in Names |-> gamesBar'[n]] /\ gamesBar = [n \in Names |-> gamesBar[n]]
    BY DEF gamesBar
  <2> QED
    BY <1>5, <2>1

\* A take is the move that the rules know: the mark whose turn it is, played by who
\* plays that mark.
LEMMA TakenIsMove ==
  ASSUME NEW game, Sound(game), game.state \notin Ended,
         NEW space \in Squares, game.board[space] = "-",
         NEW signer \in Signers, ~WrongTurn(game, signer)
  PROVE  LET mark == Rules!Turn(game.board)
         IN /\ ~Rules!Over(game.board)
            /\ space \in Rules!Marks(game.board, "-")
            /\ mark \in {"X", "O"}
            /\ Seen(game).player[mark] \in {NoSigner, signer}
            /\ Seen(Taken(game, space, signer)) =
                 [board  |-> [game.board EXCEPT ![space] = mark],
                  player |-> [Seen(game).player EXCEPT ![mark] = signer]]
            /\ Seen(Taken(game, space, signer)) # Seen(game)
<1> DEFINE board == UpdateBoard(game.board, space, game.state)
           new   == Taken(game, space, signer)
<1>1. /\ game.board \in [Squares -> {"-", "X", "O"}] /\ Follows(game)
      /\ game.player1 \in Signers \cup {NoSigner} /\ game.player2 \in Signers \cup {NoSigner}
  BY DEF Sound, Game
<1>2. ~Rules!Over(game.board) /\ space \in Rules!Marks(game.board, "-")
  <2>1. space \in Marks(game.board, "-")
    BY DEF Marks
  <2> QED
    BY <1>1, <2>1, SameBoard DEF Follows, Shows, Ended
<1>3. /\ Rules!Turn(game.board) = IF game.state = "P1-NEXT" THEN "X" ELSE "O"
      /\ game.state \in {"P1-NEXT", "P2-NEXT"}
      /\ game.state = "P2-NEXT" => game.player1 # NoSigner
      /\ game.state = "P1-NEXT" => (game.player1 = NoSigner <=> game.player2 = NoSigner)
  <2>1. /\ Lead(game.board) = IF game.state = "P1-NEXT" THEN 0 ELSE 1
        /\ game.state \in {"P1-NEXT", "P2-NEXT"}
    BY <1>1 DEF Follows, Shows, Ended
  <2>2. /\ Cardinality(Marks(game.board, "X")) \in Nat
        /\ Cardinality(Marks(game.board, "O")) \in Nat
        /\ Cardinality(Marks(game.board, "X")) = 0 <=> Marks(game.board, "X") = {}
        /\ Cardinality(Marks(game.board, "O")) = 0 <=> Marks(game.board, "O") = {}
    BY MarksAreFinite
  <2>3. /\ game.player1 = NoSigner <=> Marks(game.board, "X") = {}
        /\ game.player2 = NoSigner <=> Marks(game.board, "O") = {}
    BY <1>1 DEF Follows
  <2>4. Rules!Turn(game.board) = IF Lead(game.board) = 0 THEN "X" ELSE "O"
    BY <1>1, SameBoard
  <2> QED
    BY <2>1, <2>2, <2>3, <2>4 DEF Lead
<1>4. /\ new.board = board
      /\ new.player1 = IF game.player1 = NoSigner THEN signer ELSE game.player1
      /\ new.player2 = IF game.player1 # NoSigner /\ game.player2 = NoSigner
                         THEN signer ELSE game.player2
  BY DEF Taken
<1>5. board = [game.board EXCEPT ![space] = IF game.state = "P1-NEXT" THEN "X" ELSE "O"]
  BY <1>1 DEF UpdateBoard
<1>6. Seen(game).player = [m \in {"X", "O"} |-> IF m = "X" THEN game.player1 ELSE game.player2]
  BY DEF Seen
<1>7. Seen(new) = [board  |-> board,
                   player |-> [m \in {"X", "O"} |-> IF m = "X" THEN new.player1 ELSE new.player2]]
  BY <1>4 DEF Seen
<1>8. board # game.board
  BY <1>1, <1>5
<1> HIDE DEF new, board
<1>9. Seen(new) # Seen(game)
  <2>1. Seen(new).board = board /\ Seen(game).board = game.board
    BY <1>7 DEF Seen
  <2> QED
    BY <1>8, <2>1
<1>10. CASE game.state = "P1-NEXT"
  <2>1. game.player1 \in {NoSigner, signer} /\ new.player1 = signer
    BY <1>4, <1>10 DEF WrongTurn
  <2>2. new.player2 = game.player2
    BY <1>3, <1>4, <1>10
  <2> QED
    BY <1>2, <1>3, <1>5, <1>6, <1>7, <1>9, <1>10, <2>1, <2>2 DEF new
<1>11. CASE game.state = "P2-NEXT"
  <2>1. game.player2 \in {NoSigner, signer} /\ new.player2 = signer
    BY <1>3, <1>4, <1>11 DEF WrongTurn
  <2>2. new.player1 = game.player1
    BY <1>3, <1>4, <1>11
  <2> QED
    BY <1>2, <1>3, <1>5, <1>6, <1>7, <1>9, <1>11, <2>1, <2>2 DEF new
<1> QED
  BY <1>3, <1>10, <1>11

\* A step of the handler is a step of the rules, or nothing that they see.
LEMMA RulesStep ==
  ASSUME XoInv, [Next]_vars
  PROVE  [Rules!RulesNext]_gamesBar
<1>1. ASSUME UNCHANGED entries PROVE gamesBar' = gamesBar
  <2>1. \A n : Load(n)' = Load(n)
    BY <1>1 DEF Load
  <2> QED
    BY <2>1 DEF gamesBar, Exists
<1>2. CASE UNCHANGED vars \/ ContextFails
  BY <1>1, <1>2 DEF ContextFails, vars
<1>3. ASSUME NEW p \in Payload, RefusePayload(p) PROVE gamesBar' = gamesBar
  BY <1>1, <1>3 DEF RefusePayload, vars
<1>4. ASSUME NEW p \in Payload, NEW signer \in Signers, WellFormed(p)
      PROVE  p.name \in Names /\ (p.action = "take" => p.space \in Squares)
  BY <1>4 DEF WellFormed, Payload, Squares
<1>5. ASSUME NEW p \in Payload, NEW signer \in Signers, WellFormed(p), Create(p, signer)
      PROVE  Rules!RulesNext
  <2>1. p.name \in Names /\ ~Exists(p.name) /\ SetGame(p.name, Fresh)
    BY <1>4, <1>5 DEF Create, Fresh
  <2>2. gamesBar' = [gamesBar EXCEPT ![p.name] = Seen(Fresh)] /\ gamesBar[p.name] = NoEntry
    BY <2>1, FreshIsSound, SetGameSeen, SeenGames
  <2>3. Seen(Fresh) # NoEntry
    BY FreshIsSound, SeenIsGame
  <2>4. gamesBar'[p.name] # gamesBar[p.name]
    BY <2>1, <2>2, <2>3 DEF gamesBar
  <2>5. Seen(Fresh) = [board  |-> [s \in Squares |-> "-"],
                       player |-> [m \in {"X", "O"} |-> NoSigner]]
    BY DEF Seen, Fresh
  <2>6. Rules!Begin(p.name)
    BY <2>2, <2>5 DEF Rules!Begin, Rules!Squares, Squares, Rules!X, Rules!O, Rules!Free
  <2> QED
    BY <2>1, <2>4, <2>6 DEF Rules!RulesNext
<1>6. ASSUME NEW p \in Payload, NEW signer \in Signers, WellFormed(p), Take(p, signer)
      PROVE  gamesBar' = gamesBar \/ Rules!RulesNext
  <2> DEFINE game == Load(p.name)[p.name]
             new  == Taken(game, p.space, signer)
             mark == Rules!Turn(game.board)
  <2>1. p.name \in Names /\ p.space \in Squares /\ Exists(p.name)
    BY <1>4, <1>6 DEF Take
  <2>2. Sound(game) /\ game.state \notin Ended /\ game.board[p.space] = "-"
        /\ ~WrongTurn(game, signer)
    BY <1>6, <2>1, LoadIsSound DEF Take, Exists, MayTake, At, Squares
  <2>3. ~(IsWin(new.board, "X") /\ IsWin(new.board, "O")) /\ Sound(new)
    BY <2>1, <2>2, MoveIsSound
  <2>4. SetGame(p.name, new)
    BY <1>6, <2>2, <2>3 DEF Take
  <2> HIDE DEF game, new
  <2>5. gamesBar' = [gamesBar EXCEPT ![p.name] = Seen(new)]
    BY <2>1, <2>3, <2>4, SetGameSeen
  <2>6. gamesBar[p.name] = Seen(game) /\ Seen(game) # NoEntry
    BY <2>1, <2>2, SeenGames, SeenIsGame DEF game
  <2>7. /\ ~Rules!Over(game.board)
        /\ p.space \in Rules!Marks(game.board, "-")
        /\ mark \in {"X", "O"}
        /\ Seen(game).player[mark] \in {NoSigner, signer}
        /\ Seen(new) = [board  |-> [game.board EXCEPT ![p.space] = mark],
                        player |-> [Seen(game).player EXCEPT ![mark] = signer]]
        /\ Seen(new) # Seen(game)
    BY <2>1, <2>2, TakenIsMove DEF new
  <2>8. Seen(game).board = game.board
    BY DEF Seen
  <2>9. gamesBar'[p.name] # gamesBar[p.name]
    BY <2>1, <2>5, <2>6, <2>7 DEF gamesBar
  <2>10. gamesBar' = [gamesBar EXCEPT ![p.name].board[p.space] = mark,
                                     ![p.name].player[mark] = signer]
    <3>1. p.name \in DOMAIN gamesBar
      BY <2>1 DEF gamesBar
    <3>2. gamesBar[p.name] = [board |-> game.board, player |-> Seen(game).player]
      BY <2>6 DEF Seen
    <3> DEFINE player == Seen(game).player
               board  == [game.board EXCEPT ![p.space] = mark]
               first  == [gamesBar EXCEPT ![p.name].board[p.space] = mark]
    <3>3. first = [gamesBar EXCEPT ![p.name] = [board |-> board, player |-> player]]
      <4>1. first = [gamesBar EXCEPT ![p.name] = [gamesBar[p.name] EXCEPT !.board[p.space] = mark]]
        OBVIOUS
      <4>2. [gamesBar[p.name] EXCEPT !.board[p.space] = mark] = [board |-> board, player |-> player]
        BY <3>2
      <4> QED
        BY <4>1, <4>2
    <3>4. [gamesBar EXCEPT ![p.name].board[p.space] = mark, ![p.name].player[mark] = signer] =
            [first EXCEPT ![p.name].player[mark] = signer]
      OBVIOUS
    <3> HIDE DEF first
    <3>5. [first EXCEPT ![p.name].player[mark] = signer] =
            [first EXCEPT ![p.name] = [first[p.name] EXCEPT !.player[mark] = signer]]
      OBVIOUS
    <3>6. [first[p.name] EXCEPT !.player[mark] = signer] =
            [board |-> board, player |-> [player EXCEPT ![mark] = signer]]
      <4>1. first[p.name] = [board |-> board, player |-> player]
        BY <3>1, <3>3
      <4> QED
        BY <4>1
    <3>7. \A x, y : [[gamesBar EXCEPT ![p.name] = x] EXCEPT ![p.name] = y] =
                     [gamesBar EXCEPT ![p.name] = y]
      OBVIOUS
    <3>8. [first EXCEPT ![p.name].player[mark] = signer] =
            [gamesBar EXCEPT ![p.name] =
               [board |-> board, player |-> [player EXCEPT ![mark] = signer]]]
      BY <3>3, <3>5, <3>6, <3>7
    <3>9. gamesBar' = [gamesBar EXCEPT ![p.name] =
               [board |-> board, player |-> [player EXCEPT ![mark] = signer]]]
      BY <2>5, <2>7, Zenon
    <3> QED
      BY <3>4, <3>8, <3>9, Zenon
  <2>11. Rules!Move(p.name)
    BY <2>1, <2>6, <2>7, <2>8, <2>10 DEF Rules!Move, Rules!Free
  <2> QED
    BY <2>1, <2>9, <2>11 DEF Rules!RulesNext
<1>7. ASSUME NEW p \in Payload, NEW signer \in Signers, WellFormed(p), Delete(p)
      PROVE  Rules!RulesNext
  <2>1. p.name \in Names /\ Exists(p.name) /\ DeleteGame(p.name)
    BY <1>4, <1>7 DEF Delete
  <2>2. gamesBar' = [gamesBar EXCEPT ![p.name] = NoEntry]
    BY <2>1, DeleteGameSeen
  <2>3. gamesBar[p.name] # NoEntry
    BY <2>1, LoadIsSound, SeenGames, SeenIsGame DEF Exists
  <2>4. gamesBar'[p.name] # gamesBar[p.name]
    BY <2>1, <2>2, <2>3 DEF gamesBar
  <2> QED
    BY <2>1, <2>2, <2>3, <2>4 DEF Rules!RulesNext, Rules!End
<1>8. ASSUME NEW p \in Payload, NEW signer \in Signers, Apply(p, signer)
      PROVE  gamesBar' = gamesBar \/ Rules!RulesNext
  <2>1. CASE Refuse(p, signer)
    BY <1>1, <2>1 DEF Refuse, vars
  <2> QED
    BY <1>5, <1>6, <1>7, <1>8, <2>1 DEF Apply
<1> QED
  BY <1>2, <1>3, <1>8 DEF Next

\* The handler implements the rules: each transaction is a move of one game that
\* TicTacToe allows, or changes no game, although games share entries and turn and
\* result are stored beside the board.
THEOREM RulesKept == Spec => KeepsRules
<1>1. Init => Rules!RulesInit
  <2> SUFFICES ASSUME Init PROVE \A n \in Names : ~Exists(n)
    BY DEF Rules!RulesInit, gamesBar
  <2> QED
    BY XoAssumption DEF Init, Exists, Load, NoGames
<1> QED
  BY XoInvInit, XoInvNext, RulesStep, <1>1, PTL DEF Spec, KeepsRules, Rules!RulesSpec
=============================================================================
