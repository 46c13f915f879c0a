----------------------------- MODULE JavaXoProofs -----------------------------
(***************************************************************************)
(* Theorems about JavaXo, for any names, addresses, signers and sizes of   *)
(* board: what is stored is a game, nothing that was played is undone, and *)
(* the state beside a board is the one its marks show, which is never that *)
(* somebody has won.                                                       *)
(***************************************************************************)
EXTENDS JavaXo, FiniteSetTheorems, TLAPS

USE JavaXoAssumption, NoEntryAssumption

-----------------------------------------------------------------------------
(***************************************************************************)
(* Type correctness                                                        *)
(***************************************************************************)

\* A new game.
Fresh(name, dim) ==
  [name |-> name, dim |-> dim, board |-> [s \in Squares(dim) |-> "-"],
   state |-> "P1-NEXT", player1 |-> NoSigner, player2 |-> NoSigner]

LEMMA FreshIsGame ==
  ASSUME NEW name \in Names, NEW dim \in 1 .. 12
  PROVE  Fresh(name, dim) \in Game(dim)
BY DEF Fresh, Game, GameStates

\* The square that IsWin begins with is on the board.
LEMMA NobodyWins ==
  ASSUME NEW dim \in 1 .. 12, NEW board \in [Squares(dim) -> {"-", "H", "Q"}]
  PROVE  ~IsWin(board, dim, "X") /\ ~IsWin(board, dim, "O")
<1>1. 0 \in 0 .. dim - 1 /\ (0 + 1) * (dim - 1) + 1 = dim
      OBVIOUS
<1>2. dim \in Squares(dim)
  <2>1. dim <= dim * dim
        OBVIOUS
  <2> QED
      BY <2>1 DEF Squares
<1>3. board[dim] \in {"-", "H", "Q"}
      BY <1>2
<1> QED
    BY <1>1, <1>3 DEF IsWin

\* The state that follows a mark.
LEMMA NextState ==
  ASSUME NEW dim \in 1 .. 12, NEW board \in [Squares(dim) -> {"-", "H", "Q"}], NEW state
  PROVE  DetermineState(board, dim, state) =
           IF \A s \in Squares(dim) : board[s] # "-" THEN "TIE"
           ELSE IF state = "P1-NEXT" THEN "P2-NEXT" ELSE "P1-NEXT"
BY NobodyWins DEF DetermineState

LEMMA TakenIsGame ==
  ASSUME NEW dim \in 1 .. 12, NEW game \in Game(dim), NEW space, NEW signer \in Signers,
         MayTake(game, space, signer)
  PROVE  /\ Taken(game, space, signer) \in Game(dim)
         /\ Taken(game, space, signer).board = [game.board EXCEPT ![space] = Mark(game.state)]
<1> DEFINE board == [game.board EXCEPT ![space] = Mark(game.state)]
<1>1. game.dim = dim /\ game.board \in [Squares(dim) -> {"-", "H", "Q"}]
      BY DEF Game
<1>2. board \in [Squares(dim) -> {"-", "H", "Q"}]
      BY <1>1 DEF Mark
<1>3. DetermineState(board, dim, game.state) \in GameStates
      BY <1>2, NextState DEF GameStates
<1>4. PlayerOne(game, signer) \in Signers \cup {NoSigner}
        /\ PlayerTwo(game, signer) \in Signers \cup {NoSigner}
      BY DEF PlayerOne, PlayerTwo, Game
<1> QED
    BY <1>1, <1>2, <1>3, <1>4 DEF Taken, Game

\* What a step does: it leaves the state alone, or it fails, or it puts a new game
\* where none was, or a mark into the game of a name.
LEMMA Steps ==
  ASSUME TypeOK, [Next]_vars
  PROVE  \/ UNCHANGED entries /\ failed' \in {failed, TRUE}
         \/ \E name \in Names, dim \in 1 .. 12 :
              /\ entries[Address[name]] = NoEntry
              /\ entries' = [entries EXCEPT ![Address[name]] = Fresh(name, dim)]
              /\ failed' = failed
         \/ \E name \in Names, space \in Numbers, signer \in Signers :
              /\ Stored(name) # NoEntry /\ Stored(name).name \in Names
              /\ MayTake(Stored(name), space, signer)
              /\ entries' = [entries EXCEPT ![Address[name]] = Taken(Stored(name), space, signer)]
              /\ failed' = failed
<1>1. CASE UNCHANGED vars
      BY <1>1 DEF vars
<1>2. ASSUME NEW name \in Names, NEW dim \in Numbers, Create(name, dim)
      PROVE  \/ UNCHANGED entries /\ failed' \in {failed, TRUE}
             \/ /\ dim \in 1 .. 12 /\ entries[Address[name]] = NoEntry
                /\ entries' = [entries EXCEPT ![Address[name]] = Fresh(name, dim)]
                /\ failed' = failed
      BY <1>2 DEF Create, Found, Store, Stored, Fresh
<1>3. ASSUME NEW name \in Names, NEW space \in Numbers, NEW signer \in Signers,
             Take(name, space, signer)
      PROVE  /\ Stored(name) # NoEntry /\ Stored(name).name \in Names
             /\ MayTake(Stored(name), space, signer)
             /\ entries' = [entries EXCEPT ![Address[name]] = Taken(Stored(name), space, signer)]
             /\ failed' = failed
  <2>1. Stored(name) # NoEntry /\ MayTake(Stored(name), space, signer)
        BY <1>3 DEF Take, Found, Stored
  <2>2. Stored(name).dim \in 1 .. 12 /\ Stored(name) \in Game(Stored(name).dim)
        BY <2>1 DEF TypeOK, Stored
  <2>3. Stored(name).name \in Names
        BY <2>2 DEF Game
  <2>4. Taken(Stored(name), space, signer).name = Stored(name).name
        BY <2>2 DEF Taken, Game
  <2>5. Stored(name).name \in Begins[Stored(name).name]
        BY <2>3
  <2> QED
      BY <1>3, <2>1, <2>3, <2>4, <2>5 DEF Take, Store
<1> QED
    BY <1>1, <1>2, <1>3 DEF Next, Apply, RefusePayload, Refuse, ContextFails, vars

\* The types hold in every state.
THEOREM TypeCorrect == Spec => []TypeOK
<1>1. Init => TypeOK
      BY DEF Init, TypeOK
<1>2. ASSUME TypeOK, [Next]_vars PROVE TypeOK'
  <2>0. failed' \in BOOLEAN
        BY <1>2, Steps DEF TypeOK
  <2>1. CASE UNCHANGED entries
        BY <1>2, <2>0, <2>1 DEF TypeOK
  <2>2. ASSUME NEW name \in Names, NEW dim \in 1 .. 12,
               entries' = [entries EXCEPT ![Address[name]] = Fresh(name, dim)]
        PROVE  TypeOK'
    <3>1. Fresh(name, dim) \in Game(dim) /\ Fresh(name, dim).dim = dim
          BY FreshIsGame DEF Fresh
    <3> QED
        BY <1>2, <2>0, <2>2, <3>1 DEF TypeOK
  <2>3. ASSUME NEW name \in Names, NEW space \in Numbers, NEW signer \in Signers,
               Stored(name) # NoEntry, MayTake(Stored(name), space, signer),
               entries' = [entries EXCEPT ![Address[name]] = Taken(Stored(name), space, signer)]
        PROVE  TypeOK'
    <3> DEFINE dim == Stored(name).dim
               new == Taken(Stored(name), space, signer)
    <3>1. dim \in 1 .. 12 /\ Stored(name) \in Game(dim)
          BY <1>2, <2>3 DEF TypeOK, Stored
    <3>2. new \in Game(dim)
          BY <2>3, <3>1, TakenIsGame
    <3>3. new.dim = dim
          BY <3>2 DEF Game
    <3> HIDE DEF new, dim
    <3>4. entries' = [entries EXCEPT ![Address[name]] = new]
          BY <2>3 DEF new
    <3> QED
        BY <1>2, <2>0, <3>1, <3>2, <3>3, <3>4 DEF TypeOK
  <2> QED
      BY <1>2, <2>1, <2>2, <2>3, Steps
<1> QED
    BY <1>1, <1>2, PTL DEF Spec

-----------------------------------------------------------------------------
(***************************************************************************)
(* What was played                                                         *)
(***************************************************************************)

\* A mark goes to a square that was free, and nothing else changes.
LEMMA MarksOfTaken ==
  ASSUME NEW dim \in 1 .. 12, NEW game \in Game(dim), NEW space, NEW signer \in Signers,
         MayTake(game, space, signer)
  PROVE  LET new == Taken(game, space, signer)
         IN /\ space \notin Marks(game, "H") /\ space \notin Marks(game, "Q")
            /\ space \in Squares(dim)
            /\ game.state = "P1-NEXT" =>
                 Marks(new, "H") = Marks(game, "H") \cup {space} /\ Marks(new, "Q") = Marks(game, "Q")
            /\ game.state = "P2-NEXT" =>
                 Marks(new, "Q") = Marks(game, "Q") \cup {space} /\ Marks(new, "H") = Marks(game, "H")
<1> DEFINE new == Taken(game, space, signer)
<1>1. game.dim = dim /\ game.board \in [Squares(dim) -> {"-", "H", "Q"}]
      BY DEF Game
<1>2. new \in Game(dim) /\ new.board = [game.board EXCEPT ![space] = Mark(game.state)]
      BY TakenIsGame
<1>3. new.dim = dim
      BY <1>2 DEF Game
<1>4. game.board[space] = "-" /\ space \in Squares(dim)
      BY <1>1 DEF MayTake
<1> HIDE DEF new
<1>5. CASE game.state = "P1-NEXT"
      BY <1>1, <1>2, <1>3, <1>4, <1>5 DEF Marks, Mark, new
<1>6. CASE game.state = "P2-NEXT"
      BY <1>1, <1>2, <1>3, <1>4, <1>6 DEF Marks, Mark, new
<1>7. game.state \in {"P1-NEXT", "P2-NEXT"}
      BY DEF MayTake
<1> QED
    BY <1>5, <1>6, <1>7 DEF new

\* Nothing that was played is undone.
THEOREM PlayKept == Spec => PlayIsKept
<1> DEFINE Kept == \A a \in Addresses : entries[a] # NoEntry =>
              /\ entries'[a] # NoEntry
              /\ entries'[a].name = entries[a].name /\ entries'[a].dim = entries[a].dim
              /\ \A m \in {"H", "Q"} : Marks(entries[a], m) \subseteq Marks(entries'[a], m)
              /\ entries[a].player1 \in {NoSigner, entries'[a].player1}
              /\ entries[a].player2 \in {NoSigner, entries'[a].player2}
<1>1. ASSUME TypeOK, TypeOK', [Next]_vars PROVE Kept
  <2>1. CASE UNCHANGED entries
        BY <2>1
  <2>2. ASSUME NEW name \in Names, NEW dim \in 1 .. 12, entries[Address[name]] = NoEntry,
               entries' = [entries EXCEPT ![Address[name]] = Fresh(name, dim)]
        PROVE  Kept
        BY <1>1, <2>2 DEF TypeOK
  <2>3. ASSUME NEW name \in Names, NEW space \in Numbers, NEW signer \in Signers,
               Stored(name) # NoEntry, MayTake(Stored(name), space, signer),
               entries' = [entries EXCEPT ![Address[name]] = Taken(Stored(name), space, signer)]
        PROVE  Kept
    <3> DEFINE game == Stored(name)
               new  == Taken(game, space, signer)
    <3>1. game.dim \in 1 .. 12 /\ game \in Game(game.dim)
          BY <1>1, <2>3 DEF TypeOK, Stored
    <3>2. \A m \in {"H", "Q"} : Marks(game, m) \subseteq Marks(new, m)
          BY <2>3, <3>1, MarksOfTaken DEF MayTake
    <3>3. /\ new.name = game.name /\ new.dim = game.dim
          /\ game.player1 \in {NoSigner, new.player1}
          /\ game.player2 \in {NoSigner, new.player2}
          BY <3>1 DEF Taken, Game, PlayerOne, PlayerTwo
    <3>4. entries[Address[name]] = game /\ Address[name] \in Addresses
          BY DEF Stored
    <3>5. entries' = [entries EXCEPT ![Address[name]] = new]
          BY <2>3
    <3>6. new # NoEntry
      <4>1. new \in Game(game.dim)
            BY <3>1, <2>3, TakenIsGame
      <4> HIDE DEF game, new
      <4> QED
          BY <4>1, <3>1
    <3>7. /\ \A a \in Addresses \ {Address[name]} : entries'[a] = entries[a]
          /\ entries'[Address[name]] = new
          BY <1>1, <3>4, <3>5 DEF TypeOK
    <3>8. \A a \in Addresses : entries'[a] = entries[a] \/ a = Address[name]
          BY <3>7
    <3> HIDE DEF game, new
    <3>9. ASSUME NEW a \in Addresses, entries[a] # NoEntry, a = Address[name]
          PROVE  /\ entries'[a] # NoEntry
                 /\ entries'[a].name = entries[a].name /\ entries'[a].dim = entries[a].dim
                 /\ \A m \in {"H", "Q"} : Marks(entries[a], m) \subseteq Marks(entries'[a], m)
                 /\ entries[a].player1 \in {NoSigner, entries'[a].player1}
                 /\ entries[a].player2 \in {NoSigner, entries'[a].player2}
          BY <3>2, <3>3, <3>4, <3>6, <3>7, <3>9
    <3>10. ASSUME NEW a \in Addresses, entries[a] # NoEntry, entries'[a] = entries[a]
           PROVE  /\ entries'[a] # NoEntry
                  /\ entries'[a].name = entries[a].name /\ entries'[a].dim = entries[a].dim
                  /\ \A m \in {"H", "Q"} : Marks(entries[a], m) \subseteq Marks(entries'[a], m)
                  /\ entries[a].player1 \in {NoSigner, entries'[a].player1}
                  /\ entries[a].player2 \in {NoSigner, entries'[a].player2}
           BY <3>10
    <3> QED
        BY <3>8, <3>9, <3>10
  <2> QED
      BY <1>1, <2>1, <2>2, <2>3, Steps
<1> QED
    BY <1>1, TypeCorrect, PTL DEF Spec, PlayIsKept

-----------------------------------------------------------------------------
(***************************************************************************)
(* The state beside a board                                                *)
(***************************************************************************)
Lead(game) == Cardinality(Marks(game, "H")) - Cardinality(Marks(game, "Q"))

\* What holds of one game: TurnsFollowMarks, and that determineState, which looks for
\* marks that are never made, has not found a win.
Follows(game) ==
  /\ Lead(game) \in {0, 1}
  /\ game.state = IF Marks(game, "-") = {} THEN "TIE"
                  ELSE IF Lead(game) = 0 THEN "P1-NEXT" ELSE "P2-NEXT"
  /\ game.player1 = NoSigner <=> Marks(game, "H") = {}
  /\ game.player2 = NoSigner <=> Marks(game, "Q") = {}

LEMMA MarksAreFinite ==
  ASSUME NEW dim \in 1 .. 12, NEW game \in Game(dim), NEW m
  PROVE  /\ IsFiniteSet(Marks(game, m)) /\ Cardinality(Marks(game, m)) \in Nat
         /\ Cardinality(Marks(game, m)) = 0 <=> Marks(game, m) = {}
<1>1. game.dim = dim /\ dim * dim \in Int
      BY DEF Game
<1>2. IsFiniteSet(1 .. dim * dim)
      BY <1>1, FS_Interval
<1>3. Marks(game, m) \subseteq 1 .. dim * dim
      BY <1>1 DEF Marks, Squares
<1>4. IsFiniteSet(Marks(game, m))
      BY <1>2, <1>3, FS_Subset
<1> QED
    BY <1>4, FS_CardinalityType, FS_EmptySet

LEMMA FreshFollows ==
  ASSUME NEW name \in Names, NEW dim \in 1 .. 12
  PROVE  Follows(Fresh(name, dim))
<1> DEFINE game == Fresh(name, dim)
<1>1. game \in Game(dim)
      BY FreshIsGame
<1>2. Marks(game, "H") = {} /\ Marks(game, "Q") = {}
      BY DEF Marks, Fresh
<1>3. 1 \in Marks(game, "-")
  <2>1. 1 <= dim * dim
        OBVIOUS
  <2>2. 1 \in Squares(dim)
        BY <2>1 DEF Squares
  <2> QED
      BY <2>2 DEF Marks, Fresh
<1>4. game.state = "P1-NEXT" /\ game.player1 = NoSigner /\ game.player2 = NoSigner
      BY DEF Fresh
<1> HIDE DEF game
<1>5. Lead(game) = 0
  <2>1. Cardinality(Marks(game, "H")) = 0 /\ Cardinality(Marks(game, "Q")) = 0
        BY <1>2, FS_EmptySet
  <2> QED
      BY <2>1 DEF Lead
<1>6. Follows(game)
      BY <1>2, <1>3, <1>4, <1>5 DEF Follows
<1> QED
    BY <1>6 DEF game

\* After a mark the lead has changed, and with it the turn.
LEMMA TakenFollows ==
  ASSUME NEW dim \in 1 .. 12, NEW game \in Game(dim), NEW space, NEW signer \in Signers,
         MayTake(game, space, signer), Follows(game)
  PROVE  Follows(Taken(game, space, signer))
<1> DEFINE new == Taken(game, space, signer)
<1>1. /\ new \in Game(dim)
      /\ new.state = IF \A s \in Squares(dim) : new.board[s] # "-" THEN "TIE"
                     ELSE IF game.state = "P1-NEXT" THEN "P2-NEXT" ELSE "P1-NEXT"
      /\ new.player1 = PlayerOne(game, signer) /\ new.player2 = PlayerTwo(game, signer)
  <2>1. new \in Game(dim) /\ game.dim = dim
        BY TakenIsGame DEF Game
  <2>2. new.board \in [Squares(dim) -> {"-", "H", "Q"}]
        BY <2>1 DEF Game
  <2>3. /\ new.state = DetermineState(new.board, dim, game.state)
        /\ new.player1 = PlayerOne(game, signer) /\ new.player2 = PlayerTwo(game, signer)
        BY <2>1 DEF Taken, Game
  <2> HIDE DEF new
  <2> QED
      BY <2>1, <2>2, <2>3, NextState
<1>2. /\ space \notin Marks(game, "H") /\ space \notin Marks(game, "Q")
      /\ game.state = "P1-NEXT" =>
           Marks(new, "H") = Marks(game, "H") \cup {space} /\ Marks(new, "Q") = Marks(game, "Q")
      /\ game.state = "P2-NEXT" =>
           Marks(new, "Q") = Marks(game, "Q") \cup {space} /\ Marks(new, "H") = Marks(game, "H")
      BY MarksOfTaken
<1>3. (\A s \in Squares(dim) : new.board[s] # "-") <=> Marks(new, "-") = {}
      BY <1>1 DEF Marks, Game
<1>4. /\ Lead(game) \in {0, 1}
      /\ Marks(game, "-") # {}
      /\ game.state = IF Lead(game) = 0 THEN "P1-NEXT" ELSE "P2-NEXT"
      BY DEF Follows, MayTake
<1>5. /\ IsFiniteSet(Marks(game, "H")) /\ Cardinality(Marks(game, "H")) \in Nat
      /\ IsFiniteSet(Marks(game, "Q")) /\ Cardinality(Marks(game, "Q")) \in Nat
      /\ Cardinality(Marks(game, "H")) = 0 <=> Marks(game, "H") = {}
      /\ Cardinality(Marks(game, "Q")) = 0 <=> Marks(game, "Q") = {}
      BY MarksAreFinite
<1>6. /\ game.player1 = NoSigner <=> Marks(game, "H") = {}
      /\ game.player2 = NoSigner <=> Marks(game, "Q") = {}
      BY DEF Follows
<1> HIDE DEF new
<1>7. CASE game.state = "P1-NEXT"
  <2>1. Cardinality(Marks(new, "H")) = Cardinality(Marks(game, "H")) + 1
        BY <1>2, <1>5, <1>7, FS_AddElement
  <2>2. Lead(game) = 0 /\ Lead(new) = 1
        BY <1>2, <1>4, <1>5, <1>7, <2>1 DEF Lead
  <2>3. new.player1 # NoSigner /\ Marks(new, "H") # {}
        BY <1>1, <1>2, <1>7 DEF PlayerOne
  <2>4. game.player1 # NoSigner => game.player2 # NoSigner
        BY <1>5, <1>6, <2>2 DEF Lead
  <2>5. new.player2 = NoSigner <=> Marks(new, "Q") = {}
        BY <1>1, <1>2, <1>6, <1>7, <2>4 DEF PlayerTwo
  <2>6. new.state = IF Marks(new, "-") = {} THEN "TIE" ELSE "P2-NEXT"
        BY <1>1, <1>3, <1>7
  <2>7. Follows(new)
        BY <2>2, <2>3, <2>5, <2>6 DEF Follows
  <2> QED
      BY <2>7 DEF new
<1>8. CASE game.state = "P2-NEXT"
  <2>1. Cardinality(Marks(new, "Q")) = Cardinality(Marks(game, "Q")) + 1
        BY <1>2, <1>5, <1>8, FS_AddElement
  <2>2. Lead(game) = 1 /\ Lead(new) = 0
        BY <1>2, <1>4, <1>5, <1>8, <2>1 DEF Lead
  <2>3. game.player1 # NoSigner
        BY <1>5, <1>6, <2>2 DEF Lead
  <2>4. new.player1 = NoSigner <=> Marks(new, "H") = {}
        BY <1>1, <1>2, <1>6, <1>8, <2>3 DEF PlayerOne
  <2>5. new.player2 # NoSigner /\ Marks(new, "Q") # {}
        BY <1>1, <1>2, <1>8, <2>3 DEF PlayerTwo
  <2>6. new.state = IF Marks(new, "-") = {} THEN "TIE" ELSE "P1-NEXT"
        BY <1>1, <1>3, <1>8
  <2>7. Follows(new)
        BY <2>2, <2>4, <2>5, <2>6 DEF Follows
  <2> QED
      BY <2>7 DEF new
<1> QED
    BY <1>4, <1>7, <1>8 DEF new

\* The state stored beside a board agrees with its marks (XoHandler.applyTake).
THEOREM TurnsFollow == Spec => []TurnsFollowMarks
<1> DEFINE Inv == \A a \in Addresses : entries[a] # NoEntry => Follows(entries[a])
<1>1. Init => Inv
      BY DEF Init
<1>2. ASSUME Inv, TypeOK, TypeOK', [Next]_vars PROVE Inv'
  <2>1. CASE UNCHANGED entries
        BY <1>2, <2>1
  <2>2. ASSUME NEW name \in Names, NEW dim \in 1 .. 12,
               entries' = [entries EXCEPT ![Address[name]] = Fresh(name, dim)]
        PROVE  Inv'
    <3>1. Follows(Fresh(name, dim))
          BY FreshFollows
    <3>2. \A a \in Addresses : entries'[a] \in {entries[a], Fresh(name, dim)}
          BY <1>2, <2>2 DEF TypeOK
    <3> QED
        BY <1>2, <3>1, <3>2
  <2>3. ASSUME NEW name \in Names, NEW space \in Numbers, NEW signer \in Signers,
               Stored(name) # NoEntry, MayTake(Stored(name), space, signer),
               entries' = [entries EXCEPT ![Address[name]] = Taken(Stored(name), space, signer)]
        PROVE  Inv'
    <3> DEFINE game == Stored(name)
               new  == Taken(game, space, signer)
    <3>1. game.dim \in 1 .. 12 /\ game \in Game(game.dim) /\ Follows(game)
          BY <1>2, <2>3 DEF TypeOK, Stored
    <3>2. Follows(new)
          BY <2>3, <3>1, TakenFollows
    <3>3. \A a \in Addresses : entries'[a] \in {entries[a], new}
          BY <1>2, <2>3 DEF TypeOK
    <3> HIDE DEF new
    <3> QED
        BY <1>2, <3>2, <3>3
  <2> QED
      BY <1>2, <2>1, <2>2, <2>3, Steps
<1>3. Inv => TurnsFollowMarks
      BY DEF Follows, Lead, TurnsFollowMarks
<1> QED
    BY <1>1, <1>2, <1>3, TypeCorrect, PTL DEF Spec
=============================================================================
