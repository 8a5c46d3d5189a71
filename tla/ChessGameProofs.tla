-------------------------- MODULE ChessGameProofs --------------------------
(***************************************************************************)
(* Theorems about the chess game, for any users, any owners and any graph  *)
(* of positions in which the two sides alternate: games of any length.     *)
(*                                                                         *)
(* IInv is the inductive invariant.  Its heart is SidesAlternate: the side *)
(* to move is known from the number of moves made, which is what relates   *)
(* the record of the game to the seats.                                    *)
(***************************************************************************)
EXTENDS ChessGame, SequenceTheorems, TLAPS

-----------------------------------------------------------------------------
(* The inductive invariant. *)

\* The positions of the game so far, the current one included.
Line == Append(history, board)

\* The three stacks of ChessState are pushed and popped together.
StacksAreLevel == Len(moves) = Len(history) /\ Len(players) = Len(history)

\* White moves first, and the sides take turns.
SidesAlternate ==
    \A i \in 1 .. Len(Line) :
       SideToMove[Line[i]] = IF i % 2 = 1 THEN "white" ELSE "black"

\* The one who started the game plays White, and nobody sits down on the
\* engine's side.
SeatsAreReserved ==
    /\ owner # None => white = owner
    /\ mode = "stockfish" => black = None

IInv ==
    /\ TypeOK
    /\ StacksAreLevel
    /\ SidesAlternate
    /\ SeatsAreReserved
    /\ SeatsAreDistinct
    /\ SeatsAreLabelled
    /\ SelectionIsPlayable
    /\ PositionIsALine
    /\ MovesBelongToSeats

-----------------------------------------------------------------------------
(* The two ways in which the record of a game changes. *)

\* The engine's target of a move that is written as two squares is a square.
LEMMA ParsedMove ==
    ASSUME TypeOK, NEW from \in Squares, NEW to \in Squares
    PROVE  \E target \in Squares : Parsed(from, to) = <<board, from, target>>
  BY WritingAssumption DEF TypeOK, Parsed

\* What is recorded once the position has changed is well typed, level,
\* alternating and made of legal moves.
RecordOK ==
    /\ board \in Positions
    /\ history \in Seq(Positions)
    /\ moves \in Seq(Squares \X Squares)
    /\ players \in Seq(Seat)
    /\ StacksAreLevel
    /\ SidesAlternate
    /\ PositionIsALine

\* A legal move adds one position to the line and gives the turn to the other
\* side (main.rs: apply_move).
LEMMA MoveExtendsTheLine ==
    ASSUME IInv, NEW from \in Squares, NEW to \in Squares, NEW player \in Seat,
           ApplyMove(<<board, from, to>>, player)
    PROVE  RecordOK'
<1> DEFINE move == <<board, from, to>>
<1>1. /\ move \in DOMAIN Play
      /\ board' = Play[move]
      /\ history' = Append(history, board)
      /\ moves' = Append(moves, <<from, to>>)
      /\ players' = Append(players, player)
  BY DEF ApplyMove
<1>2. /\ board' \in Positions
      /\ SideToMove[board'] # SideToMove[board]
  BY <1>1, PlayAssumption
<1>3. /\ history' \in Seq(Positions)
      /\ moves' \in Seq(Squares \X Squares)
      /\ players' \in Seq(Seat)
  BY <1>1, <1>2, AppendProperties DEF IInv, TypeOK
<1>4. StacksAreLevel'
  BY <1>1 DEF IInv, TypeOK, StacksAreLevel
<1>5. /\ Line \in Seq(Positions)
      /\ Len(Line) = Len(history) + 1
      /\ Line[Len(Line)] = board
  BY AppendProperties DEF IInv, TypeOK, Line
<1>6. /\ Line' = Append(Line, board')
      /\ Len(Line') = Len(Line) + 1
      /\ \A i \in 1 .. Len(Line) : Line'[i] = Line[i]
      /\ Line'[Len(Line) + 1] = board'
  <2>1. Line' = Append(Line, board')
    BY <1>1 DEF Line
  <2> QED
    BY <2>1, <1>2, <1>5, AppendProperties
<1>7. SidesAlternate'
  <2> SUFFICES ASSUME NEW i \in 1 .. Len(Line) + 1
               PROVE  SideToMove[Line'[i]] = IF i % 2 = 1 THEN "white" ELSE "black"
    BY <1>6 DEF SidesAlternate
  <2>1. CASE i \in 1 .. Len(Line)
    BY <2>1, <1>6 DEF IInv, SidesAlternate
  <2>2. CASE i = Len(Line) + 1
    <3>1. Len(Line) \in Nat /\ Len(Line) \in 1 .. Len(Line)
      BY <1>5 DEF IInv, TypeOK
    <3>2. SideToMove[board] = IF Len(Line) % 2 = 1 THEN "white" ELSE "black"
      BY <3>1, <1>5 DEF IInv, SidesAlternate
    <3>3. SideToMove[board'] \in Colors /\ SideToMove[board] \in Colors
      BY <1>2, BoardAssumption DEF IInv, TypeOK
    <3>4. SideToMove[board'] = IF Len(Line) % 2 = 1 THEN "black" ELSE "white"
      BY <3>2, <3>3, <1>2 DEF Colors
    <3>5. (Len(Line) + 1) % 2 = 1 <=> Len(Line) % 2 # 1
      BY <3>1
    <3> QED
      BY <2>2, <3>4, <3>5, <1>6
  <2> QED
    BY <2>1, <2>2, <1>5
<1>8. PositionIsALine'
  <2> DEFINE Step(ln, mv, i) ==
                /\ <<ln[i], mv[i][1], mv[i][2]>> \in DOMAIN Play
                /\ ln[i + 1] = Play[<<ln[i], mv[i][1], mv[i][2]>>]
  <2>1. Line[1] = Start /\ \A i \in 1 .. Len(moves) : Step(Line, moves, i)
    BY DEF IInv, PositionIsALine, Line
  <2>2. Len(moves) \in Nat /\ Len(Line) = Len(moves) + 1
    BY <1>5 DEF IInv, TypeOK, StacksAreLevel
  <2>3. Line'[1] = Start
    BY <2>1, <2>2, <1>6
  <2>4. /\ Len(moves') = Len(moves) + 1
        /\ \A i \in 1 .. Len(moves) : moves'[i] = moves[i]
        /\ moves'[Len(moves) + 1] = <<from, to>>
    BY <1>1, AppendProperties DEF IInv, TypeOK
  <2>5. \A i \in 1 .. Len(moves) : Step(Line', moves', i)
    <3> TAKE i \in 1 .. Len(moves)
    <3>1. Line'[i] = Line[i] /\ Line'[i + 1] = Line[i + 1]
      BY <2>2, <1>6
    <3> QED
      BY <3>1, <2>1, <2>4
  <2>6. Step(Line', moves', Len(moves) + 1)
    <3>1. Line'[Len(moves) + 1] = board /\ Line'[Len(moves) + 2] = board'
      BY <2>2, <1>5, <1>6
    <3>2. moves'[Len(moves) + 1][1] = from /\ moves'[Len(moves) + 1][2] = to
      BY <2>4
    <3>3. Len(moves) + 1 + 1 = Len(moves) + 2
      BY <2>2
    <3> QED
      BY <3>1, <3>2, <3>3, <1>1
  <2>7. \A i \in 1 .. Len(moves') : Step(Line', moves', i)
    <3> TAKE i \in 1 .. Len(moves')
    <3>1. i \in 1 .. Len(moves) \/ i = Len(moves) + 1
      BY <2>2, <2>4
    <3> HIDE DEF Step
    <3> QED
      BY <3>1, <2>5, <2>6
  <2> QED
    BY <2>3, <2>7, <1>4 DEF PositionIsALine, StacksAreLevel, Line
<1> QED
  BY <1>2, <1>3, <1>4, <1>7, <1>8 DEF RecordOK

\* Undo takes positions off the end of the line and leaves the others as they
\* are; it does not touch who holds a seat (main.rs: the Undo arm).
LEMMA RewindShortensTheLine ==
    ASSUME IInv, NEW n \in 1 .. Len(history), Rewind(n)
    PROVE  /\ RecordOK'
           /\ Len(moves') = Len(moves) - n
           /\ \A i \in 1 .. Len(players') :
                 i \in 1 .. Len(players) /\ players'[i] = players[i]
<1> DEFINE kept == Len(history) - n
<1>1. /\ history \in Seq(Positions) /\ Len(history) \in Nat
      /\ moves \in Seq(Squares \X Squares) /\ Len(moves) = Len(history)
      /\ players \in Seq(Seat) /\ Len(players) = Len(history)
  BY DEF IInv, TypeOK, StacksAreLevel
<1>2. kept \in 0 .. Len(history) - 1 /\ kept + 1 \in 1 .. Len(history)
  BY <1>1
<1>3. /\ board' = history[kept + 1]
      /\ history' = SubSeq(history, 1, kept)
      /\ moves' = SubSeq(moves, 1, kept)
      /\ players' = SubSeq(players, 1, kept)
  BY DEF Rewind
<1> HIDE DEF kept
<1>4. /\ history' \in Seq(Positions) /\ Len(history') = kept
      /\ \A i \in 1 .. kept : history'[i] = history[i]
  BY <1>1, <1>2, <1>3
<1>5. /\ moves' \in Seq(Squares \X Squares) /\ Len(moves') = kept
      /\ \A i \in 1 .. kept : moves'[i] = moves[i]
  BY <1>1, <1>2, <1>3
<1>6. /\ players' \in Seq(Seat) /\ Len(players') = kept
      /\ \A i \in 1 .. kept : players'[i] = players[i]
  BY <1>1, <1>2, <1>3
<1>7. board' \in Positions
  BY <1>1, <1>2, <1>3
<1>8. /\ Len(Line) = Len(history) + 1
      /\ \A i \in 1 .. Len(history) : Line[i] = history[i]
  BY <1>1, AppendProperties DEF IInv, TypeOK, Line
<1>9. /\ Len(Line') = kept + 1
      /\ \A i \in 1 .. kept + 1 : Line'[i] = Line[i]
  <2>1. /\ Len(Line') = kept + 1
        /\ \A i \in 1 .. kept : Line'[i] = history'[i]
        /\ Line'[kept + 1] = board'
    BY <1>4, <1>7, AppendProperties DEF Line
  <2>2. \A i \in 1 .. kept : Line'[i] = Line[i]
    BY <2>1, <1>2, <1>4, <1>8
  <2>3. Line'[kept + 1] = Line[kept + 1]
    BY <2>1, <1>2, <1>3, <1>8
  <2>4. \A i \in 1 .. kept + 1 : i \in 1 .. kept \/ i = kept + 1
    BY <1>2
  <2> QED
    BY <2>1, <2>2, <2>3, <2>4
<1>10. StacksAreLevel'
  BY <1>4, <1>5, <1>6 DEF StacksAreLevel
<1>11. SidesAlternate'
  BY <1>1, <1>2, <1>8, <1>9 DEF IInv, SidesAlternate
<1>12. PositionIsALine'
  <2> DEFINE Step(ln, mv, i) ==
                /\ <<ln[i], mv[i][1], mv[i][2]>> \in DOMAIN Play
                /\ ln[i + 1] = Play[<<ln[i], mv[i][1], mv[i][2]>>]
  <2>1. Line[1] = Start /\ \A i \in 1 .. Len(moves) : Step(Line, moves, i)
    BY DEF IInv, PositionIsALine, Line
  <2>2. Line'[1] = Start
    BY <2>1, <1>1, <1>2, <1>9
  <2>3. \A i \in 1 .. Len(moves') : Step(Line', moves', i)
    <3> TAKE i \in 1 .. Len(moves')
    <3>1. /\ i \in 1 .. Len(moves)
          /\ Line'[i] = Line[i] /\ Line'[i + 1] = Line[i + 1]
          /\ moves'[i] = moves[i]
      BY <1>1, <1>2, <1>5, <1>9
    <3> QED
      BY <3>1, <2>1
  <2> QED
    BY <2>2, <2>3, <1>10 DEF PositionIsALine, StacksAreLevel, Line
<1>13. Len(moves') = Len(moves) - n
  BY <1>1, <1>5 DEF kept
<1> QED
  BY <1>1, <1>2, <1>4, <1>5, <1>6, <1>7, <1>10, <1>11, <1>12, <1>13
  DEF RecordOK

-----------------------------------------------------------------------------
(* The invariant holds initially, and every step preserves it. *)

\* A new game (main.rs: ChessState::with_mode_and_owner_label).
LEMMA InvInit == Init => IInv
<1> SUFFICES ASSUME Init PROVE IInv
  OBVIOUS
<1> USE DEF Init
<1>1. TypeOK
  <2>1. /\ history \in Seq(Positions) /\ players \in Seq(Seat)
        /\ moves \in Seq(Squares \X Squares)
    BY EmptySeq
  <2>2. white \in Seat /\ black \in Seat /\ whiteLabel \in Seat /\ blackLabel \in Seat
    BY UsersAssumption DEF Seat
  <2> QED
    BY <2>1, <2>2, BoardAssumption DEF TypeOK
<1>2. Line = <<Start>>
  BY DEF Line
<1>3. Len(Line) = 1 /\ Line[1] = Start
  BY <1>2
<1>4. StacksAreLevel
  BY DEF StacksAreLevel
<1>5. SidesAlternate
  BY <1>3, BoardAssumption DEF SidesAlternate
<1>6. PositionIsALine
  BY <1>3 DEF PositionIsALine, Line
<1>7. SeatsAreReserved /\ SeatsAreDistinct /\ SeatsAreLabelled
  BY DEF SeatsAreReserved, SeatsAreDistinct, SeatsAreLabelled
<1>8. SelectionIsPlayable /\ MovesBelongToSeats
  BY DEF SelectionIsPlayable, MovesBelongToSeats
<1> QED
  BY <1>1, <1>4, <1>5, <1>6, <1>7, <1>8 DEF IInv

\* While the record of the game is left alone, only the seats matter to it.
LEMMA RecordIsKept ==
    ASSUME IInv, UNCHANGED game PROVE RecordOK'
  BY DEF IInv, TypeOK, RecordOK, game, StacksAreLevel, SidesAlternate,
         PositionIsALine, Line

\* The seats are handed out so that each side has one player.
SeatsOK ==
    /\ white \in Seat /\ black \in Seat
    /\ whiteLabel \in Seat /\ blackLabel \in Seat
    /\ SeatsAreReserved /\ SeatsAreDistinct /\ SeatsAreLabelled

\* Seats that are only ever filled keep the players they already have.
LEMMA SeatsAreOnlyFilled ==
    ASSUME IInv, UNCHANGED <<mode, moves, players>>,
           white # None => white' = white, black # None => black' = black
    PROVE  MovesBelongToSeats'
  BY DEF IInv, MovesBelongToSeats

\* A first selection fills at most the free seat of the side to move, with
\* somebody who does not hold the other one (main.rs: can_play).
LEMMA ClaimFillsASeat ==
    ASSUME IInv, NEW u \in Users, Playable(u), ClaimSeat(u),
           UNCHANGED <<owner, mode>>
    PROVE  /\ SeatsOK'
           /\ white # None => white' = white
           /\ black # None => black' = black
           /\ (IF Turn = "white" THEN white' ELSE black') = u
<1>1. u # None /\ u \in Seat
  BY UsersAssumption DEF Seat
<1>2. Turn \in Colors
  BY BoardAssumption DEF IInv, TypeOK, Turn
<1>3. /\ white' \in Seat /\ black' \in Seat
      /\ whiteLabel' \in Seat /\ blackLabel' \in Seat
  BY <1>1 DEF ClaimSeat, IInv, TypeOK
<1>4. /\ white # None => white' = white
      /\ black # None => black' = black
      /\ (IF Turn = "white" THEN white' ELSE black') = u
  BY <1>1, <1>2 DEF ClaimSeat, Playable, CanPlay, Colors
<1>5. SeatsAreReserved'
  BY <1>1, <1>2 DEF ClaimSeat, Playable, CanPlay, Colors, IInv,
                    SeatsAreReserved
<1>6. SeatsAreDistinct'
  BY <1>1, <1>2 DEF ClaimSeat, Playable, CanPlay, Colors, IInv,
                    SeatsAreReserved, SeatsAreDistinct, TypeOK, Modes
<1>7. SeatsAreLabelled'
  BY <1>1 DEF ClaimSeat, IInv, SeatsAreLabelled
<1> QED
  BY <1>3, <1>4, <1>5, <1>6, <1>7 DEF SeatsOK

\* The move of one who holds the seat of the side to move, or the engine's
\* reply, goes on the record under the right name.
LEMMA MoveIsSigned ==
    ASSUME IInv, NEW from \in Squares, NEW to \in Squares, NEW player \in Seat,
           ApplyMove(<<board, from, to>>, player), UNCHANGED <<mode, seats>>,
           IF mode = "stockfish" /\ Turn = "black"
           THEN player = None
           ELSE /\ player # None
                /\ player = IF Turn = "white" THEN white ELSE black
    PROVE  MovesBelongToSeats'
<1> DEFINE n == Len(players)
           Signed(i, p) ==
              LET seat == IF i % 2 = 1 THEN white ELSE black
              IN  IF mode = "stockfish" /\ i % 2 = 0
                  THEN p = None ELSE p = seat /\ seat # None
<1>1. /\ n \in Nat /\ Len(moves) = n
      /\ players' = Append(players, player)
      /\ moves' = Append(moves, <<from, to>>)
      /\ Len(players') = n + 1 /\ Len(moves') = n + 1
      /\ \A i \in 1 .. n : players'[i] = players[i]
      /\ players'[n + 1] = player
  BY AppendProperties DEF IInv, TypeOK, StacksAreLevel, ApplyMove
<1>2. Turn = IF (n + 1) % 2 = 1 THEN "white" ELSE "black"
  <2>1. /\ Len(Line) = n + 1 /\ Line[n + 1] = board
    BY AppendProperties DEF IInv, TypeOK, StacksAreLevel, Line
  <2> QED
    BY <2>1, <1>1 DEF IInv, SidesAlternate, Turn
<1>3. \A i \in 1 .. n : Signed(i, players'[i])
  BY <1>1 DEF IInv, MovesBelongToSeats
<1>4. Signed(n + 1, players'[n + 1])
  <2>1. (n + 1) % 2 = 0 <=> (n + 1) % 2 # 1
    BY <1>1
  <2> QED
    BY <2>1, <1>1, <1>2
<1>5. \A i \in 1 .. n + 1 : Signed(i, players'[i])
  <2>1. \A i \in 1 .. n + 1 : i \in 1 .. n \/ i = n + 1
    BY <1>1
  <2> HIDE DEF Signed
  <2> QED
    BY <2>1, <1>3, <1>4
<1> QED
  BY <1>1, <1>5 DEF MovesBelongToSeats, seats

\* Each transition of a button, the engine's reply and its failure keep the
\* invariant (main.rs: transition_for_actor, apply_engine_move).
LEMMA InvStep == IInv /\ [Next]_vars => IInv'
<1> SUFFICES ASSUME IInv, [Next]_vars PROVE IInv'
  OBVIOUS
<1> DEFINE Frame == /\ owner' = owner /\ mode' = mode
                    /\ selected' \in Squares \cup {None}
                    /\ finished' \in BOOLEAN
                    /\ thinking' \in BOOLEAN
<1>1. ASSUME RecordOK', SeatsOK', Frame, SelectionIsPlayable',
             MovesBelongToSeats'
      PROVE  IInv'
  BY <1>1 DEF IInv, TypeOK, RecordOK, SeatsOK
<1>2. SeatsOK
  BY DEF IInv, TypeOK, SeatsOK
<1>3. UNCHANGED <<owner, mode, seats>> => SeatsOK'
  BY <1>2 DEF SeatsOK, SeatsAreReserved, SeatsAreDistinct, SeatsAreLabelled,
              seats
<1>4. UNCHANGED <<mode, game, seats>> => MovesBelongToSeats'
  BY SeatsAreOnlyFilled DEF game, seats
<1>5. UNCHANGED game => RecordOK'
  BY RecordIsKept
<1>6. selected' = None => SelectionIsPlayable'
  BY DEF SelectionIsPlayable
<1>7. Committed => thinking' \in BOOLEAN
  BY DEF Committed, ShouldEngineMove
<1>8. /\ mode \in Modes /\ selected \in Squares \cup {None}
      /\ finished \in BOOLEAN /\ thinking \in BOOLEAN /\ board \in Positions
      /\ Turn \in Colors /\ Own[board] \subseteq Squares
  BY BoardAssumption DEF IInv, TypeOK, Turn
<1>9. ASSUME NEW u \in Users, NEW square \in Squares, Select(u, square)
      PROVE  IInv'
  <2>1. /\ SeatsOK'
        /\ white # None => white' = white
        /\ black # None => black' = black
        /\ (IF Turn = "white" THEN white' ELSE black') = u
    BY <1>9, ClaimFillsASeat DEF Select
  <2>2. SelectionIsPlayable'
    BY <1>9, <2>1, UsersAssumption
    DEF Select, Playable, SelectionIsPlayable, Turn, game
  <2>3. MovesBelongToSeats'
    BY <1>9, <2>1, SeatsAreOnlyFilled DEF Select, game
  <2>4. RecordOK' /\ Frame
    BY <1>5, <1>7, <1>8, <1>9 DEF Select
  <2> QED
    BY <1>1, <2>1, <2>2, <2>3, <2>4
<1>10. ASSUME NEW u \in Users, Deselect(u) PROVE IInv'
  BY <1>1, <1>3, <1>4, <1>5, <1>6, <1>7, <1>8, <1>10 DEF Deselect
<1>11. ASSUME NEW u \in Users, NEW square \in Squares, Reselect(u, square)
       PROVE  IInv'
  <2>1. SelectionIsPlayable'
    BY <1>11 DEF Reselect, Playable, IInv, SelectionIsPlayable, Turn, game,
                 seats
  <2>2. RecordOK' /\ SeatsOK' /\ MovesBelongToSeats' /\ Frame
    BY <1>3, <1>4, <1>5, <1>7, <1>8, <1>11 DEF Reselect
  <2> QED
    BY <1>1, <2>1, <2>2
<1>12. ASSUME NEW u \in Users, NEW square \in Squares, Move(u, square)
       PROVE  IInv'
  <2>1. u # None /\ u \in Seat
    BY UsersAssumption DEF Seat
  <2>2. PICK to \in Squares : /\ selected \in Squares
                             /\ ApplyMove(<<board, selected, to>>, u)
    <3>1. selected \in Squares /\ ApplyMove(Parsed(selected, square), u)
      BY <1>8, <1>12 DEF Move, CanMove
    <3> QED
      BY <3>1, ParsedMove DEF IInv
  <2>3. ~(mode = "stockfish" /\ Turn = "black")
    BY <1>12 DEF Move, CanMove, Playable, CanPlay
  <2>4. u = IF Turn = "white" THEN white ELSE black
    BY <1>12 DEF Move, CanMove, Playable, CanPlay, IInv, SelectionIsPlayable
  <2>5. RecordOK'
    BY <2>1, <2>2, MoveExtendsTheLine
  <2>6. MovesBelongToSeats'
    BY <1>12, <2>1, <2>2, <2>3, <2>4, MoveIsSigned DEF Move
  <2>7. SeatsOK' /\ Frame
    BY <1>3, <1>7, <1>8, <1>12, <2>2 DEF Move, ApplyMove
  <2> QED
    BY <1>1, <1>6, <2>2, <2>5, <2>6, <2>7 DEF ApplyMove
<1>13. ASSUME NEW u \in Users, JoinBlack(u) PROVE IInv'
  <2>1. u # None /\ u \in Seat
    BY UsersAssumption DEF Seat
  <2>2. SeatsOK'
    BY <1>2, <1>13, <2>1 DEF JoinBlack, CanJoin, SeatsOK, SeatsAreReserved,
                             SeatsAreDistinct, SeatsAreLabelled
  <2>3. SelectionIsPlayable'
    BY <1>13, <2>1 DEF JoinBlack, CanJoin, IInv, SelectionIsPlayable, Turn, game
  <2>4. MovesBelongToSeats'
    BY <1>13, SeatsAreOnlyFilled DEF JoinBlack, CanJoin, game
  <2>5. RecordOK' /\ Frame
    BY <1>5, <1>7, <1>8, <1>13 DEF JoinBlack
  <2> QED
    BY <1>1, <2>2, <2>3, <2>4, <2>5
<1>14. ASSUME NEW u \in Users, Undo(u) PROVE IInv'
  <2>1. UndoCount \in 1 .. Len(history)
    BY <1>14 DEF Undo, CanUndo, UndoCount, IInv, TypeOK
  <2>2. /\ RecordOK'
        /\ \A i \in 1 .. Len(players') :
              i \in 1 .. Len(players) /\ players'[i] = players[i]
    BY <1>14, <2>1, RewindShortensTheLine DEF Undo
  <2>3. MovesBelongToSeats'
    BY <1>14, <2>2 DEF Undo, seats, IInv, MovesBelongToSeats, RecordOK,
                       StacksAreLevel
  <2>4. SeatsOK' /\ Frame
    BY <1>3, <1>7, <1>8, <1>14 DEF Undo
  <2> QED
    BY <1>1, <1>6, <1>14, <2>2, <2>3, <2>4 DEF Undo
<1>15. ASSUME NEW u \in Users, Finish(u) PROVE IInv'
  BY <1>1, <1>3, <1>4, <1>5, <1>6, <1>7, <1>8, <1>15 DEF Finish
<1>16. ASSUME NEW u \in Users, Reset(u) PROVE IInv'
  <2>1. SeatsOK'
    BY <1>16, UsersAssumption
    DEF Reset, IInv, TypeOK, Seat, SeatsOK, SeatsAreReserved, SeatsAreDistinct,
        SeatsAreLabelled
  <2>2. Line' = <<Start>>
    BY <1>16 DEF Reset, Line
  <2>3. Len(Line') = 1 /\ Line'[1] = Start
    BY <2>2
  <2>4. StacksAreLevel' /\ MovesBelongToSeats'
    BY <1>16 DEF Reset, StacksAreLevel, MovesBelongToSeats
  <2>5. SidesAlternate'
    BY <2>3, BoardAssumption DEF SidesAlternate
  <2>6. PositionIsALine'
    BY <1>16, <2>3 DEF Reset, PositionIsALine, Line
  <2>7. /\ history' \in Seq(Positions) /\ players' \in Seq(Seat)
        /\ moves' \in Seq(Squares \X Squares)
    BY <1>16, EmptySeq DEF Reset
  <2>8. RecordOK'
    BY <1>16, <2>4, <2>5, <2>6, <2>7, BoardAssumption DEF Reset, RecordOK
  <2>9. Frame
    BY <1>7, <1>16 DEF Reset
  <2> QED
    BY <1>1, <1>6, <1>16, <2>1, <2>4, <2>8, <2>9 DEF Reset
<1>17. ASSUME NEW from \in Squares, NEW to \in Squares, EngineReply(from, to)
       PROVE  IInv'
  <2>1. None \in Seat
    BY DEF Seat
  <2>2. PICK target \in Squares :
           /\ ApplyMove(<<board, from, target>>, None) /\ UNCHANGED <<mode, seats>>
           /\ mode = "stockfish" /\ Turn = "black"
    BY <1>17, ParsedMove DEF EngineReply, ShouldEngineMove, IInv
  <2>3. RecordOK'
    BY <2>1, <2>2, MoveExtendsTheLine
  <2>4. MovesBelongToSeats'
    BY <2>1, <2>2, MoveIsSigned
  <2>5. SeatsOK' /\ Frame
    BY <1>3, <1>8, <1>17, <2>2 DEF EngineReply, ApplyMove
  <2> QED
    BY <1>1, <1>6, <2>2, <2>3, <2>4, <2>5 DEF ApplyMove
<1>18. CASE EngineFails
  <2>1. SelectionIsPlayable'
    BY <1>18 DEF EngineFails, IInv, SelectionIsPlayable, Turn, game, seats
  <2>2. RecordOK' /\ SeatsOK' /\ MovesBelongToSeats' /\ Frame
    BY <1>3, <1>4, <1>5, <1>8, <1>18 DEF EngineFails
  <2> QED
    BY <1>1, <2>1, <2>2
<1>19. CASE UNCHANGED vars
  <2>1. SelectionIsPlayable'
    BY <1>19 DEF vars, IInv, SelectionIsPlayable, Turn
  <2>2. UNCHANGED <<owner, mode, game, seats>> /\ Frame
    BY <1>8, <1>19 DEF vars, game, seats
  <2> QED
    BY <1>1, <1>3, <1>4, <1>5, <2>1, <2>2
<1> QED
  BY <1>9, <1>10, <1>11, <1>12, <1>13, <1>14, <1>15, <1>16, <1>17, <1>18, <1>19
  DEF Next, Click

\* The invariant holds in every state of the game.
LEMMA IInvHolds == Spec => []IInv
  BY InvInit, InvStep, PTL DEF Spec

-----------------------------------------------------------------------------
(* What holds in every game. *)

\* The state of the game, its stacks and its seats keep their types.
THEOREM TypeInvariant == Spec => []TypeOK
<1>1. IInv => TypeOK
  BY DEF IInv
<1> QED
  BY <1>1, IInvHolds, PTL

\* Nobody plays both sides, in whatever order the seats are claimed (main.rs:
\* can_play, the JoinBlack arm).
THEOREM OnePlayerPerSide == Spec => []SeatsAreDistinct
<1>1. IInv => SeatsAreDistinct
  BY DEF IInv
<1> QED
  BY <1>1, IInvHolds, PTL

\* The whole record of a game, of any length and with any undos in it, was
\* played by those who hold the seats now, Black's moves against the engine by
\* the engine alone.
THEOREM RecordIsSigned == Spec => []MovesBelongToSeats
<1>1. IInv => MovesBelongToSeats
  BY DEF IInv
<1> QED
  BY <1>1, IInvHolds, PTL

\* The board, the history and the moves describe one line of legal moves from
\* the initial position.
THEOREM BoardIsReached == Spec => []PositionIsALine
<1>1. IInv => PositionIsALine
  BY DEF IInv
<1> QED
  BY <1>1, IInvHolds, PTL

\* A selection never outlives the position, the turn or the game it was made in.
THEOREM SelectionIsCurrent == Spec => []SelectionIsPlayable
<1>1. IInv => SelectionIsPlayable
  BY DEF IInv
<1> QED
  BY <1>1, IInvHolds, PTL

\* Whoever holds a seat is the one the status line names.
THEOREM LabelsAreTrue == Spec => []SeatsAreLabelled
<1>1. IInv => SeatsAreLabelled
  BY DEF IInv
<1> QED
  BY <1>1, IInvHolds, PTL

-----------------------------------------------------------------------------
(* What the projection offers is what the transition accepts. *)

\* Once a move has been made the one who made the first, and holds White's seat
\* since, may take the last one back (main.rs: ensure_participant).
LEMMA SomebodyMayUndo ==
    IInv /\ history # << >> => white \in Users /\ CanUndo(white)
<1> SUFFICES ASSUME IInv, history # << >>
             PROVE  white \in Users /\ CanUndo(white)
  OBVIOUS
<1>1. /\ history \in Seq(Positions) /\ Len(players) = Len(history)
      /\ Len(players) \in Nat
  BY DEF IInv, TypeOK, StacksAreLevel
<1>2. 1 \in 1 .. Len(players)
  BY <1>1
<1>3. white # None
  BY <1>2 DEF IInv, MovesBelongToSeats
<1>4. white \in Users
  BY <1>3 DEF IInv, TypeOK, Seat
<1>5. MayClick(white)
  BY DEF MayClick, IInv, SeatsAreReserved
<1> QED
  BY <1>4, <1>5 DEF CanUndo, IsParticipant

\* The side of a selection is played by the one who holds its seat, and that
\* one's buttons are enabled (main.rs: actor_policy, can_play).
LEMMA SelectionHasAPlayer ==
    IInv /\ selected # None => \E u \in Users : Playable(u)
<1> SUFFICES ASSUME IInv, selected # None
             PROVE  \E u \in Users : Playable(u)
  OBVIOUS
<1> DEFINE seat == IF Turn = "white" THEN white ELSE black
<1>1. seat # None /\ ~finished /\ board \notin Over
  BY DEF IInv, SelectionIsPlayable
<1>2. seat \in Users
  BY <1>1 DEF IInv, TypeOK, Seat
<1>3. ~(mode = "stockfish" /\ Turn = "black")
  BY <1>1 DEF IInv, SeatsAreReserved
<1>4. MayClick(seat)
  <2>1. CASE mode = "twoPlayer"
    BY <2>1 DEF MayClick
  <2>2. CASE mode = "stockfish"
    <3>1. Turn = "white"
      BY <2>2, <1>3, BoardAssumption DEF IInv, TypeOK, Turn, Colors
    <3> QED
      BY <3>1 DEF MayClick, IInv, SeatsAreReserved
  <2> QED
    BY <2>1, <2>2 DEF IInv, TypeOK, Modes
<1>5. CanPlay(seat)
  BY <1>3 DEF CanPlay
<1> QED
  BY <1>1, <1>2, <1>4, <1>5 DEF Playable

\* No control is dead, as long as there are two who can click: whatever the
\* record and the seats are, what the view offers somebody may do (main.rs: view
\* and transition_for_actor decide this apart).
THEOREM NoControlIsDead ==
    ASSUME \A u \in Seat : Users \ {u} # {}
    PROVE  Spec => []OfferedIsAccepted
<1>1. IInv => OfferedIsAccepted
  <2> SUFFICES ASSUME IInv PROVE OfferedIsAccepted
    OBVIOUS
  <2>1. ASSUME "join" \in Offered PROVE \E u \in Users : CanJoin(u)
    <3>1. mode = "twoPlayer" /\ ~finished /\ black = None
      BY <2>1 DEF Offered
    <3>2. PICK u \in Users : u # white
      BY DEF IInv, TypeOK
    <3> QED
      BY <3>1, <3>2 DEF CanJoin
  <2>2. ASSUME "undo" \in Offered PROVE \E u \in Users : CanUndo(u)
    <3>1. history # << >>
      BY <2>2 DEF Offered
    <3> QED
      BY <3>1, SomebodyMayUndo
  <2>3. \E u \in Users : CanEnd(u)
    <3>1. PICK u \in Users : owner \in {None, u}
      BY UsersAssumption DEF IInv, TypeOK, Seat
    <3> QED
      BY <3>1 DEF CanEnd, MayClick, IsManager
  <2> QED
    BY <2>1, <2>2, <2>3 DEF OfferedIsAccepted
<1> QED
  BY <1>1, IInvHolds, PTL

\* The marks on the board are the moves that can be made, in every position and
\* whoever sits where, and they are all of them, castling included, although the
\* king's own rook may be marked too (main.rs: view and the Square arm decide
\* this apart).
THEOREM MarksShowTheMoves == Spec => []MarksAreMoves
<1>1. ASSUME IInv, NEW square \in Squares, Visual(square) = "selected"
      PROVE  \E u \in Users : CanDeselect(u)
  <2>1. selected # None
    BY <1>1, BoardAssumption DEF Visual
  <2> QED
    BY <1>1, <2>1, SelectionHasAPlayer DEF CanDeselect
<1>2. ASSUME IInv, NEW square \in Squares, Visual(square) = "target",
             square \notin Own[board]
      PROVE  \E u \in Users : CanMove(u, square)
  <2>1. selected # None /\ IsLegalMove(selected, square)
    BY <1>2 DEF Visual
  <2> QED
    BY <1>2, <2>1, SelectionHasAPlayer DEF CanMove
<1>3. ASSUME IInv, NEW square \in Squares, NEW u \in Users, CanMove(u, square)
      PROVE  Visual(square) = "target" /\ square \notin Own[board]
  BY <1>3 DEF CanMove, IsLegalMove, Visual
<1>4. ASSUME IInv, NEW move \in DOMAIN Play, move[1] = board, move[2] = selected
      PROVE  \E square \in Squares, u \in Users :
                CanMove(u, square) /\ Parsed(selected, square) = move
  <2>1. PICK square \in Squares \ Own[board] :
                UciTarget[<<board, selected, square>>] = move[3]
    BY <1>4, WritingAssumption
  <2>2. move \in Positions \X Squares \X Squares /\ selected \in Own[board]
    BY <1>4, BoardAssumption, PlayAssumption
  <2>3. Parsed(selected, square) = move
    BY <1>4, <2>1, <2>2 DEF Parsed
  <2>4. selected # square /\ selected # None
    BY <1>4, <2>1, <2>2, BoardAssumption
  <2> QED
    BY <1>4, <2>1, <2>3, <2>4, SelectionHasAPlayer DEF CanMove, IsLegalMove
<1>5. IInv => MarksAreMoves
  BY <1>1, <1>2, <1>3, <1>4 DEF MarksAreMoves
<1> QED
  BY <1>5, IInvHolds, PTL

-----------------------------------------------------------------------------
(* What no step does. *)

\* A seat is given up only when a finished game is replaced by a new one, and
\* the owner's not even then.
THEOREM SeatsStayTaken == Spec => SeatsAreKept
<1> DEFINE replaced == finished /\ ~finished' /\ moves' = << >>
           Kept == /\ white # None /\ white' # white => replaced /\ owner = None
                   /\ black # None /\ black' # black => replaced
<1>1. IInv /\ [Next]_vars => [Kept]_vars
  <2> SUFFICES ASSUME IInv, Next PROVE Kept
    OBVIOUS
  <2>1. UNCHANGED seats => Kept
    BY DEF seats
  <2>2. ASSUME NEW u \in Users, NEW square \in Squares, Select(u, square)
        PROVE  Kept
    BY <2>2 DEF Select, ClaimSeat
  <2>3. ASSUME NEW u \in Users, NEW square \in Squares,
               Reselect(u, square) \/ Move(u, square)
        PROVE  Kept
    BY <2>1, <2>3 DEF Reselect, Move
  <2>4. ASSUME NEW u \in Users, JoinBlack(u) PROVE Kept
    BY <2>4 DEF JoinBlack, CanJoin
  <2>5. ASSUME NEW u \in Users, Reset(u) PROVE Kept
    BY <2>5 DEF Reset, Offered, IInv, SeatsAreReserved
  <2>6. ASSUME NEW from, NEW to, EngineReply(from, to) PROVE Kept
    BY <2>1, <2>6 DEF EngineReply
  <2>7. CASE EngineFails
    BY <2>1, <2>7 DEF EngineFails
  <2>8. ASSUME NEW u \in Users, Deselect(u) \/ Undo(u) \/ Finish(u)
        PROVE  Kept
    BY <2>1, <2>8 DEF Deselect, Undo, Finish
  <2> QED
    BY <2>2, <2>3, <2>4, <2>5, <2>6, <2>7, <2>8 DEF Next, Click
<1> QED
  BY <1>1, IInvHolds, PTL DEF Spec, SeatsAreKept

\* Nobody but its owner ends a game, or takes back more than its last move.
THEOREM OwnersAuthority == Spec => OnlyTheOwnerEnds
<1> DEFINE Safe == \A u \in Users \ {owner} :
                      owner # None /\ Click(u) =>
                         /\ finished' => finished
                         /\ Len(moves') >= Len(moves) - 1
<1>1. IInv /\ [Next]_vars => [Safe]_vars
  <2> SUFFICES ASSUME IInv, NEW u \in Users \ {owner}, owner # None, Click(u)
               PROVE  /\ finished' => finished
                      /\ Len(moves') >= Len(moves) - 1
    OBVIOUS
  <2>1. /\ Len(moves) \in Nat /\ Len(moves) = Len(history)
        /\ history \in Seq(Positions)
    BY DEF IInv, TypeOK, StacksAreLevel
  <2>2. ~IsManager(u)
    BY DEF IsManager
  <2>3. UNCHANGED <<finished, moves>>
        => (finished' => finished) /\ Len(moves') >= Len(moves) - 1
    BY <2>1
  <2>4. ASSUME NEW square \in Squares, Move(u, square)
        PROVE  finished' = finished /\ Len(moves') >= Len(moves) - 1
    <3>1. finished' = finished /\ \E n : moves' = Append(moves, n)
      BY <2>4 DEF Move, ApplyMove
    <3>2. Len(moves') = Len(moves) + 1
      BY <3>1 DEF IInv, TypeOK
    <3> QED
      BY <3>1, <3>2, <2>1
  <2>5. CASE Undo(u)
    <3>1. UndoCount = 1
      BY <2>5 DEF Undo, CanUndo, MayClick, UndoCount, IInv, TypeOK, Modes
    <3>2. 1 \in 1 .. Len(history)
      BY <2>1, <2>5 DEF Undo, CanUndo
    <3>3. Len(moves') = Len(moves) - 1
      BY <2>5, <3>1, <3>2, RewindShortensTheLine DEF Undo
    <3> QED
      BY <2>1, <2>5, <3>3 DEF Undo
  <2>6. ASSUME NEW square \in Squares, Select(u, square) \/ Reselect(u, square)
        PROVE  UNCHANGED <<finished, moves>>
    BY <2>6 DEF Select, Reselect, game
  <2>7. CASE Deselect(u) \/ JoinBlack(u)
    BY <2>3, <2>7 DEF Deselect, JoinBlack, game
  <2>8. ~Finish(u) /\ ~Reset(u)
    BY <2>2 DEF Finish, Reset, CanEnd
  <2> QED
    BY <2>3, <2>4, <2>5, <2>6, <2>7, <2>8 DEF Click
<1> QED
  BY <1>1, IInvHolds, PTL DEF Spec, OnlyTheOwnerEnds

\* What Undo against the engine does to the turn: it gives White the turn if
\* that takes back all there is, and otherwise leaves it with who has it, the
\* engine too (main.rs: the Undo arm pops two positions whoever is to move).
UndoKeepsTheTurn ==
    [][\A u \in Users :
          mode = "stockfish" /\ Undo(u) =>
             /\ Len(history) <= 1 => SideToMove[board'] = "white"
             /\ Len(history) > 1 => SideToMove[board'] = Turn]_vars

\* In every game, whatever the record.
THEOREM UndoAndTheTurn == Spec => UndoKeepsTheTurn
<1> DEFINE Kept ==
              \A u \in Users :
                 mode = "stockfish" /\ Undo(u) =>
                    /\ Len(history) <= 1 => SideToMove[board'] = "white"
                    /\ Len(history) > 1 => SideToMove[board'] = Turn
<1>1. IInv /\ [Next]_vars => [Kept]_vars
  <2> SUFFICES ASSUME IInv, NEW u \in Users, mode = "stockfish", Undo(u)
               PROVE  /\ Len(history) <= 1 => SideToMove[board'] = "white"
                      /\ Len(history) > 1 => SideToMove[board'] = Turn
    OBVIOUS
  <2>1. Len(history) \in Nat /\ Len(history) >= 1
    BY DEF Undo, CanUndo, IInv, TypeOK
  <2>2. /\ Len(Line) = Len(history) + 1
        /\ \A i \in 1 .. Len(history) : Line[i] = history[i]
        /\ Line[Len(history) + 1] = board
    BY AppendProperties DEF IInv, TypeOK, Line
  <2>3. \A i \in 1 .. Len(history) + 1 :
           SideToMove[Line[i]] = IF i % 2 = 1 THEN "white" ELSE "black"
    BY <2>2 DEF IInv, SidesAlternate
  <2>4. board' = history[Len(history) - UndoCount + 1]
    BY DEF Undo, Rewind
  <2>5. ASSUME Len(history) > 1 PROVE SideToMove[board'] = Turn
    <3>1. Len(history) >= 2 /\ Len(history) - 1 \in 1 .. Len(history)
      BY <2>1, <2>5
    <3>2. board' = Line[Len(history) - 1]
      BY <2>1, <2>2, <2>4, <3>1 DEF UndoCount
    <3>3. (Len(history) - 1) % 2 = (Len(history) + 1) % 2
      BY <2>1
    <3> QED
      BY <2>1, <2>2, <2>3, <3>1, <3>2, <3>3 DEF Turn
  <2>6. ASSUME Len(history) <= 1 PROVE SideToMove[board'] = "white"
    <3>1. UndoCount = 1
      BY <2>1, <2>6 DEF UndoCount
    <3>2. board' = Line[1] /\ 1 \in 1 .. Len(history) + 1
      BY <2>1, <2>2, <2>4, <2>6, <3>1
    <3> QED
      BY <2>3, <3>2
  <2> QED
    BY <2>5, <2>6
<1> QED
  BY <1>1, IInvHolds, PTL DEF Spec, UndoKeepsTheTurn

\* After an Undo against the engine White is to move in what is shown, or the
\* engine is asked first: also when the game was over, for no position that is
\* taken back to is (main.rs: the Undo arm clears `finished`).
THEOREM UndoIsForWhite == Spec => UndoReturnsToWhite
<1> DEFINE ForWhite ==
              \A u \in Users :
                 mode = "stockfish" /\ Undo(u) =>
                    SideToMove[board'] = "white" \/ thinking'
<1>1. IInv /\ IInv' /\ [Next]_vars => [ForWhite]_vars
  <2> SUFFICES ASSUME IInv, IInv', NEW u \in Users, mode = "stockfish", Undo(u),
                      SideToMove[board'] # "white"
               PROVE  thinking'
    OBVIOUS
  <2>1. mode' = "stockfish" /\ ~finished' /\ thinking' = ShouldEngineMove'
    BY DEF Undo, Committed
  <2>2. Turn' = "black"
    BY BoardAssumption DEF IInv, TypeOK, Turn, Colors
  <2>3. board' \notin Over
    <3> DEFINE k == Len(history) - UndoCount + 1
    <3>1. /\ history \in Seq(Positions) /\ moves \in Seq(Squares \X Squares)
          /\ Len(history) >= 1
          /\ Len(moves) = Len(history)
      BY DEF Undo, CanUndo, IInv, TypeOK, StacksAreLevel
    <3>2. k \in 1 .. Len(history) /\ board' = history[k]
      BY <3>1 DEF Undo, Rewind, UndoCount
    <3> HIDE DEF k
    <3>3. Line[k] = history[k]
      BY <3>1, <3>2, AppendProperties DEF IInv, TypeOK, Line
    <3>4. <<Line[k], moves[k][1], moves[k][2]>> \in DOMAIN Play
      BY <3>1, <3>2 DEF IInv, PositionIsALine, Line
    <3> QED
      BY <3>2, <3>3, <3>4, PlayAssumption
  <2> QED
    BY <2>1, <2>2, <2>3 DEF ShouldEngineMove
<1> QED
  BY <1>1, IInvHolds, PTL DEF Spec, UndoReturnsToWhite
=============================================================================
