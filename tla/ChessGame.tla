----------------------------- MODULE ChessGame -----------------------------
(***************************************************************************)
(* The game of the chess application: the ChessState of one view, the      *)
(* transitions its buttons make (transition_for_actor) and the engine's    *)
(* reply (apply_engine_move).                                              *)
(*                                                                         *)
(* A transition is one action: it is computed from a snapshot, but         *)
(* CallbackFlow shows that compare_and_set commits it only if the snapshot *)
(* is still the state of the view.  For the same reason a click is the     *)
(* click of a button that the CURRENT state offers (the buttons are        *)
(* rendered with StalePolicy::Reject), by a user its actor policy admits.  *)
(* A refused click changes nothing and is left out.                        *)
(*                                                                         *)
(* The rules of chess are the cozy_chess crate's.  They are a parameter: a *)
(* graph of positions, in which the two sides alternate.                   *)
(***************************************************************************)
EXTENDS Integers, SequencesExt

CONSTANTS
    Users,
    Owners,      \* who may start the game; None when autostarted
    None,
    Squares,
    Positions,   \* external: cozy_chess::Board
    Start,       \* external: Board::default()
    SideToMove,  \* external: Board::side_to_move, of each position
    Own,         \* external: the squares that hold a piece of that side
    Over,        \* external: the positions whose status is not Ongoing
    Play,        \* external: Board::try_play, on the legal moves <<p, from, to>>;
                 \* a king that castles moves to the square of its own rook
    UciTarget    \* external: parse_uci_move, the target of a move written as
                 \* its two squares: for a king's leap, the rook's square

Colors == {"white", "black"}

Modes == {"stockfish", "twoPlayer"}

ASSUME UsersAssumption == None \notin Users /\ Owners \subseteq Users \cup {None}

ASSUME BoardAssumption ==
    /\ None \notin Squares
    /\ Start \in Positions
    /\ SideToMove \in [Positions -> Colors]
    /\ SideToMove[Start] = "white"
    /\ Own \in [Positions -> SUBSET Squares]
    /\ Over \subseteq Positions
    /\ DOMAIN Play \subseteq Positions \X Squares \X Squares

ASSUME PlayAssumption ==
    \A move \in DOMAIN Play :
       /\ Play[move] \in Positions
       /\ SideToMove[Play[move]] # SideToMove[move[1]]
       /\ move[1] \notin Over
       /\ move[2] \in Own[move[1]]

\* Every legal move can be written without naming a square of one's own.
ASSUME WritingAssumption ==
    /\ UciTarget \in [Positions \X Squares \X Squares -> Squares]
    /\ \A move \in DOMAIN Play :
          \E to \in Squares \ Own[move[1]] :
             UciTarget[<<move[1], move[2], to>>] = move[3]

VARIABLES
    owner, mode,        \* fixed when the game is started
    board,              \* ChessState.board
    selected,           \* the square of the piece to be moved, or None
    white, black,       \* white_player and black_player, or None
    whiteLabel,         \* the user whose name labels White, or None
    blackLabel,
    history, moves,     \* the positions left behind, and the moves made there
    finished,
    thinking,           \* a task is waiting for the engine's reply to the
                        \* current revision
    players             \* history variable: who made each move (None: the engine)

seats == <<white, black, whiteLabel, blackLabel>>
game == <<board, history, moves, players>>
vars == <<owner, mode, board, selected, white, black, whiteLabel, blackLabel,
          history, moves, finished, thinking, players>>

Seat == Users \cup {None}

TypeOK ==
    /\ owner \in Owners
    /\ mode \in Modes
    /\ board \in Positions
    /\ selected \in Squares \cup {None}
    /\ white \in Seat /\ black \in Seat
    /\ whiteLabel \in Seat /\ blackLabel \in Seat
    /\ history \in Seq(Positions)
    /\ moves \in Seq(Squares \X Squares)
    /\ finished \in BOOLEAN
    /\ thinking \in BOOLEAN
    /\ players \in Seq(Seat)

\* ChessState::with_mode_and_owner_label, as start_game_in_chat calls it: the
\* owner comes with a name.
Init ==
    /\ owner \in Owners
    /\ mode \in Modes
    /\ board = Start
    /\ selected = None
    /\ white = owner /\ whiteLabel = owner
    /\ black = None /\ blackLabel = None
    /\ history = << >> /\ moves = << >> /\ players = << >>
    /\ finished = FALSE
    /\ thinking = FALSE

-----------------------------------------------------------------------------
(* Authority. *)

Turn == SideToMove[board]

\* actor_policy: who the buttons of the current projection are for.
MayClick(u) == mode = "twoPlayer" \/ owner \in {None, u}

\* Mutated form of IsManager: in a group, everybody is.
IsManagerAnyone(u) == mode = "twoPlayer" \/ owner \in {None, u}

\* ensure_manager.
IsManager(u) == owner \in {None, u}

\* ensure_participant.
IsParticipant(u) ==
    \/ u \in {white, black}
    \/ owner = None /\ white = None /\ black = None

\* Mutated form of CanPlay: a free seat is anybody's.
CanPlayAnyFree(u) ==
    LET seat == IF Turn = "white" THEN white ELSE black
    IN  /\ ~(mode = "stockfish" /\ Turn = "black")
        /\ seat \in {u, None}

\* Mutated form of CanPlay: the engine's side is not kept for the engine.
CanPlayEngineSide(u) ==
    LET seat == IF Turn = "white" THEN white ELSE black
        other == IF Turn = "white" THEN black ELSE white
    IN  seat = u \/ (seat = None /\ (mode = "twoPlayer" => other # u))

\* ChessState::can_play, for the side to move.
CanPlay(u) ==
    LET seat == IF Turn = "white" THEN white ELSE black
        other == IF Turn = "white" THEN black ELSE white
    IN  /\ ~(mode = "stockfish" /\ Turn = "black")
        /\ seat = u \/ (seat = None /\ (mode = "twoPlayer" => other # u))

\* ChessState::should_engine_move.
ShouldEngineMove ==
    /\ mode = "stockfish"
    /\ Turn = "black"
    /\ ~finished
    /\ board \notin Over

\* The task that committed a click asks the engine for its reply.
Committed == thinking' = ShouldEngineMove'

-----------------------------------------------------------------------------
(* view: what the projection of the state offers and shows. *)

\* Mutated form of Offered: Undo is never disabled.
OfferedAnyUndo ==
    {"undo", IF finished THEN "reset" ELSE "finish"}
      \cup {c \in {"join"} : mode = "twoPlayer" /\ ~finished /\ black = None}

\* The enabled controls below the board, but for the flip.
Offered ==
    {IF finished THEN "reset" ELSE "finish"}
      \cup {c \in {"undo"} : history # << >>}
      \cup {c \in {"join"} : mode = "twoPlayer" /\ ~finished /\ black = None}

\* parse_uci_move.
Parsed(from, to) == <<board, from, UciTarget[<<board, from, to>>]>>

\* legal_move.
IsLegalMove(from, to) == from # to /\ Parsed(from, to) \in DOMAIN Play

\* CellVisual of a square; a capture and another legal move are "target".
Visual(square) ==
    IF square = selected THEN "selected"
    ELSE IF selected # None /\ IsLegalMove(selected, square) THEN "target"
    ELSE "base"

-----------------------------------------------------------------------------
(* The transition of ChessAction::Square. *)

Playable(u) ==
    /\ MayClick(u)
    /\ ~finished
    /\ board \notin Over
    /\ CanPlay(u)

\* Mutated form of ClaimSeat: only JoinBlack labels a seat.
ClaimSeatUnlabelled(u) ==
    /\ white' = IF Turn = "white" /\ white = None THEN u ELSE white
    /\ black' = IF Turn = "black" /\ black = None THEN u ELSE black
    /\ UNCHANGED <<whiteLabel, blackLabel>>

\* A first selection claims a free seat, and labels it.
ClaimSeat(u) ==
    /\ white' = IF Turn = "white" /\ white = None THEN u ELSE white
    /\ black' = IF Turn = "black" /\ black = None THEN u ELSE black
    /\ whiteLabel' = IF white = None /\ white' = u THEN u ELSE whiteLabel
    /\ blackLabel' = IF black = None /\ black' = u THEN u ELSE blackLabel

Select(u, square) ==
    /\ Playable(u)
    /\ selected = None
    /\ square \in Own[board]
    /\ ClaimSeat(u)
    /\ selected' = square
    /\ UNCHANGED <<owner, mode, game, finished>>
    /\ Committed

\* The same button again puts the piece back.
CanDeselect(u) == Playable(u) /\ selected # None

Deselect(u) ==
    /\ CanDeselect(u)
    /\ selected' = None
    /\ UNCHANGED <<owner, mode, game, seats, finished>>
    /\ Committed

Reselect(u, square) ==
    /\ Playable(u)
    /\ selected # None
    /\ square \in Own[board] \ {selected}
    /\ selected' = square
    /\ UNCHANGED <<owner, mode, game, seats, finished>>
    /\ Committed

\* Mutated form of ApplyMove: the selection outlives the move.
ApplyMoveKeepsSelection(move, player) ==
    /\ move \in DOMAIN Play
    /\ board' = Play[move]
    /\ selected' = selected
    /\ history' = Append(history, board)
    /\ moves' = Append(moves, <<move[2], move[3]>>)
    /\ players' = Append(players, player)

\* Mutated form of ApplyMove: the notation is the origin alone.
ApplyMoveNotesOrigin(move, player) ==
    /\ move \in DOMAIN Play
    /\ board' = Play[move]
    /\ selected' = None
    /\ history' = Append(history, board)
    /\ moves' = Append(moves, move[2])
    /\ players' = Append(players, player)

\* apply_move.
ApplyMove(move, player) ==
    /\ move \in DOMAIN Play
    /\ board' = Play[move]
    /\ selected' = None
    /\ history' = Append(history, board)
    /\ moves' = Append(moves, <<move[2], move[3]>>)
    /\ players' = Append(players, player)

\* The arm after Reselect: a square of one's own never gets here.
CanMove(u, square) ==
    /\ Playable(u)
    /\ selected # None
    /\ square \notin Own[board]
    /\ IsLegalMove(selected, square)

Move(u, square) ==
    /\ CanMove(u, square)
    /\ ApplyMove(Parsed(selected, square), u)
    /\ UNCHANGED <<owner, mode, seats, finished>>
    /\ Committed

-----------------------------------------------------------------------------
(* The transitions of the other controls. *)

\* Mutated form of JoinBlack: the seat is given to whoever asked last.
JoinBlackTakesOver(u) ==
    /\ mode = "twoPlayer"
    /\ ~finished
    /\ white # u
    /\ black' = u
    /\ blackLabel' = u
    /\ UNCHANGED <<owner, mode, game, selected, white, whiteLabel, finished>>
    /\ Committed

CanJoin(u) ==
    /\ mode = "twoPlayer"
    /\ ~finished
    /\ black = None
    /\ white # u

JoinBlack(u) ==
    /\ "join" \in Offered
    /\ CanJoin(u)
    /\ black' = u
    /\ blackLabel' = u
    /\ UNCHANGED <<owner, mode, game, selected, white, whiteLabel, finished>>
    /\ Committed

UndoCount ==
    IF mode = "stockfish" /\ Len(history) >= 2 THEN 2 ELSE 1

\* Mutated form of Rewind: the oldest position that is popped stays in history.
RewindKeepsLast(n) ==
    LET kept == Len(history) - n
    IN  /\ board' = history[kept + 1]
        /\ history' = SubSeq(history, 1, kept + 1)
        /\ moves' = SubSeq(moves, 1, kept)
        /\ players' = SubSeq(players, 1, kept)

\* The loop that pops n positions.
Rewind(n) ==
    LET kept == Len(history) - n
    IN  /\ board' = history[kept + 1]
        /\ history' = SubSeq(history, 1, kept)
        /\ moves' = SubSeq(moves, 1, kept)
        /\ players' = SubSeq(players, 1, kept)

CanUndo(u) ==
    /\ MayClick(u)
    /\ IsParticipant(u)
    /\ history # << >>

\* Mutated form of Undo: a finished game stays finished.
UndoKeepsFinished(u) ==
    /\ "undo" \in Offered
    /\ CanUndo(u)
    /\ Rewind(UndoCount)
    /\ selected' = None
    /\ UNCHANGED <<owner, mode, seats, finished>>
    /\ Committed

Undo(u) ==
    /\ "undo" \in Offered
    /\ CanUndo(u)
    /\ Rewind(UndoCount)
    /\ selected' = None
    /\ finished' = FALSE
    /\ UNCHANGED <<owner, mode, seats>>
    /\ Committed

\* Of the game, or of a game that is over: a new one is started.
CanEnd(u) == MayClick(u) /\ IsManager(u)

\* Mutated form of Finish: the selection is kept.
FinishKeepsSelection(u) ==
    /\ "finish" \in Offered
    /\ CanEnd(u)
    /\ finished' = TRUE
    /\ UNCHANGED <<owner, mode, game, selected, seats>>
    /\ Committed

Finish(u) ==
    /\ "finish" \in Offered
    /\ CanEnd(u)
    /\ finished' = TRUE
    /\ selected' = None
    /\ UNCHANGED <<owner, mode, game, seats>>
    /\ Committed

\* The new state is given the label of the old White.
Reset(u) ==
    /\ "reset" \in Offered
    /\ CanEnd(u)
    /\ board' = Start
    /\ selected' = None
    /\ white' = owner
    /\ black' = None /\ blackLabel' = None
    /\ history' = << >> /\ moves' = << >> /\ players' = << >>
    /\ finished' = FALSE
    /\ UNCHANGED <<owner, mode, whiteLabel>>
    /\ Committed

-----------------------------------------------------------------------------
(* The engine. *)

\* apply_engine_move of the reply, which is written as two squares.
EngineReply(from, to) ==
    /\ thinking
    /\ ShouldEngineMove
    /\ ApplyMove(Parsed(from, to), None)
    /\ thinking' = FALSE
    /\ UNCHANGED <<owner, mode, seats, finished>>

\* No engine, an error of the engine, or an illegal move: the revision is
\* projected as it is.
EngineFails ==
    /\ thinking
    /\ thinking' = FALSE
    /\ UNCHANGED <<owner, mode, game, selected, seats, finished>>

-----------------------------------------------------------------------------

\* The buttons of a revision are registered when it is projected, which is after
\* the engine has replied to it, or failed.
Click(u) ==
    /\ ~thinking
    /\ \/ \E square \in Squares :
             Select(u, square) \/ Reselect(u, square) \/ Move(u, square)
       \/ Deselect(u)
       \/ JoinBlack(u) \/ Undo(u) \/ Finish(u) \/ Reset(u)

Next ==
    \/ \E u \in Users : Click(u)
    \/ \E from, to \in Squares : EngineReply(from, to)
    \/ EngineFails

Spec == Init /\ [][Next]_vars

-----------------------------------------------------------------------------
(* Properties. *)

\* Nobody plays both sides of a two-player game, in whatever order the seats
\* are claimed: by the start of the game, by JoinBlack, or by a first selection
\* (main.rs: can_play, the JoinBlack arm).
SeatsAreDistinct == white # None => white # black

\* Every move on the record was made by the one who holds the seat of its side
\* NOW, and Black's moves against the engine by the engine alone: seats are not
\* passed on while a game is played, nor by undoing it (docs/CHESS_REFERENCE.md:
\* "only the engine transition can do so").
MovesBelongToSeats ==
    /\ Len(players) = Len(moves)
    /\ \A i \in 1 .. Len(players) :
          LET seat == IF i % 2 = 1 THEN white ELSE black
          IN  IF mode = "stockfish" /\ i % 2 = 0
              THEN players[i] = None
              ELSE players[i] = seat /\ seat # None

\* The board is reached from the initial position by the recorded moves, one
\* legal move after the other, however moves, undos, engine replies and new
\* games are mixed (main.rs: apply_move and the Undo arm keep three stacks).
PositionIsALine ==
    LET line == Append(history, board)
    IN  /\ Len(moves) = Len(history)
        /\ line[1] = Start
        /\ \A i \in 1 .. Len(moves) :
              LET move == <<line[i], moves[i][1], moves[i][2]>>
              IN  move \in DOMAIN Play /\ line[i + 1] = Play[move]

\* A selection left in the state always marks a piece of the side to move,
\* in a game that goes on, and somebody holds that side's seat: no transition
\* lets it outlive the position or the turn it was made in.
SelectionIsPlayable ==
    selected # None =>
       /\ selected \in Own[board]
       /\ ~finished
       /\ board \notin Over
       /\ (IF Turn = "white" THEN white ELSE black) # None

\* Whoever holds a seat is the one the status line names (main.rs:
\* handle_callback sets the labels after the transition set the seats).
SeatsAreLabelled ==
    /\ white # None => whiteLabel = white
    /\ blackLabel = black

\* A seat that has been taken stays taken until a finished game is replaced by
\* a new one, and the one who started the game keeps White even then.
SeatsAreKept ==
    [][LET replaced == finished /\ ~finished' /\ moves' = << >>
       IN  /\ white # None /\ white' # white => replaced /\ owner = None
           /\ black # None /\ black' # black => replaced]_vars

\* Nobody but the one who started it ends a game, or takes back more of it than
\* the last move.
OnlyTheOwnerEnds ==
    [][\A u \in Users \ {owner} :
          owner # None /\ Click(u) =>
             /\ finished' => finished
             /\ Len(moves') >= Len(moves) - 1]_vars

\* The turn that is shown after an Undo against the engine is White's: either it
\* is White's already, or the engine, whose turn it is, is asked to move before
\* anything is shown.  That also goes for an Undo of a game that is over or
\* finished, or after the engine has failed.  Only an engine that fails at this
\* very Undo leaves Black to move (docs/CHESS_REFERENCE.md: "Undo removes the
\* last human/engine pair in engine mode so the next visible turn remains
\* White").
UndoReturnsToWhite ==
    [][\A u \in Users :
          mode = "stockfish" /\ Undo(u) =>
             SideToMove[board'] = "white" \/ thinking']_vars

\* No control is dead: whatever the projection offers, the transition accepts
\* from somebody its buttons are for.  In particular there is always somebody
\* who may undo a move that was made (main.rs: view and transition_for_actor
\* decide this apart).
OfferedIsAccepted ==
    /\ "join" \in Offered => \E u \in Users : CanJoin(u)
    /\ "undo" \in Offered => \E u \in Users : CanUndo(u)
    /\ Offered \cap {"finish", "reset"} # {} => \E u \in Users : CanEnd(u)

\* The board shows what a click does: the marked piece is one that somebody may
\* put back, a marked target that is not one's own is a square that somebody may
\* move the piece to, no other square is, and no legal move of the piece is
\* without such a target (main.rs: view looks only at the selection and at the
\* rules, the transition also at the seats, the turn and the end of the game).
MarksAreMoves ==
    /\ \A square \in Squares :
          /\ Visual(square) = "selected" => \E u \in Users : CanDeselect(u)
          /\ Visual(square) = "target" /\ square \notin Own[board]
                <=> \E u \in Users : CanMove(u, square)
    /\ \A move \in DOMAIN Play :
          move[1] = board /\ move[2] = selected =>
             \E square \in Squares, u \in Users :
                CanMove(u, square) /\ Parsed(selected, square) = move

\* Every marked target is a destination (docs/CHESS_REFERENCE.md: "The view marks
\* the selected piece and legal destinations").  The own rook is not one: a king
\* that may castle takes it in the notation of the engine, for which view tests
\* the square, but a click on it selects the rook.
MarksAreDestinations ==
    \A square \in Squares :
       Visual(square) = "target" => \E u \in Users : CanMove(u, square)
=============================================================================
