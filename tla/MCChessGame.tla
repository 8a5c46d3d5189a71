---------------------------- MODULE MCChessGame ----------------------------
(* A small game of up to six moves: at its third move White chooses between  *)
(* a mate, castling and a move that Black answers with a draw, with castling *)
(* or with a longer line.                                                    *)
EXTENDS ChessGame

CONSTANTS u1, u2, u3

MCPositions == 0 .. 8

MCWhiteToMove == {0, 2, 5, 6, 8}

\* 4 is a mate, 5 and 8 are draws.
MCOver == {4, 5, 8}

MCSquares == {"a", "b", "c", "d", "e", "f"}

MCSideToMove ==
    [p \in MCPositions |-> IF p \in MCWhiteToMove THEN "white" ELSE "black"]

MCOwn ==
    [p \in MCPositions |->
        IF p \in MCWhiteToMove THEN {"a", "b"} ELSE {"e", "f"}]

MCMoves == {<<0, "a", "c", 1>>, <<1, "e", "d", 2>>, <<2, "a", "d", 4>>,
            <<2, "b", "d", 3>>, <<3, "f", "c", 5>>, <<3, "e", "c", 6>>,
            <<6, "a", "e", 7>>, <<7, "f", "a", 8>>,
            <<2, "b", "a", 3>>, <<3, "f", "e", 6>>}

MCPlay ==
    [move \in {<<m[1], m[2], m[3]>> : m \in MCMoves} |->
        (CHOOSE m \in MCMoves : <<m[1], m[2], m[3]>> = move)[4]]

\* The kings of b and f castle with the rooks of a and e by a leap to c and b.
MCUciTarget ==
    [m \in MCPositions \X MCSquares \X MCSquares |->
        CASE m = <<2, "b", "c">> -> "a"
          [] m = <<3, "f", "b">> -> "e"
          [] OTHER -> m[3]]
=============================================================================
