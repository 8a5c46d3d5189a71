----------------------------- MODULE MCChessApp -----------------------------
(* Two handlers of one game, a private board, and a chain of replacements.   *)
EXTENDS ChessApp, TLC

CONSTANTS h1, h2, e1

MCSymmetry == Permutations(Tasks)
=============================================================================
