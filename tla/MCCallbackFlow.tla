--------------------------- MODULE MCCallbackFlow ---------------------------
(* The callback path on small sets: enough tasks for a race between two     *)
(* handlers (and between a handler and its own engine reply), enough tokens *)
(* for a race between two buttons, and enough revisions for a third handler *)
(* to be overtaken.                                                         *)
EXTENDS CallbackFlow, TLC

CONSTANTS t1, t2, u1, u2, v1, v2, h1, h2, h3

\* Users and views are told apart by Actors and by the bounds.
MCSymmetry == Permutations(Tokens) \cup Permutations(Tasks)
=============================================================================
