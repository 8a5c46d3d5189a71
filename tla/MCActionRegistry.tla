-------------------------- MODULE MCActionRegistry --------------------------
(* The registry alone, on two tokens, two users, two views and a clock that  *)
(* passes every expiry.                                                      *)
EXTENDS ActionRegistry, TLC

CONSTANTS t1, t2, u1, u2, v1, v2

MCSymmetry ==
    Permutations(Tokens) \cup Permutations(Users) \cup Permutations(Views)
=============================================================================
