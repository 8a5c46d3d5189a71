--------------------------- MODULE MCSurfaceWorker ---------------------------
(* Three calls on one editable surface and a chain of replaced messages.     *)
EXTENDS SurfaceWorker, TLC

CONSTANTS c1, c2, c3, e1

MCSymmetry == Permutations(Calls)
=============================================================================
