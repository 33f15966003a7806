--------------------------- MODULE MCShareCheckpoint ---------------------------
(* Model values and symmetry for ShareCheckpoint. *)
EXTENDS ShareCheckpoint, TLC

CONSTANTS d1, d2, p1, p2

Symmetric == Permutations({p1, p2}) \cup Permutations({d1, d2})
=============================================================================
