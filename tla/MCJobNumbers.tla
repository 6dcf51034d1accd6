--------------------------- MODULE MCJobNumbers ---------------------------
(* Instances of JobNumbers for TLC. *)
EXTENDS JobNumbers, TLC

\* Process IDs are interchangeable.
Symmetry == Permutations(Pids)
=============================================================================
