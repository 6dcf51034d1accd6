------------------------------ MODULE MCShell ------------------------------
(* Instances of Shell for TLC. *)
EXTENDS Shell, TLC

\* Process IDs are interchangeable (safety runs only).
Symmetry == Permutations(Pids)
=============================================================================
