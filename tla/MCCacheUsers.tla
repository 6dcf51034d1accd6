------------------------------ MODULE MCCacheUsers ------------------------------
(* The cache with the users' threads, keys and memory interchangeable.     *)
EXTENDS CacheUsers, TLC

\* Every object has a NUL behind its first byte.
OneByteOfText == [k \in Keys |-> 1]

Symmetry ==
  Permutations(Threads) \cup Permutations(Keys) \cup Permutations(Addr)

=============================================================================
