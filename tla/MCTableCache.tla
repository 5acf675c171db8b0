---------------------------- MODULE MCTableCache ----------------------------
(* A small shard of the cache of tables. *)
EXTENDS TableCache, TLC

Symmetry == Permutations(Threads) \cup Permutations(Files) \cup Permutations(Handles)
=============================================================================
