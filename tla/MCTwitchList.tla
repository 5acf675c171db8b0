---------------------------- MODULE MCTwitchList ----------------------------
(* TwitchList on small instances. *)
EXTENDS TwitchList

MCCallbacks == FetchCallbacks

Symmetry == Permutations(Names)
=============================================================================
