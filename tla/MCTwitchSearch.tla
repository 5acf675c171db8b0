--------------------------- MODULE MCTwitchSearch ---------------------------
(* TwitchSearch on small instances. *)
EXTENDS TwitchSearch

MCCallbacks == SearchCallbacks

Symmetry == Permutations(Names)
=============================================================================
