---------------------------- MODULE MCDBRecovery ----------------------------
(* The LevelDB store on small instances. *)
EXTENDS DBRecovery

Put(k) == [key |-> k, del |-> FALSE]
Del(k) == [key |-> k, del |-> TRUE]

\* Single writes to two keys, and both at once.
OneEach == {<<Del(1)>>, <<Put(1), Put(2)>>}

\* Batches whose records do not fit what is left of a block.
Pairs == {<<Put(1), Put(2)>>}

\* One key is written over and over.
Overwrites == {<<Put(1)>>}

Sometimes == {TRUE, FALSE}
Never     == {FALSE}
=============================================================================
