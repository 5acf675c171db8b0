------------------------------- MODULE Store --------------------------------
(***************************************************************************)
(* What a LevelDB store promises to its users (include/leveldb/db.h and    *)
(* options.h, as far as the code keeps it): one map from keys to values,   *)
(* changed by whole batches; snapshots and readers that see the map as it  *)
(* was when they were made; and after a crash the map made by a set of     *)
(* batches that has every acknowledged one, if the process crashed, or     *)
(* every synced one, if the machine did.                                   *)
(*                                                                         *)
(* A batch that was under way, or that was refused because of an error of  *)
(* the disk, may show after a crash or not, but never in part.  Nothing is *)
(* promised of a batch acknowledged from a log that an earlier append has  *)
(* damaged: it is risky.                                                   *)
(***************************************************************************)
EXTENDS DBFormat

CONSTANTS
  Keys,     \* the user keys
  Holders   \* the snapshots and the readers

VARIABLES
  up,     \* the store is open
  done,   \* the batches the map is made of
  limbo,  \* batches begun and not acknowledged
  now,    \* the map
  held    \* the map as each snapshot and reader sees it

vars == <<up, done, limbo, now, held>>

NoView == <<>>

\* The map that a set of batches makes: for each key the newest entry.
View(batches) ==
  LET ents == UNION {ToSet(b.rec) : b \in batches}
      Of(k) == {e \in ents : e.key = k}
      Newest(k) == CHOOSE e \in Of(k) : \A d \in Of(k) : d.seq <= e.seq
  IN  [k \in Keys |-> IF Of(k) = {} THEN Deleted ELSE Newest(k).val]

\* What a crash must leave.
Promised(kind) ==
  {b \in done : ~b.risky /\ (kind = "machine" => b.sync)}

Init ==
  /\ up = FALSE
  /\ done = {} /\ limbo = {}
  /\ now = View({})
  /\ held = [h \in Holders |-> NoView]

\* What a store shows when it is opened no later crash takes away.
Safe(b) == [b EXCEPT !.sync = TRUE, !.risky = FALSE]

Open ==
  /\ ~up /\ up' = TRUE
  /\ done' = {Safe(b) : b \in done}
  /\ UNCHANGED <<limbo, now, held>>

Begin(b) ==
  /\ up /\ b \notin limbo
  /\ limbo' = limbo \cup {b}
  /\ UNCHANGED <<up, done, now, held>>

Commit(b) ==
  /\ up /\ b \in limbo
  /\ limbo' = limbo \ {b}
  /\ done' = done \cup {b}
  /\ now' = View(done')
  /\ UNCHANGED <<up, held>>

\* A holder sees the map of now, or what another one holds.
Hold(h, view) ==
  /\ up
  /\ UNCHANGED <<up, done, limbo>>
  /\ held[h] = NoView
  /\ view \in {now} \cup {held[g] : g \in Holders}
  /\ held' = [held EXCEPT ![h] = view]
  /\ UNCHANGED now

Release(h) ==
  /\ UNCHANGED <<up, done, limbo>>
  /\ held[h] # NoView
  /\ held' = [held EXCEPT ![h] = NoView]
  /\ UNCHANGED now

\* A batch that nobody was told of counts as one that was not synced.
Lucky(b) == [b EXCEPT !.sync = FALSE]

Crash(kind) ==
  /\ up' = FALSE
  /\ Promised(kind) \subseteq done'
  /\ done' \subseteq done \cup {Lucky(b) : b \in limbo}
  /\ limbo' = {}
  /\ now' = View(done')
  /\ held' = [h \in Holders |-> NoView]

Next ==
  \/ Open
  \/ \E b \in limbo' : Begin(b)
  \/ \E b \in limbo : Commit(b)
  \/ \E h \in Holders : Release(h) \/ Hold(h, held'[h])
  \/ \E kind \in {"process", "machine"} : Crash(kind)

Spec == Init /\ [][Next]_vars
=============================================================================
