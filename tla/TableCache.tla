----------------------------- MODULE TableCache -----------------------------
(***************************************************************************)
(* The cache of open tables of the LevelDB store: TableCache               *)
(* (db/table_cache.cc) over one shard of the LRU cache (util/cache.cc),    *)
(* which the block cache uses in the same way (table/table.cc).            *)
(*                                                                         *)
(* A thread looks a table up, opens its file when it is not there, without *)
(* the cache's mutex, inserts it, uses it, for as long as an iterator      *)
(* lasts, and releases it.  Tables whose file is obsolete are erased at    *)
(* any time.  Every table has charge 1.                                    *)
(*                                                                         *)
(* What the mutex covers is one action, but for the loop that evicts,      *)
(* whose every turn is one: while a thread is in it nobody else moves.     *)
(***************************************************************************)
EXTENDS Integers, Sequences, FiniteSets

CONSTANTS
  Threads,    \* of which each uses one table at a time
  Files,      \* the numbers of the table files
  Handles,    \* bound: the memory for handles
  Capacity,   \* of the shard
  NoHandle    \* NULL

ASSUME CapacityAssumption == Capacity \in Nat \ {0}
ASSUME HandleAssumption == NoHandle \notin Handles
ASSUME FinitenessAssumption == IsFiniteSet(Threads) /\ IsFiniteSet(Handles)

VARIABLES
  key, inCache, refs,   \* LRUHandle: its members; without references it is free
  table,                \* the HandleTable
  lru, inUse,           \* the two lists; the order of the second means nothing
  usage,                \* LRUCache's usage_
  at,                   \* what each thread does
  dropped               \* history: the handles that were erased or replaced

handles == <<key, inCache, refs, dropped>>
lists == <<lru, inUse, usage>>
vars == <<handles, table, lists, at>>

Idle          == [pc |-> "idle", file |-> NoHandle, handle |-> NoHandle]
Reading(f)    == [pc |-> "reading", file |-> f, handle |-> NoHandle]
Evicting(h)   == [pc |-> "evicting", file |-> NoHandle, handle |-> h]
Holding(h)    == [pc |-> "holding", file |-> NoHandle, handle |-> h]

\* No thread is in the loop of Insert.
MutexFree == \A t \in Threads : at[t].pc # "evicting"
-----------------------------------------------------------------------------
(* The lists.                                                              *)

OnLru(h) == \E i \in DOMAIN lru : lru[i] = h
LRU_Remove(list, h) ==
  LET i == CHOOSE i \in DOMAIN list : list[i] = h
  IN  [j \in 1 .. Len(list) - 1 |-> IF j < i THEN list[j] ELSE list[j + 1]]

\* A reference goes; without any, the handle is free memory.
Unrefer(h) ==
  /\ refs' = [refs EXCEPT ![h] = @ - 1]
  /\ key' = IF refs[h] = 1 THEN [key EXCEPT ![h] = NoHandle] ELSE key
Dropped(hs) == dropped' = {i \in dropped \cup hs : refs'[i] # 0}

\* Mutant: the handle stays on the list of the unused ones.
RefStaysListed(h) ==
  /\ refs' = [refs EXCEPT ![h] = @ + 1]
  /\ UNCHANGED <<key, inCache, dropped, table, lists>>

\* A first user takes the handle from the list of the unused ones.
Ref(h) ==
  /\ refs' = [refs EXCEPT ![h] = @ + 1]
  /\ IF refs[h] = 1 /\ inCache[h]
     THEN lru' = LRU_Remove(lru, h) /\ inUse' = inUse \cup {h}
     ELSE UNCHANGED <<lru, inUse>>
  /\ UNCHANGED <<key, inCache, dropped, table, usage>>

\* The last user puts it there as the newest one.
Unref(h) ==
  /\ Unrefer(h) /\ Dropped({})
  /\ IF refs[h] = 2 /\ inCache[h]
     THEN lru' = Append(lru, h) /\ inUse' = inUse \ {h}
     ELSE UNCHANGED <<lru, inUse>>
  /\ UNCHANGED <<inCache, table, usage>>

\* Mutant: the cache's reference stays.
FinishEraseKeepsRef(h) ==
  /\ lru' = IF OnLru(h) THEN LRU_Remove(lru, h) ELSE lru
  /\ inUse' = inUse \ {h}
  /\ inCache' = [inCache EXCEPT ![h] = FALSE]
  /\ table' = [table EXCEPT ![key[h]] = NoHandle]
  /\ usage' = usage - 1
  /\ UNCHANGED <<refs, key>>

\* A handle leaves its list, and the cache's reference goes.
FinishErase(h) ==
  /\ lru' = IF OnLru(h) THEN LRU_Remove(lru, h) ELSE lru
  /\ inUse' = inUse \ {h}
  /\ inCache' = [inCache EXCEPT ![h] = FALSE]
  /\ table' = [table EXCEPT ![key[h]] = NoHandle]
  /\ usage' = usage - 1
  /\ Unrefer(h)
-----------------------------------------------------------------------------
(* A thread.                                                               *)

Moves(t, state) == at' = [at EXCEPT ![t] = state]

\* FindTable: what Lookup finds is used,
Found(t, f) ==
  /\ MutexFree /\ at[t] = Idle /\ table[f] # NoHandle
  /\ Ref(table[f])
  /\ Moves(t, Holding(table[f]))

\* or the file has to be opened,
Missed(t, f) ==
  /\ MutexFree /\ at[t] = Idle /\ table[f] = NoHandle
  /\ Moves(t, Reading(f))
  /\ UNCHANGED <<handles, table, lists>>

\* which may fail; that is not cached.
OpenFails(t) ==
  /\ at[t].pc = "reading"
  /\ Moves(t, Idle)
  /\ UNCHANGED <<handles, table, lists>>

\* Mutant: another thread's handle for the same file is not looked for.
InsertNoneReplaced(t, h) ==
  LET f == at[t].file
  IN  /\ MutexFree /\ at[t].pc = "reading"
      /\ refs[h] = 0
      /\ table' = [table EXCEPT ![f] = h]
      /\ inCache' = [inCache EXCEPT ![h] = TRUE]
      /\ refs' = [refs EXCEPT ![h] = 2]
      /\ key' = [key EXCEPT ![h] = f]
      /\ inUse' = inUse \cup {h}
      /\ usage' = usage + 1
      /\ Moves(t, Evicting(h))
      /\ UNCHANGED <<dropped, lru>>

\* Insert, up to its loop: a handle with the caller's reference and the cache's.
\* Another thread may have inserted the same file since the lookup: FinishErase.
Insert(t, h) ==
  LET f == at[t].file
      old == table[f]
  IN  /\ MutexFree /\ at[t].pc = "reading"
      /\ refs[h] = 0
      /\ table' = [table EXCEPT ![f] = h]
      /\ inCache' = [i \in Handles |-> i = h \/ (inCache[i] /\ i # old)]
      /\ refs' = [i \in Handles |->
                    IF i = h THEN 2 ELSE IF i = old THEN refs[i] - 1 ELSE refs[i]]
      /\ key' = [i \in Handles |->
                   IF i = h THEN f ELSE IF refs'[i] = 0 THEN NoHandle ELSE key[i]]
      /\ Dropped({old} \ {NoHandle})
      /\ lru' = IF OnLru(old) THEN LRU_Remove(lru, old) ELSE lru
      /\ inUse' = (inUse \ {old}) \cup {h}
      /\ usage' = IF old = NoHandle THEN usage + 1 ELSE usage
      /\ Moves(t, Evicting(h))

\* Once around the loop: the oldest unused table is closed.
EvictOldest(t) ==
  /\ at[t].pc = "evicting"
  /\ usage > Capacity /\ lru # <<>>
  /\ FinishErase(lru[1])
  /\ Dropped({})
  /\ UNCHANGED at

\* Mutant: one more than the capacity is left.
InsertReturnsEarly(t) ==
  /\ at[t].pc = "evicting"
  /\ usage <= Capacity + 1 \/ lru = <<>>
  /\ Moves(t, Holding(at[t].handle))
  /\ UNCHANGED <<handles, table, lists>>

InsertReturns(t) ==
  /\ at[t].pc = "evicting"
  /\ usage <= Capacity \/ lru = <<>>
  /\ Moves(t, Holding(at[t].handle))
  /\ UNCHANGED <<handles, table, lists>>

\* UnrefEntry when an iterator is destroyed, or the end of Get.
Release(t) ==
  /\ MutexFree /\ at[t].pc = "holding"
  /\ Unref(at[t].handle)
  /\ Moves(t, Idle)

\* TableCache::Evict, for an obsolete file.
Evict(f) ==
  /\ MutexFree /\ table[f] # NoHandle
  /\ FinishErase(table[f])
  /\ Dropped({table[f]})
  /\ UNCHANGED at
-----------------------------------------------------------------------------
Init ==
  /\ key = [h \in Handles |-> NoHandle]
  /\ inCache = [h \in Handles |-> FALSE] /\ refs = [h \in Handles |-> 0]
  /\ dropped = {}
  /\ table = [f \in Files |-> NoHandle]
  /\ lru = <<>> /\ inUse = {} /\ usage = 0
  /\ at = [t \in Threads |-> Idle]

ThreadStep(t) ==
  \/ \E f \in Files : Found(t, f) \/ Missed(t, f)
  \/ \E h \in Handles : Insert(t, h)
  \/ OpenFails(t) \/ EvictOldest(t) \/ InsertReturns(t) \/ Release(t)

Next == (\E t \in Threads : ThreadStep(t)) \/ (\E f \in Files : Evict(f))

Spec == Init /\ [][Next]_vars
-----------------------------------------------------------------------------
(* Properties.                                                             *)

States ==
  {Idle} \cup {Reading(f) : f \in Files}
    \cup {Evicting(h) : h \in Handles} \cup {Holding(h) : h \in Handles}

TypeOK ==
  /\ key \in [Handles -> Files \cup {NoHandle}]
  /\ inCache \in [Handles -> BOOLEAN] /\ refs \in [Handles -> Nat]
  /\ dropped \subseteq Handles
  /\ table \in [Files -> Handles \cup {NoHandle}]
  /\ lru \in Seq(Handles) /\ inUse \subseteq Handles /\ usage \in Nat
  /\ at \in [Threads -> States]

Users(h) == {t \in Threads : at[t].handle = h}

\* The references of a handle are its users and the cache, so that a table is
\* closed when the last of them goes, not before and not never: whichever
\* threads miss the same file at once, and when it is erased while in use.
HandlesAreCounted ==
  \A h \in Handles : refs[h] = Cardinality(Users(h)) + IF inCache[h] THEN 1 ELSE 0

\* "All items in the cache are in one list or the other, and never both"
\* (cache.cc:27): used ones in the one, the others in the other, once, found
\* through the hash table under their key, and all of them counted.
ListsTellUse ==
  /\ \A h \in Handles :
       /\ OnLru(h) <=> inCache[h] /\ refs[h] = 1
       /\ h \in inUse <=> inCache[h] /\ refs[h] >= 2
       /\ inCache[h] => key[h] \in Files /\ table[key[h]] = h
  /\ \A i, j \in DOMAIN lru : lru[i] = lru[j] => i = j
  /\ \A f \in Files : table[f] # NoHandle => inCache[table[f]] /\ key[table[f]] = f
  /\ usage = Cardinality({h \in Handles : inCache[h]})

\* A table in use is shared with whoever looks for it and not opened again,
\* unless its file was erased or another thread's handle replaced it: making
\* room takes unused ones only.
UsedIsFound ==
  \A t \in Threads :
    LET h == at[t].handle
    IN  h \in Handles \ dropped => key[h] \in Files /\ table[key[h]] = h

\* The cache holds more open files than its capacity only if they were all in use
\* when the last one came in: a step that leaves it with too many, and its mutex
\* free, finds each of them there already, or else in use.  (Release closes none
\* of the surplus: that waits for the next Insert.)
SurplusWasInUse ==
  [][MutexFree' /\ usage' > Capacity =>
       \A h \in Handles : inCache'[h] => (MutexFree /\ inCache[h]) \/ Users(h)' # {}]_vars

\* So no call leaves more files open than the capacity, or one for each thread.
OpenTablesBounded ==
  MutexFree => (usage <= Capacity \/ usage <= Cardinality(Threads))
=============================================================================
