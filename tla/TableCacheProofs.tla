--------------------------- MODULE TableCacheProofs ---------------------------
(***************************************************************************)
(* Proofs about the cache of tables, for every number of threads, files    *)
(* and handles and every capacity.                                         *)
(***************************************************************************)
EXTENDS TableCache, FiniteSetTheorems, SequenceTheorems, TLAPS

\* The parts of ListsTellUse.
Listed ==
  \A h \in Handles :
    /\ OnLru(h) <=> inCache[h] /\ refs[h] = 1
    /\ h \in inUse <=> inCache[h] /\ refs[h] >= 2
ListedOnce == \A i, j \in DOMAIN lru : lru[i] = lru[j] => i = j
Tabled ==
  /\ \A h \in Handles : inCache[h] => key[h] \in Files /\ table[key[h]] = h
  /\ \A f \in Files : table[f] # NoHandle => inCache[table[f]] /\ key[table[f]] = f
InTheCache == {h \in Handles : inCache[h]}
Charged == usage = Cardinality(InTheCache)

\* A handle that is not free left the cache by Evict or was replaced.
Kept == \A h \in Handles : refs[h] # 0 /\ h \notin dropped => inCache[h]

CacheInv ==
  TypeOK /\ HandlesAreCounted /\ Listed /\ ListedOnce /\ Tabled /\ Charged /\ Kept

-----------------------------------------------------------------------------
(* Lists, users and counts.                                                *)

\* What a list is without one of its members.
LEMMA RemoveProperties ==
  ASSUME NEW s \in Seq(Handles), NEW h,
         \A i, j \in DOMAIN s : s[i] = s[j] => i = j,
         \E i \in DOMAIN s : s[i] = h
  PROVE  LET r == LRU_Remove(s, h)
         IN  /\ r \in Seq(Handles)
             /\ \A i, j \in DOMAIN r : r[i] = r[j] => i = j
             /\ \A g : (\E i \in DOMAIN r : r[i] = g)
                       <=> (\E i \in DOMAIN s : s[i] = g) /\ g # h
<1> DEFINE p == CHOOSE i \in DOMAIN s : s[i] = h
           n == Len(s)
           r == [j \in 1 .. n - 1 |-> IF j < p THEN s[j] ELSE s[j + 1]]
<1>1. n \in Nat /\ DOMAIN s = 1 .. n /\ p \in 1 .. n /\ s[p] = h
  BY LenProperties
<1>2. n - 1 \in Nat /\ DOMAIN r = 1 .. n - 1 /\ LRU_Remove(s, h) = r
  BY <1>1 DEF LRU_Remove
<1>3. \A j \in 1 .. n - 1 : r[j] = (IF j < p THEN s[j] ELSE s[j + 1]) /\ r[j] \in Handles
  BY <1>1, ElementOfSeq
<1>4. r \in Seq(Handles)
  BY <1>1, <1>2, <1>3, SeqDef
<1>5. \A i, j \in DOMAIN r : r[i] = r[j] => i = j
  BY <1>1, <1>2, <1>3
<1>6. ASSUME NEW g
      PROVE  (\E i \in DOMAIN r : r[i] = g) <=> (\E i \in DOMAIN s : s[i] = g) /\ g # h
  <2>1. ASSUME NEW i \in DOMAIN r, r[i] = g
        PROVE  (\E k \in DOMAIN s : s[k] = g) /\ g # h
    <3>1. CASE i < p
      BY <3>1, <2>1, <1>1, <1>2, <1>3
    <3>2. CASE ~(i < p)
      BY <3>2, <2>1, <1>1, <1>2, <1>3
    <3>3. QED
      BY <3>1, <3>2
  <2>2. ASSUME NEW i \in DOMAIN s, s[i] = g, g # h
        PROVE  \E k \in DOMAIN r : r[k] = g
    <3>1. CASE i < p
      <4>1. i \in 1 .. n - 1 /\ r[i] = g
        BY <3>1, <2>2, <1>1, <1>3
      <4>2. QED
        BY <4>1, <1>2
    <3>2. CASE i > p
      <4>1. i - 1 \in 1 .. n - 1 /\ r[i - 1] = s[i]
        BY <3>2, <2>2, <1>1, <1>3
      <4>2. QED
        BY <4>1, <2>2, <1>2
    <3>3. i # p
      BY <2>2, <1>1
    <3>4. QED
      BY <3>1, <3>2, <3>3, <1>1
  <2>3. QED
    BY <2>1, <2>2
<1> HIDE DEF p, n, r
<1>7. QED
  BY <1>2, <1>4, <1>5, <1>6

\* A list with a new member at its end.
LEMMA AppendKeepsOnce ==
  ASSUME NEW s \in Seq(Handles), NEW h \in Handles,
         \A i, j \in DOMAIN s : s[i] = s[j] => i = j,
         ~\E i \in DOMAIN s : s[i] = h
  PROVE  LET r == Append(s, h)
         IN  /\ r \in Seq(Handles)
             /\ \A i, j \in DOMAIN r : r[i] = r[j] => i = j
             /\ \A g : (\E i \in DOMAIN r : r[i] = g)
                       <=> (\E i \in DOMAIN s : s[i] = g) \/ g = h
<1> DEFINE r == Append(s, h)
           n == Len(s)
<1>1. n \in Nat /\ DOMAIN s = 1 .. n
  BY LenProperties
<1>2. /\ r \in Seq(Handles) /\ Len(r) = n + 1
      /\ \A i \in 1 .. n : r[i] = s[i]
      /\ r[n + 1] = h
  BY AppendProperties
<1>3. DOMAIN r = 1 .. n + 1
  BY <1>2, LenProperties
<1> HIDE DEF r, n
<1>4. QED
  BY <1>1, <1>2, <1>3 DEF r

\* The threads that use a handle are finitely many.
LEMMA UsersAreFinite ==
  \A h : IsFiniteSet(Users(h)) /\ Cardinality(Users(h)) \in Nat
BY FinitenessAssumption, FS_Subset, FS_CardinalityType DEF Users

\* A thread begins to use a handle.
LEMMA Joining ==
  ASSUME at \in [Threads -> States], NEW t \in Threads, NEW state, NEW h \in Handles,
         at[t].handle = NoHandle, state.handle = h, Moves(t, state)
  PROVE  \A g \in Handles :
           Cardinality(Users(g)') = Cardinality(Users(g)) + (IF g = h THEN 1 ELSE 0)
<1>1. t \notin Users(h)
  BY HandleAssumption DEF Users
<1>2. Users(h)' = Users(h) \cup {t}
  BY DEF Users, Moves
<1>3. \A g \in Handles \ {h} : Users(g)' = Users(g)
  BY HandleAssumption DEF Users, Moves
<1>4. Cardinality(Users(h)') = Cardinality(Users(h)) + 1
  BY <1>1, <1>2, UsersAreFinite, FS_AddElement
<1>5. \A g \in Handles : Cardinality(Users(g)) \in Nat
  BY UsersAreFinite
<1>6. QED
  BY <1>3, <1>4, <1>5

\* A thread ends using its handle.
LEMMA Leaving ==
  ASSUME at \in [Threads -> States], NEW t \in Threads, NEW state, NEW h \in Handles,
         at[t].handle = h, state.handle = NoHandle, Moves(t, state)
  PROVE  /\ Cardinality(Users(h)) >= 1
         /\ \A g \in Handles :
              Cardinality(Users(g)') = Cardinality(Users(g)) - (IF g = h THEN 1 ELSE 0)
<1>1. t \in Users(h)
  BY DEF Users
<1>2. Users(h)' = Users(h) \ {t}
  BY HandleAssumption DEF Users, Moves
<1>3. \A g \in Handles \ {h} : Users(g)' = Users(g)
  BY HandleAssumption DEF Users, Moves
<1>4. Cardinality(Users(h)') = Cardinality(Users(h)) - 1
  <2>1. IsFiniteSet(Users(h))
    BY UsersAreFinite
  <2>2. Cardinality(Users(h) \ {t}) = Cardinality(Users(h)) - 1
    BY <1>1, <2>1, FS_RemoveElement
  <2>3. QED
    BY <1>2, <2>2
<1>5. \A g \in Handles : Cardinality(Users(g)) \in Nat
  BY UsersAreFinite
<1>6. Cardinality(Users(h)) >= 1
  <2>1. Users(h) # {} /\ IsFiniteSet(Users(h))
    BY <1>1, UsersAreFinite
  <2>2. Cardinality(Users(h)) # 0
    BY <2>1, FS_EmptySet
  <2>3. QED
    BY <2>2, <1>5
<1>7. QED
  BY <1>3, <1>4, <1>5, <1>6

\* A thread that goes on with what it has.
LEMMA Staying ==
  ASSUME at \in [Threads -> States], NEW t \in Threads, NEW state,
         at[t].handle = state.handle, Moves(t, state)
  PROVE  \A g : Users(g)' = Users(g)
BY DEF Users, Moves

-----------------------------------------------------------------------------
(* The steps.                                                              *)

\* A handle that is cached and unused is on the list of those, once.
LEMMA ListedProperties ==
  ASSUME CacheInv, NEW h \in Handles, inCache[h]
  PROVE  /\ refs[h] \in Nat /\ refs[h] >= 1
         /\ OnLru(h) <=> refs[h] = 1
         /\ key[h] \in Files /\ table[key[h]] = h
         /\ usage \in Nat /\ usage >= 1
         /\ IsFiniteSet(InTheCache)
<1>1. refs[h] \in Nat /\ refs[h] >= 1
  BY UsersAreFinite DEF CacheInv, TypeOK, HandlesAreCounted
<1>2. IsFiniteSet(InTheCache) /\ InTheCache # {}
  BY FinitenessAssumption, FS_Subset DEF InTheCache
<1>3. Cardinality(InTheCache) # 0 /\ Cardinality(InTheCache) \in Nat
  BY <1>2, FS_EmptySet, FS_CardinalityType
<1>4. QED
  BY <1>1, <1>2, <1>3 DEF CacheInv, Listed, Tabled, Charged

\* FinishErase: of the oldest handle nobody uses, or of one that is marked as
\* dropped.
LEMMA Erasing ==
  ASSUME CacheInv, NEW h \in Handles, inCache[h], FinishErase(h),
         NEW S, S \subseteq Handles, Dropped(S), h \in S \/ refs[h] = 1, UNCHANGED at
  PROVE  CacheInv'
<1> USE DEF CacheInv, TypeOK
<1>1. /\ refs[h] \in Nat /\ refs[h] >= 1
      /\ OnLru(h) <=> refs[h] = 1
      /\ key[h] \in Files /\ table[key[h]] = h
      /\ usage \in Nat /\ usage >= 1
      /\ IsFiniteSet(InTheCache)
  BY ListedProperties
<1>2. \A g : Users(g)' = Users(g)
  BY DEF Users
<1>3. /\ refs' = [refs EXCEPT ![h] = @ - 1]
      /\ key' = IF refs[h] = 1 THEN [key EXCEPT ![h] = NoHandle] ELSE key
      /\ inCache' = [inCache EXCEPT ![h] = FALSE]
      /\ table' = [table EXCEPT ![key[h]] = NoHandle]
      /\ inUse' = inUse \ {h} /\ usage' = usage - 1
      /\ lru' = IF OnLru(h) THEN LRU_Remove(lru, h) ELSE lru
      /\ dropped' = {i \in dropped \cup S : refs'[i] # 0}
  BY DEF FinishErase, Unrefer, Dropped
<1>4. /\ lru' \in Seq(Handles) /\ ListedOnce'
      /\ \A g : OnLru(g)' <=> OnLru(g) /\ g # h
  <2>1. CASE OnLru(h)
    <3>1. /\ LRU_Remove(lru, h) \in Seq(Handles)
          /\ \A i, j \in DOMAIN LRU_Remove(lru, h) :
               LRU_Remove(lru, h)[i] = LRU_Remove(lru, h)[j] => i = j
          /\ \A g : (\E i \in DOMAIN LRU_Remove(lru, h) : LRU_Remove(lru, h)[i] = g)
                    <=> (\E i \in DOMAIN lru : lru[i] = g) /\ g # h
      BY <2>1, RemoveProperties DEF OnLru, ListedOnce
    <3>2. QED
      BY <2>1, <3>1, <1>3 DEF OnLru, ListedOnce
  <2>2. CASE ~OnLru(h)
    BY <2>2, <1>3 DEF OnLru, ListedOnce
  <2>3. QED
    BY <2>1, <2>2
<1>5. TypeOK'
  <2>1. refs' \in [Handles -> Nat] /\ usage' \in Nat
    BY <1>1, <1>3
  <2>2. key' \in [Handles -> Files \cup {NoHandle}]
    BY <1>3
  <2>3. inCache' \in [Handles -> BOOLEAN] /\ table' \in [Files -> Handles \cup {NoHandle}]
    BY <1>3
  <2>4. dropped' \subseteq Handles /\ inUse' \subseteq Handles
    BY <1>3
  <2>5. QED
    BY <2>1, <2>2, <2>3, <2>4, <1>4 DEF States
<1>6. HandlesAreCounted'
  BY <1>1, <1>2, <1>3, UsersAreFinite DEF HandlesAreCounted
<1>7. Listed'
  BY <1>1, <1>3, <1>4 DEF Listed
<1>8. Tabled'
  <2>1. ASSUME NEW g \in Handles, inCache'[g]
        PROVE  key'[g] \in Files /\ table'[key'[g]] = g
    <3>1. g # h /\ inCache[g] /\ key'[g] = key[g]
      BY <2>1, <1>3
    <3>2. key[g] \in Files /\ table[key[g]] = g /\ key[g] # key[h]
      BY <3>1, <1>1 DEF Tabled
    <3>3. QED
      BY <3>1, <3>2, <1>3
  <2>2. ASSUME NEW f \in Files, table'[f] # NoHandle
        PROVE  inCache'[table'[f]] /\ key'[table'[f]] = f
    <3>1. f # key[h] /\ table'[f] = table[f]
      BY <2>2, <1>1, <1>3
    <3>2. inCache[table[f]] /\ key[table[f]] = f /\ table[f] \in Handles \ {h}
      BY <2>2, <3>1 DEF Tabled
    <3>3. QED
      BY <3>1, <3>2, <1>3
  <2>3. QED
    BY <2>1, <2>2 DEF Tabled
<1>9. Charged'
  <2>1. InTheCache' = InTheCache \ {h} /\ h \in InTheCache
    BY <1>3 DEF InTheCache
  <2>2. Cardinality(InTheCache') = Cardinality(InTheCache) - 1
    BY <2>1, <1>1, FS_RemoveElement
  <2>3. QED
    BY <2>2, <1>3 DEF Charged
<1>10. Kept'
  BY <1>1, <1>3 DEF Kept
<1>11. QED
  BY <1>4, <1>5, <1>6, <1>7, <1>8, <1>9, <1>10

\* A thread finds its table.
LEMMA FoundKeepsInv ==
  ASSUME CacheInv, NEW t \in Threads, NEW f \in Files, Found(t, f)
  PROVE  CacheInv'
<1> USE DEF CacheInv, TypeOK
<1> DEFINE h == table[f]
<1>1. h \in Handles /\ inCache[h] /\ at[t] = Idle /\ Ref(h) /\ Moves(t, Holding(h))
  BY DEF Found, Tabled
<1>2. /\ refs[h] \in Nat /\ refs[h] >= 1
      /\ OnLru(h) <=> refs[h] = 1
  BY <1>1, ListedProperties
<1> HIDE DEF h
<1>3. \A g \in Handles :
        Cardinality(Users(g)') = Cardinality(Users(g)) + (IF g = h THEN 1 ELSE 0)
  <2>1. at \in [Threads -> States] /\ at[t].handle = NoHandle /\ Holding(h).handle = h
    BY <1>1 DEF Idle, Holding
  <2>2. QED
    BY <2>1, <1>1, Joining
<1>4. /\ refs' = [refs EXCEPT ![h] = @ + 1]
      /\ lru' = IF OnLru(h) THEN LRU_Remove(lru, h) ELSE lru
      /\ inUse' = inUse \cup {h}
      /\ UNCHANGED <<key, inCache, dropped, table, usage>>
      /\ at' = [at EXCEPT ![t] = Holding(h)]
  BY <1>1, <1>2 DEF Ref, Moves, Listed
<1>5. /\ lru' \in Seq(Handles) /\ ListedOnce'
      /\ \A g : OnLru(g)' <=> OnLru(g) /\ g # h
  <2>1. CASE OnLru(h)
    <3>1. /\ LRU_Remove(lru, h) \in Seq(Handles)
          /\ \A i, j \in DOMAIN LRU_Remove(lru, h) :
               LRU_Remove(lru, h)[i] = LRU_Remove(lru, h)[j] => i = j
          /\ \A g : (\E i \in DOMAIN LRU_Remove(lru, h) : LRU_Remove(lru, h)[i] = g)
                    <=> (\E i \in DOMAIN lru : lru[i] = g) /\ g # h
      BY <2>1, RemoveProperties DEF OnLru, ListedOnce
    <3>2. QED
      BY <2>1, <3>1, <1>4 DEF OnLru, ListedOnce
  <2>2. CASE ~OnLru(h)
    BY <2>2, <1>4 DEF OnLru, ListedOnce
  <2>3. QED
    BY <2>1, <2>2
<1>6. TypeOK'
  <2>1. refs' \in [Handles -> Nat] /\ inUse' \subseteq Handles
    BY <1>1, <1>2, <1>4
  <2>2. at' \in [Threads -> States]
    BY <1>1, <1>4 DEF States
  <2>3. QED
    BY <2>1, <2>2, <1>4, <1>5
<1>7. HandlesAreCounted'
  BY <1>2, <1>3, <1>4, UsersAreFinite DEF HandlesAreCounted
<1>8. Listed'
  BY <1>1, <1>2, <1>4, <1>5 DEF Listed
<1>9. Tabled' /\ Charged'
  BY <1>4 DEF Tabled, Charged, InTheCache
<1>10. Kept'
  BY <1>1, <1>2, <1>4 DEF Kept
<1>11. QED
  BY <1>5, <1>6, <1>7, <1>8, <1>9, <1>10

\* A thread drops its table.
LEMMA ReleaseKeepsInv ==
  ASSUME CacheInv, NEW t \in Threads, Release(t)
  PROVE  CacheInv'
<1> USE DEF CacheInv, TypeOK
<1> DEFINE h == at[t].handle
<1>1. h \in Handles /\ at[t].handle = h /\ Unref(h) /\ Moves(t, Idle)
  <2>1. at[t] \in States /\ at[t].pc = "holding" /\ Unref(h) /\ Moves(t, Idle)
    BY DEF Release
  <2>2. \E g \in Handles : at[t] = Holding(g)
    BY <2>1 DEF States, Idle, Reading, Evicting, Holding
  <2>3. h \in Handles
    BY <2>2 DEF Holding
  <2>4. QED
    BY <2>1, <2>3
<1> HIDE DEF h
<1>2. /\ Cardinality(Users(h)) >= 1
      /\ \A g \in Handles :
           Cardinality(Users(g)') = Cardinality(Users(g)) - (IF g = h THEN 1 ELSE 0)
  BY <1>1, Leaving DEF Idle
<1>3. /\ refs[h] \in Nat /\ refs[h] >= 1
      /\ inCache[h] => refs[h] >= 2
  BY <1>1, <1>2, UsersAreFinite DEF HandlesAreCounted
<1>4. /\ refs' = [refs EXCEPT ![h] = @ - 1]
      /\ key' = IF refs[h] = 1 THEN [key EXCEPT ![h] = NoHandle] ELSE key
      /\ dropped' = {i \in dropped : refs'[i] # 0}
      /\ lru' = IF refs[h] = 2 /\ inCache[h] THEN Append(lru, h) ELSE lru
      /\ inUse' = IF refs[h] = 2 /\ inCache[h] THEN inUse \ {h} ELSE inUse
      /\ UNCHANGED <<inCache, table, usage>>
      /\ at' = [at EXCEPT ![t] = Idle]
  BY <1>1 DEF Unref, Unrefer, Dropped, Moves
<1>5. ~OnLru(h)
  BY <1>1, <1>3 DEF Listed
<1>6. /\ lru' \in Seq(Handles) /\ ListedOnce'
      /\ \A g : OnLru(g)' <=> OnLru(g) \/ (g = h /\ refs[h] = 2 /\ inCache[h])
  <2>1. CASE refs[h] = 2 /\ inCache[h]
    <3>1. /\ Append(lru, h) \in Seq(Handles)
          /\ \A i, j \in DOMAIN Append(lru, h) :
               Append(lru, h)[i] = Append(lru, h)[j] => i = j
          /\ \A g : (\E i \in DOMAIN Append(lru, h) : Append(lru, h)[i] = g)
                    <=> (\E i \in DOMAIN lru : lru[i] = g) \/ g = h
      <4>1. /\ lru \in Seq(Handles)
            /\ \A i, j \in DOMAIN lru : lru[i] = lru[j] => i = j
            /\ ~\E i \in DOMAIN lru : lru[i] = h
        BY <1>5 DEF OnLru, ListedOnce
      <4>2. QED
        BY ONLY <1>1, <4>1, AppendKeepsOnce, Zenon
    <3>2. QED
      BY <2>1, <3>1, <1>4 DEF OnLru, ListedOnce
  <2>2. CASE ~(refs[h] = 2 /\ inCache[h])
    BY <2>2, <1>4 DEF OnLru, ListedOnce
  <2>3. QED
    BY <2>1, <2>2
<1>7. TypeOK'
  <2>1. refs' \in [Handles -> Nat]
    BY <1>1, <1>3, <1>4
  <2>2. key' \in [Handles -> Files \cup {NoHandle}]
    BY <1>4
  <2>3. QED
    BY <2>1, <2>2, <1>4, <1>6 DEF States
<1>8. HandlesAreCounted'
  BY <1>2, <1>3, <1>4, UsersAreFinite DEF HandlesAreCounted
<1>9. Listed'
  BY <1>1, <1>3, <1>4, <1>6 DEF Listed
<1>10. Tabled' /\ Charged'
  BY <1>1, <1>3, <1>4 DEF Tabled, Charged, InTheCache
<1>11. Kept'
  BY <1>1, <1>3, <1>4 DEF Kept
<1>12. QED
  BY <1>6, <1>7, <1>8, <1>9, <1>10, <1>11

\* A thread inserts the table it opened, perhaps over another thread's.
LEMMA InsertKeepsInv ==
  ASSUME CacheInv, NEW t \in Threads, NEW h \in Handles, Insert(t, h)
  PROVE  CacheInv'
<1> USE DEF CacheInv, TypeOK
<1> DEFINE f == at[t].file
           old == table[f]
<1>1. f \in Files /\ at[t].handle = NoHandle
  <2>1. at[t] \in States /\ at[t].pc = "reading"
    BY DEF Insert
  <2>2. \E x \in Files : at[t] = Reading(x)
    BY <2>1 DEF States, Idle, Reading, Evicting, Holding
  <2>3. QED
    BY <2>2 DEF Reading
<1>2. /\ refs[h] = 0
      /\ table' = [table EXCEPT ![f] = h]
      /\ inCache' = [i \in Handles |-> i = h \/ (inCache[i] /\ i # old)]
      /\ refs' = [i \in Handles |->
                    IF i = h THEN 2 ELSE IF i = old THEN refs[i] - 1 ELSE refs[i]]
      /\ key' = [i \in Handles |->
                   IF i = h THEN f ELSE IF refs'[i] = 0 THEN NoHandle ELSE key[i]]
      /\ dropped' = {i \in dropped \cup ({old} \ {NoHandle}) : refs'[i] # 0}
      /\ lru' = IF OnLru(old) THEN LRU_Remove(lru, old) ELSE lru
      /\ inUse' = (inUse \ {old}) \cup {h}
      /\ usage' = IF old = NoHandle THEN usage + 1 ELSE usage
      /\ Moves(t, Evicting(h))
  BY DEF Insert, Dropped
<1>3. at' = [at EXCEPT ![t] = Evicting(h)]
  BY <1>2 DEF Moves
<1>4. \A g \in Handles :
        Cardinality(Users(g)') = Cardinality(Users(g)) + (IF g = h THEN 1 ELSE 0)
  <2>1. at \in [Threads -> States] /\ Evicting(h).handle = h
    BY DEF Evicting
  <2>2. QED
    BY <2>1, <1>1, <1>2, Joining
<1>5. ~inCache[h] /\ Cardinality(Users(h)) = 0 /\ ~OnLru(h) /\ h \notin inUse
  BY <1>2, UsersAreFinite DEF HandlesAreCounted, Listed
<1>6. /\ old \in Handles \cup {NoHandle}
      /\ old \in Handles => /\ inCache[old] /\ key[old] = f /\ old # h
                            /\ refs[old] \in Nat /\ refs[old] >= 1
                            /\ OnLru(old) <=> refs[old] = 1
  <2>1. old \in Handles \cup {NoHandle}
    BY <1>1
  <2>2. ASSUME old \in Handles
        PROVE  inCache[old] /\ key[old] = f /\ old # h
    BY <2>2, <1>1, <1>5, HandleAssumption DEF Tabled
  <2>3. QED
    BY <2>1, <2>2, ListedProperties
<1> HIDE DEF f, old
<1>7. \A g \in Handles : g # h /\ inCache[g] /\ key[g] = f => g = old
  BY DEF Tabled, old
<1>7a. ASSUME NEW g \in Handles
       PROVE  /\ inCache'[g] <=> g = h \/ (inCache[g] /\ g # old)
              /\ refs'[g] = IF g = h THEN 2 ELSE IF g = old THEN refs[g] - 1 ELSE refs[g]
              /\ g \in inUse' <=> g = h \/ (g \in inUse /\ g # old)
  BY ONLY <1>2, <1>7a, Zenon
<1>8. /\ lru' \in Seq(Handles) /\ ListedOnce'
      /\ \A g \in Handles : OnLru(g)' <=> OnLru(g) /\ g # old
  <2>1. CASE OnLru(old)
    <3>1. /\ LRU_Remove(lru, old) \in Seq(Handles)
          /\ \A i, j \in DOMAIN LRU_Remove(lru, old) :
               LRU_Remove(lru, old)[i] = LRU_Remove(lru, old)[j] => i = j
          /\ \A g : (\E i \in DOMAIN LRU_Remove(lru, old) : LRU_Remove(lru, old)[i] = g)
                    <=> (\E i \in DOMAIN lru : lru[i] = g) /\ g # old
      BY <2>1, RemoveProperties DEF OnLru, ListedOnce
    <3>2. QED
      BY <2>1, <3>1, <1>2 DEF OnLru, ListedOnce
  <2>2. CASE ~OnLru(old)
    BY <2>2, <1>2 DEF OnLru, ListedOnce
  <2>3. QED
    BY <2>1, <2>2
<1>9. TypeOK'
  <2>1. refs' \in [Handles -> Nat]
    BY <1>2, <1>6
  <2>2. usage' \in Nat
    <3>1. usage \in Nat /\ usage + 1 \in Nat
      OBVIOUS
    <3>2. usage' = usage \/ usage' = usage + 1
      BY <1>2, Zenon
    <3>3. QED
      BY <3>1, <3>2
  <2>3. key' \in [Handles -> Files \cup {NoHandle}]
    BY <1>1, <1>2
  <2>4. /\ inCache' \in [Handles -> BOOLEAN] /\ inUse' \subseteq Handles
        /\ table' \in [Files -> Handles \cup {NoHandle}]
    BY <1>2
  <2>5. dropped' \subseteq Handles
    BY <1>2, <1>6
  <2>6. at' \in [Threads -> States]
    BY <1>3 DEF States
  <2>7. QED
    BY <2>1, <2>2, <2>3, <2>4, <2>5, <2>6, <1>8
<1>10. HandlesAreCounted'
  <2>1. ASSUME NEW g \in Handles
        PROVE  refs'[g] = Cardinality(Users(g)') + IF inCache'[g] THEN 1 ELSE 0
    <3>1. /\ refs[g] = Cardinality(Users(g)) + IF inCache[g] THEN 1 ELSE 0
          /\ Cardinality(Users(g)) \in Nat
      BY UsersAreFinite DEF HandlesAreCounted
    <3>2. Cardinality(Users(g)') = Cardinality(Users(g)) + (IF g = h THEN 1 ELSE 0)
      BY <1>4
    <3>3. CASE g = h
      BY <3>1, <3>2, <3>3, <1>7a, <1>5
    <3>4. CASE g # h /\ g = old
      BY <3>1, <3>2, <3>4, <1>7a, <1>6
    <3>5. CASE g # h /\ g # old
      BY <3>1, <3>2, <3>5, <1>7a
    <3>6. QED
      BY <3>3, <3>4, <3>5
  <2>2. QED
    BY <2>1 DEF HandlesAreCounted
<1>11. Listed'
  <2>1. ASSUME NEW g \in Handles
        PROVE  /\ OnLru(g)' <=> inCache'[g] /\ refs'[g] = 1
               /\ g \in inUse' <=> inCache'[g] /\ refs'[g] >= 2
    <3>1. /\ OnLru(g) <=> inCache[g] /\ refs[g] = 1
          /\ g \in inUse <=> inCache[g] /\ refs[g] >= 2
      BY DEF Listed
    <3>2. OnLru(g)' <=> OnLru(g) /\ g # old
      BY <1>8
    <3>3. CASE g = h
      BY <3>2, <3>3, <1>7a, <1>5
    <3>4. CASE g # h /\ g = old
      BY <3>2, <3>4, <1>7a
    <3>5. CASE g # h /\ g # old
      BY <3>1, <3>2, <3>5, <1>7a
    <3>6. QED
      BY <3>3, <3>4, <3>5
  <2>2. QED
    BY <2>1 DEF Listed
<1>12. Tabled'
  <2>1. ASSUME NEW g \in Handles, inCache'[g], g # h
        PROVE  key'[g] \in Files /\ table'[key'[g]] = g
    <3>1. g # old /\ inCache[g] /\ refs'[g] = refs[g]
      BY <2>1, <1>2
    <3>2. key[g] \in Files /\ table[key[g]] = g /\ key[g] # f /\ refs[g] # 0
      BY <3>1, <2>1, <1>7, ListedProperties DEF Tabled
    <3>3. QED
      BY <3>1, <3>2, <2>1, <1>2
  <2>2. ASSUME NEW x \in Files, table'[x] # NoHandle, x # f
        PROVE  inCache'[table'[x]] /\ key'[table'[x]] = x
    <3>1. table'[x] = table[x]
      BY <2>2, <1>2
    <3>2. table[x] \in Handles /\ inCache[table[x]] /\ key[table[x]] = x
      BY <2>2, <3>1 DEF Tabled
    <3>3. table[x] # h /\ table[x] # old /\ refs[table[x]] # 0
      BY <3>2, <2>2, <1>5, <1>6, ListedProperties
    <3>4. QED
      BY <3>1, <3>2, <3>3, <1>2
  <2>3. table'[f] = h /\ key'[h] = f /\ inCache'[h]
    BY <1>1, <1>2
  <2>4. QED
    BY <2>1, <2>2, <2>3, <1>1 DEF Tabled
<1>13. Charged'
  <2>1. IsFiniteSet(InTheCache) /\ Cardinality(InTheCache) \in Nat /\ h \notin InTheCache
    BY <1>5, FinitenessAssumption, FS_Subset, FS_CardinalityType DEF InTheCache
  <2>2. CASE old = NoHandle
    <3>1. InTheCache' = InTheCache \cup {h}
      BY <2>2, <1>2, HandleAssumption DEF InTheCache
    <3>2. Cardinality(InTheCache') = Cardinality(InTheCache) + 1
      BY <3>1, <2>1, FS_AddElement
    <3>3. QED
      BY <2>2, <3>2, <1>2 DEF Charged
  <2>3. CASE old \in Handles
    <3>1. InTheCache' = (InTheCache \ {old}) \cup {h} /\ old \in InTheCache
      BY <2>3, <1>2, <1>6 DEF InTheCache
    <3>2. /\ Cardinality(InTheCache \ {old}) = Cardinality(InTheCache) - 1
          /\ IsFiniteSet(InTheCache \ {old})
      BY <3>1, <2>1, FS_RemoveElement
    <3>3. Cardinality(InTheCache') = Cardinality(InTheCache \ {old}) + 1
      BY <3>1, <3>2, <2>1, FS_AddElement
    <3>4. QED
      BY <2>1, <2>3, <3>2, <3>3, <1>2, HandleAssumption DEF Charged
  <2>4. QED
    BY <2>2, <2>3, <1>6
<1>14. Kept'
  BY <1>2, <1>5, <1>6, HandleAssumption DEF Kept
<1>15. QED
  BY <1>8, <1>9, <1>10, <1>11, <1>12, <1>13, <1>14

\* The steps that leave the cache alone.
LEMMA StandingStill ==
  ASSUME CacheInv, NEW t \in Threads, NEW state \in States,
         at[t].handle = state.handle, Moves(t, state), UNCHANGED <<handles, table, lists>>
  PROVE  CacheInv'
<1>1. \A g : Users(g)' = Users(g)
  BY Staying DEF CacheInv, TypeOK
<1>2. TypeOK'
  BY DEF CacheInv, TypeOK, Moves, handles, lists, States
<1>3. HandlesAreCounted'
  BY <1>1 DEF CacheInv, HandlesAreCounted, handles
<1>4. Listed' /\ ListedOnce' /\ Tabled' /\ Charged' /\ Kept'
  BY DEF CacheInv, Listed, ListedOnce, OnLru, Tabled, Charged, InTheCache, Kept,
         handles, lists
<1>5. QED
  BY <1>2, <1>3, <1>4 DEF CacheInv

-----------------------------------------------------------------------------
(* The invariant.                                                          *)

LEMMA CacheInvInit ==
  ASSUME Init
  PROVE  CacheInv
<1> USE DEF Init
<1>1. TypeOK
  BY EmptySeq DEF TypeOK, States
<1>2. HandlesAreCounted
  <2>1. \A h \in Handles : Users(h) = {}
    BY HandleAssumption DEF Users, Idle
  <2>2. \A h \in Handles : Cardinality(Users(h)) = 0
    BY <2>1, FS_EmptySet
  <2>3. \A h \in Handles : refs[h] = 0 /\ ~inCache[h]
    OBVIOUS
  <2>4. QED
    BY <2>2, <2>3 DEF HandlesAreCounted
<1>3. Listed /\ ListedOnce /\ Tabled /\ Kept
  BY HandleAssumption DEF Listed, ListedOnce, OnLru, Tabled, Kept
<1>4. Charged
  <2>1. InTheCache = {}
    BY DEF InTheCache
  <2>2. QED
    BY <2>1, FS_EmptySet DEF Charged
<1>5. QED
  BY <1>1, <1>2, <1>3, <1>4 DEF CacheInv

LEMMA CacheInvNext ==
  ASSUME CacheInv, [Next]_vars
  PROVE  CacheInv'
<1>1. ASSUME NEW t \in Threads, NEW f \in Files, Found(t, f)
      PROVE  CacheInv'
  BY <1>1, FoundKeepsInv
<1>2. ASSUME NEW t \in Threads, NEW f \in Files, Missed(t, f)
      PROVE  CacheInv'
  <2>1. at[t].handle = Reading(f).handle /\ Reading(f) \in States
    BY <1>2 DEF Missed, Idle, Reading, States
  <2>2. QED
    BY <1>2, <2>1, StandingStill DEF Missed
<1>3. ASSUME NEW t \in Threads, OpenFails(t)
      PROVE  CacheInv'
  <2>1. at[t] \in States /\ at[t].pc = "reading"
    BY <1>3 DEF OpenFails, CacheInv, TypeOK
  <2>2. at[t].handle = Idle.handle /\ Idle \in States
    BY <2>1 DEF Idle, Reading, Evicting, Holding, States
  <2>3. QED
    BY <1>3, <2>2, StandingStill DEF OpenFails
<1>4. ASSUME NEW t \in Threads, NEW h \in Handles, Insert(t, h)
      PROVE  CacheInv'
  BY <1>4, InsertKeepsInv
<1>5. ASSUME NEW t \in Threads, EvictOldest(t)
      PROVE  CacheInv'
  <2> DEFINE h == lru[1]
  <2>1. h \in Handles /\ OnLru(h)
    <3>1. lru \in Seq(Handles) /\ lru # <<>>
      BY <1>5 DEF EvictOldest, CacheInv, TypeOK
    <3>2. 1 \in DOMAIN lru
      BY <3>1, EmptySeq, LenProperties
    <3>3. QED
      BY <3>1, <3>2, ElementOfSeq, LenProperties DEF OnLru
  <2>2. inCache[h] /\ refs[h] = 1
    BY <2>1 DEF CacheInv, Listed
  <2>3. FinishErase(h) /\ Dropped({}) /\ UNCHANGED at
    BY <1>5 DEF EvictOldest
  <2> HIDE DEF h
  <2>4. QED
    BY <2>1, <2>2, <2>3, Erasing
<1>6. ASSUME NEW t \in Threads, InsertReturns(t)
      PROVE  CacheInv'
  <2> DEFINE h == at[t].handle
  <2>1. at[t] \in States /\ at[t].pc = "evicting"
    BY <1>6 DEF InsertReturns, CacheInv, TypeOK
  <2>2. h \in Handles
    BY <2>1 DEF Idle, Reading, Evicting, Holding, States
  <2>3. h = Holding(h).handle /\ Holding(h) \in States
    BY <2>2 DEF Holding, States
  <2>4. QED
    BY <1>6, <2>3, StandingStill DEF InsertReturns
<1>7. ASSUME NEW t \in Threads, Release(t)
      PROVE  CacheInv'
  BY <1>7, ReleaseKeepsInv
<1>8. ASSUME NEW f \in Files, Evict(f)
      PROVE  CacheInv'
  <2>1. table[f] \in Handles /\ inCache[table[f]]
    BY <1>8 DEF Evict, CacheInv, TypeOK, Tabled
  <2>2. QED
    BY <1>8, <2>1, Erasing DEF Evict
<1>9. CASE UNCHANGED vars
  <2>1. \A g : Users(g)' = Users(g)
    BY <1>9 DEF vars, Users
  <2>2. QED
    BY <1>9, <2>1
    DEF vars, handles, lists, CacheInv, TypeOK, HandlesAreCounted, Listed, ListedOnce,
        OnLru, Tabled, Charged, InTheCache, Kept, States
<1>10. QED
  BY <1>1, <1>2, <1>3, <1>4, <1>5, <1>6, <1>7, <1>8, <1>9 DEF Next, ThreadStep

\* The invariant of the cache, which the theorems below take apart.
THEOREM CacheInvHolds == Spec => []CacheInv
BY CacheInvInit, CacheInvNext, PTL DEF Spec

\* Every variable of the cache keeps its type.
THEOREM TypesHold == Spec => []TypeOK
<1>1. CacheInv => TypeOK
  BY DEF CacheInv
<1>2. QED
  BY <1>1, CacheInvHolds, PTL

\* A table is closed when its last user and the cache have let go of it, however
\* the threads that open, share, replace and erase it interleave.
THEOREM ReferencesAreCounted == Spec => []HandlesAreCounted
<1>1. CacheInv => HandlesAreCounted
  BY DEF CacheInv
<1>2. QED
  BY <1>1, CacheInvHolds, PTL

\* The two lists and the hash table agree with the references (cache.cc:27).
THEOREM ListsAgree == Spec => []ListsTellUse
<1>1. CacheInv => ListsTellUse
  BY DEF CacheInv, Listed, ListedOnce, Tabled, Charged, InTheCache, ListsTellUse
<1>2. QED
  BY <1>1, CacheInvHolds, PTL

\* A table in use is found by whoever looks for it, until it is erased or replaced.
THEOREM UsedTablesAreFound == Spec => []UsedIsFound
<1>1. ASSUME CacheInv
      PROVE  UsedIsFound
  <2>1. ASSUME NEW t \in Threads, at[t].handle \in Handles \ dropped
        PROVE  key[at[t].handle] \in Files /\ table[key[at[t].handle]] = at[t].handle
    <3> DEFINE h == at[t].handle
    <3>1. h \in Handles /\ t \in Users(h)
      BY <2>1 DEF Users
    <3>2. Cardinality(Users(h)) # 0 /\ Cardinality(Users(h)) \in Nat
      BY <3>1, UsersAreFinite, FS_EmptySet
    <3>3. refs[h] # 0
      BY <1>1, <3>1, <3>2 DEF CacheInv, HandlesAreCounted
    <3>4. inCache[h]
      BY <1>1, <2>1, <3>3 DEF CacheInv, Kept
    <3>5. QED
      BY <1>1, <3>1, <3>4 DEF CacheInv, Tabled
  <2>2. QED
    BY <2>1 DEF UsedIsFound
<1>2. QED
  BY <1>1, CacheInvHolds, PTL

-----------------------------------------------------------------------------
(* The bound.                                                              *)

\* When no cached table is unused, each of them has a user.
LEMMA CachedAreUsed ==
  ASSUME CacheInv, lru = <<>>, NEW h \in Handles, inCache[h]
  PROVE  Users(h) # {}
<1>1. ~OnLru(h)
  BY EmptySeq DEF OnLru
<1>2. refs[h] # 1 /\ refs[h] = Cardinality(Users(h)) + 1
  BY <1>1 DEF CacheInv, Listed, HandlesAreCounted
<1>3. Cardinality(Users(h)) # 0
  BY <1>2
<1>4. QED
  BY <1>3, FS_EmptySet

\* Only Insert brings a table into the cache, and it returns with too many when
\* there is no unused one left to close.
THEOREM TheSurplusWasInUse == Spec => SurplusWasInUse
<1>1. ASSUME CacheInv, Next, MutexFree', usage' > Capacity, NEW h \in Handles, inCache'[h]
      PROVE  (MutexFree /\ inCache[h]) \/ Users(h)' # {}
  <2>1. at \in [Threads -> States] /\ usage \in Nat /\ inCache \in [Handles -> BOOLEAN]
    BY <1>1 DEF CacheInv, TypeOK
  <2>2. ASSUME NEW t \in Threads, NEW f \in Files, Found(t, f) \/ Missed(t, f)
        PROVE  MutexFree /\ inCache[h]
    BY <1>1, <2>2 DEF Found, Missed, Ref, handles
  <2>3. ASSUME NEW t \in Threads, OpenFails(t)
        PROVE  MutexFree /\ inCache[h]
    <3>1. /\ at' = [at EXCEPT ![t] = Idle] /\ at[t].pc = "reading"
          /\ inCache' = inCache
      BY <2>3 DEF OpenFails, Moves, handles
    <3>2. MutexFree
      BY <1>1, <2>1, <3>1 DEF MutexFree
    <3>3. QED
      BY <1>1, <3>1, <3>2
  <2>4. ASSUME NEW t \in Threads, NEW g \in Handles, Insert(t, g)
        PROVE  FALSE
    <3>1. at'[t] = Evicting(g)
      BY <2>1, <2>4 DEF Insert, Moves
    <3>2. at'[t].pc = "evicting"
      BY <3>1 DEF Evicting
    <3>3. QED
      BY <1>1, <3>2 DEF MutexFree
  <2>5. ASSUME NEW t \in Threads, EvictOldest(t)
        PROVE  FALSE
    BY <1>1, <2>5 DEF EvictOldest, MutexFree
  <2>6. ASSUME NEW t \in Threads, InsertReturns(t)
        PROVE  Users(h)' # {}
    <3>1. /\ usage' = usage /\ inCache' = inCache
          /\ usage <= Capacity \/ lru = <<>>
      BY <2>6 DEF InsertReturns, handles, lists
    <3>2. lru = <<>>
      BY <1>1, <2>1, <3>1, CapacityAssumption
    <3>3. Users(h) # {}
      BY <1>1, <3>1, <3>2, CachedAreUsed
    <3>4. /\ at[t].pc = "evicting"
          /\ Moves(t, Holding(at[t].handle))
      BY <2>6 DEF InsertReturns
    <3>5. at[t].handle = Holding(at[t].handle).handle
      BY DEF Holding
    <3>6. Users(h)' = Users(h)
      BY <2>1, <3>4, <3>5, Staying
    <3>7. QED
      BY <3>3, <3>6
  <2>7. ASSUME NEW t \in Threads, Release(t)
        PROVE  MutexFree /\ inCache[h]
    BY <1>1, <2>7 DEF Release, Unref
  <2>8. ASSUME NEW f \in Files, Evict(f)
        PROVE  MutexFree /\ inCache[h]
    <3>1. MutexFree /\ inCache' = [inCache EXCEPT ![table[f]] = FALSE]
      BY <2>8 DEF Evict, FinishErase
    <3>2. QED
      BY <1>1, <2>1, <3>1
  <2>9. QED
    BY <1>1, <2>2, <2>3, <2>4, <2>5, <2>6, <2>7, <2>8 DEF Next, ThreadStep
<1>2. CacheInv /\ Next /\ MutexFree' /\ usage' > Capacity =>
        \A h \in Handles : inCache'[h] => (MutexFree /\ inCache[h]) \/ Users(h)' # {}
  BY <1>1
<1>3. QED
  BY <1>2, CacheInvHolds, PTL DEF Spec, SurplusWasInUse

\* So there are no more of them than threads.
LEMMA AllInUse ==
  ASSUME CacheInv, lru = <<>>
  PROVE  usage <= Cardinality(Threads)
<1> DEFINE user == [h \in InTheCache |-> CHOOSE t \in Threads : at[t].handle = h]
<1>1. ASSUME NEW h \in InTheCache
      PROVE  \E t \in Threads : at[t].handle = h
  <2>1. h \in Handles /\ inCache[h]
    BY DEF InTheCache
  <2>2. Users(h) # {}
    BY <2>1, CachedAreUsed
  <2>3. QED
    BY <2>2 DEF Users
<1>2. \A h \in InTheCache : user[h] \in Threads /\ at[user[h]].handle = h
  BY <1>1
<1>3. user \in Injection(InTheCache, Threads)
  BY <1>2 DEF Injection, IsInjective
<1>4. Cardinality(InTheCache) <= Cardinality(Threads)
  BY <1>3, FinitenessAssumption, FS_Injection
<1>5. QED
  BY <1>4 DEF CacheInv, Charged

\* The cache exceeds its capacity by tables in use only, of which each thread has
\* one: Insert closes unused ones until it does not, and nobody else adds any.
THEOREM TheCacheIsBounded == Spec => []OpenTablesBounded
<1>1. Init => OpenTablesBounded
  BY CapacityAssumption DEF Init, OpenTablesBounded
<1>2. ASSUME CacheInv, OpenTablesBounded, [Next]_vars
      PROVE  OpenTablesBounded'
  <2> SUFFICES ASSUME MutexFree'
               PROVE  usage' <= Capacity \/ usage' <= Cardinality(Threads)
    BY DEF OpenTablesBounded
  <2>a. lru = <<>> => usage <= Cardinality(Threads)
    BY <1>2, AllInUse
  <2>b. at \in [Threads -> States] /\ usage \in Nat
    BY <1>2 DEF CacheInv, TypeOK
  <2>c. Cardinality(Threads) \in Nat
    BY FinitenessAssumption, FS_CardinalityType
  <2>d. Cardinality(Threads) \in Nat /\ Capacity \in Nat /\ usage \in Nat
    BY <2>b, <2>c, CapacityAssumption
  <2>1. ASSUME NEW t \in Threads, NEW f \in Files, Found(t, f) \/ Missed(t, f)
        PROVE  usage' = usage /\ MutexFree
    BY <2>1 DEF Found, Missed, Ref, lists
  <2>2. ASSUME NEW t \in Threads, OpenFails(t)
        PROVE  usage' = usage /\ MutexFree
    <3>1. at' = [at EXCEPT ![t] = Idle] /\ at[t].pc = "reading" /\ usage' = usage
      BY <2>2 DEF OpenFails, Moves, lists
    <3>2. QED
      BY <3>1, <2>b DEF MutexFree
  <2>3. ASSUME NEW t \in Threads, NEW h \in Handles, Insert(t, h)
        PROVE  FALSE
    <3>1. at' = [at EXCEPT ![t] = Evicting(h)]
      BY <2>3 DEF Insert, Moves
    <3>2. at'[t] = Evicting(h)
      BY <3>1, <2>b
    <3>3. at'[t].pc = "evicting"
      BY <3>2 DEF Evicting
    <3>4. QED
      BY <3>3 DEF MutexFree
  <2>4. ASSUME NEW t \in Threads, EvictOldest(t)
        PROVE  FALSE
    BY <2>4 DEF EvictOldest, MutexFree
  <2>5. ASSUME NEW t \in Threads, InsertReturns(t)
        PROVE  usage' <= Capacity \/ usage' <= Cardinality(Threads)
    <3>1. usage' = usage /\ (usage <= Capacity \/ lru = <<>>)
      BY <2>5 DEF InsertReturns, lists
    <3>2. QED
      BY <3>1, <2>a
  <2>6. ASSUME NEW t \in Threads, Release(t)
        PROVE  usage' = usage /\ MutexFree
    BY <2>6 DEF Release, Unref
  <2>7. ASSUME NEW f \in Files, Evict(f)
        PROVE  usage' = usage - 1 /\ MutexFree
    BY <2>7 DEF Evict, FinishErase
  <2>8. ASSUME UNCHANGED vars
        PROVE  usage' = usage /\ MutexFree
    BY <2>8 DEF vars, lists, MutexFree
  <2>9. ASSUME usage' \in {usage, usage - 1}, MutexFree
        PROVE  usage' <= Capacity \/ usage' <= Cardinality(Threads)
    BY <1>2, <2>d, <2>9 DEF OpenTablesBounded
  <2>10. CASE Next
    BY <2>1, <2>2, <2>3, <2>4, <2>5, <2>6, <2>7, <2>9, <2>10 DEF Next, ThreadStep
  <2>11. QED
    BY <1>2, <2>8, <2>9, <2>10
<1>3. QED
  BY <1>1, <1>2, CacheInvHolds, PTL DEF Spec
=============================================================================
