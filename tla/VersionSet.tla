----------------------------- MODULE VersionSet -----------------------------
(***************************************************************************)
(* The files of the LevelDB store by level, how a read goes through them,  *)
(* and how a compaction is picked (db/version_set.cc).                     *)
(*                                                                         *)
(* A file is its number and its entries; its size is the number of its     *)
(* entries, and smallest and largest are read off them.  A version gives   *)
(* the set of files of each level.  The sorted vector of a level above 0   *)
(* is a set here, for its files are disjoint: see LevelsHoldOlder.         *)
(***************************************************************************)
EXTENDS DBFormat

CONSTANTS
  NumLevels,           \* config::kNumLevels
  MaxMemCompactLevel,  \* config::kMaxMemCompactLevel
  L0Trigger,           \* config::kL0_CompactionTrigger
  LevelBytes,          \* MaxBytesForLevel, of level 1
  LevelFactor,         \* ... and how much more each level after it holds
  MaxFileSize,         \* options.max_file_size
  GrandparentLimit,    \* MaxGrandParentOverlapBytes
  ExpandLimit          \* ExpandedCompactionByteSizeLimit

ASSUME VersionAssumption ==
  /\ NumLevels \in Nat \ {0, 1} /\ MaxMemCompactLevel \in Nat
  /\ MaxMemCompactLevel < NumLevels
  /\ {L0Trigger, LevelBytes, LevelFactor, MaxFileSize} \subseteq Nat \ {0}
  /\ {GrandparentLimit, ExpandLimit} \subseteq Nat

Levels == 0 .. NumLevels - 1

NoFiles == [l \in Levels |-> {}]

File(num, ents) == [num |-> num, ents |-> ents]

Size(files) == MapThenSumSet(LAMBDA f : Cardinality(f.ents), files)

AllEntries(files) == UNION {f.ents : f \in files}

At(level, files) == {[level |-> level, file |-> f] : f \in files}

FilesOf(v) == UNION {v[l] : l \in Levels}

FileNumbers(v) == {f.num : f \in FilesOf(v)}

MaxBytesForLevel(l) == LevelBytes * LevelFactor ^ (l - 1)

-----------------------------------------------------------------------------
(* Reading.                                                                *)

Covers(f, key) == MinKey(f.ents) <= key /\ key <= MaxKey(f.ents)

\* FindFile: the first file of the level whose largest key is not before
\* the internal key looked for, in a set of at most one element.
FindFile(files, key, seq) ==
  LET ahead == {f \in files : ~Before(LastEntry(f.ents), Entry(key, seq, Deleted))}
  IN  {f \in ahead : \A g \in ahead \ {f} : Before(LastEntry(f.ents), LastEntry(g.ents))}

\* The files that Version::Get and ForEachOverlapping go through: those of
\* level 0 the newest first, then the levels in turn.
FilesToSearch(v, key, seq) ==
  LET InLevel(l) == IF l = 0 THEN {f \in v[0] : Covers(f, key)}
                    ELSE {f \in FindFile(v[l], key, seq) : MinKey(f.ents) <= key}
  IN  UNION {{[level |-> l, file |-> f] : f \in InLevel(l)} : l \in Levels}

Earlier(a, b) ==
  \/ a.level < b.level
  \/ a.level = b.level /\ a.file.num > b.file.num

FirstOf(search) == {a \in search : \A b \in search \ {a} : Earlier(a, b)}

\* The first file that has an entry of the key settles the answer.
VersionSeek(v, key, seq) ==
  LET hits == {a \in FilesToSearch(v, key, seq) : Seek(a.file.ents, key, seq) # {}}
  IN  UNION {Seek(a.file.ents, key, seq) : a \in FirstOf(hits)}

\* The files Get reads before it has its answer.
FilesRead(v, key, seq) ==
  LET search == FilesToSearch(v, key, seq)
      hits   == {a \in search : Seek(a.file.ents, key, seq) # {}}
  IN  {a \in search : \A b \in FirstOf(hits) : ~Earlier(b, a)}

-----------------------------------------------------------------------------
(* Overlaps and inputs.                                                    *)

Overlaps(f, lo, hi) == MinKey(f.ents) <= hi /\ lo <= MaxKey(f.ents)

OverlapInLevel(v, l, lo, hi) == \E f \in v[l] : Overlaps(f, lo, hi)

\* Files of level 0 overlap each other: the search starts again with the
\* wider range whenever a file widens it.  What it ends with is the least
\* set that holds every file its own range overlaps.
GetOverlappingInputs(v, l, lo, hi) ==
  LET Closed(S) == \A f \in v[l] :
                     Overlaps(f, Min({lo} \cup {MinKey(g.ents) : g \in S}),
                                 Max({hi} \cup {MaxKey(g.ents) : g \in S})) => f \in S
  IN  IF l = 0
        THEN {f \in v[0] : \A S \in SUBSET v[0] : Closed(S) => f \in S}
        ELSE {f \in v[l] : Overlaps(f, lo, hi)}

\* Mutant: the new table does not look at the level it enters.
PickLevelBlindly(v, ents) ==
  IF OverlapInLevel(v, 0, MinKey(ents), MaxKey(ents)) THEN 0 ELSE MaxMemCompactLevel

\* PickLevelForMemTableOutput: a new table that nothing overlaps goes past
\* level 0, unless it would then overlap too much two levels below.
PickLevelForMemTableOutput(v, ents) ==
  LET lo == MinKey(ents)
      hi == MaxKey(ents)
      MayEnter(l) == /\ ~OverlapInLevel(v, l, lo, hi)
                     /\ l + 1 < NumLevels =>
                          Size(GetOverlappingInputs(v, l + 1, lo, hi)) <= GrandparentLimit
  IN  IF OverlapInLevel(v, 0, lo, hi) THEN 0
      ELSE Max({l \in 0 .. MaxMemCompactLevel : \A j \in 1 .. l : MayEnter(j)})

-----------------------------------------------------------------------------
(* Picking a compaction.                                                   *)

\* The score of a level as a fraction.
Score(v, l) == IF l = 0 THEN <<Cardinality(v[0]), L0Trigger>>
                        ELSE <<Size(v[l]), MaxBytesForLevel(l)>>

LargerScore(s, t) == s[1] * t[2] > t[1] * s[2]

\* Finalize: the first level with the largest score, in a set of one element.
CompactionLevel(v) ==
  {l \in 0 .. NumLevels - 2 :
    /\ \A m \in 0 .. NumLevels - 2 : ~LargerScore(Score(v, m), Score(v, l))
    /\ \A m \in 0 .. l - 1 : LargerScore(Score(v, l), Score(v, m))}

SizeCompaction(v) == \E l \in CompactionLevel(v) : Score(v, l)[1] >= Score(v, l)[2]

\* file_to_compact_ with its level, or none.
NoSeekFile == {}

NeedsCompaction(v, seekFile) == SizeCompaction(v) \/ seekFile # NoSeekFile

\* PickCompaction up to the first input.  compact_pointer_ goes round the
\* files of the level; here any of them may come next.
FirstInputs(v, seekFile) ==
  IF SizeCompaction(v)
    THEN UNION {At(l, v[l]) : l \in CompactionLevel(v)}
    ELSE seekFile

\* The compactions that may be picked, from their first inputs on: for level
\* 0 the files the first one overlaps come with it, and then what overlaps
\* them in the next level (SetupOtherInputs).
Inputs(v, l, files) ==
  GetOverlappingInputs(v, l, MinKey(AllEntries(files)), MaxKey(AllEntries(files)))

PickCompaction(v, seekFile) ==
  {[level |-> first.level, base |-> v,
    in0 |-> IF first.level = 0 THEN Inputs(v, 0, {first.file}) ELSE {first.file}] :
     first \in FirstInputs(v, seekFile)}

WithNextLevel(v, picked) ==
  {[level |-> c.level, base |-> c.base, in0 |-> c.in0,
    in1 |-> Inputs(v, c.level + 1, c.in0)] : c \in picked}

\* More files of the level are taken when that brings in no more of the next.
Widened(v, c) ==
  LET wide0 == Inputs(v, c.level, c.in0 \cup c.in1)
      wide1 == Inputs(v, c.level + 1, wide0)
  IN  IF /\ c.in1 # {}
         /\ Cardinality(wide0) > Cardinality(c.in0)
         /\ Size(c.in1) + Size(wide0) < ExpandLimit
         /\ Cardinality(wide1) = Cardinality(c.in1)
        THEN [c EXCEPT !.in0 = wide0, !.in1 = wide1]
        ELSE c

Compactions(v, seekFile) ==
  {[level |-> c.level, base |-> c.base, in0 |-> c.in0, in1 |-> c.in1,
    grand |-> IF c.level + 2 < NumLevels THEN Inputs(v, c.level + 2, c.in0 \cup c.in1)
                                         ELSE {}] :
     c \in {Widened(v, d) : d \in WithNextLevel(v, PickCompaction(v, seekFile))}}

IsTrivialMove(c) ==
  Cardinality(c.in0) = 1 /\ c.in1 = {} /\ Size(c.grand) <= GrandparentLimit

-----------------------------------------------------------------------------
(* Merging the inputs.                                                     *)

\* The merging iterator goes through the entries in the order of their keys.
Merged(ents) == InOrder(ents, Before)

\* IsBaseLevelForKey: no file below the output can hold the key.
IsBaseLevelForKey(v, level, key) ==
  \A l \in level + 2 .. NumLevels - 1 : \A f \in v[l] : ~Covers(f, key)

\* An entry is dropped when a newer one of its key is old enough for every
\* snapshot, or when it is a deletion old enough itself with nothing below for
\* it to hide.
Dropped(c, snapshot, e) ==
  \/ \E d \in AllEntries(c.in0 \cup c.in1) :
       d.key = e.key /\ d.seq > e.seq /\ d.seq <= snapshot
  \/ /\ e.val = Deleted /\ e.seq <= snapshot
     /\ IsBaseLevelForKey(c.base, c.level, e.key)

\* ShouldStopBefore: the grandparents that lie between two entries.
Passed(c, d, e) ==
  {g \in c.grand : Before(LastEntry(g.ents), e) /\ ~Before(LastEntry(g.ents), d)}

\* The loop of DoCompactionWork over one entry: the output is closed before it
\* overlaps too many grandparents, and when it is full.
MergeEntry(c, snapshot, st, e) ==
  LET bytes == st.bytes + Size(UNION {Passed(c, d, e) : d \in st.last})
      stop  == bytes > GrandparentLimit
      open  == st.open /\ ~stop
      outs  == IF Dropped(c, snapshot, e) THEN st.outs
               ELSE IF open THEN Append(Front(st.outs), Last(st.outs) \cup {e})
               ELSE Append(st.outs, {e})
  IN  [outs  |-> outs,
       open  |-> IF Dropped(c, snapshot, e) THEN open
                 ELSE Cardinality(Last(outs)) < MaxFileSize,
       last  |-> {e},
       bytes |-> IF stop THEN 0 ELSE bytes]

\* The tables a compaction writes, one after another.
CompactionOutputs(c, snapshot) ==
  FoldSteps(LAMBDA st, e : MergeEntry(c, snapshot, st, e),
            [outs |-> <<>>, open |-> FALSE, last |-> {}, bytes |-> 0],
            Merged(AllEntries(c.in0 \cup c.in1))).outs

\* A merge as it begins: the tables it has written, and those it will write for
\* what the snapshot still needs.
CompactionState(c, snapshot) ==
  [level |-> c.level, base |-> c.base, in0 |-> c.in0, in1 |-> c.in1,
   outs |-> {}, todo |-> CompactionOutputs(c, snapshot)]

-----------------------------------------------------------------------------
(* VersionEdit.                                                            *)

\* An edit adds and deletes files of a level, and says which is the oldest
\* log still needed, the next file number and the last sequence number.  kind
\* tells what the edit was made for.
Edit(kind, add, del, log, next, seq) ==
  [kind |-> kind, add |-> add, del |-> del, log |-> log, next |-> next, seq |-> seq]

\* Builder::Apply and SaveTo.
ApplyEdit(v, edit) ==
  [l \in Levels |-> (v[l] \ {d.file : d \in {d \in edit.del : d.level = l}})
                      \cup {a.file : a \in {a \in edit.add : a.level = l}}]
=============================================================================
