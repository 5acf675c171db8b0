------------------------------- MODULE DBIter -------------------------------
(***************************************************************************)
(* Iterators of the LevelDB store: DBIter (db/db_iter.cc) over a           *)
(* MergingIterator (table/merger.cc) over three children: the memtable and *)
(* the one being flushed (db/skiplist.h), and a sorted run of blocks       *)
(* (table/two_level_iterator.cc).                                          *)
(*                                                                         *)
(* A reader moves its iterator without a lock while a writer inserts into  *)
(* the memtable.  A call is a sequence of steps; in one step the iterator  *)
(* reads the memtable at most once, and the writer may insert between any  *)
(* two.                                                                    *)
(*                                                                         *)
(* An iterator that is not valid, and a key that is not saved, are empty   *)
(* sets; what stands somewhere is a set of one element.                    *)
(***************************************************************************)
EXTENDS DBFormat

CONSTANTS
  Keys,     \* the user keys, positive
  MaxSeq,   \* bound: no entry gets a number above it
  Layouts   \* what the store may hold when the iterator is made

InRun(r) == UNION {b.ents : b \in Range(r)}

\* Every entry has a number of its own and is in one place; no block is empty,
\* and a separator stands between a block and those after it.
Arranged(m, i, r) ==
  LET all == m \cup i \cup InRun(r)
  IN  /\ all \subseteq [key : Keys, seq : 1 .. MaxSeq, val : 0 .. MaxSeq]
      /\ \A d, e \in all : d.seq = e.seq => d = e
      /\ m \cap i = {} /\ m \cap InRun(r) = {} /\ i \cap InRun(r) = {}
      /\ r \in Seq([ents : (SUBSET all) \ {{}}, sep : [key : Nat, seq : Nat, val : Nat]])
      /\ \A j \in DOMAIN r :
           /\ \A e \in r[j].ents : ~Before(r[j].sep, e)
           /\ \A h \in j + 1 .. Len(r) : \A e \in r[h].ents : Before(r[j].sep, e)

ASSUME KeysAssumption == Keys \subseteq Nat /\ IsFiniteSet(Keys) /\ MaxSeq \in Nat
ASSUME LayoutsAssumption ==
  \A l \in Layouts : l.sequence \in Nat /\ Arranged(l.mem, l.imm, l.run)

VARIABLES
  mem, imm,     \* the memtables: sets of entries
  run,          \* a table, or a level: a sequence of blocks
  sequence,     \* DBIter: only entries up to this number are seen
  pos,          \* where each child stands
  current,      \* MergingIterator: the child it stands on
  mdir,         \* MergingIterator: its direction_
  sought,       \* Prev is turning the children around, and the memtable has
                \* been sought but not stepped back
  direction, valid, savedKey, savedValue,   \* DBIter, the members
  pc,           \* what DBIter does next
  skipping,     \* FindNextUserEntry's parameter
  valueType,    \* FindPrevUserEntry's local variable
  call,         \* the call under way
  before        \* history: what the iterator showed when the call was made

store == <<mem, imm, run, sequence>>
merging == <<pos, current, mdir, sought>>
members == <<direction, valid, savedKey, savedValue>>
locals == <<pc, skipping, valueType, call, before>>
vars == <<store, merging, members, locals>>

Smallest(ents) == {e \in ents : \A d \in ents \ {e} : Before(e, d)}
Largest(ents)  == {e \in ents : \A d \in ents \ {e} : Before(d, e)}
-----------------------------------------------------------------------------
(* A skip list.  An iterator stands on a node and nodes are never removed. *)

SeekIn(ents, target) == Smallest({e \in ents : ~Before(e, target)})
NextIn(ents, at)     == Smallest({e \in ents : Before(at, e)})
PrevIn(ents, at)     == Largest({e \in ents : Before(e, at)})

(* A sorted run: a sequence of blocks [ents, sep]. *)

BlockOf(e) == CHOOSE i \in DOMAIN run : e \in run[i].ents

\* SkipEmptyDataBlocksForward and Backward.
OnwardFrom(found, i) ==
  IF found = {} /\ i < Len(run) THEN Smallest(run[i + 1].ents) ELSE found
BackFrom(found, i) ==
  IF found = {} /\ i > 1 THEN Largest(run[i - 1].ents) ELSE found

RunSeek(target) ==
  LET i == SelectInSeq(run, LAMBDA b : ~Before(b.sep, target))
  IN  IF i = 0 THEN {} ELSE OnwardFrom(SeekIn(run[i].ents, target), i)

RunNext(e) == OnwardFrom(NextIn(run[BlockOf(e)].ents, e), BlockOf(e))
RunPrev(e) == BackFrom(PrevIn(run[BlockOf(e)].ents, e), BlockOf(e))

(* The children. *)

Children == {"mem", "imm", "run"}
List(c) == IF c = "mem" THEN mem ELSE imm

ChildSeek(c, target) == IF c = "run" THEN RunSeek(target) ELSE SeekIn(List(c), target)

ChildFirst(c) ==
  IF c # "run" THEN Smallest(List(c))
  ELSE IF run = <<>> THEN {} ELSE Smallest(run[1].ents)

ChildLast(c) ==
  IF c # "run" THEN Largest(List(c))
  ELSE IF run = <<>> THEN {} ELSE Largest(run[Len(run)].ents)

ChildNext(c, e) == IF c = "run" THEN RunNext(e) ELSE NextIn(List(c), e)
ChildPrev(c, e) == IF c = "run" THEN RunPrev(e) ELSE PrevIn(List(c), e)
-----------------------------------------------------------------------------
(* MergingIterator. *)

\* Mutant: the child it stood on stays when all have come to their end.
FindSmallestStale(p) ==
  IF UNION Range(p) = {} THEN current
  ELSE {c \in Children : p[c] # {} /\ p[c] = Smallest(UNION Range(p))}

FindSmallest(p) == {c \in Children : p[c] # {} /\ p[c] = Smallest(UNION Range(p))}
FindLargest(p)  == {c \in Children : p[c] # {} /\ p[c] = Largest(UNION Range(p))}

\* key(), of the child it stands on.
Key == UNION {pos[c] : c \in current}

StandForward(p) ==
  /\ pos' = p /\ current' = FindSmallest(p)
  /\ mdir' = "forward" /\ sought' = FALSE
StandBackward(p) ==
  /\ pos' = p /\ current' = FindLargest(p)
  /\ mdir' = "reverse" /\ sought' = FALSE

IterSeekToFirst == StandForward([c \in Children |-> ChildFirst(c)])
IterSeekToLast  == StandBackward([c \in Children |-> ChildLast(c)])
IterSeek(target) == StandForward([c \in Children |-> ChildSeek(c, target)])

\* The other children have to stand after key().
SeekPast(c, e) ==
  LET found == ChildSeek(c, e) IN IF found = {e} THEN ChildNext(c, e) ELSE found

IterNext ==
  \E e \in Key :
    StandForward([c \in Children |->
      IF c \in current THEN ChildNext(c, e)
      ELSE IF mdir = "forward" THEN pos[c]
      ELSE SeekPast(c, e)])

\* Mutant: they are sought only.
StepBackNot(c, found) == IF found = {} THEN ChildLast(c) ELSE found

\* The other children have to stand before key(): each is sought and stepped
\* back, or put to its end if there was nothing to find.
StepBack(c, found) ==
  IF found = {} THEN ChildLast(c) ELSE UNION {ChildPrev(c, d) : d \in found}

SeekMem ==
  /\ mdir = "forward" /\ "mem" \notin current /\ ~sought
  /\ \E e \in Key : pos' = [pos EXCEPT !["mem"] = ChildSeek("mem", e)]
  /\ sought' = TRUE
  /\ UNCHANGED <<current, mdir>>

IterPrev ==
  /\ mdir = "reverse" \/ "mem" \in current \/ sought
  /\ \E e \in Key :
       StandBackward([c \in Children |->
         IF c \in current THEN ChildPrev(c, e)
         ELSE IF mdir = "reverse" THEN pos[c]
         ELSE StepBack(c, IF c = "mem" THEN pos[c] ELSE ChildSeek(c, e))])
-----------------------------------------------------------------------------
(* DBIter. *)

Pair(k, v) == [key |-> k, val |-> v]

\* key() and value().
Shown ==
  IF ~valid THEN {}
  ELSE IF direction = "forward" THEN {Pair(e.key, e.val) : e \in Key}
  ELSE {Pair(k, savedValue) : k \in savedKey}

Visible(e) == e.seq <= sequence

Calls ==
  [op : {"SeekToFirst", "SeekToLast", "Next", "Prev"}] \cup
  [op : {"Seek"}, target : Keys]

Call(c) ==
  /\ call = {}
  /\ c.op \in {"Next", "Prev"} => valid
  /\ call' = {c} /\ pc' = c.op /\ before' = Shown
  /\ UNCHANGED <<store, merging, members, skipping, valueType>>

\* The locals are gone.
Returned ==
  /\ pc' = "idle" /\ call' = {} /\ before' = {}
  /\ skipping' = FALSE /\ valueType' = "deletion"
GoOn(where) == pc' = where /\ UNCHANGED <<call, before>>

Invalid == valid' = FALSE /\ savedKey' = {} /\ savedValue' = Deleted

SeekToFirst ==
  /\ pc = "SeekToFirst"
  /\ IterSeekToFirst
  /\ direction' = "forward" /\ savedValue' = Deleted
  /\ skipping' = FALSE /\ GoOn("FindNext")
  /\ UNCHANGED <<store, valid, savedKey, valueType>>

SeekTarget(c) ==
  /\ pc = "Seek" /\ call = {c}
  /\ IterSeek(Entry(c.target, sequence, Deleted))
  /\ direction' = "forward" /\ savedValue' = Deleted /\ savedKey' = {}
  /\ skipping' = FALSE /\ GoOn("FindNext")
  /\ UNCHANGED <<store, valid, valueType>>

SeekToLast ==
  /\ pc = "SeekToLast"
  /\ IterSeekToLast
  /\ direction' = "reverse" /\ savedValue' = Deleted
  /\ valueType' = "deletion" /\ GoOn("FindPrev")
  /\ UNCHANGED <<store, valid, savedKey, skipping>>

\* Next, up to FindNextUserEntry: turns around, or saves the key to skip.
NextCall ==
  /\ pc = "Next"
  /\ direction' = "forward" /\ skipping' = TRUE
  /\ \/ /\ direction = "reverse"
        /\ IF Key = {} THEN IterSeekToFirst ELSE IterNext
        /\ UNCHANGED savedKey
     \/ /\ direction = "forward"
        /\ savedKey' = {e.key : e \in Key}
        /\ UNCHANGED merging
  /\ GoOn("FindNext")
  /\ UNCHANGED <<store, valid, savedValue, valueType>>

\* Mutant: older entries of the key just left are seen again.
HiddenByHigher(e) == skipping /\ \E k \in savedKey : e.key < k

Hidden(e) == skipping /\ \E k \in savedKey : e.key <= k

\* FindNextUserEntry, once around its loop.  Where its callers find the iterator
\* at its end, they may leave saved_key_ as it was: nobody reads it then.
FindNextUserEntry ==
  /\ pc = "FindNext"
  /\ UNCHANGED <<store, direction, savedValue>>
  /\ \/ /\ Key = {}
        /\ valid' = FALSE /\ savedKey' = {} /\ Returned
        /\ UNCHANGED merging
     \/ \E e \in Key :
          /\ Visible(e) /\ e.val # Deleted /\ ~Hidden(e)
          /\ valid' = TRUE /\ savedKey' = {} /\ Returned
          /\ UNCHANGED merging
     \/ \E e \in Key :
          /\ ~Visible(e) \/ e.val = Deleted \/ Hidden(e)
          /\ IF Visible(e) /\ e.val = Deleted
             THEN savedKey' = {e.key} /\ skipping' = TRUE
             ELSE UNCHANGED <<savedKey, skipping>>
          /\ IterNext
          /\ GoOn("FindNext")
          /\ UNCHANGED <<valid, valueType>>

\* Prev, up to FindPrevUserEntry or to the loop that leaves the current key.
PrevCall ==
  /\ pc = "Prev"
  /\ \/ /\ direction = "forward"
        /\ savedKey' = {e.key : e \in Key}
        /\ GoOn("Leave") /\ UNCHANGED valueType
     \/ /\ direction = "reverse"
        /\ valueType' = "deletion"
        /\ GoOn("FindPrev") /\ UNCHANGED savedKey
  /\ UNCHANGED <<store, merging, direction, valid, savedValue, skipping>>

\* The loop of Prev, once around.
LeaveKey ==
  /\ pc = "Leave"
  /\ UNCHANGED store
  /\ \/ /\ SeekMem
        /\ GoOn("Leave") /\ UNCHANGED <<members, skipping, valueType>>
     \/ /\ IterPrev
        /\ IF Key' = {}
           THEN Invalid /\ Returned /\ UNCHANGED direction
           ELSE IF \E e \in Key', k \in savedKey : e.key < k
           THEN /\ direction' = "reverse" /\ valueType' = "deletion"
                /\ GoOn("FindPrev")
                /\ UNCHANGED <<valid, savedKey, savedValue, skipping>>
           ELSE GoOn("Leave") /\ UNCHANGED <<members, skipping, valueType>>

\* Mutant: the loop ends at the first value it sees, also of the same key.
PassedAnyKey(e) == Visible(e) /\ valueType = "value"

\* FindPrevUserEntry, once around its loop, and its end.
PassedKey(e) ==
  Visible(e) /\ valueType = "value" /\ \E k \in savedKey : e.key < k

FindPrevUserEntry ==
  /\ pc = "FindPrev"
  /\ UNCHANGED store
  /\ \/ /\ \A e \in Key : PassedKey(e)
        /\ IF valueType = "deletion" THEN Invalid /\ direction' = "forward"
           ELSE valid' = TRUE /\ UNCHANGED <<direction, savedKey, savedValue>>
        /\ Returned /\ UNCHANGED merging
     \/ \E e \in Key :
          /\ ~PassedKey(e)
          /\ IF ~Visible(e) THEN UNCHANGED <<savedKey, savedValue, valueType>>
             ELSE IF e.val = Deleted
             THEN valueType' = "deletion" /\ savedKey' = {} /\ savedValue' = Deleted
             ELSE valueType' = "value" /\ savedKey' = {e.key} /\ savedValue' = e.val
          /\ IterPrev
          /\ GoOn("FindPrev") /\ UNCHANGED <<direction, valid, skipping>>

IteratorStep ==
  \/ SeekToFirst \/ SeekToLast \/ NextCall \/ PrevCall
  \/ FindNextUserEntry \/ LeaveKey \/ FindPrevUserEntry
  \/ \E c \in call : SeekTarget(c)
-----------------------------------------------------------------------------
(* The store. *)

All == mem \cup imm \cup InRun(run)

LastNumber == Max({sequence} \cup {e.seq : e \in All})

\* A writer adds an entry to the memtable.
Insert(k) ==
  /\ LastNumber < MaxSeq
  /\ mem' = mem \cup {Entry(k, LastNumber + 1, LastNumber + 1)}
  /\ UNCHANGED <<imm, run, sequence, merging, members, locals>>

Init ==
  /\ \E l \in Layouts :
       mem = l.mem /\ imm = l.imm /\ run = l.run /\ sequence = l.sequence
  /\ pos = [c \in Children |-> {}] /\ current = {}
  /\ mdir = "forward" /\ sought = FALSE
  /\ direction = "forward" /\ valid = FALSE
  /\ savedKey = {} /\ savedValue = Deleted
  /\ pc = "idle" /\ skipping = FALSE /\ valueType = "deletion"
  /\ call = {} /\ before = {}

Next ==
  \/ \E c \in Calls : Call(c)
  \/ IteratorStep
  \/ \E k \in Keys : Insert(k)

Spec == Init /\ [][Next]_vars
-----------------------------------------------------------------------------
(* Properties. *)

Seen == {e \in All : Visible(e)}

TypeOK ==
  /\ mem \subseteq All /\ \A e \in All : e.key \in Keys /\ e.seq \in 1 .. MaxSeq
  /\ pos \in [Children -> {{}} \cup {{e} : e \in All}]
  /\ \A c \in {"mem", "imm"} : pos[c] \subseteq List(c)
  /\ current \in {{}} \cup {{c} : c \in Children}
  /\ \A c \in current : pos[c] # {}
  /\ mdir \in {"forward", "reverse"} /\ direction \in {"forward", "reverse"}
  /\ sought \in BOOLEAN /\ valid \in BOOLEAN /\ skipping \in BOOLEAN
  /\ savedKey \in {{}} \cup {{k} : k \in Keys} /\ savedValue \in 0 .. MaxSeq
  /\ valueType \in {"value", "deletion"}
  /\ pc \in {"idle", "FindNext", "FindPrev", "Leave"} \cup {c.op : c \in Calls}
  /\ pc = "idle" <=> call = {}

\* Whatever is inserted while a call is under way, each call leads to the key it
\* would lead to over the map at the iterator's sequence number, and shows its
\* value there.
SnapshotView ==
  [k \in Keys |->
    LET seen == Seek(All, k, sequence)
    IN  IF seen = {} THEN Deleted ELSE (CHOOSE e \in seen : TRUE).val]

Snapshot == INSTANCE Cursor WITH
  view <- SnapshotView,
  shown <- IF call = {} THEN Shown ELSE before

IteratesSnapshot == Snapshot!Spec

\* "When moving backwards, the internal iterator is positioned just before all
\* entries whose user key == this->key()" (db_iter.cc:44), of the entries the
\* reader sees; Next relies on it.
ReverseStandsBefore ==
  call = {} /\ valid /\ direction = "reverse" =>
    \A k \in savedKey, e \in Key :
      /\ e.key < k
      /\ \A d \in Seen : d.key < k => ~Before(e, d)

\* The merging iterator's Prev may move on instead of back, when the writer comes
\* between the two calls that turn the memtable's iterator around; then it
\* stands on an entry the reader does not see.
PrevOvershootsUnseen ==
  [][IterPrev => \A d \in Key, e \in Key' : Before(e, d) \/ ~Visible(e)]_vars
=============================================================================
