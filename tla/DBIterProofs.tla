---------------------------- MODULE DBIterProofs ----------------------------
(***************************************************************************)
(* Proofs about the iterators of the LevelDB store, for every set of keys, *)
(* whatever the store holds and whatever is inserted between the steps of  *)
(* a call: types, where an iterator stands that moved backwards, and that  *)
(* it implements Cursor.                                                   *)
(***************************************************************************)
EXTENDS DBIter, FiniteSetTheorems, WellFoundedInduction, TLAPS

-----------------------------------------------------------------------------
(* Natural numbers.  The induction theorems of the library take a property *)
(* as an operator; here it is a set, got from the order of the numbers.    *)

NatLess == OpToRel(<, Nat)

LEMMA NatLessWF == IsWellFoundedOn(NatLess, Nat)
BY NatLessThanWellFounded, Zenon DEF NatLess

LEMMA NatLessIs == NatLess = {p \in Nat \X Nat : p[1] < p[2]}
BY Zenon DEF NatLess, OpToRel

\* A set of natural numbers that has one has a least one.
LEMMA LeastElement ==
  ASSUME NEW S \in SUBSET Nat, S # {}
  PROVE  \E x \in S : \A y \in S : x <= y
<1>1. PICK x \in S : \A y \in S : ~(<<y, x>> \in NatLess)
  BY WFMin, NatLessWF
<1>2. \A y \in S : ~(y < x)
  BY <1>1, NatLessIs
<1>3. QED
  BY <1>2

\* A set with 0 and the successor of each of its members has every number.
LEMMA Induct ==
  ASSUME NEW S \in SUBSET Nat, 0 \in S, \A n \in S : n + 1 \in S
  PROVE  S = Nat
<1> SUFFICES ASSUME Nat \ S # {} PROVE FALSE
  OBVIOUS
<1>1. PICK x \in Nat \ S : \A y \in Nat \ S : x <= y
  BY LeastElement
<1>2. x - 1 \in Nat /\ x - 1 \notin Nat \ S
  BY <1>1
<1>3. QED
  BY <1>1, <1>2

\* A bounded set of numbers has a largest one, and Max is it.
LEMMA MaxBounded ==
  ASSUME NEW S \in SUBSET Nat, S # {}, NEW n \in Nat, \A x \in S : x <= n
  PROVE  Max(S) \in S /\ \A x \in S : Max(S) >= x
<1> DEFINE T == {k \in Nat : \E x \in S : k = n - x}
<1>1. PICK x \in S : TRUE
  OBVIOUS
<1>2. n - x \in T
  BY <1>1
<1>3. PICK t \in T : \A u \in T : t <= u
  <2>1. T \in SUBSET Nat /\ T # {}
    BY <1>2
  <2> HIDE DEF T
  <2>2. QED
    BY <2>1, LeastElement
<1>4. PICK m \in S : t = n - m
  BY <1>3
<1>5. \A y \in S : m >= y
  <2> SUFFICES ASSUME NEW y \in S PROVE m >= y
    OBVIOUS
  <2>1. n - y \in T
    OBVIOUS
  <2>2. QED
    BY <1>3, <1>4, <2>1
<1>6. QED
  BY <1>5 DEF Max

\* So has a finite set of numbers.
LEMMA FiniteHasBound ==
  ASSUME NEW S \in SUBSET Nat, IsFiniteSet(S)
  PROVE  \E n \in Nat : \A x \in S : x <= n
<1>1. ASSUME NEW T \in SUBSET S, Cardinality(T) = 0
      PROVE  \E n \in Nat : \A x \in T : x <= n
  <2>1. T = {}
    BY <1>1, FS_Subset, FS_EmptySet
  <2>2. QED
    BY <2>1
<1>2. ASSUME NEW k \in Nat,
             \A T \in SUBSET S : Cardinality(T) = k => \E n \in Nat : \A x \in T : x <= n,
             NEW T \in SUBSET S, Cardinality(T) = k + 1
      PROVE  \E n \in Nat : \A x \in T : x <= n
  <2>1. IsFiniteSet(T)
    BY FS_Subset
  <2>2. T # {}
    BY <1>2, FS_EmptySet
  <2>3. PICK x \in T : TRUE
    BY <2>2
  <2>4. Cardinality(T \ {x}) = k
    <3>1. Cardinality(T \ {x}) = Cardinality(T) - 1
      BY <2>1, <2>3, FS_RemoveElement
    <3>2. QED
      BY <1>2, <3>1
  <2>5. PICK n \in Nat : \A y \in T \ {x} : y <= n
    BY <1>2, <2>4
  <2>6. \A y \in T : y <= n + x /\ n + x \in Nat
    BY <2>3, <2>5
  <2>7. QED
    BY <2>3, <2>6
<1> DEFINE P == {k \in Nat : \A T \in SUBSET S : Cardinality(T) = k =>
                               \E n \in Nat : \A x \in T : x <= n}
<1>3. P = Nat
  <2>1. 0 \in P
    BY <1>1
  <2>2. ASSUME NEW k \in P
        PROVE  k + 1 \in P
    <3>1. /\ k \in Nat /\ k + 1 \in Nat
          /\ \A T \in SUBSET S : Cardinality(T) = k => \E n \in Nat : \A x \in T : x <= n
      OBVIOUS
    <3>2. \A T \in SUBSET S : Cardinality(T) = k + 1 => \E n \in Nat : \A x \in T : x <= n
      BY <1>2, <3>1
    <3>3. QED
      BY <3>1, <3>2
  <2>3. P \in SUBSET Nat
    OBVIOUS
  <2> HIDE DEF P
  <2>4. QED
    BY <2>1, <2>2, <2>3, Induct
<1>4. Cardinality(S) \in Nat
  BY FS_CardinalityType
<1>5. QED
  BY <1>3, <1>4

LEMMA MaxFinite ==
  ASSUME NEW S \in SUBSET Nat, S # {}, IsFiniteSet(S)
  PROVE  Max(S) \in S /\ \A x \in S : Max(S) >= x
BY FiniteHasBound, MaxBounded

-----------------------------------------------------------------------------
(* The invariant. *)

Ents(c) == CASE c = "mem" -> mem [] c = "imm" -> imm [] OTHER -> InRun(run)

\* The store: what a reader may see never changes.
StoreInv == sequence \in Nat /\ Arranged(mem, imm, run)

\* The entries the reader sees that are still to come, in the direction of the
\* merging iterator: no child is past them.
Reaches(p, d) == IF mdir = "forward" THEN ~Before(d, p) ELSE ~Before(p, d)
Ahead == {d \in Seen : \E c \in Children : d \in Ents(c) /\ \E p \in pos[c] : Reaches(p, d)}

\* MergingIterator: each child stands in its entries or at its end, and current is
\* the child in front.  Between the two calls that turn the memtable's iterator
\* around, no entry the reader sees is left between it and the key.
\* What is ahead has no gaps.
MergeInv ==
  /\ pos = [c \in Children |-> pos[c]]
  /\ \A c \in Children : pos[c] = {} \/ \E e \in Ents(c) : pos[c] = {e}
  /\ mdir \in {"forward", "reverse"} /\ sought \in BOOLEAN
  /\ current = IF mdir = "forward" THEN FindSmallest(pos) ELSE FindLargest(pos)
  /\ sought =>
       /\ mdir = "forward"
       /\ \A e \in Key, f \in mem :
            Visible(f) /\ ~Before(f, e) => \E p \in pos["mem"] : ~Before(f, p)
  /\ \A d \in Ahead, f \in Seen : Reaches(d, f) => f \in Ahead

\* No newer entry of its key is seen.
Newest(d) == d \in Seen /\ \A e \in Seen : e.key = d.key => e.seq <= d.seq

\* The keys a call may lead to.
Wanted ==
  {k \in Keys :
     \A c \in call : CASE c.op = "Seek" -> k >= c.target
                       [] c.op = "Next" -> \A b \in before : k > b.key
                       [] c.op = "Prev" -> \A b \in before : k < b.key
                       [] OTHER -> TRUE}

\* Between two calls.
RestForward ==
  /\ mdir = "forward" /\ ~sought
  /\ \E e \in Seen : /\ Key = {e} /\ Newest(e) /\ e.val # Deleted
                     /\ Ahead = {d \in Seen : ~Before(d, e)}

RestReverse ==
  /\ mdir = "reverse"
  /\ \E d \in Seen : /\ savedKey = {d.key} /\ savedValue = d.val
                     /\ Newest(d) /\ d.val # Deleted
                     /\ Ahead = {e \in Seen : e.key < d.key}
                     /\ \A e \in Key : Visible(e) /\ e.key < d.key

Rest == valid => IF direction = "forward" THEN RestForward ELSE RestReverse

\* What FindNextUserEntry keeps: the newest entry of a wanted key that is there
\* is neither passed nor hidden; an entry that is not hidden is of a wanted key,
\* and none of that key is passed.
Forward ==
  /\ direction = "forward" /\ mdir = "forward" /\ ~sought
  /\ \A d \in Seen :
       Newest(d) /\ d.val # Deleted /\ d.key \in Wanted => d \in Ahead /\ ~Hidden(d)
  /\ \A d \in Ahead :
       ~Hidden(d) =>
         d.key \in Wanted /\ \A e \in Seen : e.key = d.key => e \in Ahead
  /\ skipping => \A d \in Ahead : \E k \in savedKey : k <= d.key

\* What the loop of Prev keeps.
Leaving ==
  /\ direction = "forward"
  /\ \E b \in before :
       /\ before = {b} /\ savedKey = {b.key}
       /\ IF mdir = "forward" THEN \E e \in Seen : Key = {e} /\ e.key = b.key
          ELSE /\ \A d \in Seen : d.key < b.key => d \in Ahead
               /\ \A e \in Key : ~(e.key < b.key)

\* What FindPrevUserEntry keeps, of the wanted entries it has passed: if the newest
\* passed of a key is a value, it is the one saved, and no lower key is passed.
Passed == {d \in Seen : d.key \in Wanted /\ d \notin Ahead}
Backward ==
  /\ direction = "reverse" /\ mdir = "reverse"
  /\ \A d \in Ahead : d.key \in Wanted
  /\ \A d \in Passed :
       (\A e \in Passed : e.key = d.key => e.seq <= d.seq) /\ d.val # Deleted =>
         valueType = "value" /\ savedKey = {d.key} /\ savedValue = d.val
  /\ valueType = "value" =>
       \E d \in Passed : /\ d.val # Deleted /\ savedKey = {d.key} /\ savedValue = d.val
                         /\ \A e \in Passed : e.key = d.key => e.seq <= d.seq
                         /\ \A e \in Passed : d.key <= e.key

CallInv ==
  /\ pc = "idle" <=> call = {}
  /\ call = {} \/ \E c \in Calls : call = {c}
  /\ \A c \in call :
       /\ pc \in {c.op, "FindNext", "FindPrev", "Leave"}
       /\ pc = c.op => before = Shown /\ (c.op \in {"Next", "Prev"} => valid)
       /\ pc = "FindNext" => c.op \in {"SeekToFirst", "Seek", "Next"}
       /\ pc = "FindPrev" => c.op \in {"SeekToLast", "Prev"}
       /\ pc = "Leave" => c.op = "Prev"
       /\ c.op \in {"Next", "Prev"} => \E k \in Keys, v \in 0 .. MaxSeq : before = {Pair(k, v)}

\* DBIter's members and locals.
MembersTyped ==
  /\ direction \in {"forward", "reverse"} /\ valid \in BOOLEAN /\ skipping \in BOOLEAN
  /\ savedKey = {} \/ \E k \in Keys : savedKey = {k}
  /\ savedValue \in 0 .. MaxSeq
  /\ valueType \in {"value", "deletion"}

LoopInv ==
  CASE pc = "FindNext" -> Forward
    [] pc = "Leave" -> Leaving
    [] pc = "FindPrev" -> Backward
    [] OTHER -> Rest

IInv == StoreInv /\ MergeInv /\ MembersTyped /\ CallInv /\ LoopInv

-----------------------------------------------------------------------------
(* The order of the entries. *)

Points == [key : Nat, seq : Nat, val : Nat]

LEMMA BeforeOrder ==
  ASSUME NEW a \in Points, NEW b \in Points, NEW c \in Points
  PROVE  /\ ~Before(a, a)
         /\ Before(a, b) => ~Before(b, a)
         /\ Before(a, b) /\ Before(b, c) => Before(a, c)
         /\ Before(a, b) /\ ~Before(c, b) => Before(a, c)
         /\ ~Before(b, a) /\ Before(b, c) => Before(a, c)
         /\ ~Before(a, b) /\ ~Before(b, c) => ~Before(a, c)
BY DEF Before, Points

\* Sets of entries told apart by their numbers.
Entries == [key : Keys, seq : 1 .. MaxSeq, val : 0 .. MaxSeq]
Numbered(S) == S \subseteq Entries /\ \A d, e \in S : d.seq = e.seq => d = e

LEMMA EntriesArePoints == Entries \subseteq Points
<1> SUFFICES ASSUME NEW e \in Entries PROVE e \in Points
  OBVIOUS
<1>1. /\ e = [key |-> e.key, seq |-> e.seq, val |-> e.val]
      /\ e.key \in Keys /\ e.seq \in 1 .. MaxSeq /\ e.val \in 0 .. MaxSeq
  BY DEF Entries
<1>2. e.key \in Nat /\ e.seq \in Nat /\ e.val \in Nat
  BY <1>1, KeysAssumption
<1>3. QED
  BY <1>1, <1>2 DEF Points

LEMMA Total ==
  ASSUME NEW S, Numbered(S), NEW d \in S, NEW e \in S, ~Before(d, e), ~Before(e, d)
  PROVE  d = e
<1>1. d \in Points /\ e \in Points
  BY EntriesArePoints DEF Numbered
<1>2. d.seq = e.seq
  BY <1>1 DEF Before, Points
<1>3. QED
  BY <1>2 DEF Numbered

LEMMA SmallestFacts ==
  ASSUME NEW S, Numbered(S)
  PROVE  /\ S = {} => Smallest(S) = {}
         /\ S # {} => \E e \in S : Smallest(S) = {e} /\ \A d \in S : ~Before(d, e)
<1>1. S = {} => Smallest(S) = {}
  BY DEF Smallest
<1>2. ASSUME S # {}
      PROVE  \E e \in S : Smallest(S) = {e} /\ \A d \in S : ~Before(d, e)
  <2>1. S \subseteq Points /\ \A d \in S : d.seq \in 1 .. MaxSeq /\ MaxSeq \in Nat
    BY EntriesArePoints, KeysAssumption DEF Numbered, Entries
  <2> DEFINE Ks == {d.key : d \in S}
  <2>2. PICK k \in Ks : \A j \in Ks : k <= j
    <3>1. Ks \in SUBSET Nat /\ Ks # {}
      BY <1>2, <2>1 DEF Points
    <3> HIDE DEF Ks
    <3>2. QED
      BY <3>1, LeastElement
  <2> DEFINE Gaps == {MaxSeq - d.seq : d \in {x \in S : x.key = k}}
  <2>3. PICK g \in Gaps : \A h \in Gaps : g <= h
    <3>1. Gaps \in SUBSET Nat
      BY <2>1 DEF Points
    <3>2. Gaps # {}
      BY <2>2
    <3> HIDE DEF Gaps
    <3>3. QED
      BY <3>1, <3>2, LeastElement
  <2>4. PICK e \in S : e.key = k /\ g = MaxSeq - e.seq
    BY <2>3
  <2>5. ASSUME NEW d \in S
        PROVE  ~Before(d, e)
    <3>1. k <= d.key /\ (d.key = k => MaxSeq - e.seq <= MaxSeq - d.seq)
      BY <2>2, <2>3, <2>4
    <3>2. /\ d.key \in Nat /\ d.seq \in Nat /\ e.seq \in Nat /\ MaxSeq \in Nat /\ e.key = k
          /\ e.key \in Nat
      BY <2>1, <2>4 DEF Points
    <3>3. QED
      BY <3>1, <3>2 DEF Before
  <2>6. \A d \in S \ {e} : Before(e, d)
    BY <2>5, Total
  <2>7. \A d \in S : (\A x \in S \ {d} : Before(d, x)) => d = e
    BY <2>5
  <2>8. Smallest(S) = {e}
    BY <2>6, <2>7 DEF Smallest
  <2>9. QED
    BY <2>5, <2>8
<1>3. QED
  BY <1>1, <1>2

LEMMA LargestFacts ==
  ASSUME NEW S, Numbered(S)
  PROVE  /\ S = {} => Largest(S) = {}
         /\ S # {} => \E e \in S : Largest(S) = {e} /\ \A d \in S : ~Before(e, d)
<1>1. S = {} => Largest(S) = {}
  BY DEF Largest
<1>2. ASSUME S # {}
      PROVE  \E e \in S : Largest(S) = {e} /\ \A d \in S : ~Before(e, d)
  <2>1. S \subseteq Points /\ \A d \in S : d.key \in Keys
    BY EntriesArePoints DEF Numbered, Entries
  <2> DEFINE Ks == {d.key : d \in S}
  <2>2. PICK k \in Ks : \A j \in Ks : k >= j
    <3>1. Ks \in SUBSET Nat /\ Ks # {} /\ IsFiniteSet(Ks)
      <4>1. Ks \subseteq Keys /\ Ks # {}
        BY <1>2, <2>1
      <4> HIDE DEF Ks
      <4>2. QED
        BY <4>1, KeysAssumption, FS_Subset
    <3> HIDE DEF Ks
    <3>2. QED
      BY <3>1, MaxFinite
  <2> DEFINE Seqs == {d.seq : d \in {x \in S : x.key = k}}
  <2>3. PICK g \in Seqs : \A h \in Seqs : g <= h
    <3>1. Seqs \in SUBSET Nat
      BY <2>1 DEF Points
    <3>2. Seqs # {}
      BY <2>2
    <3> HIDE DEF Seqs
    <3>3. QED
      BY <3>1, <3>2, LeastElement
  <2>4. PICK e \in S : e.key = k /\ g = e.seq
    BY <2>3
  <2>5. ASSUME NEW d \in S
        PROVE  ~Before(e, d)
    <3>1. k >= d.key /\ (d.key = k => e.seq <= d.seq)
      BY <2>2, <2>3, <2>4
    <3>2. d.key \in Nat /\ d.seq \in Nat /\ e.seq \in Nat /\ e.key = k /\ e.key \in Nat
      BY <2>1, <2>4 DEF Points
    <3>3. QED
      BY <3>1, <3>2 DEF Before
  <2>6. \A d \in S \ {e} : Before(d, e)
    BY <2>5, Total
  <2>7. \A d \in S : (\A x \in S \ {d} : Before(x, d)) => d = e
    BY <2>5
  <2>8. Largest(S) = {e}
    BY <2>6, <2>7 DEF Largest
  <2>9. QED
    BY <2>5, <2>8
<1>3. QED
  BY <1>1, <1>2

LEMMA NumberedSubset ==
  ASSUME NEW S, NEW T \in SUBSET S, Numbered(S)
  PROVE  Numbered(T)
BY DEF Numbered

\* Seen from the smallest element of a part that has no gaps above it, that part
\* is what stands at it or after it.
LEMMA SmallestReach ==
  ASSUME NEW S, Numbered(S), NEW T \in SUBSET S,
         \A x \in T, y \in S : ~Before(y, x) => y \in T,
         NEW d \in S
  PROVE  d \in T <=> \E x \in Smallest(T) : ~Before(d, x)
BY SmallestFacts, NumberedSubset

LEMMA LargestReach ==
  ASSUME NEW S, Numbered(S), NEW T \in SUBSET S,
         \A x \in T, y \in S : ~Before(x, y) => y \in T,
         NEW d \in S
  PROVE  d \in T <=> \E x \in Largest(T) : ~Before(x, d)
BY LargestFacts, NumberedSubset

-----------------------------------------------------------------------------
(* The children.  Each is a walk over a set of entries, in their order. *)

LEMMA StoreFacts ==
  ASSUME StoreInv
  PROVE  /\ Numbered(All) /\ All \subseteq Points
         /\ \A c \in Children : Ents(c) \subseteq All /\ Numbered(Ents(c))
         /\ \A d \in All : \E c \in Children : d \in Ents(c)
         /\ \A b, c \in Children : b # c => Ents(b) \cap Ents(c) = {}
         /\ Ents("mem") = mem /\ Ents("imm") = imm /\ Ents("run") = InRun(run)
<1>1. All = mem \cup imm \cup InRun(run)
  BY DEF All
<1>2. /\ All \subseteq Entries /\ \A d, e \in All : d.seq = e.seq => d = e
      /\ mem \cap imm = {} /\ mem \cap InRun(run) = {} /\ imm \cap InRun(run) = {}
  BY <1>1 DEF StoreInv, Arranged, Entries
<1>3. Numbered(All) /\ All \subseteq Points
  BY <1>2, EntriesArePoints DEF Numbered
<1>4. Ents("mem") = mem /\ Ents("imm") = imm /\ Ents("run") = InRun(run)
  BY DEF Ents
<1>5. /\ \A c \in Children : Ents(c) \subseteq All
      /\ \A d \in All : \E c \in Children : d \in Ents(c)
  BY <1>1, <1>4 DEF Children
<1>6. \A b, c \in Children : b # c => Ents(b) \cap Ents(c) = {}
  BY <1>2, <1>4 DEF Children
<1>7. \A c \in Children : Numbered(Ents(c))
  BY <1>3, <1>5, NumberedSubset
<1>8. QED
  BY <1>3, <1>4, <1>5, <1>6, <1>7

LEMMA RunFacts ==
  ASSUME StoreInv
  PROVE  /\ Len(run) \in Nat /\ DOMAIN run = 1 .. Len(run)
         /\ \A i \in 1 .. Len(run) :
              /\ run[i].ents \subseteq InRun(run) /\ run[i].ents # {}
              /\ run[i].sep \in Points /\ run[i].ents \subseteq Points
              /\ Numbered(run[i].ents)
              /\ \A e \in run[i].ents : ~Before(run[i].sep, e)
              /\ \A j \in i + 1 .. Len(run) : \A e \in run[j].ents : Before(run[i].sep, e)
         /\ InRun(run) \subseteq Points /\ Numbered(InRun(run))
         /\ \A e \in InRun(run) : \E i \in 1 .. Len(run) : e \in run[i].ents
<1> DEFINE all == mem \cup imm \cup InRun(run)
<1>1. /\ run \in Seq([ents : (SUBSET all) \ {{}}, sep : Points])
      /\ \A i \in DOMAIN run :
           /\ \A e \in run[i].ents : ~Before(run[i].sep, e)
           /\ \A j \in i + 1 .. Len(run) : \A e \in run[j].ents : Before(run[i].sep, e)
  BY DEF StoreInv, Arranged, Points
<1>2. Len(run) \in Nat /\ DOMAIN run = 1 .. Len(run)
  BY <1>1
<1>3. /\ \A i \in 1 .. Len(run) : run[i].ents \subseteq InRun(run)
      /\ \A e \in InRun(run) : \E i \in 1 .. Len(run) : e \in run[i].ents
  BY <1>2 DEF InRun, Range
<1>4. ASSUME NEW i \in 1 .. Len(run)
      PROVE  run[i].ents # {} /\ run[i].sep \in Points
  <2> DEFINE Block == [ents : (SUBSET all) \ {{}}, sep : Points]
  <2>1. run \in Seq(Block)
    BY <1>1
  <2>2. run[i] \in Block
    <3> HIDE DEF Block
    <3>1. QED
      BY <1>2, <2>1
  <2>3. run[i].ents \in (SUBSET all) \ {{}} /\ run[i].sep \in Points
    BY <2>2 DEF Block
  <2>4. QED
    BY <2>3
<1>5. InRun(run) \subseteq Points /\ Numbered(InRun(run))
  BY StoreFacts DEF Children
<1>6. \A i \in 1 .. Len(run) : Numbered(run[i].ents) /\ run[i].ents \subseteq Points
  BY <1>3, <1>5, NumberedSubset
<1>7. QED
  BY <1>1, <1>2, <1>3, <1>4, <1>5, <1>6

\* The blocks follow each other.
LEMMA BlocksInOrder ==
  ASSUME StoreInv, NEW i \in 1 .. Len(run), NEW j \in 1 .. Len(run), i < j,
         NEW d \in run[i].ents, NEW e \in run[j].ents
  PROVE  Before(d, e)
<1>1. /\ ~Before(run[i].sep, d) /\ Before(run[i].sep, e)
      /\ run[i].sep \in Points /\ d \in Points /\ e \in Points
  BY RunFacts
<1>2. QED
  BY <1>1, BeforeOrder

LEMMA SmallestIs ==
  ASSUME NEW S, Numbered(S), NEW e \in S, \A d \in S : ~Before(d, e)
  PROVE  Smallest(S) = {e}
BY SmallestFacts, Total

LEMMA LargestIs ==
  ASSUME NEW S, Numbered(S), NEW e \in S, \A d \in S : ~Before(e, d)
  PROVE  Largest(S) = {e}
BY LargestFacts, Total

\* The smallest of what is in a block and in all later ones.
LEMMA Onward ==
  ASSUME StoreInv, NEW i \in 1 .. Len(run), NEW T \in SUBSET InRun(run),
         \A j \in 1 .. Len(run) : j < i => T \cap run[j].ents = {},
         \A j \in 1 .. Len(run) : i < j => run[j].ents \subseteq T
  PROVE  OnwardFrom(Smallest(T \cap run[i].ents), i) = Smallest(T)
<1> DEFINE here == T \cap run[i].ents
<1>1. Numbered(T) /\ Numbered(here)
  BY RunFacts, NumberedSubset
<1>2. \A d \in T : \E j \in 1 .. Len(run) : j >= i /\ d \in run[j].ents
  <2> SUFFICES ASSUME NEW d \in T
               PROVE  \E j \in 1 .. Len(run) : j >= i /\ d \in run[j].ents
    OBVIOUS
  <2>1. PICK j \in 1 .. Len(run) : d \in run[j].ents
    BY RunFacts
  <2>2. j \in Int /\ i \in Int /\ ~(j < i)
    BY <2>1
  <2>3. QED
    BY <2>1, <2>2
<1>3. CASE here # {}
  <2>1. PICK e \in here : Smallest(here) = {e} /\ \A d \in here : ~Before(d, e)
    BY <1>1, <1>3, SmallestFacts
  <2>2. ASSUME NEW d \in T
        PROVE  ~Before(d, e)
    <3>1. PICK j \in 1 .. Len(run) : j >= i /\ d \in run[j].ents
      BY <1>2
    <3>2. CASE j = i
      BY <2>1, <3>1, <3>2
    <3>3. CASE j # i
      <4>1. i < j
        BY <3>1, <3>3
      <4>2. Before(e, d) /\ e \in Points /\ d \in Points
        BY <3>1, <4>1, BlocksInOrder, RunFacts
      <4>3. QED
        BY <4>2, BeforeOrder
    <3>4. QED
      BY <3>2, <3>3
  <2>3. Smallest(T) = {e}
    BY <1>1, <2>2, SmallestIs
  <2>4. QED
    BY <2>1, <2>3 DEF OnwardFrom
<1>4. CASE here = {} /\ i < Len(run)
  <2>1. i + 1 \in 1 .. Len(run) /\ i < i + 1
    BY <1>4, RunFacts
  <2>2. PICK e \in run[i + 1].ents :
          Smallest(run[i + 1].ents) = {e} /\ \A d \in run[i + 1].ents : ~Before(d, e)
    <3>1. Numbered(run[i + 1].ents) /\ run[i + 1].ents # {}
      BY <2>1, RunFacts
    <3>2. QED
      BY <3>1, SmallestFacts
  <2>3. e \in T
    BY <2>1, <2>2
  <2>4. ASSUME NEW d \in T
        PROVE  ~Before(d, e)
    <3>1. PICK j \in 1 .. Len(run) : j >= i /\ d \in run[j].ents
      BY <1>2
    <3>2. j # i
      BY <1>4, <3>1
    <3>3. CASE j = i + 1
      BY <2>2, <3>1, <3>3
    <3>4. CASE j # i + 1
      <4>1. i + 1 < j
        BY <3>1, <3>2, <3>4
      <4>2. Before(e, d) /\ e \in Points /\ d \in Points
        BY <2>1, <2>2, <3>1, <4>1, BlocksInOrder, RunFacts
      <4>3. QED
        BY <4>2, BeforeOrder
    <3>5. QED
      BY <3>3, <3>4
  <2>5. Smallest(T) = {e}
    BY <1>1, <2>3, <2>4, SmallestIs
  <2>6. Smallest(here) = {}
    BY <1>1, <1>4, SmallestFacts
  <2>7. QED
    BY <1>4, <2>2, <2>5, <2>6 DEF OnwardFrom
<1>5. CASE here = {} /\ ~(i < Len(run))
  <2>1. T = {}
    <3> SUFFICES ASSUME NEW d \in T PROVE FALSE
      OBVIOUS
    <3>1. PICK j \in 1 .. Len(run) : j >= i /\ d \in run[j].ents
      BY <1>2
    <3>2. j = i
      BY <1>5, <3>1, RunFacts
    <3>3. QED
      BY <1>5, <3>1, <3>2
  <2>2. Smallest(here) = {} /\ Smallest(T) = {}
    BY <1>1, <1>5, <2>1, SmallestFacts
  <2>3. QED
    BY <1>5, <2>2 DEF OnwardFrom
<1>6. QED
  BY <1>3, <1>4, <1>5

\* The largest of what is in a block and in all earlier ones.
LEMMA Backwards ==
  ASSUME StoreInv, NEW i \in 1 .. Len(run), NEW T \in SUBSET InRun(run),
         \A j \in 1 .. Len(run) : i < j => T \cap run[j].ents = {},
         \A j \in 1 .. Len(run) : j < i => run[j].ents \subseteq T
  PROVE  BackFrom(Largest(T \cap run[i].ents), i) = Largest(T)
<1> DEFINE here == T \cap run[i].ents
<1>1. Numbered(T) /\ Numbered(here)
  BY RunFacts, NumberedSubset
<1>2. \A d \in T : \E j \in 1 .. Len(run) : j <= i /\ d \in run[j].ents
  <2> SUFFICES ASSUME NEW d \in T
               PROVE  \E j \in 1 .. Len(run) : j <= i /\ d \in run[j].ents
    OBVIOUS
  <2>1. PICK j \in 1 .. Len(run) : d \in run[j].ents
    BY RunFacts
  <2>2. j \in Int /\ i \in Int /\ ~(i < j)
    BY <2>1
  <2>3. QED
    BY <2>1, <2>2
<1>3. CASE here # {}
  <2>1. PICK e \in here : Largest(here) = {e} /\ \A d \in here : ~Before(e, d)
    BY <1>1, <1>3, LargestFacts
  <2>2. ASSUME NEW d \in T
        PROVE  ~Before(e, d)
    <3>1. PICK j \in 1 .. Len(run) : j <= i /\ d \in run[j].ents
      BY <1>2
    <3>2. CASE j = i
      BY <2>1, <3>1, <3>2
    <3>3. CASE j # i
      <4>1. j < i
        BY <3>1, <3>3
      <4>2. Before(d, e) /\ e \in Points /\ d \in Points
        BY <3>1, <4>1, BlocksInOrder, RunFacts
      <4>3. QED
        BY <4>2, BeforeOrder
    <3>4. QED
      BY <3>2, <3>3
  <2>3. Largest(T) = {e}
    BY <1>1, <2>2, LargestIs
  <2>4. QED
    BY <2>1, <2>3 DEF BackFrom
<1>4. CASE here = {} /\ i > 1
  <2>1. i - 1 \in 1 .. Len(run) /\ i - 1 < i
    <3>1. Len(run) \in Nat /\ i \in Int
      BY RunFacts
    <3>2. QED
      BY <1>4, <3>1
  <2>2. PICK e \in run[i - 1].ents :
          Largest(run[i - 1].ents) = {e} /\ \A d \in run[i - 1].ents : ~Before(e, d)
    <3>1. run[i - 1].ents # {} /\ Numbered(run[i - 1].ents)
      BY <2>1, RunFacts
    <3>2. QED
      BY <3>1, LargestFacts
  <2>3. e \in T
    BY <2>1, <2>2
  <2>4. ASSUME NEW d \in T
        PROVE  ~Before(e, d)
    <3>1. PICK j \in 1 .. Len(run) : j <= i /\ d \in run[j].ents
      BY <1>2
    <3>2. j # i
      BY <1>4, <3>1
    <3>3. CASE j = i - 1
      BY <2>2, <3>1, <3>3
    <3>4. CASE j # i - 1
      <4>1. j < i - 1
        BY <3>1, <3>2, <3>4
      <4>2. Before(d, e) /\ e \in Points /\ d \in Points
        BY <2>1, <2>2, <3>1, <4>1, BlocksInOrder, RunFacts
      <4>3. QED
        BY <4>2, BeforeOrder
    <3>5. QED
      BY <3>3, <3>4
  <2>5. Largest(T) = {e}
    BY <1>1, <2>3, <2>4, LargestIs
  <2>6. Largest(here) = {}
    BY <1>1, <1>4, LargestFacts
  <2>7. QED
    BY <1>4, <2>2, <2>5, <2>6 DEF BackFrom
<1>5. CASE here = {} /\ ~(i > 1)
  <2>1. T = {}
    <3> SUFFICES ASSUME NEW d \in T PROVE FALSE
      OBVIOUS
    <3>1. PICK j \in 1 .. Len(run) : j <= i /\ d \in run[j].ents
      BY <1>2
    <3>2. j = i
      BY <1>5, <3>1
    <3>3. QED
      BY <1>5, <3>1, <3>2
  <2>2. Largest(here) = {} /\ Largest(T) = {}
    BY <1>1, <1>5, <2>1, LargestFacts
  <2>3. QED
    BY <1>5, <2>2 DEF BackFrom
<1>6. QED
  BY <1>3, <1>4, <1>5

LEMMA RunSeeks ==
  ASSUME StoreInv, NEW t \in Points
  PROVE  RunSeek(t) = Smallest({e \in InRun(run) : ~Before(e, t)})
<1> DEFINE T == {e \in InRun(run) : ~Before(e, t)}
           I == {i \in 1 .. Len(run) : ~Before(run[i].sep, t)}
           i == SelectInSeq(run, LAMBDA b : ~Before(b.sep, t))
<1>1. i = IF I # {} THEN Min(I) ELSE 0
  BY DEF SelectInSeq
<1>2. CASE I = {}
  <2>1. ASSUME NEW e \in InRun(run)
        PROVE  Before(e, t)
    <3>1. PICK j \in 1 .. Len(run) : e \in run[j].ents
      BY RunFacts
    <3>2. /\ Before(run[j].sep, t) /\ ~Before(run[j].sep, e)
          /\ run[j].sep \in Points /\ e \in Points
      BY <1>2, <3>1, RunFacts
    <3>3. QED
      BY <3>2, BeforeOrder
  <2>2. T = {} /\ Numbered(T)
    BY <2>1 DEF Numbered
  <2>3. Smallest(T) = {}
    BY <2>2, SmallestFacts
  <2>4. RunSeek(t) = {}
    BY <1>1, <1>2 DEF RunSeek
  <2>5. QED
    BY <2>3, <2>4
<1>3. CASE I # {}
  <2>1. i \in I /\ \A j \in I : i <= j
    <3>1. I \in SUBSET Nat
      BY RunFacts
    <3> HIDE DEF I
    <3>2. PICK m \in I : \A j \in I : m <= j
      BY <1>3, <3>1, LeastElement
    <3>3. Min(I) \in I /\ \A j \in I : Min(I) <= j
      BY <3>2 DEF Min
    <3>4. QED
      BY <1>1, <1>3, <3>3
  <2>2. i \in 1 .. Len(run) /\ ~Before(run[i].sep, t) /\ i # 0
    BY <2>1
  <2>3. RunSeek(t) = OnwardFrom(SeekIn(run[i].ents, t), i)
    BY <2>2 DEF RunSeek
  <2> HIDE DEF i
  <2>4. ASSUME NEW j \in 1 .. Len(run), j < i
        PROVE  T \cap run[j].ents = {}
    <3>1. Before(run[j].sep, t)
      BY <2>1, <2>2, <2>4
    <3>2. ASSUME NEW e \in run[j].ents
          PROVE  Before(e, t)
      <4>1. ~Before(run[j].sep, e) /\ run[j].sep \in Points /\ e \in Points
        BY RunFacts
      <4>2. QED
        BY <3>1, <4>1, BeforeOrder
    <3>3. QED
      BY <3>2
  <2>5. ASSUME NEW j \in 1 .. Len(run), i < j
        PROVE  run[j].ents \subseteq T
    <3> SUFFICES ASSUME NEW e \in run[j].ents PROVE e \in T
      OBVIOUS
    <3>1. j \in i + 1 .. Len(run)
      BY <2>2, <2>5, RunFacts
    <3>2. /\ Before(run[i].sep, e) /\ run[i].sep \in Points /\ e \in Points
          /\ e \in InRun(run)
      BY <2>2, <3>1, RunFacts
    <3>3. ~Before(e, t)
      BY <2>2, <3>2, BeforeOrder
    <3>4. QED
      BY <3>2, <3>3
  <2>6. SeekIn(run[i].ents, t) = Smallest(T \cap run[i].ents)
    <3>1. {e \in run[i].ents : ~Before(e, t)} = T \cap run[i].ents
      BY <2>2, RunFacts
    <3>2. QED
      BY <3>1 DEF SeekIn
  <2>7. T \in SUBSET InRun(run)
    OBVIOUS
  <2> HIDE DEF T
  <2>8. OnwardFrom(Smallest(T \cap run[i].ents), i) = Smallest(T)
    BY <2>2, <2>4, <2>5, <2>7, Onward
  <2>9. QED
    BY <2>3, <2>6, <2>8 DEF T
<1>4. QED
  BY <1>2, <1>3

LEMMA RunMoves ==
  ASSUME StoreInv, NEW e \in InRun(run)
  PROVE  /\ RunNext(e) = Smallest({d \in InRun(run) : Before(e, d)})
         /\ RunPrev(e) = Largest({d \in InRun(run) : Before(d, e)})
<1> DEFINE i == BlockOf(e)
           Above == {d \in InRun(run) : Before(e, d)}
           Below == {d \in InRun(run) : Before(d, e)}
<1>1. i \in 1 .. Len(run) /\ e \in run[i].ents
  BY RunFacts DEF BlockOf
<1> HIDE DEF i
<1>2. \A j \in 1 .. Len(run) : j < i => \A d \in run[j].ents : Before(d, e) /\ ~Before(e, d)
  BY <1>1, BlocksInOrder, RunFacts, BeforeOrder
<1>3. \A j \in 1 .. Len(run) : i < j => \A d \in run[j].ents : Before(e, d) /\ ~Before(d, e)
  BY <1>1, BlocksInOrder, RunFacts, BeforeOrder
<1>4. /\ \A j \in 1 .. Len(run) : j < i => Above \cap run[j].ents = {} /\ run[j].ents \subseteq Below
      /\ \A j \in 1 .. Len(run) : i < j => Below \cap run[j].ents = {} /\ run[j].ents \subseteq Above
  BY <1>2, <1>3, RunFacts
<1>5. /\ NextIn(run[i].ents, e) = Smallest(Above \cap run[i].ents)
      /\ PrevIn(run[i].ents, e) = Largest(Below \cap run[i].ents)
  <2>1. /\ {d \in run[i].ents : Before(e, d)} = Above \cap run[i].ents
        /\ {d \in run[i].ents : Before(d, e)} = Below \cap run[i].ents
    BY <1>1, RunFacts
  <2>2. QED
    BY <2>1 DEF NextIn, PrevIn
<1>6. Above \in SUBSET InRun(run) /\ Below \in SUBSET InRun(run)
  OBVIOUS
<1> HIDE DEF Above, Below
<1>7. /\ OnwardFrom(Smallest(Above \cap run[i].ents), i) = Smallest(Above)
      /\ BackFrom(Largest(Below \cap run[i].ents), i) = Largest(Below)
  BY <1>1, <1>4, <1>6, Onward, Backwards
<1>8. QED
  BY <1>5, <1>7 DEF RunNext, RunPrev, i, Above, Below

LEMMA RunEnds ==
  ASSUME StoreInv, run # <<>>
  PROVE  /\ Smallest(run[1].ents) = Smallest(InRun(run))
         /\ Largest(run[Len(run)].ents) = Largest(InRun(run))
<1>1. 1 \in 1 .. Len(run) /\ Len(run) \in 1 .. Len(run)
  BY RunFacts DEF StoreInv, Arranged
<1> DEFINE S == run[1].ents
           L == run[Len(run)].ents
<1>2. /\ Numbered(S) /\ S # {} /\ S \subseteq Points /\ S \subseteq InRun(run)
      /\ Numbered(L) /\ L # {} /\ L \subseteq Points /\ L \subseteq InRun(run)
      /\ Numbered(InRun(run)) /\ InRun(run) \subseteq Points
  BY <1>1, RunFacts
<1>3. PICK e \in S : Smallest(S) = {e} /\ \A d \in S : ~Before(d, e)
  BY <1>2, SmallestFacts
<1>4. \A d \in InRun(run) : ~Before(d, e)
  <2> SUFFICES ASSUME NEW d \in InRun(run) PROVE ~Before(d, e)
    OBVIOUS
  <2>1. PICK j \in 1 .. Len(run) : d \in run[j].ents
    BY RunFacts
  <2>2. j = 1 \/ 1 < j
    BY RunFacts
  <2>3. ASSUME 1 < j PROVE Before(e, d)
    BY <1>1, <2>1, <2>3, BlocksInOrder
  <2>4. QED
    BY <1>2, <1>3, <2>1, <2>2, <2>3, BeforeOrder
<1>5. PICK l \in L : Largest(L) = {l} /\ \A d \in L : ~Before(l, d)
  BY <1>2, LargestFacts
<1>6. \A d \in InRun(run) : ~Before(l, d)
  <2> SUFFICES ASSUME NEW d \in InRun(run) PROVE ~Before(l, d)
    OBVIOUS
  <2>1. PICK j \in 1 .. Len(run) : d \in run[j].ents
    BY RunFacts
  <2>2. j = Len(run) \/ j < Len(run)
    <3>1. Len(run) \in Nat /\ j \in 1 .. Len(run)
      BY RunFacts
    <3>2. QED
      BY <3>1
  <2>3. ASSUME j < Len(run) PROVE Before(d, l)
    BY <1>1, <2>1, <2>3, BlocksInOrder
  <2>4. QED
    BY <1>2, <1>5, <2>1, <2>2, <2>3, BeforeOrder
<1>7. e \in InRun(run) /\ l \in InRun(run)
  BY <1>2
<1>8. Smallest(InRun(run)) = {e} /\ Largest(InRun(run)) = {l}
  BY <1>2, <1>4, <1>6, <1>7, SmallestIs, LargestIs
<1>9. QED
  BY <1>3, <1>5, <1>8

\* Each child, by the set of its entries.
From(S, t) == {e \in S : ~Before(e, t)}
Above(S, d) == {e \in S : Before(d, e)}
Below(S, d) == {e \in S : Before(e, d)}

LEMMA ChildSeeks ==
  ASSUME StoreInv, NEW c \in Children, NEW t \in Points
  PROVE  ChildSeek(c, t) = Smallest(From(Ents(c), t))
BY RunSeeks, StoreFacts DEF ChildSeek, SeekIn, List, Children, From

LEMMA ChildMoves ==
  ASSUME StoreInv, NEW c \in Children, NEW e \in Ents(c)
  PROVE  /\ ChildNext(c, e) = Smallest(Above(Ents(c), e))
         /\ ChildPrev(c, e) = Largest(Below(Ents(c), e))
BY RunMoves, StoreFacts DEF ChildNext, ChildPrev, NextIn, PrevIn, List, Children, Above, Below

LEMMA ChildEnds ==
  ASSUME StoreInv, NEW c \in Children
  PROVE  ChildFirst(c) = Smallest(Ents(c)) /\ ChildLast(c) = Largest(Ents(c))
<1>1. CASE c = "mem" \/ c = "imm"
  <2>1. ChildFirst(c) = Smallest(List(c)) /\ ChildLast(c) = Largest(List(c))
    BY <1>1 DEF ChildFirst, ChildLast
  <2>2. List(c) = Ents(c)
    BY <1>1, StoreFacts DEF List
  <2>3. QED
    BY <2>1, <2>2
<1>2. CASE c = "run" /\ run # <<>>
  BY <1>2, StoreFacts, RunEnds DEF ChildFirst, ChildLast
<1>3. CASE c = "run" /\ run = <<>>
  <2>1. InRun(run) = {}
    BY <1>3 DEF InRun, Range
  <2>2. Smallest(InRun(run)) = {} /\ Largest(InRun(run)) = {}
    BY <2>1 DEF Smallest, Largest
  <2>3. QED
    BY <1>3, <2>2, StoreFacts DEF ChildFirst, ChildLast
<1>4. QED
  BY <1>1, <1>2, <1>3 DEF Children

-----------------------------------------------------------------------------
(* The merging iterator. *)

\* Where the children may stand.
Standing(p) ==
  /\ p = [c \in Children |-> p[c]]
  /\ \A c \in Children : p[c] = {} \/ \E e \in Ents(c) : p[c] = {e}

LEMMA FrontOf ==
  ASSUME StoreInv, NEW p, Standing(p)
  PROVE  /\ \A c \in Children : p[c] \subseteq UNION Range(p)
         /\ \A e \in UNION Range(p) : \E c \in Children : e \in p[c]
         /\ Numbered(UNION Range(p))
         /\ \A b, c \in Children : b # c => p[b] \cap p[c] = {}
<1>1. Range(p) = {p[c] : c \in Children}
  BY DEF Standing, Range
<1>2. /\ \A c \in Children : p[c] \subseteq UNION Range(p)
      /\ \A e \in UNION Range(p) : \E c \in Children : e \in p[c]
  BY <1>1
<1>3. \A c \in Children : p[c] \subseteq Ents(c)
  BY DEF Standing
<1>4. UNION Range(p) \subseteq All
  BY <1>2, <1>3, StoreFacts
<1>5. QED
  BY <1>2, <1>3, <1>4, StoreFacts, NumberedSubset

LEMMA SmallestInFront ==
  ASSUME StoreInv, NEW p, Standing(p)
  PROVE  \/ FindSmallest(p) = {} /\ \A c \in Children : p[c] = {}
         \/ \E c \in Children : \E e \in Ents(c) :
              /\ FindSmallest(p) = {c} /\ p[c] = {e}
              /\ \A b \in Children : \A x \in p[b] : ~Before(x, e)
<1> DEFINE U == UNION Range(p)
<1>1. CASE U = {}
  BY <1>1, FrontOf DEF FindSmallest
<1>2. CASE U # {}
  <2>1. PICK e \in U : Smallest(U) = {e} /\ \A x \in U : ~Before(x, e)
    BY <1>2, FrontOf, SmallestFacts
  <2>2. PICK c \in Children : e \in p[c]
    BY FrontOf
  <2>3. p[c] = {e} /\ e \in Ents(c)
    BY <2>2 DEF Standing
  <2>4. \A b \in Children : p[b] = {e} => b = c
    BY <2>3, FrontOf
  <2>5. FindSmallest(p) = {c}
    BY <2>1, <2>3, <2>4 DEF FindSmallest
  <2>6. \A b \in Children : \A x \in p[b] : ~Before(x, e)
    BY <2>1, FrontOf
  <2>7. QED
    BY <2>3, <2>5, <2>6
<1>3. QED
  BY <1>1, <1>2

LEMMA LargestInFront ==
  ASSUME StoreInv, NEW p, Standing(p)
  PROVE  \/ FindLargest(p) = {} /\ \A c \in Children : p[c] = {}
         \/ \E c \in Children : \E e \in Ents(c) :
              /\ FindLargest(p) = {c} /\ p[c] = {e}
              /\ \A b \in Children : \A x \in p[b] : ~Before(e, x)
<1> DEFINE U == UNION Range(p)
<1>1. CASE U = {}
  BY <1>1, FrontOf DEF FindLargest
<1>2. CASE U # {}
  <2>1. PICK e \in U : Largest(U) = {e} /\ \A x \in U : ~Before(e, x)
    BY <1>2, FrontOf, LargestFacts
  <2>2. PICK c \in Children : e \in p[c]
    BY FrontOf
  <2>3. p[c] = {e} /\ e \in Ents(c)
    BY <2>2 DEF Standing
  <2>4. \A b \in Children : p[b] = {e} => b = c
    BY <2>3, FrontOf
  <2>5. FindLargest(p) = {c}
    BY <2>1, <2>3, <2>4 DEF FindLargest
  <2>6. \A b \in Children : \A x \in p[b] : ~Before(e, x)
    BY <2>1, FrontOf
  <2>7. QED
    BY <2>3, <2>5, <2>6
<1>3. QED
  BY <1>1, <1>2

\* The merging iterator stands on the first entry ahead, of those the reader sees.
FrontKept ==
  \/ /\ Key = {} /\ Ahead = {} /\ current = {}
     /\ \A c \in Children : pos[c] = {}
  \/ \E c \in Children : \E e \in Ents(c) :
       /\ current = {c} /\ pos[c] = {e} /\ Key = {e}
       /\ \A b \in Children : \A x \in pos[b] : Reaches(e, x)
       /\ \A d \in Ahead : Reaches(e, d)
       /\ Visible(e) => e \in Ahead

LEMMA FrontHolds == StoreInv /\ MergeInv => FrontKept
<1> SUFFICES ASSUME StoreInv, MergeInv PROVE FrontKept
  OBVIOUS
<1>1. Standing(pos)
  BY DEF MergeInv, Standing
<1>2. \/ current = {} /\ \A c \in Children : pos[c] = {}
      \/ \E c \in Children : \E e \in Ents(c) :
           /\ current = {c} /\ pos[c] = {e}
           /\ \A b \in Children : \A x \in pos[b] : Reaches(e, x)
  <2>1. CASE mdir = "forward"
    BY <1>1, <2>1, SmallestInFront DEF MergeInv, Reaches
  <2>2. CASE mdir # "forward"
    BY <1>1, <2>2, LargestInFront DEF MergeInv, Reaches
  <2>3. QED
    BY <2>1, <2>2
<1>3. CASE current = {} /\ \A c \in Children : pos[c] = {}
  <2>1. Key = {}
    BY <1>3 DEF Key
  <2>2. Ahead = {}
    BY <1>3 DEF Ahead
  <2>3. QED
    BY <1>3, <2>1, <2>2 DEF FrontKept
<1>4. ASSUME NEW c \in Children, NEW e \in Ents(c),
             current = {c}, pos[c] = {e},
             \A b \in Children : \A x \in pos[b] : Reaches(e, x)
      PROVE  FrontKept
  <2>1. Key = {e}
    BY <1>4 DEF Key
  <2>2. e \in All /\ e \in Points
    BY StoreFacts
  <2>3. ASSUME NEW d \in Ahead
        PROVE  Reaches(e, d)
    <3>1. PICK b \in Children : d \in Ents(b) /\ \E x \in pos[b] : Reaches(x, d)
      BY DEF Ahead
    <3>2. PICK x \in pos[b] : Reaches(x, d)
      BY <3>1
    <3>3. x \in Points /\ d \in Points
      BY <3>1, <3>2, <1>1, StoreFacts DEF Standing
    <3>4. Reaches(e, x)
      BY <1>4, <3>2
    <3>5. QED
      BY <2>2, <3>2, <3>3, <3>4, BeforeOrder DEF Reaches
  <2>4. Visible(e) => e \in Ahead
    <3>1. Reaches(e, e)
      BY <2>2, BeforeOrder DEF Reaches
    <3>2. QED
      BY <1>4, <2>2, <3>1 DEF Ahead, Seen
  <2>5. QED
    BY <1>4, <2>1, <2>3, <2>4 DEF FrontKept
<1>5. QED
  BY <1>2, <1>3, <1>4

LEMMA SameStore ==
  ASSUME UNCHANGED store
  PROVE  /\ StoreInv => StoreInv'
         /\ \A c \in Children : Ents(c)' = Ents(c)
         /\ All' = All /\ Seen' = Seen /\ \A d : Visible(d)' <=> Visible(d)
<1>1. mem' = mem /\ imm' = imm /\ run' = run /\ sequence' = sequence
  BY DEF store
<1>2. StoreInv => StoreInv'
  BY <1>1 DEF StoreInv
<1>3. \A c \in Children : Ents(c)' = Ents(c)
  BY <1>1 DEF Ents
<1>4. All' = All /\ \A d : Visible(d)' <=> Visible(d)
  BY <1>1 DEF All, Visible
<1>5. Seen' = Seen
  BY <1>1, <1>4 DEF Seen, Visible
<1>6. QED
  BY <1>2, <1>3, <1>4, <1>5

LEMMA SeenInAll ==
  ASSUME StoreInv
  PROVE  Seen \subseteq All /\ Seen \subseteq Points
BY StoreFacts DEF Seen

LEMMA StandsForward ==
  ASSUME StoreInv, UNCHANGED store, NEW p, Standing(p), StandForward(p),
         NEW A \in SUBSET Seen,
         \A c \in Children : \A d \in Seen : d \in Ents(c) =>
           (d \in A <=> \E x \in p[c] : ~Before(d, x)),
         \A d \in A, f \in Seen : ~Before(f, d) => f \in A
  PROVE  MergeInv' /\ mdir' = "forward" /\ ~sought' /\ Ahead' = A
<1>1. pos' = p /\ current' = FindSmallest(p) /\ mdir' = "forward" /\ sought' = FALSE
  BY DEF StandForward
<1>2. \A x, d : Reaches(x, d)' <=> ~Before(d, x)
  BY <1>1 DEF Reaches
<1>3. Ahead' = A
  <2>1. Ahead' = {d \in Seen : \E c \in Children : d \in Ents(c) /\ \E x \in p[c] : ~Before(d, x)}
    BY <1>1, <1>2, SameStore DEF Ahead
  <2>2. \A d \in Seen : \E c \in Children : d \in Ents(c)
    BY StoreFacts, SeenInAll
  <2>3. QED
    BY <2>1, <2>2
<1>4. /\ pos' = [c \in Children |-> pos'[c]]
      /\ \A c \in Children : pos'[c] = {} \/ \E e \in Ents(c)' : pos'[c] = {e}
  BY <1>1, SameStore DEF Standing
<1>5. current' = IF mdir' = "forward" THEN FindSmallest(pos)' ELSE FindLargest(pos)'
  BY <1>1 DEF FindSmallest
<1>6. \A d \in Ahead', f \in Seen' : Reaches(d, f)' => f \in Ahead'
  BY <1>2, <1>3, SameStore
<1>7. MergeInv'
  BY <1>1, <1>4, <1>5, <1>6 DEF MergeInv
<1>8. QED
  BY <1>1, <1>3, <1>7

LEMMA StandsBackward ==
  ASSUME StoreInv, UNCHANGED store, NEW p, Standing(p), StandBackward(p),
         NEW A \in SUBSET Seen,
         \A c \in Children : \A d \in Seen : d \in Ents(c) =>
           (d \in A <=> \E x \in p[c] : ~Before(x, d)),
         \A d \in A, f \in Seen : ~Before(d, f) => f \in A
  PROVE  MergeInv' /\ mdir' = "reverse" /\ ~sought' /\ Ahead' = A
<1>1. pos' = p /\ current' = FindLargest(p) /\ mdir' = "reverse" /\ sought' = FALSE
  BY DEF StandBackward
<1>2. \A x, d : Reaches(x, d)' <=> ~Before(x, d)
  BY <1>1 DEF Reaches
<1>3. Ahead' = A
  <2>1. Ahead' = {d \in Seen : \E c \in Children : d \in Ents(c) /\ \E x \in p[c] : ~Before(x, d)}
    BY <1>1, <1>2, SameStore DEF Ahead
  <2>2. \A d \in Seen : \E c \in Children : d \in Ents(c)
    BY StoreFacts, SeenInAll
  <2>3. QED
    BY <2>1, <2>2
<1>4. /\ pos' = [c \in Children |-> pos'[c]]
      /\ \A c \in Children : pos'[c] = {} \/ \E e \in Ents(c)' : pos'[c] = {e}
  BY <1>1, SameStore DEF Standing
<1>5. current' = IF mdir' = "forward" THEN FindSmallest(pos)' ELSE FindLargest(pos)'
  BY <1>1 DEF FindLargest
<1>6. \A d \in Ahead', f \in Seen' : Reaches(d, f)' => f \in Ahead'
  BY <1>2, <1>3, SameStore
<1>7. MergeInv'
  BY <1>1, <1>4, <1>5, <1>6 DEF MergeInv
<1>8. QED
  BY <1>1, <1>3, <1>7

LEMMA PartStands ==
  ASSUME StoreInv, NEW c \in Children, NEW T \in SUBSET Ents(c)
  PROVE  /\ Numbered(T)
         /\ Smallest(T) = {} \/ \E e \in Ents(c) : Smallest(T) = {e}
         /\ Largest(T) = {} \/ \E e \in Ents(c) : Largest(T) = {e}
<1>1. Numbered(T)
  BY StoreFacts, NumberedSubset
<1>2. QED
  BY <1>1, SmallestFacts, LargestFacts

\* After a seek, everything from the target on is ahead.
LEMMA SeekStep ==
  ASSUME StoreInv, UNCHANGED store, NEW t \in Points, IterSeek(t)
  PROVE  /\ MergeInv' /\ mdir' = "forward" /\ ~sought'
         /\ Ahead' = {d \in Seen : ~Before(d, t)}
<1> DEFINE p == [c \in Children |-> ChildSeek(c, t)]
           A == {d \in Seen : ~Before(d, t)}
<1>1. StandForward(p)
  BY DEF IterSeek
<1>2. \A c \in Children : p[c] = Smallest(From(Ents(c), t))
  BY ChildSeeks
<1>3. p = [c \in Children |-> p[c]]
  OBVIOUS
<1> HIDE DEF p
<1>4. Standing(p)
  <2>1. ASSUME NEW c \in Children
        PROVE  p[c] = {} \/ \E e \in Ents(c) : p[c] = {e}
    <3>1. From(Ents(c), t) \in SUBSET Ents(c)
      BY DEF From
    <3>2. QED
      BY <1>2, <3>1, PartStands
  <2>2. QED
    BY <1>3, <2>1 DEF Standing
<1>5. ASSUME NEW c \in Children, NEW d \in Seen, d \in Ents(c)
      PROVE  d \in A <=> \E x \in p[c] : ~Before(d, x)
  <2> DEFINE T == From(Ents(c), t)
  <2>1. \A x \in T, y \in Ents(c) : ~Before(y, x) => y \in T
    BY StoreFacts, BeforeOrder DEF From
  <2>2. Numbered(Ents(c)) /\ T \in SUBSET Ents(c)
    BY StoreFacts DEF From
  <2>3. d \in T <=> d \in A
    BY <1>5 DEF From
  <2>4. p[c] = Smallest(T)
    BY <1>2
  <2> HIDE DEF T
  <2>5. d \in T <=> \E x \in Smallest(T) : ~Before(d, x)
    BY <1>5, <2>1, <2>2, SmallestReach
  <2>6. QED
    BY <2>3, <2>4, <2>5
<1>6. A \in SUBSET Seen /\ \A d \in A, f \in Seen : ~Before(f, d) => f \in A
  BY SeenInAll, BeforeOrder
<1> HIDE DEF A
<1>7. MergeInv' /\ mdir' = "forward" /\ ~sought' /\ Ahead' = A
  BY <1>1, <1>4, <1>5, <1>6, StandsForward
<1>8. QED
  BY <1>7 DEF A

\* From the first entry on, everything is ahead; from the last one, likewise.
LEMMA FirstStep ==
  ASSUME StoreInv, UNCHANGED store, IterSeekToFirst
  PROVE  MergeInv' /\ mdir' = "forward" /\ ~sought' /\ Ahead' = Seen
<1> DEFINE p == [c \in Children |-> ChildFirst(c)]
<1>1. StandForward(p)
  BY DEF IterSeekToFirst
<1>2. p = [c \in Children |-> p[c]] /\ \A c \in Children : p[c] = Smallest(Ents(c))
  BY ChildEnds
<1> HIDE DEF p
<1>3. \A c \in Children : p[c] = {} \/ \E e \in Ents(c) : p[c] = {e}
  BY <1>2, PartStands
<1>4. ASSUME NEW c \in Children, NEW d \in Seen, d \in Ents(c)
      PROVE  d \in Seen <=> \E x \in p[c] : ~Before(d, x)
  BY <1>2, <1>4, StoreFacts, SmallestFacts
<1>5. Standing(p)
  BY <1>2, <1>3 DEF Standing
<1>6. QED
  BY <1>1, <1>4, <1>5, StandsForward

LEMMA LastStep ==
  ASSUME StoreInv, UNCHANGED store, IterSeekToLast
  PROVE  MergeInv' /\ mdir' = "reverse" /\ ~sought' /\ Ahead' = Seen
<1> DEFINE p == [c \in Children |-> ChildLast(c)]
<1>1. StandBackward(p)
  BY DEF IterSeekToLast
<1>2. p = [c \in Children |-> p[c]] /\ \A c \in Children : p[c] = Largest(Ents(c))
  BY ChildEnds
<1> HIDE DEF p
<1>3. \A c \in Children : p[c] = {} \/ \E e \in Ents(c) : p[c] = {e}
  BY <1>2, PartStands
<1>4. ASSUME NEW c \in Children, NEW d \in Seen, d \in Ents(c)
      PROVE  d \in Seen <=> \E x \in p[c] : ~Before(x, d)
  BY <1>2, <1>4, StoreFacts, LargestFacts
<1>5. Standing(p)
  BY <1>2, <1>3 DEF Standing
<1>6. QED
  BY <1>1, <1>4, <1>5, StandsBackward

\* A child moved past e: what it reaches.
LEMMA MovedUp ==
  ASSUME StoreInv, NEW c \in Children, NEW e \in All,
         NEW d \in Ents(c)
  PROVE  Before(e, d) <=> \E x \in Smallest(Above(Ents(c), e)) : ~Before(d, x)
<1> DEFINE T == Above(Ents(c), e)
<1>1. e \in Points /\ Ents(c) \subseteq Points /\ Numbered(Ents(c))
  BY StoreFacts
<1>2. \A x \in T, y \in Ents(c) : ~Before(y, x) => y \in T
  BY <1>1, BeforeOrder DEF Above
<1>3. d \in T <=> \E x \in Smallest(T) : ~Before(d, x)
  <2>1. T \in SUBSET Ents(c)
    BY DEF Above
  <2> HIDE DEF T
  <2>2. QED
    BY <1>1, <1>2, <2>1, SmallestReach
<1>4. QED
  BY <1>3 DEF Above

LEMMA MovedDown ==
  ASSUME StoreInv, NEW c \in Children, NEW e \in All,
         NEW d \in Ents(c)
  PROVE  Before(d, e) <=> \E x \in Largest(Below(Ents(c), e)) : ~Before(x, d)
<1> DEFINE T == Below(Ents(c), e)
<1>1. e \in Points /\ Ents(c) \subseteq Points /\ Numbered(Ents(c))
  BY StoreFacts
<1>2. \A x \in T, y \in Ents(c) : ~Before(x, y) => y \in T
  BY <1>1, BeforeOrder DEF Below
<1>3. d \in T <=> \E x \in Largest(T) : ~Before(x, d)
  <2>1. T \in SUBSET Ents(c)
    BY DEF Below
  <2> HIDE DEF T
  <2>2. QED
    BY <1>1, <1>2, <2>1, LargestReach
<1>4. QED
  BY <1>3 DEF Below

\* MergingIterator::Next leaves the key behind and nothing else.
LEMMA NextStep ==
  ASSUME StoreInv, MergeInv, UNCHANGED store, IterNext
  PROVE  /\ MergeInv' /\ mdir' = "forward" /\ ~sought'
         /\ \E e \in All :
              /\ Key = {e}
              /\ Ahead' = IF mdir = "forward" THEN Ahead \ {e} ELSE {d \in Seen : Before(e, d)}
<1>0. PICK b \in Children : \E e \in Ents(b) :
        /\ current = {b} /\ pos[b] = {e} /\ Key = {e}
        /\ \A d \in Ahead : Reaches(e, d)
  <2>1. Key # {}
    BY DEF IterNext
  <2>2. QED
    BY <2>1, FrontHolds DEF FrontKept
<1>1. PICK e \in Ents(b) :
        /\ current = {b} /\ pos[b] = {e} /\ Key = {e}
        /\ \A d \in Ahead : Reaches(e, d)
  BY <1>0
<1> DEFINE p == [c \in Children |-> IF c \in current THEN ChildNext(c, e)
                                    ELSE IF mdir = "forward" THEN pos[c] ELSE SeekPast(c, e)]
           A == IF mdir = "forward" THEN Ahead \ {e} ELSE {d \in Seen : Before(e, d)}
<1>2. StandForward(p)
  BY <1>1 DEF IterNext
<1>3. e \in All /\ e \in Points
  BY StoreFacts
<1>4. ASSUME NEW c \in Children, c = b \/ mdir # "forward"
      PROVE  p[c] = Smallest(Above(Ents(c), e))
  <2>1. CASE c = b
    BY <1>1, <2>1, ChildMoves
  <2>2. CASE c # b /\ mdir # "forward"
    <3>1. p[c] = SeekPast(c, e)
      BY <1>1, <2>2
    <3>2. ChildSeek(c, e) = Smallest(From(Ents(c), e))
      BY <1>3, ChildSeeks
    <3>3. e \notin Ents(c)
      BY <2>2, StoreFacts
    <3>4. \A y \in Ents(c) : ~Before(y, e) <=> Before(e, y)
      <4> SUFFICES ASSUME NEW y \in Ents(c) PROVE ~Before(y, e) <=> Before(e, y)
        OBVIOUS
      <4>1. y \in All /\ y # e /\ y \in Points
        BY <3>3, StoreFacts
      <4>2. QED
        BY <1>3, <4>1, StoreFacts, Total, BeforeOrder
    <3>5. From(Ents(c), e) = Above(Ents(c), e)
      BY <3>4 DEF From, Above
    <3>6. ChildSeek(c, e) # {e}
      <4>1. ChildSeek(c, e) \subseteq Ents(c)
        BY <3>2 DEF Smallest, From
      <4>2. QED
        BY <3>3, <4>1
    <3>7. QED
      BY <3>1, <3>2, <3>5, <3>6 DEF SeekPast
  <2>3. QED
    BY <1>4, <2>1, <2>2
<1>5. ASSUME NEW c \in Children, c # b, mdir = "forward"
      PROVE  p[c] = pos[c]
  BY <1>1, <1>5
<1>6. p = [c \in Children |-> p[c]]
  OBVIOUS
<1> HIDE DEF p
<1>7. ASSUME NEW c \in Children
      PROVE  p[c] = {} \/ \E x \in Ents(c) : p[c] = {x}
  <2>1. CASE c = b \/ mdir # "forward"
    <3>1. Above(Ents(c), e) \in SUBSET Ents(c)
      BY DEF Above
    <3>2. QED
      BY <1>4, <2>1, <3>1, PartStands
  <2>2. CASE c # b /\ mdir = "forward"
    BY <1>5, <2>2 DEF MergeInv
  <2>3. QED
    BY <2>1, <2>2
<1>8. ASSUME NEW c \in Children, NEW d \in Seen, d \in Ents(c)
      PROVE  d \in A <=> \E x \in p[c] : ~Before(d, x)
  <2>1. d \in All
    BY SeenInAll
  <2>2. CASE mdir # "forward"
    BY <1>3, <1>4, <1>8, <2>2, MovedUp
  <2>3. CASE mdir = "forward" /\ c = b
    <3>1. Before(e, d) <=> \E x \in p[c] : ~Before(d, x)
      BY <1>3, <1>4, <1>8, <2>3, MovedUp
    <3>2. d \in Ahead <=> ~Before(d, e)
      <4>1. \A a \in Children : d \in Ents(a) => a = b
        BY <1>8, <2>3, StoreFacts
      <4>2. QED
        BY <1>1, <1>8, <2>3, <4>1 DEF Ahead, Reaches
    <3>3. Before(e, d) <=> ~Before(d, e) /\ d # e
      BY <1>3, <2>1, StoreFacts, Total, BeforeOrder
    <3>4. QED
      BY <2>3, <3>1, <3>2, <3>3
  <2>4. CASE mdir = "forward" /\ c # b
    <3>1. p[c] = pos[c]
      BY <1>5, <2>4
    <3>2. \A a \in Children : d \in Ents(a) => a = c
      BY <1>8, StoreFacts
    <3>3. d # e
      BY <2>4, <3>2
    <3>4. d \in Ahead <=> \E x \in pos[c] : ~Before(d, x)
      BY <1>8, <2>4, <3>2 DEF Ahead, Reaches
    <3>5. QED
      BY <2>4, <3>1, <3>3, <3>4
  <2>5. QED
    BY <2>2, <2>3, <2>4
<1>9. A \in SUBSET Seen
  BY DEF Ahead
<1>10. \A d \in A, f \in Seen : ~Before(f, d) => f \in A
  <2> SUFFICES ASSUME NEW d \in A, NEW f \in Seen, ~Before(f, d)
               PROVE  f \in A
    OBVIOUS
  <2>1. d \in Points /\ f \in Points /\ d \in All /\ f \in All
    BY <1>9, SeenInAll
  <2>2. CASE mdir # "forward"
    BY <1>3, <2>1, <2>2, BeforeOrder
  <2>3. CASE mdir = "forward"
    <3>1. d \in Ahead /\ d # e /\ ~Before(d, e)
      BY <1>1, <2>3 DEF Reaches
    <3>2. f \in Ahead
      BY <2>3, <3>1 DEF MergeInv, Reaches
    <3>3. f # e
      BY <1>3, <2>1, <3>1, StoreFacts, Total
    <3>4. QED
      BY <2>3, <3>2, <3>3
  <2>4. QED
    BY <2>2, <2>3
<1> HIDE DEF A
<1>11. Standing(p)
  BY <1>6, <1>7 DEF Standing
<1>12. MergeInv' /\ mdir' = "forward" /\ ~sought' /\ Ahead' = A
  BY <1>2, <1>8, <1>9, <1>10, <1>11, StandsForward
<1>13. QED
  BY <1>1, <1>3, <1>12 DEF A

\* MergingIterator::Prev, of what the reader sees, leaves the key behind and
\* nothing else, also if entries came in after the memtable was sought.
LEMMA PrevStep ==
  ASSUME StoreInv, MergeInv, UNCHANGED store, IterPrev
  PROVE  /\ MergeInv' /\ mdir' = "reverse" /\ ~sought'
         /\ \E e \in All :
              /\ Key = {e}
              /\ Ahead' = IF mdir = "reverse" THEN Ahead \ {e} ELSE {d \in Seen : Before(d, e)}
<1>0. PICK b \in Children : \E e \in Ents(b) :
        /\ current = {b} /\ pos[b] = {e} /\ Key = {e}
        /\ \A a \in Children : \A x \in pos[a] : Reaches(e, x)
        /\ \A d \in Ahead : Reaches(e, d)
  <2>1. Key # {}
    BY DEF IterPrev
  <2>2. QED
    BY <2>1, FrontHolds DEF FrontKept
<1>1. PICK e \in Ents(b) :
        /\ current = {b} /\ pos[b] = {e} /\ Key = {e}
        /\ \A a \in Children : \A x \in pos[a] : Reaches(e, x)
        /\ \A d \in Ahead : Reaches(e, d)
  BY <1>0
<1> DEFINE found(c) == IF c = "mem" THEN pos[c] ELSE ChildSeek(c, e)
           p == [c \in Children |-> IF c \in current THEN ChildPrev(c, e)
                                    ELSE IF mdir = "reverse" THEN pos[c]
                                    ELSE StepBack(c, found(c))]
           A == IF mdir = "reverse" THEN Ahead \ {e} ELSE {d \in Seen : Before(d, e)}
<1>2. StandBackward(p)
  BY <1>1 DEF IterPrev
<1>3. e \in All /\ e \in Points
  BY StoreFacts
<1>4. p[b] = Largest(Below(Ents(b), e))
  BY <1>1, ChildMoves
<1>5. ASSUME NEW c \in Children, c # b, mdir = "reverse"
      PROVE  p[c] = pos[c]
  BY <1>1, <1>5
<1>6. ASSUME NEW c \in Children, c # b, mdir # "reverse"
      PROVE  p[c] = StepBack(c, found(c))
  BY <1>1, <1>6
<1>7. p = [c \in Children |-> p[c]]
  OBVIOUS
<1> HIDE DEF p
\* What was sought: the first entry from e on, of those that the reader sees.
<1>8. ASSUME NEW c \in Children, c # b, mdir # "reverse"
      PROVE  /\ found(c) = {} \/ \E x \in Ents(c) : found(c) = {x} /\ ~Before(x, e)
             /\ \A d \in Ents(c) : Visible(d) /\ ~Before(d, e) => \E x \in found(c) : ~Before(d, x)
  <2>1. CASE c # "mem"
    <3>1. found(c) = Smallest(From(Ents(c), e))
      BY <1>3, <2>1, ChildSeeks
    <3>2. From(Ents(c), e) \in SUBSET Ents(c) /\ \A x \in From(Ents(c), e) : ~Before(x, e)
      BY DEF From
    <3> HIDE DEF found
    <3>3. Numbered(From(Ents(c), e))
      BY <3>2, PartStands
    <3>4. \A d \in Ents(c) : ~Before(d, e) => d \in From(Ents(c), e)
      BY DEF From
    <3>5. QED
      BY <3>1, <3>2, <3>3, <3>4, SmallestFacts
  <2>2. CASE c = "mem"
    <3>1. mdir = "forward" /\ sought /\ found(c) = pos[c] /\ Ents(c) = mem
      BY <1>1, <1>8, <2>2, StoreFacts DEF IterPrev, MergeInv
    <3>2. pos[c] = {} \/ \E x \in Ents(c) : pos[c] = {x}
      BY DEF MergeInv
    <3>3. \A x \in pos[c] : ~Before(x, e)
      BY <1>1, <3>1 DEF Reaches
    <3>4. \A d \in mem : Visible(d) /\ ~Before(d, e) => \E x \in pos["mem"] : ~Before(d, x)
      BY <1>1, <3>1 DEF MergeInv
    <3> HIDE DEF found
    <3>5. QED
      BY <2>2, <3>1, <3>2, <3>3, <3>4
  <2>3. QED
    BY <2>1, <2>2
\* Stepped back from there.
<1>9. ASSUME NEW c \in Children, c # b, mdir # "reverse"
      PROVE  /\ p[c] = {} \/ \E x \in Ents(c) : p[c] = {x}
             /\ \A d \in Seen : d \in Ents(c) =>
                  (Before(d, e) <=> \E x \in p[c] : ~Before(x, d))
  <2> HIDE DEF found
  <2>1. CASE found(c) = {}
    <3>1. p[c] = Largest(Ents(c))
      BY <1>6, <1>9, <2>1, ChildEnds DEF StepBack
    <3>2. \A d \in Seen : d \in Ents(c) => Before(d, e)
      BY <1>8, <1>9, <2>1 DEF Seen
    <3>3. Numbered(Ents(c))
      BY StoreFacts
    <3>4. QED
      BY <3>1, <3>2, <3>3, LargestFacts
  <2>2. ASSUME NEW x \in Ents(c), found(c) = {x}, ~Before(x, e)
        PROVE  /\ p[c] = {} \/ \E y \in Ents(c) : p[c] = {y}
               /\ \A d \in Seen : d \in Ents(c) =>
                    (Before(d, e) <=> \E y \in p[c] : ~Before(y, d))
    <3>1. p[c] = Largest(Below(Ents(c), x))
      <4>1. StepBack(c, {x}) = ChildPrev(c, x)
        BY DEF StepBack
      <4>2. QED
        BY <1>6, <1>9, <2>2, <4>1, ChildMoves
    <3>2. Below(Ents(c), x) \in SUBSET Ents(c)
      BY DEF Below
    <3>3. p[c] = {} \/ \E y \in Ents(c) : p[c] = {y}
      BY <3>1, <3>2, PartStands
    <3>4. ASSUME NEW d \in Seen, d \in Ents(c)
          PROVE  Before(d, e) <=> \E y \in p[c] : ~Before(y, d)
      <4>1. Before(d, x) <=> \E y \in p[c] : ~Before(y, d)
        <5>1. x \in All
          BY StoreFacts
        <5>2. QED
          BY <3>1, <3>4, <5>1, MovedDown
      <4>2. d \in Points /\ x \in Points
        BY <3>4, StoreFacts
      <4>3. Before(d, e) => Before(d, x)
        BY <1>3, <2>2, <4>2, BeforeOrder
      <4>4. ~Before(d, e) => ~Before(d, x)
        <5>1. ~Before(d, e) => \E y \in found(c) : ~Before(d, y)
          BY <1>8, <1>9, <3>4 DEF Seen
        <5>2. QED
          BY <2>2, <5>1
      <4>5. QED
        BY <4>1, <4>3, <4>4
    <3>5. QED
      BY <3>3, <3>4
  <2>3. QED
    BY <1>8, <1>9, <2>1, <2>2
<1> HIDE DEF found
<1>10. ASSUME NEW c \in Children
       PROVE  p[c] = {} \/ \E x \in Ents(c) : p[c] = {x}
  <2>1. CASE c = b
    <3>1. Below(Ents(b), e) \in SUBSET Ents(b)
      BY DEF Below
    <3>2. QED
      BY <1>4, <2>1, <3>1, PartStands
  <2>2. CASE c # b /\ mdir = "reverse"
    BY <1>5, <2>2 DEF MergeInv
  <2>3. CASE c # b /\ mdir # "reverse"
    BY <1>9, <2>3
  <2>4. QED
    BY <2>1, <2>2, <2>3
<1>11. ASSUME NEW c \in Children, NEW d \in Seen, d \in Ents(c)
       PROVE  d \in A <=> \E x \in p[c] : ~Before(x, d)
  <2>1. d \in All /\ d \in Points
    BY SeenInAll
  <2>2. \A a \in Children : d \in Ents(a) => a = c
    BY <1>11, StoreFacts
  <2>3. CASE mdir # "reverse" /\ c # b
    BY <1>9, <1>11, <2>3
  <2>4. CASE c = b
    <3>1. Before(d, e) <=> \E x \in p[c] : ~Before(x, d)
      BY <1>3, <1>4, <1>11, <2>4, MovedDown
    <3>2. ASSUME mdir = "reverse"
          PROVE  d \in Ahead <=> ~Before(e, d)
      BY <1>1, <1>11, <2>2, <2>4, <3>2 DEF Ahead, Reaches
    <3>3. Before(d, e) <=> ~Before(e, d) /\ d # e
      BY <1>3, <2>1, StoreFacts, Total, BeforeOrder
    <3>4. QED
      BY <3>1, <3>2, <3>3
  <2>5. CASE mdir = "reverse" /\ c # b
    <3>1. p[c] = pos[c]
      BY <1>5, <2>5
    <3>2. d # e
      BY <2>2, <2>5
    <3>3. d \in Ahead <=> \E x \in pos[c] : ~Before(x, d)
      BY <1>11, <2>2, <2>5 DEF Ahead, Reaches
    <3>4. QED
      BY <2>5, <3>1, <3>2, <3>3
  <2>6. QED
    BY <2>3, <2>4, <2>5
<1>12. A \in SUBSET Seen
  BY DEF Ahead
<1>13. \A d \in A, f \in Seen : ~Before(d, f) => f \in A
  <2> SUFFICES ASSUME NEW d \in A, NEW f \in Seen, ~Before(d, f)
               PROVE  f \in A
    OBVIOUS
  <2>1. d \in Points /\ f \in Points /\ d \in All /\ f \in All
    BY <1>12, SeenInAll
  <2>2. CASE mdir # "reverse"
    BY <1>3, <2>1, <2>2, BeforeOrder
  <2>3. CASE mdir = "reverse"
    <3>1. d \in Ahead /\ d # e /\ ~Before(e, d)
      BY <1>1, <2>3 DEF Reaches
    <3>2. f \in Ahead
      BY <2>3, <3>1 DEF MergeInv, Reaches
    <3>3. f # e
      BY <1>3, <2>1, <3>1, StoreFacts, Total
    <3>4. QED
      BY <2>3, <3>2, <3>3
  <2>4. QED
    BY <2>2, <2>3
<1> HIDE DEF A
<1>14. Standing(p)
  BY <1>7, <1>10 DEF Standing
<1>15. MergeInv' /\ mdir' = "reverse" /\ ~sought' /\ Ahead' = A
  BY <1>2, <1>11, <1>12, <1>13, <1>14, StandsBackward
<1>16. QED
  BY <1>1, <1>3, <1>15 DEF A

\* The memtable's iterator is sought anew: what is ahead stays.
LEMMA SeekMemStep ==
  ASSUME StoreInv, MergeInv, UNCHANGED store, SeekMem, Key \subseteq Seen
  PROVE  MergeInv' /\ mdir' = mdir /\ Key' = Key /\ Ahead' = Ahead
<1>0. PICK b \in Children : \E e \in Ents(b) :
        /\ current = {b} /\ pos[b] = {e} /\ Key = {e}
        /\ \A a \in Children : \A x \in pos[a] : Reaches(e, x)
        /\ \A d \in Ahead : Reaches(e, d)
        /\ Visible(e) => e \in Ahead
  <2>1. Key # {}
    BY DEF SeekMem
  <2>2. QED
    BY <2>1, FrontHolds DEF FrontKept
<1>1. PICK e \in Ents(b) :
        /\ current = {b} /\ pos[b] = {e} /\ Key = {e}
        /\ \A a \in Children : \A x \in pos[a] : Reaches(e, x)
        /\ \A d \in Ahead : Reaches(e, d)
        /\ Visible(e) => e \in Ahead
  BY <1>0
<1>2. /\ mdir = "forward" /\ mdir' = mdir /\ current' = current /\ sought' = TRUE
      /\ b # "mem" /\ pos' = [pos EXCEPT !["mem"] = ChildSeek("mem", e)]
  BY <1>1 DEF SeekMem
<1>3. "mem" \in Children /\ Ents("mem") = mem /\ e \in All /\ e \in Points
  BY StoreFacts DEF Children
<1>4. /\ pos' = [c \in Children |-> pos'[c]] /\ pos'["mem"] = ChildSeek("mem", e)
      /\ \A c \in Children : c # "mem" => pos'[c] = pos[c]
  BY <1>2, <1>3 DEF MergeInv
<1>5. ChildSeek("mem", e) = Smallest(From(mem, e))
  BY <1>3, ChildSeeks
<1>6. /\ From(mem, e) \in SUBSET mem /\ \A x \in From(mem, e) : ~Before(x, e)
      /\ \A d \in mem : d \in From(mem, e) <=> ~Before(d, e)
      /\ Numbered(mem) /\ mem \subseteq Points
  BY <1>3, StoreFacts DEF From
<1>7. \A d \in mem : ~Before(d, e) <=> \E x \in pos'["mem"] : ~Before(d, x)
  <2>1. \A x \in From(mem, e), y \in mem : ~Before(y, x) => y \in From(mem, e)
    BY <1>3, <1>6, BeforeOrder
  <2>2. QED
    BY <1>4, <1>5, <1>6, <2>1, SmallestReach
<1>8. /\ pos'["mem"] = {} \/ \E x \in Ents("mem") : pos'["mem"] = {x}
      /\ \A x \in pos'["mem"] : ~Before(x, e)
  <2>1. Smallest(From(mem, e)) \subseteq From(mem, e)
    BY DEF Smallest
  <2>2. Smallest(From(mem, e)) = {} \/ \E x \in Ents("mem") : Smallest(From(mem, e)) = {x}
    BY <1>3, <1>6, PartStands
  <2>3. QED
    BY <1>4, <1>5, <1>6, <2>1, <2>2
<1>9. Standing(pos')
  BY <1>4, <1>8 DEF Standing, MergeInv
<1>10. \A a \in Children : \A x \in pos'[a] : ~Before(x, e)
  BY <1>1, <1>2, <1>4, <1>8 DEF Reaches
<1>11. current' = FindSmallest(pos')
  <2>1. pos'[b] = {e}
    BY <1>1, <1>2, <1>4
  <2>2. PICK c \in Children : \E x \in Ents(c) :
          /\ FindSmallest(pos') = {c} /\ pos'[c] = {x}
          /\ \A a \in Children : \A y \in pos'[a] : ~Before(y, x)
    BY <1>9, <2>1, SmallestInFront
  <2>3. PICK x \in Ents(c) :
          /\ FindSmallest(pos') = {c} /\ pos'[c] = {x}
          /\ \A a \in Children : \A y \in pos'[a] : ~Before(y, x)
    BY <2>2
  <2>4. x \in All /\ ~Before(e, x) /\ ~Before(x, e)
    BY <1>10, <2>1, <2>3, StoreFacts
  <2>5. x = e
    BY <1>3, <2>4, StoreFacts, Total
  <2>6. c = b
    BY <2>5, StoreFacts
  <2>7. QED
    BY <1>1, <1>2, <2>3, <2>6
<1>12. Key' = Key
  BY <1>1, <1>2, <1>4 DEF Key
<1>13. \A x, d : Reaches(x, d)' <=> Reaches(x, d)
  BY <1>2 DEF Reaches
<1>14. e \in Ahead /\ \A d \in Seen : d \in Ahead <=> ~Before(d, e)
  <2>1. e \in Ahead
    BY <1>1 DEF Seen
  <2>2. QED
    BY <1>1, <1>2, <2>1 DEF MergeInv, Reaches
<1>15. Ahead' = Ahead
  <2>1. Ahead' = {d \in Seen : \E c \in Children : d \in Ents(c) /\ \E x \in pos'[c] : Reaches(x, d)}
    BY <1>13, SameStore DEF Ahead
  <2>2. ASSUME NEW d \in Seen, NEW c \in Children, d \in Ents(c), c # "mem"
        PROVE  (\E x \in pos'[c] : Reaches(x, d)) <=> d \in Ahead
    <3>1. \A a \in Children : d \in Ents(a) => a = c
      BY <2>2, StoreFacts
    <3>2. QED
      BY <1>4, <2>2, <3>1 DEF Ahead
  <2>3. ASSUME NEW d \in Seen, d \in mem
        PROVE  (\E x \in pos'["mem"] : Reaches(x, d)) <=> d \in Ahead
    BY <1>2, <1>7, <1>14, <2>3 DEF Reaches
  <2>4. \A d \in Seen : \E c \in Children : d \in Ents(c)
    BY StoreFacts, SeenInAll
  <2>5. \A d \in Seen, c \in Children :
          d \in Ents(c) => ((\E x \in pos'[c] : Reaches(x, d)) <=> d \in Ahead)
    BY <1>3, <2>2, <2>3
  <2>6. Ahead \subseteq Seen
    BY DEF Ahead
  <2>7. QED
    BY <2>1, <2>4, <2>5, <2>6
<1>16. \A d \in Ahead', f \in Seen' : Reaches(d, f)' => f \in Ahead'
  BY <1>13, <1>15, SameStore DEF MergeInv
<1>17. \A c \in Children : pos'[c] = {} \/ \E x \in Ents(c)' : pos'[c] = {x}
  BY <1>9, SameStore DEF Standing
<1>18. current' = IF mdir' = "forward" THEN FindSmallest(pos)' ELSE FindLargest(pos)'
  BY <1>2, <1>11 DEF FindSmallest
<1>19. /\ mdir' = "forward"
       /\ \A x \in Key', f \in mem' :
            Visible(f)' /\ ~Before(f, x) => \E y \in pos'["mem"] : ~Before(f, y)
  BY <1>1, <1>2, <1>7, <1>12 DEF store
<1>20. MergeInv'
  BY <1>2, <1>4, <1>16, <1>17, <1>18, <1>19 DEF MergeInv
<1>21. QED
  BY <1>2, <1>12, <1>15, <1>20

\* The number after the last one is above the reader's and above all others.
LEMMA LastNumberFacts ==
  ASSUME StoreInv
  PROVE  /\ LastNumber \in Nat /\ sequence <= LastNumber
         /\ \A e \in All : e.seq <= LastNumber
<1> DEFINE S == {sequence} \cup {e.seq : e \in All}
<1>1. sequence \in Nat /\ MaxSeq \in Nat
  BY KeysAssumption DEF StoreInv
<1>2. \A e \in All : e.seq \in Nat /\ e.seq <= MaxSeq
  BY <1>1, StoreFacts DEF Numbered, Entries
<1>3. S \in SUBSET Nat /\ S # {}
  BY <1>1, <1>2
<1>4. \A n \in S : n <= sequence + MaxSeq
  BY <1>1, <1>2
<1>5. sequence \in S /\ \A e \in All : e.seq \in S
  OBVIOUS
<1> HIDE DEF S
<1>6. Max(S) \in S /\ \A n \in S : Max(S) >= n
  <2>1. sequence + MaxSeq \in Nat
    BY <1>1
  <2>2. QED
    BY <1>3, <1>4, <2>1, MaxBounded
<1>7. Max(S) \in Nat /\ sequence <= Max(S) /\ \A e \in All : e.seq <= Max(S)
  BY <1>3, <1>5, <1>6
<1>8. QED
  BY <1>7 DEF LastNumber, S

LEMMA InsertStep ==
  ASSUME StoreInv, MergeInv, NEW k \in Keys, Insert(k)
  PROVE  /\ StoreInv' /\ MergeInv' /\ Seen' = Seen /\ Ahead' = Ahead /\ Key' = Key
         /\ mdir' = mdir /\ sought' = sought /\ All \subseteq All'
<1> DEFINE new == Entry(k, LastNumber + 1, LastNumber + 1)
<1>1. /\ mem' = mem \cup {new} /\ imm' = imm /\ run' = run /\ sequence' = sequence
      /\ pos' = pos /\ current' = current /\ mdir' = mdir /\ sought' = sought
      /\ LastNumber < MaxSeq
  BY DEF Insert, merging
<1>2. /\ LastNumber \in Nat /\ sequence \in Nat /\ sequence <= LastNumber
      /\ \A e \in All : e.seq <= LastNumber
  BY LastNumberFacts DEF StoreInv
<1>3. new.seq = LastNumber + 1 /\ new \in Entries
  <2>1. LastNumber + 1 \in 1 .. MaxSeq /\ LastNumber + 1 \in 0 .. MaxSeq
    BY <1>1, <1>2, KeysAssumption
  <2>2. QED
    BY <2>1 DEF Entry, Entries
<1> HIDE DEF new
<1>4. new \notin All /\ ~Visible(new)
  BY <1>2, <1>3 DEF Visible
<1>5. All' = All \cup {new}
  BY <1>1 DEF All
<1>6. \A d : Visible(d)' <=> Visible(d)
  BY <1>1 DEF Visible
<1>7. Seen' = Seen
  BY <1>4, <1>5, <1>6 DEF Seen
<1>8. /\ Ents("mem")' = Ents("mem") \cup {new}
      /\ \A c \in Children : c # "mem" => Ents(c)' = Ents(c)
  BY <1>1 DEF Ents, Children
<1>9. StoreInv'
  <2> DEFINE all == mem \cup imm \cup InRun(run)
             Block(S) == [ents : (SUBSET S) \ {{}}, sep : Points]
             Follow == \A j \in DOMAIN run :
                         /\ \A e \in run[j].ents : ~Before(run[j].sep, e)
                         /\ \A h \in j + 1 .. Len(run) :
                              \A e \in run[h].ents : Before(run[j].sep, e)
  <2>1. /\ all = All /\ all \subseteq Entries
        /\ \A d, e \in all : d.seq = e.seq => d = e
        /\ mem \cap imm = {} /\ mem \cap InRun(run) = {} /\ imm \cap InRun(run) = {}
        /\ run \in Seq(Block(all)) /\ Follow
    BY DEF StoreInv, Arranged, Entries, Points, All
  <2> HIDE DEF Follow
  <2>2. mem' \cup imm \cup InRun(run) = all \cup {new}
    BY <1>1
  <2>3. run \in Seq(Block(all \cup {new}))
    <3> DEFINE B == Block(all)
               C == Block(all \cup {new})
    <3>1. B \subseteq C /\ run \in Seq(B)
      BY <2>1
    <3> HIDE DEF B, C
    <3>2. run \in Seq(C)
      BY <3>1
    <3>3. QED
      BY <3>2 DEF C
  <2>4. /\ all \cup {new} \subseteq Entries
        /\ \A d, e \in all \cup {new} : d.seq = e.seq => d = e
    <3>1. \A d \in all : d.seq # new.seq
      <4>1. \A d \in all : d.seq \in Nat /\ d.seq <= LastNumber
        <5>1. \A d \in Entries : d.seq \in Nat
          BY EntriesArePoints DEF Points
        <5>2. QED
          BY <1>2, <2>1, <5>1
      <4>2. QED
        BY <1>2, <1>3, <4>1
    <3>2. QED
      BY <1>3, <2>1, <3>1
  <2>5. /\ mem' \cap imm = {} /\ mem' \cap InRun(run) = {} /\ imm \cap InRun(run) = {}
    <3>1. new \notin imm /\ new \notin InRun(run)
      BY <1>4 DEF All
    <3>2. QED
      BY <1>1, <2>1, <3>1
  <2> HIDE DEF all, Block
  <2>6. Arranged(mem', imm, run)
    BY <2>1, <2>2, <2>3, <2>4, <2>5 DEF Arranged, Entries, Points, Block, Follow
  <2>7. QED
    BY <1>1, <1>2, <2>6 DEF StoreInv
<1>10. Key' = Key
  BY <1>1 DEF Key
<1>11. \A x, d : Reaches(x, d)' <=> Reaches(x, d)
  BY <1>1 DEF Reaches
<1>12. Ahead' = Ahead
  <2>1. \A d \in Seen, c \in Children : d \in Ents(c)' <=> d \in Ents(c)
    <3>1. \A d \in Seen : d # new
      BY <1>4 DEF Seen
    <3>2. QED
      BY <1>8, <3>1
  <2>2. QED
    BY <1>1, <1>7, <1>11, <2>1 DEF Ahead
<1>13. MergeInv'
  <2>1. \A c \in Children : pos'[c] = {} \/ \E e \in Ents(c)' : pos'[c] = {e}
    BY <1>1, <1>8 DEF MergeInv
  <2>2. sought' => \A e \in Key', f \in mem' :
           Visible(f)' /\ ~Before(f, e) => \E p \in pos'["mem"] : ~Before(f, p)
    BY <1>1, <1>4, <1>6, <1>10 DEF MergeInv
  <2>3. \A d \in Ahead', f \in Seen' : Reaches(d, f)' => f \in Ahead'
    BY <1>7, <1>11, <1>12 DEF MergeInv
  <2>4. current' = IF mdir' = "forward" THEN FindSmallest(pos)' ELSE FindLargest(pos)'
    BY <1>1 DEF MergeInv, FindSmallest, FindLargest
  <2>5. QED
    BY <1>1, <2>1, <2>2, <2>3, <2>4 DEF MergeInv
<1>14. QED
  BY <1>1, <1>5, <1>7, <1>9, <1>10, <1>12, <1>13

-----------------------------------------------------------------------------
(* The view, and where a call has to lead. *)

ViewOf(S) ==
  [k \in Keys |->
    LET seen == {d \in S : d.key = k /\ \A e \in S : e.key = k => e.seq <= d.seq}
    IN  IF seen = {} THEN Deleted ELSE (CHOOSE e \in seen : TRUE).val]

LEMMA ViewIs == SnapshotView = ViewOf(Seen)
<1>1. ASSUME NEW k \in Keys
      PROVE  Seek(All, k, sequence)
               = {d \in Seen : d.key = k /\ \A e \in Seen : e.key = k => e.seq <= d.seq}
  BY DEF Seek, Seen, Visible
<1> DEFINE Value(S) == IF S = {} THEN Deleted ELSE (CHOOSE e \in S : TRUE).val
           Found(k) == {d \in Seen : d.key = k /\ \A e \in Seen : e.key = k => e.seq <= d.seq}
<1>2. SnapshotView = [k \in Keys |-> Value(Seek(All, k, sequence))]
  BY DEF SnapshotView
<1>3. ViewOf(Seen) = [k \in Keys |-> Value(Found(k))]
  BY DEF ViewOf
<1>4. \A k \in Keys : Value(Seek(All, k, sequence)) = Value(Found(k))
  <2>1. \A k \in Keys : Seek(All, k, sequence) = Found(k)
    BY <1>1
  <2> HIDE DEF Value, Found
  <2>2. QED
    BY <2>1
<1> HIDE DEF Value, Found
<1>5. QED
  BY <1>2, <1>3, <1>4

\* The view is what the reader sees, so it stays while that does.
LEMMA SameView ==
  ASSUME Seen' = Seen
  PROVE  SnapshotView' = SnapshotView
<1>1. (SnapshotView = ViewOf(Seen))'
  BY ViewIs, PTL
<1>2. ViewOf(Seen)' = ViewOf(Seen)
  BY DEF ViewOf
<1>3. QED
  BY <1>1, <1>2, ViewIs

LEMMA SeenFacts ==
  ASSUME StoreInv, NEW d \in Seen
  PROVE  /\ d \in All /\ d \in Points /\ d \in Entries /\ Visible(d)
         /\ d.key \in Keys /\ d.key \in Nat /\ d.seq \in Nat /\ d.val \in 0 .. MaxSeq
         /\ d.seq <= sequence /\ sequence \in Nat
<1>1. d \in All /\ d \in Entries /\ Visible(d) /\ sequence \in Nat
  BY StoreFacts DEF Seen, Numbered, StoreInv
<1>2. d \in Points
  BY <1>1, EntriesArePoints
<1>3. QED
  BY <1>1, <1>2 DEF Entries, Points, Visible

LEMMA NewestOne ==
  ASSUME StoreInv, NEW d, Newest(d), NEW e, Newest(e), d.key = e.key
  PROVE  d = e
<1>1. d \in Seen /\ e \in Seen /\ d.seq <= e.seq /\ e.seq <= d.seq
  BY DEF Newest
<1>2. d.seq = e.seq
  BY <1>1, SeenFacts
<1>3. QED
  BY <1>1, <1>2, StoreFacts, SeenFacts DEF Numbered

LEMMA ViewFacts ==
  ASSUME StoreInv
  PROVE  /\ SnapshotView \in [Keys -> 0 .. MaxSeq]
         /\ \A d : Newest(d) => d \in Seen /\ d.key \in Keys /\ SnapshotView[d.key] = d.val
         /\ \A k \in Keys : SnapshotView[k] # Deleted => \E d \in Seen : Newest(d) /\ d.key = k
<1> DEFINE seen(k) == {d \in Seen : d.key = k /\ \A e \in Seen : e.key = k => e.seq <= d.seq}
<1>1. \A k \in Keys : \A d : d \in seen(k) <=> Newest(d) /\ d.key = k
  BY DEF Newest
<1>2. \A k \in Keys : SnapshotView[k] = IF seen(k) = {} THEN Deleted ELSE (CHOOSE e \in seen(k) : TRUE).val
  BY ViewIs DEF ViewOf
<1>3. MaxSeq \in Nat
  BY KeysAssumption
<1> HIDE DEF seen
<1>4. \A k \in Keys : seen(k) # {} =>
        (CHOOSE e \in seen(k) : TRUE) \in seen(k)
  OBVIOUS
<1>5. \A k \in Keys : SnapshotView[k] \in 0 .. MaxSeq
  <2> SUFFICES ASSUME NEW k \in Keys PROVE SnapshotView[k] \in 0 .. MaxSeq
    OBVIOUS
  <2>1. CASE seen(k) = {}
    BY <1>2, <1>3, <2>1 DEF Deleted
  <2>2. CASE seen(k) # {}
    <3>1. PICK e : e \in seen(k) /\ SnapshotView[k] = e.val
      BY <1>2, <1>4, <2>2
    <3>2. e \in Seen
      BY <1>1, <3>1 DEF Newest
    <3>3. QED
      BY <3>1, <3>2, SeenFacts
  <2>3. QED
    BY <2>1, <2>2
<1>6. SnapshotView \in [Keys -> 0 .. MaxSeq]
  <2>1. SnapshotView = [k \in Keys |-> SnapshotView[k]]
    BY DEF SnapshotView
  <2>2. QED
    BY <1>5, <2>1
<1>7. ASSUME NEW d, Newest(d)
      PROVE  d \in Seen /\ d.key \in Keys /\ SnapshotView[d.key] = d.val
  <2>1. d \in Seen /\ d.key \in Keys
    BY <1>7, SeenFacts DEF Newest
  <2>2. d \in seen(d.key)
    BY <1>1, <1>7, <2>1
  <2>3. PICK e : e \in seen(d.key) /\ SnapshotView[d.key] = e.val
    BY <1>2, <1>4, <2>1, <2>2
  <2>4. e = d
    BY <1>1, <1>7, <2>1, <2>3, NewestOne
  <2>5. QED
    BY <2>1, <2>3, <2>4
<1>8. ASSUME NEW k \in Keys, SnapshotView[k] # Deleted
      PROVE  \E d \in Seen : Newest(d) /\ d.key = k
  BY <1>1, <1>2, <1>4, <1>8 DEF Newest
<1>9. QED
  BY <1>6, <1>7, <1>8

\* The keys that are there.
There == {k \in Keys : \E d \in Seen : Newest(d) /\ d.key = k /\ d.val # Deleted}

LEMMA PresentIs ==
  ASSUME StoreInv
  PROVE  Snapshot!Present = There
<1>1. Snapshot!Present = {k \in Keys : SnapshotView[k] # Deleted}
  BY DEF Snapshot!Present, Snapshot!Deleted, Deleted
<1>2. QED
  BY <1>1, ViewFacts DEF There

Lowest(ks)  == {k \in ks : \A j \in ks : k <= j}
Highest(ks) == {k \in ks : \A j \in ks : k >= j}

Onwards == {"SeekToFirst", "Seek", "Next"}

LEMMA CallFacts ==
  ASSUME NEW c \in Calls
  PROVE  /\ c.op \in {"SeekToFirst", "SeekToLast", "Next", "Prev", "Seek"}
         /\ c.op = "Seek" => c.target \in Keys
BY DEF Calls

LEMMA GoalIs ==
  ASSUME StoreInv, CallInv, NEW c \in Calls, call = {c}
  PROVE  Snapshot!Goal(c) = IF c.op \in Onwards THEN Lowest(There \cap Wanted)
                            ELSE Highest(There \cap Wanted)
<1> DEFINE p == There
<1>1. \A k \in There : k \in Keys /\ k \in Nat
  BY KeysAssumption DEF There
<1>2. c.op \in {"SeekToFirst", "SeekToLast", "Next", "Prev", "Seek"}
  BY CallFacts
<1>3. CASE c.op \in {"SeekToFirst", "SeekToLast"}
  <2>1. Wanted = Keys
    BY <1>3 DEF Wanted
  <2>2. There \cap Wanted = There
    BY <1>1, <2>1
  <2>3. Snapshot!Goal(c) = IF c.op = "SeekToFirst" THEN Snapshot!Lowest(There)
                           ELSE Snapshot!Highest(There)
    BY <1>3, PresentIs DEF Snapshot!Goal
  <2>4. QED
    BY <1>3, <2>2, <2>3 DEF Snapshot!Lowest, Snapshot!Highest, Lowest, Highest, Onwards
<1>4. CASE c.op = "Seek"
  <2>1. {k \in There : k >= c.target} = There \cap Wanted
    BY <1>1, <1>4 DEF Wanted
  <2>2. Snapshot!Goal(c) = Snapshot!Lowest({k \in There : k >= c.target})
    BY <1>4, PresentIs DEF Snapshot!Goal
  <2>3. QED
    BY <1>4, <2>1, <2>2 DEF Snapshot!Lowest, Lowest, Onwards
<1>5. CASE c.op \in {"Next", "Prev"}
  <2>1. PICK h \in Keys, v \in 0 .. MaxSeq : before = {Pair(h, v)}
    BY <1>5 DEF CallInv
  <2>2. Pair(h, v).key = h
    BY DEF Pair
  <2>3. (CHOOSE k \in Keys : \E s \in (IF call = {} THEN Shown ELSE before) : s.key = k) = h
    BY <2>1, <2>2
  <2>4. /\ Snapshot!Goal(c) = IF c.op = "Next" THEN Snapshot!Lowest({j \in There : j > h})
                              ELSE Snapshot!Highest({j \in There : j < h})
    BY <1>5, <2>3, PresentIs DEF Snapshot!Goal
  <2>5. /\ c.op = "Next" => {j \in There : j > h} = There \cap Wanted
        /\ c.op = "Prev" => {j \in There : j < h} = There \cap Wanted
    BY <1>1, <2>1, <2>2 DEF Wanted
  <2>6. QED
    BY <1>5, <2>4, <2>5 DEF Snapshot!Lowest, Snapshot!Highest, Lowest, Highest, Onwards
<1>6. QED
  BY <1>2, <1>3, <1>4, <1>5

-----------------------------------------------------------------------------
(* The steps of a call. *)

LEMMA SameMerging ==
  ASSUME MergeInv, UNCHANGED store, UNCHANGED merging
  PROVE  /\ MergeInv' /\ Ahead' = Ahead /\ Key' = Key
         /\ mdir' = mdir /\ sought' = sought /\ current' = current
<1>1. /\ pos' = pos /\ current' = current /\ mdir' = mdir /\ sought' = sought
      /\ mem' = mem
  BY DEF merging, store
<1>2. Key' = Key
  BY <1>1 DEF Key
<1>3. \A x, d : Reaches(x, d)' <=> Reaches(x, d)
  BY <1>1 DEF Reaches
<1>4. Ahead' = Ahead
  BY <1>1, <1>3, SameStore DEF Ahead
<1>5. current' = IF mdir' = "forward" THEN FindSmallest(pos)' ELSE FindLargest(pos)'
  BY <1>1 DEF MergeInv, FindSmallest, FindLargest
<1>6. \A c \in Children : pos'[c] = {} \/ \E e \in Ents(c)' : pos'[c] = {e}
  BY <1>1, SameStore DEF MergeInv
<1>7. sought' => \A e \in Key', f \in mem' :
         Visible(f)' /\ ~Before(f, e) => \E p \in pos'["mem"] : ~Before(f, p)
  BY <1>1, <1>2, SameStore DEF MergeInv
<1>8. \A d \in Ahead', f \in Seen' : Reaches(d, f)' => f \in Ahead'
  BY <1>3, <1>4, SameStore DEF MergeInv
<1>9. MergeInv'
  BY <1>1, <1>5, <1>6, <1>7, <1>8 DEF MergeInv
<1>10. QED
  BY <1>1, <1>2, <1>4, <1>9

LEMMA SameCall ==
  ASSUME Seen' = Seen, call' = call, before' = before
  PROVE  Wanted' = Wanted /\ \A d : Newest(d)' <=> Newest(d)
BY DEF Wanted, Newest

LEMMA GoesOn ==
  ASSUME Seen' = Seen, call' = call, call # {}, before' = before
  PROVE  [Snapshot!Next]_(Snapshot!vars)
<1>1. SnapshotView' = SnapshotView
  BY SameView
<1>2. UNCHANGED Snapshot!vars
  BY <1>1 DEF Snapshot!vars
<1>3. QED
  BY <1>2

LEMMA Returns ==
  ASSUME StoreInv, CallInv, Seen' = Seen, NEW c \in Calls, call = {c}, call' = {},
         Shown' = {Pair(k, SnapshotView[k]) :
                     k \in IF c.op \in Onwards THEN Lowest(There \cap Wanted)
                           ELSE Highest(There \cap Wanted)}
  PROVE  [Snapshot!Next]_(Snapshot!vars)
<1>1. Snapshot!Goal(c) = IF c.op \in Onwards THEN Lowest(There \cap Wanted)
                         ELSE Highest(There \cap Wanted)
  BY GoalIs
<1>2. Shown' = {[key |-> k, val |-> SnapshotView[k]] : k \in Snapshot!Goal(c)}
  BY <1>1 DEF Pair
<1>3. (IF call = {} THEN Shown ELSE before)' = Shown'
  OBVIOUS
<1>4. SnapshotView' = SnapshotView
  BY SameView
<1>5. Snapshot!Return(c)
  BY <1>2, <1>3, <1>4 DEF Snapshot!Return
<1>6. c \in Snapshot!Calls
  BY DEF Calls, Snapshot!Calls
<1>7. QED
  BY <1>5, <1>6 DEF Snapshot!Next

LEMMA Under ==
  ASSUME CallInv, pc # "idle"
  PROVE  \E c \in Calls :
           /\ call = {c} /\ pc \in {c.op, "FindNext", "FindPrev", "Leave"}
           /\ pc = c.op => before = Shown /\ (c.op \in {"Next", "Prev"} => valid)
           /\ pc = "FindNext" => c.op \in {"SeekToFirst", "Seek", "Next"}
           /\ pc = "FindPrev" => c.op \in {"SeekToLast", "Prev"}
           /\ pc = "Leave" => c.op = "Prev"
           /\ c.op \in {"Next", "Prev"} => \E k \in Keys, v \in 0 .. MaxSeq : before = {Pair(k, v)}
           /\ c.op \in {"SeekToFirst", "SeekToLast", "Next", "Prev", "Seek"}
BY CallFacts DEF CallInv

LEMMA Into ==
  ASSUME CallInv, NEW c \in Calls, call = {c}, call' = call, before' = before,
         pc' \in {"FindNext", "FindPrev", "Leave"},
         pc' = "FindNext" => c.op \in {"SeekToFirst", "Seek", "Next"},
         pc' = "FindPrev" => c.op \in {"SeekToLast", "Prev"},
         pc' = "Leave" => c.op = "Prev"
  PROVE  CallInv'
<1>1. c.op \in {"SeekToFirst", "SeekToLast", "Next", "Prev", "Seek"}
  BY CallFacts
<1>2. pc' # c.op
  BY <1>1
<1>3. pc' # "idle" /\ call' # {} /\ \E d \in Calls : call' = {d}
  OBVIOUS
<1>4. c.op \in {"Next", "Prev"} => \E k \in Keys, v \in 0 .. MaxSeq : before' = {Pair(k, v)}
  BY DEF CallInv
<1>5. \A d \in call' : d = c
  OBVIOUS
<1>6. QED
  BY <1>2, <1>3, <1>4, <1>5 DEF CallInv

LEMMA Back ==
  ASSUME pc' = "idle", call' = {}
  PROVE  CallInv'
BY DEF CallInv

LEMMA DeletedIsValue == Deleted \in 0 .. MaxSeq
BY KeysAssumption DEF Deleted

LEMMA SeekToFirstStep ==
  ASSUME IInv, SeekToFirst
  PROVE  IInv' /\ [Snapshot!Next]_(Snapshot!vars)
<1>1. /\ StoreInv /\ MergeInv /\ MembersTyped /\ CallInv /\ UNCHANGED store
      /\ pc = "SeekToFirst" /\ pc' = "FindNext" /\ call' = call /\ before' = before
      /\ direction' = "forward" /\ savedValue' = Deleted /\ skipping' = FALSE
      /\ valid' = valid /\ savedKey' = savedKey /\ valueType' = valueType
      /\ IterSeekToFirst
  BY DEF IInv, SeekToFirst, GoOn
<1>2. PICK c \in Calls : call = {c} /\ c.op = "SeekToFirst"
  BY <1>1, Under
<1>3. MergeInv' /\ mdir' = "forward" /\ ~sought' /\ Ahead' = Seen
  BY <1>1, FirstStep
<1>4. StoreInv' /\ Seen' = Seen
  BY <1>1, SameStore
<1>5. CallInv'
  BY <1>1, <1>2, Into
<1>6. MembersTyped'
  BY <1>1, DeletedIsValue, Zenon DEF MembersTyped
<1>7. Wanted' = Wanted /\ Wanted = Keys
  BY <1>1, <1>2, <1>4, SameCall DEF Wanted
<1>8. Forward'
  BY <1>1, <1>3, <1>4, <1>7, SeenFacts DEF Forward, Hidden
<1>9. LoopInv'
  BY <1>1, <1>8 DEF LoopInv
<1>10. [Snapshot!Next]_(Snapshot!vars)
  BY <1>1, <1>2, <1>4, GoesOn
<1>11. QED
  BY <1>3, <1>4, <1>5, <1>6, <1>9, <1>10 DEF IInv

LEMMA SeekTargetStep ==
  ASSUME IInv, NEW a \in call, SeekTarget(a)
  PROVE  IInv' /\ [Snapshot!Next]_(Snapshot!vars)
<1> DEFINE t == Entry(a.target, sequence, Deleted)
<1>1. /\ StoreInv /\ MergeInv /\ MembersTyped /\ CallInv /\ UNCHANGED store
      /\ pc = "Seek" /\ pc' = "FindNext" /\ call' = call /\ before' = before
      /\ direction' = "forward" /\ savedValue' = Deleted /\ skipping' = FALSE
      /\ valid' = valid /\ savedKey' = {} /\ valueType' = valueType
      /\ IterSeek(t)
  BY DEF IInv, SeekTarget, GoOn
<1>2. PICK c \in Calls : call = {c} /\ c.op = "Seek"
  BY <1>1, Under
<1>3. a = c /\ a.target \in Keys
  BY <1>2, CallFacts
<1>4. t \in Points /\ t.key = a.target /\ t.seq = sequence
  BY <1>1, <1>3, KeysAssumption DEF Entry, Points, Deleted, StoreInv
<1> HIDE DEF t
<1>5. /\ MergeInv' /\ mdir' = "forward" /\ ~sought'
      /\ Ahead' = {d \in Seen : ~Before(d, t)}
  BY <1>1, <1>4, SeekStep
<1>6. \A d \in Seen : ~Before(d, t) <=> d.key >= a.target
  <2> SUFFICES ASSUME NEW d \in Seen PROVE ~Before(d, t) <=> d.key >= a.target
    OBVIOUS
  <2>1. d.key \in Nat /\ d.seq \in Nat /\ d.seq <= sequence /\ sequence \in Nat
    BY <1>1, SeenFacts
  <2>2. a.target \in Nat
    BY <1>3, KeysAssumption
  <2>3. QED
    BY <1>4, <2>1, <2>2 DEF Before
<1>7. StoreInv' /\ Seen' = Seen
  BY <1>1, SameStore
<1>8. CallInv'
  BY <1>1, <1>2, Into
<1>9. MembersTyped'
  BY <1>1, DeletedIsValue, Zenon DEF MembersTyped
<1>10. Wanted' = Wanted /\ Wanted = {k \in Keys : k >= a.target}
  BY <1>1, <1>2, <1>3, <1>7, SameCall DEF Wanted
<1>11. Forward'
  BY <1>1, <1>5, <1>6, <1>7, <1>10, SeenFacts DEF Forward, Hidden
<1>12. LoopInv'
  BY <1>1, <1>11 DEF LoopInv
<1>13. [Snapshot!Next]_(Snapshot!vars)
  BY <1>1, <1>2, <1>7, GoesOn
<1>14. QED
  BY <1>5, <1>7, <1>8, <1>9, <1>12, <1>13 DEF IInv

LEMMA SeekToLastStep ==
  ASSUME IInv, SeekToLast
  PROVE  IInv' /\ [Snapshot!Next]_(Snapshot!vars)
<1>1. /\ StoreInv /\ MergeInv /\ MembersTyped /\ CallInv /\ UNCHANGED store
      /\ pc = "SeekToLast" /\ pc' = "FindPrev" /\ call' = call /\ before' = before
      /\ direction' = "reverse" /\ savedValue' = Deleted /\ skipping' = skipping
      /\ valid' = valid /\ savedKey' = savedKey /\ valueType' = "deletion"
      /\ IterSeekToLast
  BY DEF IInv, SeekToLast, GoOn
<1>2. PICK c \in Calls : call = {c} /\ c.op = "SeekToLast"
  BY <1>1, Under
<1>3. MergeInv' /\ mdir' = "reverse" /\ ~sought' /\ Ahead' = Seen
  BY <1>1, LastStep
<1>4. StoreInv' /\ Seen' = Seen
  BY <1>1, SameStore
<1>5. CallInv'
  BY <1>1, <1>2, Into
<1>6. MembersTyped'
  BY <1>1, DeletedIsValue, Zenon DEF MembersTyped
<1>7. Wanted' = Wanted /\ Wanted = Keys
  BY <1>1, <1>2, <1>4, SameCall DEF Wanted
<1>8. Passed' = {}
  BY <1>3, <1>4 DEF Passed
<1>9. Backward'
  BY <1>1, <1>3, <1>7, <1>8, SeenFacts DEF Backward
<1>10. LoopInv'
  BY <1>1, <1>9 DEF LoopInv
<1>11. [Snapshot!Next]_(Snapshot!vars)
  BY <1>1, <1>2, <1>4, GoesOn
<1>12. QED
  BY <1>3, <1>4, <1>5, <1>6, <1>10, <1>11 DEF IInv

LEMMA NextCallStep ==
  ASSUME IInv, NextCall
  PROVE  IInv' /\ [Snapshot!Next]_(Snapshot!vars)
<1>1. /\ StoreInv /\ MergeInv /\ MembersTyped /\ CallInv /\ LoopInv /\ UNCHANGED store
      /\ pc = "Next" /\ pc' = "FindNext" /\ call' = call /\ before' = before
      /\ direction' = "forward" /\ skipping' = TRUE
      /\ valid' = valid /\ savedValue' = savedValue /\ valueType' = valueType
  BY DEF IInv, NextCall, GoOn
<1>2. \/ /\ direction = "reverse" /\ savedKey' = savedKey
         /\ IF Key = {} THEN IterSeekToFirst ELSE IterNext
      \/ /\ direction = "forward" /\ savedKey' = {e.key : e \in Key}
         /\ UNCHANGED merging
  BY DEF NextCall
<1>3. PICK c \in Calls : call = {c} /\ c.op = "Next" /\ before = Shown /\ valid
  BY <1>1, Under
<1>4. StoreInv' /\ Seen' = Seen
  BY <1>1, SameStore
<1>5. CallInv'
  BY <1>1, <1>3, Into
<1>6. Rest
  BY <1>1 DEF LoopInv
\* Either way, what is ahead is at the key or above it, and the key is hidden.
<1>7. \E h \in Keys :
        /\ savedKey' = {h} /\ Wanted = {k \in Keys : k > h}
        /\ MergeInv' /\ mdir' = "forward" /\ ~sought'
        /\ \A d \in Seen : d.key > h => d \in Ahead'
        /\ \A d \in Ahead' : d.key >= h
        /\ Ahead' \subseteq Seen
  <2>1. ASSUME NEW h \in Keys, NEW v, Shown = {Pair(h, v)}
        PROVE  Wanted = {k \in Keys : k > h}
    BY <1>3, <2>1 DEF Wanted, Pair
  <2>2. CASE direction = "reverse"
    <3>1. RestReverse
      BY <1>3, <1>6, <2>2 DEF Rest
    <3>2. PICK d \in Seen : /\ savedKey = {d.key} /\ savedValue = d.val
                            /\ Ahead = {e \in Seen : e.key < d.key}
                            /\ \A e \in Key : Visible(e) /\ e.key < d.key
      BY <3>1 DEF RestReverse
    <3>3. mdir = "reverse" /\ d.key \in Keys /\ d.key \in Nat
      BY <1>1, <3>1, SeenFacts DEF RestReverse
    <3>4. Shown = {Pair(d.key, savedValue)}
      BY <1>3, <2>2, <3>2 DEF Shown
    <3>5. Wanted = {k \in Keys : k > d.key}
      BY <2>1, <3>3, <3>4
    <3>6. savedKey' = {d.key}
      BY <1>2, <2>2, <3>2
    <3>7. CASE Key = {}
      <4>1. MergeInv' /\ mdir' = "forward" /\ ~sought' /\ Ahead' = Seen
        BY <1>1, <1>2, <2>2, <3>7, FirstStep
      <4>2. Ahead = {}
        BY <1>1, <3>7, FrontHolds DEF FrontKept
      <4>3. \A x \in Seen : x.key >= d.key
        <5>1. \A x \in Seen : x.key \in Nat /\ ~(x.key < d.key)
          BY <1>1, <3>2, <4>2, SeenFacts
        <5>2. QED
          BY <3>3, <5>1
      <4>4. QED
        BY <3>3, <3>5, <3>6, <4>1, <4>3
    <3>8. CASE Key # {}
      <4>1. IterNext
        BY <1>2, <2>2, <3>8
      <4>2. PICK e \in All :
              /\ MergeInv' /\ mdir' = "forward" /\ ~sought' /\ Key = {e}
              /\ Ahead' = {x \in Seen : Before(e, x)}
        BY <1>1, <3>3, <4>1, NextStep
      <4>3. e.key < d.key /\ e.key \in Nat
        <5>1. e \in Points
          BY <1>1, StoreFacts
        <5>2. QED
          BY <3>2, <4>2, <5>1 DEF Points
      <4>4. \A x \in Ahead : ~Before(e, x)
        BY <1>1, <3>3, <4>2, FrontHolds DEF FrontKept, Reaches
      <4>5. \A x \in Seen : x.key \in Nat /\ (Before(e, x) => x.key >= d.key)
        <5> SUFFICES ASSUME NEW x \in Seen
                     PROVE  x.key \in Nat /\ (Before(e, x) => x.key >= d.key)
          OBVIOUS
        <5>1. x.key \in Nat
          BY <1>1, SeenFacts
        <5>2. x.key < d.key => ~Before(e, x)
          BY <3>2, <4>4
        <5>3. QED
          BY <3>3, <5>1, <5>2
      <4>6. \A x \in Seen : x.key > d.key => Before(e, x)
        BY <3>3, <4>3, <4>5 DEF Before
      <4>7. QED
        BY <3>3, <3>5, <3>6, <4>2, <4>5, <4>6
    <3>9. QED
      BY <3>7, <3>8
  <2>3. CASE direction = "forward"
    <3>1. RestForward
      BY <1>3, <1>6, <2>3 DEF Rest
    <3>2. PICK e \in Seen : /\ Key = {e} /\ Ahead = {d \in Seen : ~Before(d, e)}
      BY <3>1 DEF RestForward
    <3>3. mdir = "forward" /\ ~sought /\ e.key \in Keys /\ e.key \in Nat
      BY <1>1, <3>1, SeenFacts DEF RestForward
    <3>4. Shown = {Pair(e.key, e.val)}
      BY <1>3, <2>3, <3>2 DEF Shown
    <3>5. Wanted = {k \in Keys : k > e.key}
      BY <2>1, <3>3, <3>4
    <3>6. savedKey' = {e.key} /\ UNCHANGED merging
      BY <1>2, <2>3, <3>2
    <3>7. MergeInv' /\ mdir' = "forward" /\ ~sought' /\ Ahead' = Ahead
      BY <1>1, <3>3, <3>6, SameMerging
    <3>8. \A d \in Seen : /\ d.key > e.key => ~Before(d, e)
                          /\ ~Before(d, e) => d.key >= e.key
      <4> SUFFICES ASSUME NEW d \in Seen
                   PROVE  /\ d.key > e.key => ~Before(d, e)
                          /\ ~Before(d, e) => d.key >= e.key
        OBVIOUS
      <4>1. d.key \in Nat
        BY <1>1, SeenFacts
      <4>2. QED
        BY <3>3, <4>1 DEF Before
    <3>9. QED
      BY <3>2, <3>3, <3>5, <3>6, <3>7, <3>8
  <2>4. QED
    BY <1>2, <2>2, <2>3
<1>8. PICK h \in Keys :
        /\ savedKey' = {h} /\ Wanted = {k \in Keys : k > h}
        /\ MergeInv' /\ mdir' = "forward" /\ ~sought'
        /\ \A d \in Seen : d.key > h => d \in Ahead'
        /\ \A d \in Ahead' : d.key >= h
        /\ Ahead' \subseteq Seen
  BY <1>7
<1>9. h \in Nat
  BY KeysAssumption
<1>10. MembersTyped'
  BY <1>1, <1>8, Zenon DEF MembersTyped
<1>11. Wanted' = Wanted
  BY <1>1, <1>4, SameCall
<1>12. \A d \in Seen : Hidden(d)' <=> d.key <= h
  BY <1>1, <1>8 DEF Hidden
<1>13. \A d \in Seen : d.key \in Keys /\ d.key \in Nat /\ (~(d.key <= h) <=> d.key > h)
  BY <1>1, <1>9, SeenFacts
<1>14. Forward'
  <2>1. \A d \in Seen' : Newest(d)' /\ d.val # Deleted /\ d.key \in Wanted' =>
           d \in Ahead' /\ ~Hidden(d)'
    BY <1>4, <1>8, <1>11, <1>12, <1>13
  <2>2. \A d \in Ahead' : ~Hidden(d)' =>
           d.key \in Wanted' /\ \A e \in Seen' : e.key = d.key => e \in Ahead'
    BY <1>4, <1>8, <1>11, <1>12, <1>13
  <2>3. \A d \in Ahead' : \E k \in savedKey' : k <= d.key
    BY <1>8, <1>9, <1>13
  <2>4. QED
    BY <1>1, <1>8, <2>1, <2>2, <2>3 DEF Forward
<1>15. LoopInv'
  BY <1>1, <1>14 DEF LoopInv
<1>16. [Snapshot!Next]_(Snapshot!vars)
  BY <1>1, <1>3, <1>4, GoesOn
<1>17. QED
  BY <1>4, <1>5, <1>8, <1>10, <1>15, <1>16 DEF IInv

\* FindNextUserEntry at the end: nothing that is wanted is left.
LEMMA NextEnds ==
  ASSUME IInv, pc = "FindNext", Key = {}, valid' = FALSE, savedKey' = {}, Returned,
         UNCHANGED store, UNCHANGED <<direction, savedValue>>, UNCHANGED merging
  PROVE  IInv' /\ [Snapshot!Next]_(Snapshot!vars)
<1>1. /\ StoreInv /\ MergeInv /\ MembersTyped /\ CallInv /\ Forward
      /\ pc' = "idle" /\ call' = {} /\ before' = {}
      /\ skipping' = FALSE /\ valueType' = "deletion"
  BY DEF IInv, LoopInv, Returned
<1>2. PICK c \in Calls : call = {c} /\ c.op \in Onwards
  BY <1>1, Under DEF Onwards
<1>3. StoreInv' /\ Seen' = Seen /\ MergeInv'
  BY <1>1, SameStore, SameMerging
<1>4. Ahead = {}
  BY <1>1, FrontHolds DEF FrontKept
<1>5. There \cap Wanted = {}
  BY <1>1, <1>4 DEF Forward, There
<1>6. Shown' = {}
  BY DEF Shown
<1>7. Lowest(There \cap Wanted) = {}
  BY <1>5 DEF Lowest
<1>8. [Snapshot!Next]_(Snapshot!vars)
  <2>1. Shown' = {Pair(k, SnapshotView[k]) :
                    k \in IF c.op \in Onwards THEN Lowest(There \cap Wanted)
                          ELSE Highest(There \cap Wanted)}
    BY <1>2, <1>6, <1>7
  <2>2. QED
    BY <1>1, <1>2, <1>3, <2>1, Returns
<1>9. MembersTyped'
  BY <1>1, Zenon DEF MembersTyped
<1>10. CallInv' /\ LoopInv'
  BY <1>1, Back DEF LoopInv, Rest
<1>11. QED
  BY <1>3, <1>8, <1>9, <1>10 DEF IInv

\* FindNextUserEntry at an entry it shows: the lowest key that is wanted.
LEMMA NextFinds ==
  ASSUME IInv, pc = "FindNext", NEW e \in Key, Visible(e), e.val # Deleted, ~Hidden(e),
         valid' = TRUE, savedKey' = {}, Returned,
         UNCHANGED store, UNCHANGED <<direction, savedValue>>, UNCHANGED merging
  PROVE  IInv' /\ [Snapshot!Next]_(Snapshot!vars)
<1>1. /\ StoreInv /\ MergeInv /\ MembersTyped /\ CallInv /\ Forward
      /\ pc' = "idle" /\ call' = {} /\ before' = {}
      /\ skipping' = FALSE /\ valueType' = "deletion"
      /\ direction' = direction /\ savedValue' = savedValue
  BY DEF IInv, LoopInv, Returned
<1>2. PICK c \in Calls : call = {c} /\ c.op \in Onwards
  BY <1>1, Under DEF Onwards
<1>3. /\ StoreInv' /\ Seen' = Seen /\ MergeInv'
      /\ Ahead' = Ahead /\ Key' = Key /\ mdir' = mdir /\ sought' = sought
  BY <1>1, SameStore, SameMerging
<1>4. direction = "forward" /\ mdir = "forward" /\ ~sought
  BY <1>1 DEF Forward
<1>5. Key = {e} /\ e \in Ahead /\ e \in Seen /\ \A d \in Ahead : ~Before(d, e)
  <2>1. Key = {e} /\ e \in Ahead /\ \A d \in Ahead : ~Before(d, e)
    BY <1>1, <1>4, FrontHolds DEF FrontKept, Reaches
  <2>2. QED
    BY <2>1 DEF Ahead
<1>6. e.key \in Wanted /\ \A d \in Seen : d.key = e.key => d \in Ahead
  BY <1>1, <1>5 DEF Forward
<1>7. e.key \in Keys /\ e.key \in Nat /\ e.seq \in Nat
  BY <1>1, <1>5, SeenFacts
<1>8. Newest(e)
  <2>1. ASSUME NEW d \in Seen, d.key = e.key
        PROVE  d.seq <= e.seq
    <3>1. ~Before(d, e) /\ d.seq \in Nat
      BY <1>1, <1>5, <1>6, <2>1, SeenFacts
    <3>2. QED
      BY <1>7, <2>1, <3>1 DEF Before
  <2>2. QED
    BY <1>5, <2>1 DEF Newest
<1>9. e.key \in There \cap Wanted
  BY <1>5, <1>6, <1>7, <1>8 DEF There
<1>10. ASSUME NEW k \in There \cap Wanted
       PROVE  e.key <= k /\ k \in Nat
  <2>1. PICK d \in Seen : Newest(d) /\ d.key = k /\ d.val # Deleted
    BY DEF There
  <2>2. ~Before(d, e)
    BY <1>1, <1>5, <2>1 DEF Forward
  <2>3. d.key \in Nat
    BY <1>1, SeenFacts
  <2>4. QED
    BY <1>7, <2>1, <2>2, <2>3 DEF Before
<1>11. Lowest(There \cap Wanted) = {e.key}
  BY <1>7, <1>9, <1>10 DEF Lowest
<1>12. Shown' = {Pair(e.key, e.val)}
  <2>1. Shown' = {Pair(d.key, d.val) : d \in Key'}
    BY <1>1, <1>4 DEF Shown
  <2>2. QED
    BY <1>3, <1>5, <2>1
<1>13. SnapshotView[e.key] = e.val
  BY <1>1, <1>8, ViewFacts
<1>14. [Snapshot!Next]_(Snapshot!vars)
  <2>1. Shown' = {Pair(k, SnapshotView[k]) :
                    k \in IF c.op \in Onwards THEN Lowest(There \cap Wanted)
                          ELSE Highest(There \cap Wanted)}
    BY <1>2, <1>11, <1>12, <1>13
  <2>2. QED
    BY <1>1, <1>2, <1>3, <2>1, Returns
<1>15. MembersTyped'
  BY <1>1, Zenon DEF MembersTyped
<1>16. Ahead = {d \in Seen : ~Before(d, e)}
  <2>1. Ahead \subseteq Seen
    BY DEF Ahead
  <2>2. \A d \in Seen : ~Before(d, e) => d \in Ahead
    BY <1>1, <1>4, <1>5 DEF MergeInv, Reaches
  <2>3. QED
    BY <1>5, <2>1, <2>2
<1>17. RestForward'
  <2>1. Newest(e)'
    BY <1>3, <1>8 DEF Newest
  <2>2. QED
    BY <1>3, <1>4, <1>5, <1>16, <2>1 DEF RestForward
<1>18. LoopInv' /\ CallInv'
  BY <1>1, <1>4, <1>17, Back DEF LoopInv, Rest
<1>19. QED
  BY <1>3, <1>14, <1>15, <1>18 DEF IInv

\* FindNextUserEntry at an entry it passes over.
LEMMA NextSkips ==
  ASSUME IInv, pc = "FindNext", NEW e \in Key,
         ~Visible(e) \/ e.val = Deleted \/ Hidden(e),
         IF Visible(e) /\ e.val = Deleted
         THEN savedKey' = {e.key} /\ skipping' = TRUE
         ELSE UNCHANGED <<savedKey, skipping>>,
         IterNext, GoOn("FindNext"),
         UNCHANGED <<valid, valueType>>, UNCHANGED store, UNCHANGED <<direction, savedValue>>
  PROVE  IInv' /\ [Snapshot!Next]_(Snapshot!vars)
<1>1. /\ StoreInv /\ MergeInv /\ MembersTyped /\ CallInv /\ Forward
      /\ pc' = "FindNext" /\ call' = call /\ before' = before
      /\ direction' = direction /\ savedValue' = savedValue
      /\ valid' = valid /\ valueType' = valueType
  BY DEF IInv, LoopInv, GoOn
<1>2. PICK c \in Calls : call = {c} /\ c.op \in {"SeekToFirst", "Seek", "Next"}
  BY <1>1, Under
<1>3. direction = "forward" /\ mdir = "forward" /\ ~sought
  BY <1>1 DEF Forward
<1>4. /\ Key = {e} /\ e \in All /\ \A d \in Ahead : ~Before(d, e)
      /\ Visible(e) => e \in Ahead
  <2>1. /\ Key = {e} /\ \A d \in Ahead : ~Before(d, e)
        /\ Visible(e) => e \in Ahead
    BY <1>1, <1>3, FrontHolds DEF FrontKept, Reaches
  <2>2. e \in All
    BY <1>1, <2>1, FrontHolds, StoreFacts DEF FrontKept
  <2>3. QED
    BY <2>1, <2>2
<1>5. MergeInv' /\ mdir' = "forward" /\ ~sought' /\ Ahead' = Ahead \ {e}
  BY <1>1, <1>3, <1>4, NextStep
<1>6. StoreInv' /\ Seen' = Seen
  BY <1>1, SameStore
<1>7. Wanted' = Wanted /\ \A d : Newest(d)' <=> Newest(d)
  BY <1>1, <1>6, SameCall
<1>8. CallInv'
  BY <1>1, <1>2, Into
<1>9. [Snapshot!Next]_(Snapshot!vars)
  BY <1>1, <1>2, <1>6, GoesOn
<1>10. Ahead \subseteq Seen /\ \A d \in Seen : d.key \in Nat /\ d.seq \in Nat
  BY <1>1, SeenFacts DEF Ahead
<1>11. CASE Visible(e) /\ e.val = Deleted
  <2>1. savedKey' = {e.key} /\ skipping' = TRUE
    BY <1>11
  <2>2. e \in Ahead /\ e \in Seen /\ e.key \in Keys /\ e.key \in Nat /\ e.seq \in Nat
    BY <1>1, <1>4, <1>10, <1>11, SeenFacts
  <2>3. \A d : Hidden(d)' <=> d.key <= e.key
    BY <2>1 DEF Hidden
  <2>4. ASSUME NEW d \in Seen, Newest(d), d.val # Deleted, d.key \in Wanted
        PROVE  d \in Ahead' /\ ~Hidden(d)'
    <3>1. d \in Ahead /\ d # e
      BY <1>1, <1>11, <2>4 DEF Forward
    <3>2. ~Before(d, e) /\ d.key \in Nat /\ d.seq \in Nat
      BY <1>4, <1>10, <3>1
    <3>3. d.key # e.key
      <4>1. ASSUME d.key = e.key PROVE FALSE
        <5>1. e.seq <= d.seq
          BY <2>2, <2>4, <4>1 DEF Newest
        <5>2. ~Before(e, d)
          BY <2>2, <3>2, <4>1, <5>1 DEF Before
        <5>3. QED
          BY <1>1, <1>4, <3>1, <3>2, <5>2, StoreFacts, Total, SeenFacts
      <4>2. QED
        BY <4>1
    <3>4. ~(d.key <= e.key)
      BY <2>2, <3>2, <3>3 DEF Before
    <3>5. QED
      BY <1>5, <2>3, <3>1, <3>4
  <2>5. ASSUME NEW d \in Ahead', ~Hidden(d)'
        PROVE  d.key \in Wanted /\ \A x \in Seen : x.key = d.key => x \in Ahead'
    <3>1. d \in Ahead /\ d.key \in Nat /\ ~(d.key <= e.key)
      BY <1>5, <1>10, <2>3, <2>5
    <3>2. ~Hidden(d)
      <4> SUFFICES ASSUME Hidden(d) PROVE FALSE
        OBVIOUS
      <4>1. skipping /\ \E k \in savedKey : d.key <= k
        BY DEF Hidden
      <4>2. PICK k \in Keys : savedKey = {k}
        BY <1>1, <4>1 DEF MembersTyped
      <4>3. k <= e.key /\ d.key <= k /\ k \in Nat
        BY <1>1, <2>2, <4>1, <4>2, KeysAssumption DEF Forward
      <4>4. QED
        BY <2>2, <3>1, <4>3
    <3>3. d.key \in Wanted /\ \A x \in Seen : x.key = d.key => x \in Ahead
      BY <1>1, <3>1, <3>2 DEF Forward
    <3>4. d.key # e.key
      BY <2>2, <3>1
    <3>5. QED
      BY <1>5, <3>3, <3>4
  <2>6. \A d \in Ahead' : \E k \in savedKey' : k <= d.key
    <3>1. \A d \in Ahead' : e.key <= d.key
      <4> SUFFICES ASSUME NEW d \in Ahead' PROVE e.key <= d.key
        OBVIOUS
      <4>1. ~Before(d, e) /\ d.key \in Nat
        BY <1>4, <1>5, <1>10
      <4>2. QED
        BY <2>2, <4>1 DEF Before
    <3>2. QED
      BY <2>1, <3>1
  <2>7. Forward'
    BY <1>1, <1>3, <1>5, <1>6, <1>7, <2>4, <2>5, <2>6 DEF Forward
  <2>8. MembersTyped'
    BY <1>1, <2>1, <2>2, Zenon DEF MembersTyped
  <2>9. LoopInv'
    BY <1>1, <2>7 DEF LoopInv
  <2>10. QED
    BY <1>5, <1>6, <1>8, <1>9, <2>8, <2>9 DEF IInv
<1>12. CASE ~(Visible(e) /\ e.val = Deleted)
  <2>1. savedKey' = savedKey /\ skipping' = skipping
    BY <1>12
  <2>2. \A d : Hidden(d)' <=> Hidden(d)
    BY <2>1 DEF Hidden
  <2>3. ~Visible(e) \/ Hidden(e)
    BY <1>12
  <2>4. ASSUME NEW d \in Seen, Newest(d), d.val # Deleted, d.key \in Wanted
        PROVE  d \in Ahead' /\ ~Hidden(d)'
    <3>1. d \in Ahead /\ ~Hidden(d)
      BY <1>1, <2>4 DEF Forward
    <3>2. d # e
      BY <2>3, <3>1 DEF Seen
    <3>3. QED
      BY <1>5, <2>2, <3>1, <3>2
  <2>5. ASSUME NEW d \in Ahead', ~Hidden(d)'
        PROVE  d.key \in Wanted /\ \A x \in Seen : x.key = d.key => x \in Ahead'
    <3>1. d \in Ahead /\ ~Hidden(d)
      BY <1>5, <2>2, <2>5
    <3>2. d.key \in Wanted /\ \A x \in Seen : x.key = d.key => x \in Ahead
      BY <1>1, <3>1 DEF Forward
    <3>3. \A x \in Seen : x.key = d.key => x # e
      <4>1. \A x : x.key = d.key => ~Hidden(x)
        BY <3>1 DEF Hidden
      <4>2. QED
        BY <2>3, <4>1 DEF Seen
    <3>4. QED
      BY <1>5, <3>2, <3>3
  <2>6. skipping' => \A d \in Ahead' : \E k \in savedKey' : k <= d.key
    BY <1>1, <1>5, <2>1 DEF Forward
  <2>7. Forward'
    BY <1>1, <1>3, <1>5, <1>6, <1>7, <2>4, <2>5, <2>6 DEF Forward
  <2>8. MembersTyped'
    BY <1>1, <2>1, Zenon DEF MembersTyped
  <2>9. LoopInv'
    BY <1>1, <2>7 DEF LoopInv
  <2>10. QED
    BY <1>5, <1>6, <1>8, <1>9, <2>8, <2>9 DEF IInv
<1>13. QED
  BY <1>11, <1>12

LEMMA FindNextStep ==
  ASSUME IInv, FindNextUserEntry
  PROVE  IInv' /\ [Snapshot!Next]_(Snapshot!vars)
<1>1. pc = "FindNext" /\ UNCHANGED store /\ UNCHANGED <<direction, savedValue>>
  BY DEF FindNextUserEntry
<1>2. CASE /\ Key = {} /\ valid' = FALSE /\ savedKey' = {} /\ Returned
           /\ UNCHANGED merging
  BY <1>1, <1>2, NextEnds
<1>3. ASSUME NEW e \in Key, Visible(e), e.val # Deleted, ~Hidden(e),
             valid' = TRUE, savedKey' = {}, Returned, UNCHANGED merging
      PROVE  IInv' /\ [Snapshot!Next]_(Snapshot!vars)
  BY <1>1, <1>3, NextFinds
<1>4. ASSUME NEW e \in Key,
             ~Visible(e) \/ e.val = Deleted \/ Hidden(e),
             IF Visible(e) /\ e.val = Deleted
             THEN savedKey' = {e.key} /\ skipping' = TRUE
             ELSE UNCHANGED <<savedKey, skipping>>,
             IterNext, GoOn("FindNext"), UNCHANGED <<valid, valueType>>
      PROVE  IInv' /\ [Snapshot!Next]_(Snapshot!vars)
  BY <1>1, <1>4, NextSkips
<1>5. QED
  BY <1>2, <1>3, <1>4 DEF FindNextUserEntry

LEMMA PrevCallStep ==
  ASSUME IInv, PrevCall
  PROVE  IInv' /\ [Snapshot!Next]_(Snapshot!vars)
<1>1. /\ StoreInv /\ MergeInv /\ MembersTyped /\ CallInv /\ LoopInv
      /\ UNCHANGED store /\ UNCHANGED merging
      /\ pc = "Prev" /\ call' = call /\ before' = before
      /\ direction' = direction /\ skipping' = skipping
      /\ valid' = valid /\ savedValue' = savedValue
  BY DEF IInv, PrevCall, GoOn
<1>2. \/ /\ direction = "forward" /\ savedKey' = {e.key : e \in Key}
         /\ pc' = "Leave" /\ valueType' = valueType
      \/ /\ direction = "reverse" /\ savedKey' = savedKey
         /\ pc' = "FindPrev" /\ valueType' = "deletion"
  BY DEF PrevCall, GoOn
<1>3. PICK c \in Calls : call = {c} /\ c.op = "Prev" /\ before = Shown /\ valid
  BY <1>1, Under
<1>4. /\ StoreInv' /\ Seen' = Seen /\ MergeInv'
      /\ Ahead' = Ahead /\ Key' = Key /\ mdir' = mdir /\ sought' = sought
  BY <1>1, SameStore, SameMerging
<1>5. CallInv'
  BY <1>1, <1>2, <1>3, Into
<1>6. Rest
  BY <1>1 DEF LoopInv
<1>7. Wanted' = Wanted
  BY <1>1, <1>4, SameCall
<1>8. [Snapshot!Next]_(Snapshot!vars)
  BY <1>1, <1>3, <1>4, GoesOn
<1>9. CASE direction = "forward"
  <2>1. RestForward
    BY <1>3, <1>6, <1>9 DEF Rest
  <2>2. PICK e \in Seen : Key = {e}
    BY <2>1 DEF RestForward
  <2>3. before = {Pair(e.key, e.val)}
    BY <1>3, <1>9, <2>2 DEF Shown
  <2>4. savedKey' = {e.key} /\ pc' = "Leave" /\ e.key \in Keys /\ valueType' = valueType
    BY <1>1, <1>2, <1>9, <2>2, SeenFacts
  <2>5. Leaving'
    <3>1. mdir' = "forward" /\ Key' = {e} /\ e \in Seen'
      BY <1>4, <2>1, <2>2 DEF RestForward
    <3> DEFINE b == Pair(e.key, e.val)
    <3>2. b.key = e.key /\ before' = {b} /\ savedKey' = {b.key}
      BY <1>1, <2>3, <2>4 DEF Pair
    <3> HIDE DEF b
    <3>3. QED
      BY <1>1, <1>9, <3>1, <3>2 DEF Leaving
  <2>6. MembersTyped'
    BY <1>1, <2>4, Zenon DEF MembersTyped
  <2>7. LoopInv'
    BY <2>4, <2>5 DEF LoopInv
  <2>8. QED
    BY <1>4, <1>5, <1>8, <2>6, <2>7 DEF IInv
<1>10. CASE direction = "reverse"
  <2>1. RestReverse
    BY <1>3, <1>6, <1>10 DEF Rest
  <2>2. PICK d \in Seen : savedKey = {d.key} /\ Ahead = {e \in Seen : e.key < d.key}
    BY <2>1 DEF RestReverse
  <2>3. before = {Pair(d.key, savedValue)}
    BY <1>3, <1>10, <2>2 DEF Shown
  <2>4. Wanted = {k \in Keys : k < d.key}
    BY <1>3, <2>3 DEF Wanted, Pair
  <2>5. \A e \in Seen : e.key \in Wanted <=> e \in Ahead
    BY <1>1, <2>2, <2>4, SeenFacts
  <2>6. Passed' = {} /\ \A e \in Ahead' : e.key \in Wanted'
    BY <1>4, <1>7, <2>2, <2>5 DEF Passed
  <2>7. savedKey' = savedKey /\ pc' = "FindPrev" /\ valueType' = "deletion"
    BY <1>2, <1>10
  <2>8. Backward'
    BY <1>1, <1>4, <1>10, <2>1, <2>6, <2>7 DEF Backward, RestReverse
  <2>9. MembersTyped'
    BY <1>1, <2>7, Zenon DEF MembersTyped
  <2>10. LoopInv'
    BY <2>7, <2>8 DEF LoopInv
  <2>11. QED
    BY <1>4, <1>5, <1>8, <2>9, <2>10 DEF IInv
<1>11. QED
  BY <1>2, <1>9, <1>10


\* The loop of Prev: what is below the key it leaves stays ahead.
LEMMA LeaveBack ==
  ASSUME IInv, pc = "Leave", UNCHANGED store, IterPrev
  PROVE  /\ MergeInv' /\ FrontKept' /\ mdir' = "reverse" /\ ~sought'
         /\ \E b \in before :
              /\ before = {b} /\ savedKey = {b.key} /\ b.key \in Keys
              /\ Wanted = {k \in Keys : k < b.key}
              /\ \A d \in Seen : d.key < b.key => d \in Ahead'
              /\ \A x \in Key' : x.key \in Nat
<1>1. StoreInv /\ MergeInv /\ MembersTyped /\ CallInv /\ Leaving
  BY DEF IInv, LoopInv
<1>2. PICK c \in Calls : call = {c} /\ c.op = "Prev"
  BY <1>1, Under
<1>3. PICK b \in before :
        /\ before = {b} /\ savedKey = {b.key}
        /\ IF mdir = "forward" THEN \E e \in Seen : Key = {e} /\ e.key = b.key
           ELSE /\ \A d \in Seen : d.key < b.key => d \in Ahead
                /\ \A e \in Key : ~(e.key < b.key)
  BY <1>1 DEF Leaving
<1>4. b.key \in Keys /\ b.key \in Nat
  BY <1>1, <1>3, KeysAssumption DEF MembersTyped
<1>5. Wanted = {k \in Keys : k < b.key}
  BY <1>2, <1>3 DEF Wanted
<1>6. PICK e \in All :
        /\ MergeInv' /\ mdir' = "reverse" /\ ~sought' /\ Key = {e}
        /\ Ahead' = IF mdir = "reverse" THEN Ahead \ {e} ELSE {d \in Seen : Before(d, e)}
  BY <1>1, PrevStep
<1>7. StoreInv' /\ \A c2 \in Children : Ents(c2)' = Ents(c2)
  BY <1>1, SameStore
<1>8. FrontKept'
  <2>1. (StoreInv /\ MergeInv => FrontKept)'
    BY FrontHolds, PTL
  <2>2. QED
    BY <1>6, <1>7, <2>1
<1>9. \A x \in Key' : x.key \in Nat
  <2>1. \A x \in Key' : \E c2 \in Children : x \in Ents(c2)
    BY <1>7, <1>8 DEF FrontKept
  <2>2. QED
    BY <1>1, <2>1, StoreFacts DEF Points
<1>10. ASSUME NEW d \in Seen, d.key < b.key
       PROVE  d \in Ahead'
  <2>1. CASE mdir = "forward"
    <3>1. e.key = b.key
      BY <1>3, <1>6, <2>1
    <3>2. Before(d, e)
      BY <1>10, <3>1 DEF Before
    <3>3. QED
      BY <1>6, <2>1, <3>2
  <2>2. CASE mdir # "forward"
    <3>1. mdir = "reverse"
      BY <1>1, <2>2 DEF MergeInv
    <3>2. d \in Ahead /\ d # e
      BY <1>3, <1>6, <1>10, <2>2
    <3>3. QED
      BY <1>6, <3>1, <3>2
  <2>3. QED
    BY <2>1, <2>2
<1>11. QED
  BY <1>3, <1>4, <1>5, <1>6, <1>8, <1>9, <1>10

LEMMA LeaveKeyStep ==
  ASSUME IInv, LeaveKey
  PROVE  IInv' /\ [Snapshot!Next]_(Snapshot!vars)
<1>1. /\ StoreInv /\ MergeInv /\ MembersTyped /\ CallInv /\ Leaving
      /\ pc = "Leave" /\ UNCHANGED store
  BY DEF IInv, LoopInv, LeaveKey
<1>2. PICK c \in Calls : call = {c} /\ c.op = "Prev"
  BY <1>1, Under
<1>3. StoreInv' /\ Seen' = Seen
  BY <1>1, SameStore
<1>4. ASSUME SeekMem, GoOn("Leave"), UNCHANGED <<members, skipping, valueType>>
      PROVE  IInv' /\ [Snapshot!Next]_(Snapshot!vars)
  <2>1. /\ pc' = "Leave" /\ call' = call /\ before' = before
        /\ direction' = direction /\ valid' = valid
        /\ savedKey' = savedKey /\ savedValue' = savedValue
        /\ skipping' = skipping /\ valueType' = valueType
    BY <1>4 DEF GoOn, members
  <2>2. mdir = "forward"
    BY <1>4 DEF SeekMem
  <2>3. Key \subseteq Seen
    BY <1>1, <2>2 DEF Leaving
  <2>4. MergeInv' /\ mdir' = mdir /\ Key' = Key
    BY <1>1, <1>4, <2>3, SeekMemStep
  <2>5. Leaving'
    BY <1>1, <1>3, <2>1, <2>2, <2>4 DEF Leaving
  <2>6. CallInv'
    BY <1>1, <1>2, <2>1, Into
  <2>7. MembersTyped'
    BY <1>1, <2>1, Zenon DEF MembersTyped
  <2>8. LoopInv'
    BY <2>1, <2>5 DEF LoopInv
  <2>9. [Snapshot!Next]_(Snapshot!vars)
    BY <1>2, <1>3, <2>1, GoesOn
  <2>10. QED
    BY <1>3, <2>4, <2>6, <2>7, <2>8, <2>9 DEF IInv
<1>5. ASSUME IterPrev,
             IF Key' = {}
             THEN Invalid /\ Returned /\ UNCHANGED direction
             ELSE IF \E e \in Key', k \in savedKey : e.key < k
             THEN /\ direction' = "reverse" /\ valueType' = "deletion"
                  /\ GoOn("FindPrev")
                  /\ UNCHANGED <<valid, savedKey, savedValue, skipping>>
             ELSE GoOn("Leave") /\ UNCHANGED <<members, skipping, valueType>>
      PROVE  IInv' /\ [Snapshot!Next]_(Snapshot!vars)
  <2>1. MergeInv' /\ FrontKept' /\ mdir' = "reverse" /\ ~sought'
    BY <1>1, <1>5, LeaveBack
  <2>2. PICK b \in before :
          /\ before = {b} /\ savedKey = {b.key} /\ b.key \in Keys
          /\ Wanted = {k \in Keys : k < b.key}
          /\ \A d \in Seen : d.key < b.key => d \in Ahead'
          /\ \A x \in Key' : x.key \in Nat
    BY <1>1, <1>5, LeaveBack
  <2>3. Ahead' \subseteq Seen
    BY <1>3 DEF Ahead
  <2>4. CASE Key' = {}
    <3>1. /\ valid' = FALSE /\ savedKey' = {} /\ savedValue' = Deleted
          /\ pc' = "idle" /\ call' = {} /\ direction' = direction
          /\ skipping' = FALSE /\ valueType' = "deletion"
      BY <1>5, <2>4 DEF Invalid, Returned
    <3>2. Ahead' = {}
      BY <2>1, <2>4 DEF FrontKept
    <3>3. There \cap Wanted = {}
      BY <2>2, <3>2 DEF There
    <3>4. Shown' = {}
      BY <3>1 DEF Shown
    <3>5. Shown' = {Pair(k, SnapshotView[k]) :
                      k \in IF c.op \in Onwards THEN Lowest(There \cap Wanted)
                            ELSE Highest(There \cap Wanted)}
      <4>1. Highest(There \cap Wanted) = {}
        BY <3>3 DEF Highest
      <4>2. c.op \notin Onwards
        BY <1>2 DEF Onwards
      <4>3. QED
        BY <3>4, <4>1, <4>2
    <3>6. [Snapshot!Next]_(Snapshot!vars)
      BY <1>1, <1>2, <1>3, <3>1, <3>5, Returns
    <3>7. MembersTyped'
      BY <1>1, <3>1, DeletedIsValue, Zenon DEF MembersTyped
    <3>8. CallInv' /\ LoopInv'
      BY <3>1, Back DEF LoopInv, Rest
    <3>9. QED
      BY <1>3, <2>1, <3>6, <3>7, <3>8 DEF IInv
  <2>5. CASE Key' # {} /\ \E e \in Key', k \in savedKey : e.key < k
    <3>1. /\ direction' = "reverse" /\ valueType' = "deletion"
          /\ pc' = "FindPrev" /\ call' = call /\ before' = before
          /\ valid' = valid /\ savedKey' = savedKey /\ savedValue' = savedValue
          /\ skipping' = skipping
      BY <1>5, <2>5 DEF GoOn
    <3>2. Wanted' = Wanted
      BY <1>3, <3>1, SameCall
    <3>3. PICK e \in Key' : e.key < b.key
      BY <2>2, <2>5
    <3>4. \A d \in Ahead' : ~Before(e, d)
      BY <2>1, <3>3 DEF FrontKept, Reaches
    <3>5. \A d \in Ahead' : d.key \in Wanted'
      <4> SUFFICES ASSUME NEW d \in Ahead' PROVE d.key \in Wanted
        BY <3>2
      <4>1. d.key \in Keys /\ d.key \in Nat
        BY <1>1, <2>3, SeenFacts
      <4>2. e.key \in Nat /\ b.key \in Nat
        BY <2>2, KeysAssumption
      <4>3. d.key <= e.key
        BY <3>4, <4>1, <4>2 DEF Before
      <4>4. QED
        BY <2>2, <3>3, <4>1, <4>2, <4>3
    <3>6. Passed' = {}
      BY <1>3, <2>2, <3>2 DEF Passed
    <3>7. Backward'
      BY <2>1, <3>1, <3>5, <3>6 DEF Backward
    <3>8. CallInv'
      BY <1>1, <1>2, <3>1, Into
    <3>9. MembersTyped'
      BY <1>1, <3>1, Zenon DEF MembersTyped
    <3>10. LoopInv'
      BY <3>1, <3>7 DEF LoopInv
    <3>11. [Snapshot!Next]_(Snapshot!vars)
      BY <1>2, <1>3, <3>1, GoesOn
    <3>12. QED
      BY <1>3, <2>1, <3>8, <3>9, <3>10, <3>11 DEF IInv
  <2>6. CASE Key' # {} /\ ~\E e \in Key', k \in savedKey : e.key < k
    <3>1. /\ pc' = "Leave" /\ call' = call /\ before' = before
          /\ direction' = direction /\ valid' = valid
          /\ savedKey' = savedKey /\ savedValue' = savedValue
          /\ skipping' = skipping /\ valueType' = valueType
      BY <1>5, <2>6 DEF GoOn, members
    <3>2. \A e \in Key' : ~(e.key < b.key)
      BY <2>2, <2>6
    <3>3. Leaving'
      BY <1>1, <1>3, <2>1, <2>2, <3>1, <3>2 DEF Leaving
    <3>4. CallInv'
      BY <1>1, <1>2, <3>1, Into
    <3>5. MembersTyped'
      BY <1>1, <3>1, Zenon DEF MembersTyped
    <3>6. LoopInv'
      BY <3>1, <3>3 DEF LoopInv
    <3>7. [Snapshot!Next]_(Snapshot!vars)
      BY <1>2, <1>3, <3>1, GoesOn
    <3>8. QED
      BY <1>3, <2>1, <3>4, <3>5, <3>6, <3>7 DEF IInv
  <2>7. QED
    BY <2>4, <2>5, <2>6
<1>6. QED
  BY <1>4, <1>5 DEF LeaveKey

\* A call that leads down wants every key below one it wants.
LEMMA WantedBelow ==
  ASSUME CallInv, NEW c \in Calls, call = {c}, c.op \in {"SeekToLast", "Prev"},
         NEW k \in Wanted, NEW j \in Keys, j < k
  PROVE  j \in Wanted
<1>1. j \in Nat /\ k \in Nat /\ k \in Keys
  BY KeysAssumption DEF Wanted
<1>2. CASE c.op = "SeekToLast"
  BY <1>2 DEF Wanted
<1>3. CASE c.op = "Prev"
  <2>1. PICK h \in Keys, v \in 0 .. MaxSeq : before = {Pair(h, v)}
    BY <1>3 DEF CallInv
  <2>2. Wanted = {x \in Keys : x < h}
    BY <1>3, <2>1 DEF Wanted, Pair
  <2>3. h \in Nat
    BY KeysAssumption
  <2>4. QED
    BY <1>1, <2>2, <2>3
<1>4. QED
  BY <1>2, <1>3

\* FindPrevUserEntry with no value saved: nothing that is wanted is there.
LEMMA PrevEnds ==
  ASSUME IInv, pc = "FindPrev", \A e \in Key : PassedKey(e), valueType = "deletion",
         Invalid, direction' = "forward", Returned,
         UNCHANGED store, UNCHANGED merging
  PROVE  IInv' /\ [Snapshot!Next]_(Snapshot!vars)
<1>1. /\ StoreInv /\ MergeInv /\ MembersTyped /\ CallInv /\ Backward
      /\ valid' = FALSE /\ savedKey' = {} /\ savedValue' = Deleted
      /\ pc' = "idle" /\ call' = {}
      /\ skipping' = FALSE /\ valueType' = "deletion"
  BY DEF IInv, LoopInv, Invalid, Returned
<1>2. PICK c \in Calls : call = {c} /\ c.op \notin Onwards
  BY <1>1, Under DEF Onwards
<1>3. StoreInv' /\ Seen' = Seen /\ MergeInv'
  BY <1>1, SameStore, SameMerging
<1>4. Key = {}
  BY DEF PassedKey
<1>5. Ahead = {}
  BY <1>1, <1>4, FrontHolds DEF FrontKept
<1>6. There \cap Wanted = {}
  <2> SUFFICES ASSUME NEW k \in There \cap Wanted PROVE FALSE
    OBVIOUS
  <2>1. PICK d \in Seen : Newest(d) /\ d.key = k /\ d.val # Deleted
    BY DEF There
  <2>2. d \in Passed
    BY <1>5, <2>1 DEF Passed
  <2>3. \A e \in Passed : e.key = d.key => e.seq <= d.seq
    BY <2>1 DEF Newest, Passed
  <2>4. valueType = "value"
    BY <1>1, <2>1, <2>2, <2>3 DEF Backward
  <2>5. QED
    BY <2>4
<1>7. Shown' = {Pair(k, SnapshotView[k]) :
                  k \in IF c.op \in Onwards THEN Lowest(There \cap Wanted)
                        ELSE Highest(There \cap Wanted)}
  <2>1. Shown' = {}
    BY <1>1 DEF Shown
  <2>2. Highest(There \cap Wanted) = {}
    BY <1>6 DEF Highest
  <2>3. QED
    BY <1>2, <2>1, <2>2
<1>8. [Snapshot!Next]_(Snapshot!vars)
  BY <1>1, <1>2, <1>3, <1>7, Returns
<1>9. MembersTyped'
  BY <1>1, DeletedIsValue, Zenon DEF MembersTyped
<1>10. CallInv' /\ LoopInv'
  BY <1>1, Back DEF LoopInv, Rest
<1>11. QED
  BY <1>3, <1>8, <1>9, <1>10 DEF IInv

\* FindPrevUserEntry with a value saved: that of the highest key that is wanted.
LEMMA PrevFinds ==
  ASSUME IInv, pc = "FindPrev", \A e \in Key : PassedKey(e), valueType = "value",
         valid' = TRUE, UNCHANGED <<direction, savedKey, savedValue>>, Returned,
         UNCHANGED store, UNCHANGED merging
  PROVE  IInv' /\ [Snapshot!Next]_(Snapshot!vars)
<1>1. /\ StoreInv /\ MergeInv /\ MembersTyped /\ CallInv /\ Backward
      /\ direction' = direction /\ savedKey' = savedKey /\ savedValue' = savedValue
      /\ pc' = "idle" /\ call' = {}
      /\ skipping' = FALSE /\ valueType' = "deletion"
  BY DEF IInv, LoopInv, Returned
<1>2. PICK c \in Calls : call = {c} /\ c.op \in {"SeekToLast", "Prev"}
  BY <1>1, Under
<1>3. /\ StoreInv' /\ Seen' = Seen /\ MergeInv'
      /\ Ahead' = Ahead /\ Key' = Key /\ mdir' = mdir /\ sought' = sought
  BY <1>1, SameStore, SameMerging
<1>4. direction = "reverse" /\ mdir = "reverse"
  BY <1>1 DEF Backward
<1>5. PICK d \in Passed : /\ d.val # Deleted /\ savedKey = {d.key} /\ savedValue = d.val
                          /\ \A e \in Passed : e.key = d.key => e.seq <= d.seq
                          /\ \A e \in Passed : d.key <= e.key
  BY <1>1 DEF Backward
<1>6. d \in Seen /\ d.key \in Wanted /\ d.key \in Keys /\ d.key \in Nat
  BY <1>1, <1>5, SeenFacts DEF Passed
<1>7. \A e \in Key : Visible(e) /\ e.key < d.key
  BY <1>5 DEF PassedKey
<1>8. \A x \in Ahead : x.key < d.key
  <2> SUFFICES ASSUME NEW x \in Ahead PROVE x.key < d.key
    OBVIOUS
  <2>1. PICK e \in Key : ~Before(e, x) /\ e \in Ahead
    BY <1>1, <1>4, <1>7, FrontHolds DEF FrontKept, Reaches
  <2>2. x.key \in Nat /\ e.key \in Nat
    BY <1>1, <2>1, SeenFacts DEF Ahead
  <2>3. QED
    BY <1>6, <1>7, <2>1, <2>2 DEF Before
<1>9. Newest(d)
  <2>1. ASSUME NEW x \in Seen, x.key = d.key
        PROVE  x.seq <= d.seq
    <3>1. x \notin Ahead
      BY <1>6, <1>8, <2>1
    <3>2. x \in Passed
      BY <1>6, <2>1, <3>1 DEF Passed
    <3>3. QED
      BY <1>5, <2>1, <3>2
  <2>2. QED
    BY <1>6, <2>1 DEF Newest
<1>10. Ahead = {e \in Seen : e.key < d.key}
  <2>1. Ahead \subseteq Seen
    BY DEF Ahead
  <2>2. ASSUME NEW x \in Seen, x.key < d.key
        PROVE  x \in Ahead
    <3>1. x.key \in Keys /\ x.key \in Nat
      BY <1>1, SeenFacts
    <3>2. x.key \in Wanted
      BY <1>1, <1>2, <1>6, <2>2, <3>1, WantedBelow
    <3>3. x \notin Passed
      BY <1>5, <1>6, <2>2, <3>1
    <3>4. QED
      BY <3>2, <3>3 DEF Passed
  <2>3. QED
    BY <1>8, <2>1, <2>2
<1>11. d.key \in There \cap Wanted
  BY <1>5, <1>6, <1>9 DEF There
<1>12. ASSUME NEW k \in There \cap Wanted
       PROVE  d.key >= k /\ k \in Nat
  <2>1. PICK y \in Seen : Newest(y) /\ y.key = k /\ y.val # Deleted
    BY DEF There
  <2>2. k \in Nat
    BY <1>1, <2>1, SeenFacts
  <2>3. ASSUME ~(d.key >= k) PROVE FALSE
    <3>1. y \notin Ahead
      BY <1>6, <1>8, <2>1, <2>2, <2>3
    <3>2. y \in Passed
      BY <2>1, <3>1 DEF Passed
    <3>3. \A e \in Passed : e.key = y.key => e.seq <= y.seq
      BY <2>1 DEF Newest, Passed
    <3>4. savedKey = {y.key}
      BY <1>1, <2>1, <3>2, <3>3 DEF Backward
    <3>5. k = d.key
      BY <1>5, <2>1, <3>4
    <3>6. QED
      BY <2>2, <2>3, <3>5
  <2>4. QED
    BY <2>2, <2>3
<1>13. Highest(There \cap Wanted) = {d.key}
  BY <1>6, <1>11, <1>12 DEF Highest
<1>14. Shown' = {Pair(d.key, d.val)}
  <2>1. Shown' = {Pair(k, savedValue') : k \in savedKey'}
    BY <1>1, <1>4 DEF Shown
  <2>2. QED
    BY <1>1, <1>5, <2>1
<1>15. SnapshotView[d.key] = d.val
  BY <1>1, <1>9, ViewFacts
<1>16. [Snapshot!Next]_(Snapshot!vars)
  <2>1. c.op \notin Onwards
    BY <1>2 DEF Onwards
  <2>2. Shown' = {Pair(k, SnapshotView[k]) :
                    k \in IF c.op \in Onwards THEN Lowest(There \cap Wanted)
                          ELSE Highest(There \cap Wanted)}
    BY <1>13, <1>14, <1>15, <2>1
  <2>3. QED
    BY <1>1, <1>2, <1>3, <2>2, Returns
<1>17. MembersTyped'
  BY <1>1, Zenon DEF MembersTyped
<1>18. RestReverse'
  <2>1. Newest(d)'
    BY <1>3, <1>9 DEF Newest
  <2>2. \A e \in Key' : Visible(e)' /\ e.key < d.key
    BY <1>3, <1>7, SameStore
  <2>3. QED
    BY <1>1, <1>3, <1>4, <1>5, <1>6, <1>10, <2>1, <2>2 DEF RestReverse
<1>19. LoopInv' /\ CallInv'
  BY <1>1, <1>4, <1>18, Back DEF LoopInv, Rest
<1>20. QED
  BY <1>3, <1>16, <1>17, <1>19 DEF IInv

\* FindPrevUserEntry at an entry it moves back from.
LEMMA PrevMoves ==
  ASSUME IInv, pc = "FindPrev", NEW e \in Key, ~PassedKey(e),
         IF ~Visible(e) THEN UNCHANGED <<savedKey, savedValue, valueType>>
         ELSE IF e.val = Deleted
         THEN valueType' = "deletion" /\ savedKey' = {} /\ savedValue' = Deleted
         ELSE valueType' = "value" /\ savedKey' = {e.key} /\ savedValue' = e.val,
         IterPrev, GoOn("FindPrev"), UNCHANGED <<direction, valid, skipping>>,
         UNCHANGED store
  PROVE  IInv' /\ [Snapshot!Next]_(Snapshot!vars)
<1>1. /\ StoreInv /\ MergeInv /\ MembersTyped /\ CallInv /\ Backward
      /\ pc' = "FindPrev" /\ call' = call /\ before' = before
      /\ direction' = direction /\ valid' = valid /\ skipping' = skipping
  BY DEF IInv, LoopInv, GoOn
<1>2. PICK c \in Calls : call = {c} /\ c.op \in {"SeekToLast", "Prev"}
  BY <1>1, Under
<1>3. direction = "reverse" /\ mdir = "reverse"
  BY <1>1 DEF Backward
<1>4. Key = {e} /\ (Visible(e) => e \in Ahead)
  BY <1>1, FrontHolds DEF FrontKept
<1>5. MergeInv' /\ mdir' = "reverse" /\ ~sought' /\ Ahead' = Ahead \ {e}
  BY <1>1, <1>3, <1>4, PrevStep
<1>6. StoreInv' /\ Seen' = Seen
  BY <1>1, SameStore
<1>7. Wanted' = Wanted
  BY <1>1, <1>6, SameCall
<1>8. CallInv'
  BY <1>1, <1>2, Into
<1>9. [Snapshot!Next]_(Snapshot!vars)
  BY <1>1, <1>2, <1>6, GoesOn
<1>10. \A d \in Ahead' : d.key \in Wanted'
  BY <1>1, <1>5, <1>7 DEF Backward
<1>11. CASE ~Visible(e)
  <2>1. savedKey' = savedKey /\ savedValue' = savedValue /\ valueType' = valueType
    BY <1>11
  <2>2. Passed' = Passed
    BY <1>5, <1>6, <1>7, <1>11 DEF Passed, Seen
  <2>3. Backward'
    BY <1>1, <1>3, <1>5, <1>10, <2>1, <2>2 DEF Backward
  <2>4. MembersTyped'
    BY <1>1, <2>1, Zenon DEF MembersTyped
  <2>5. LoopInv'
    BY <1>1, <2>3 DEF LoopInv
  <2>6. QED
    BY <1>5, <1>6, <1>8, <1>9, <2>4, <2>5 DEF IInv
<1>12. CASE Visible(e)
  <2>1. /\ e \in Ahead /\ e \in Seen /\ e.key \in Wanted /\ e.key \in Keys
        /\ e.key \in Nat /\ e.seq \in Nat /\ e.val \in 0 .. MaxSeq
    BY <1>1, <1>4, <1>12, SeenFacts DEF Ahead, Backward
  <2>2. Passed' = Passed \cup {e}
    BY <1>5, <1>6, <1>7, <2>1 DEF Passed
  <2>3. ASSUME NEW x \in Passed
        PROVE  x.key \in Nat /\ x.seq \in Nat /\ Before(e, x)
    <3>1. x \in Seen /\ x \notin Ahead
      BY DEF Passed
    <3>2. Before(e, x)
      BY <1>1, <1>3, <2>1, <3>1 DEF MergeInv, Reaches
    <3>3. QED
      BY <1>1, <3>1, <3>2, SeenFacts
  \* What is saved, if it is not of a lower key, is of this one and older.
  <2>4. ASSUME NEW d \in Passed', \A x \in Passed' : x.key = d.key => x.seq <= d.seq,
               d.val # Deleted
        PROVE  d = e
    <3> SUFFICES ASSUME d # e PROVE FALSE
      OBVIOUS
    <3>1. d \in Passed /\ \A x \in Passed : x.key = d.key => x.seq <= d.seq
      BY <2>2, <2>4
    <3>2. valueType = "value" /\ savedKey = {d.key}
      BY <1>1, <2>4, <3>1 DEF Backward
    <3>3. ~(e.key < d.key)
      BY <1>12, <3>2 DEF PassedKey
    <3>4. e.key = d.key /\ e.seq > d.seq
      BY <2>1, <2>3, <3>1, <3>3 DEF Before
    <3>5. e.seq <= d.seq
      BY <2>2, <2>4, <3>4
    <3>6. QED
      BY <2>1, <2>3, <3>1, <3>4, <3>5
  <2>5. CASE e.val = Deleted
    <3>1. valueType' = "deletion" /\ savedKey' = {} /\ savedValue' = Deleted
      BY <1>12, <2>5
    <3>2. \A d \in Passed' :
            (\A x \in Passed' : x.key = d.key => x.seq <= d.seq) /\ d.val # Deleted => FALSE
      BY <2>4, <2>5
    <3>3. Backward'
      BY <1>1, <1>3, <1>5, <1>10, <3>1, <3>2 DEF Backward
    <3>4. MembersTyped'
      BY <1>1, <3>1, DeletedIsValue, Zenon DEF MembersTyped
    <3>5. LoopInv'
      BY <1>1, <3>3 DEF LoopInv
    <3>6. QED
      BY <1>5, <1>6, <1>8, <1>9, <3>4, <3>5 DEF IInv
  <2>6. CASE e.val # Deleted
    <3>1. valueType' = "value" /\ savedKey' = {e.key} /\ savedValue' = e.val
      BY <1>12, <2>6
    <3>2. \A d \in Passed' :
            (\A x \in Passed' : x.key = d.key => x.seq <= d.seq) /\ d.val # Deleted => d = e
      BY <2>4
    <3>3. \A x \in Passed' : (x.key = e.key => x.seq <= e.seq) /\ e.key <= x.key
      BY <2>1, <2>2, <2>3 DEF Before
    <3>4. e \in Passed'
      BY <2>2
    <3>5. Backward'
      BY <1>1, <1>3, <1>5, <1>10, <2>6, <3>1, <3>2, <3>3, <3>4 DEF Backward
    <3>6. MembersTyped'
      BY <1>1, <2>1, <3>1, Zenon DEF MembersTyped
    <3>7. LoopInv'
      BY <1>1, <3>5 DEF LoopInv
    <3>8. QED
      BY <1>5, <1>6, <1>8, <1>9, <3>6, <3>7 DEF IInv
  <2>7. QED
    BY <2>5, <2>6
<1>13. QED
  BY <1>11, <1>12

LEMMA FindPrevStep ==
  ASSUME IInv, FindPrevUserEntry
  PROVE  IInv' /\ [Snapshot!Next]_(Snapshot!vars)
<1>1. pc = "FindPrev" /\ UNCHANGED store
  BY DEF FindPrevUserEntry
<1>2. ASSUME \A e \in Key : PassedKey(e),
             IF valueType = "deletion" THEN Invalid /\ direction' = "forward"
             ELSE valid' = TRUE /\ UNCHANGED <<direction, savedKey, savedValue>>,
             Returned, UNCHANGED merging
      PROVE  IInv' /\ [Snapshot!Next]_(Snapshot!vars)
  <2>1. CASE valueType = "deletion"
    BY <1>1, <1>2, <2>1, PrevEnds
  <2>2. CASE valueType # "deletion"
    <3>1. valueType = "value"
      BY <2>2 DEF IInv, MembersTyped
    <3>2. QED
      BY <1>1, <1>2, <2>2, <3>1, PrevFinds
  <2>3. QED
    BY <2>1, <2>2
<1>3. ASSUME NEW e \in Key, ~PassedKey(e),
             IF ~Visible(e) THEN UNCHANGED <<savedKey, savedValue, valueType>>
             ELSE IF e.val = Deleted
             THEN valueType' = "deletion" /\ savedKey' = {} /\ savedValue' = Deleted
             ELSE valueType' = "value" /\ savedKey' = {e.key} /\ savedValue' = e.val,
             IterPrev, GoOn("FindPrev"), UNCHANGED <<direction, valid, skipping>>
      PROVE  IInv' /\ [Snapshot!Next]_(Snapshot!vars)
  BY <1>1, <1>3, PrevMoves
<1>4. QED
  BY <1>2, <1>3 DEF FindPrevUserEntry

\* Where nothing moves that the reader sees, everything else holds on.
LEMMA SameRest ==
  ASSUME Seen' = Seen, Ahead' = Ahead, Key' = Key, mdir' = mdir, sought' = sought,
         sequence' = sequence, UNCHANGED members
  PROVE  (Rest => Rest') /\ Shown' = Shown
<1>1. /\ direction' = direction /\ valid' = valid
      /\ savedKey' = savedKey /\ savedValue' = savedValue
  BY DEF members
<1>2. Shown' = Shown
  BY <1>1 DEF Shown
<1>3. (\A d : Newest(d)' <=> Newest(d)) /\ (\A d : Visible(d)' <=> Visible(d))
  BY DEF Newest, Visible
<1>4. (RestForward => RestForward') /\ (RestReverse => RestReverse')
  BY <1>1, <1>3 DEF RestForward, RestReverse
<1>5. QED
  BY <1>1, <1>2, <1>4 DEF Rest

LEMMA SameLoop ==
  ASSUME MembersTyped, CallInv, LoopInv,
         Seen' = Seen, Ahead' = Ahead, Key' = Key, mdir' = mdir, sought' = sought,
         sequence' = sequence, UNCHANGED members, UNCHANGED locals
  PROVE  /\ MembersTyped' /\ CallInv' /\ LoopInv'
         /\ [Snapshot!Next]_(Snapshot!vars)
<1>1. /\ direction' = direction /\ valid' = valid
      /\ savedKey' = savedKey /\ savedValue' = savedValue
      /\ pc' = pc /\ call' = call /\ before' = before
      /\ skipping' = skipping /\ valueType' = valueType
  BY DEF members, locals
<1>2. (Rest => Rest') /\ Shown' = Shown
  BY SameRest
<1>3. Wanted' = Wanted /\ \A d : Newest(d)' <=> Newest(d)
  BY <1>1, SameCall
<1>4. \A d : Hidden(d)' <=> Hidden(d)
  BY <1>1 DEF Hidden
<1>5. Forward => Forward'
  BY <1>1, <1>3, <1>4 DEF Forward
<1>6. Leaving => Leaving'
  BY <1>1 DEF Leaving
<1>7. Backward => Backward'
  <2>1. Passed' = Passed
    BY <1>3 DEF Passed
  <2>2. QED
    BY <1>1, <1>3, <2>1 DEF Backward
<1>8. LoopInv'
  BY <1>1, <1>2, <1>5, <1>6, <1>7 DEF LoopInv
<1>9. MembersTyped'
  BY <1>1, Zenon DEF MembersTyped
<1>10. CallInv'
  BY <1>1, <1>2 DEF CallInv
<1>11. SnapshotView' = SnapshotView
  BY SameView
<1>12. UNCHANGED Snapshot!vars
  BY <1>1, <1>2, <1>11 DEF Snapshot!vars
<1>13. QED
  BY <1>8, <1>9, <1>10, <1>12

LEMMA CallStep ==
  ASSUME IInv, NEW c \in Calls, Call(c)
  PROVE  IInv' /\ [Snapshot!Next]_(Snapshot!vars)
<1>1. /\ StoreInv /\ MergeInv /\ MembersTyped /\ CallInv /\ LoopInv
      /\ UNCHANGED store /\ UNCHANGED merging /\ UNCHANGED members
      /\ call = {} /\ (c.op \in {"Next", "Prev"} => valid)
      /\ call' = {c} /\ pc' = c.op /\ before' = Shown
      /\ skipping' = skipping /\ valueType' = valueType
  BY DEF IInv, Call
<1>2. /\ direction' = direction /\ valid' = valid
      /\ savedKey' = savedKey /\ savedValue' = savedValue /\ sequence' = sequence
  BY <1>1 DEF members, store
<1>3. /\ StoreInv' /\ Seen' = Seen /\ MergeInv'
      /\ Ahead' = Ahead /\ Key' = Key /\ mdir' = mdir /\ sought' = sought
  BY <1>1, SameStore, SameMerging
<1>4. Rest
  BY <1>1 DEF LoopInv, CallInv
<1>5. Rest' /\ Shown' = Shown
  BY <1>1, <1>2, <1>3, <1>4, SameRest
<1>6. c.op \in {"SeekToFirst", "SeekToLast", "Next", "Prev", "Seek"}
  BY CallFacts
<1>7. LoopInv'
  BY <1>1, <1>5, <1>6 DEF LoopInv
<1>8. MembersTyped'
  BY <1>1, <1>2, Zenon DEF MembersTyped
<1>9. valid => \E k \in Keys, v \in 0 .. MaxSeq : Shown = {Pair(k, v)}
  <2>1. CASE valid /\ direction = "forward"
    <3>1. PICK e \in Seen : Key = {e}
      BY <1>4, <2>1 DEF Rest, RestForward
    <3>2. Shown = {Pair(e.key, e.val)}
      BY <2>1, <3>1 DEF Shown
    <3>3. QED
      BY <1>1, <3>2, SeenFacts
  <2>2. CASE valid /\ direction # "forward"
    <3>1. PICK d \in Seen : savedKey = {d.key} /\ savedValue = d.val
      BY <1>4, <2>2 DEF Rest, RestReverse
    <3>2. Shown = {Pair(d.key, d.val)}
      BY <2>2, <3>1 DEF Shown
    <3>3. QED
      BY <1>1, <3>2, SeenFacts
  <2>3. QED
    BY <2>1, <2>2
<1>10. CallInv'
  <2>1. \A d \in call' : d = c
    BY <1>1
  <2>2. pc' # "idle" /\ pc' \notin {"FindNext", "FindPrev", "Leave"}
    BY <1>1, <1>6
  <2>3. before' = Shown'
    BY <1>1, <1>5
  <2>4. c.op \in {"Next", "Prev"} =>
          valid' /\ \E k \in Keys, v \in 0 .. MaxSeq : before' = {Pair(k, v)}
    BY <1>1, <1>2, <1>9
  <2>5. QED
    BY <1>1, <2>1, <2>2, <2>3, <2>4 DEF CallInv
<1>11. Snapshot!Call(c)
  <2>1. SnapshotView' = SnapshotView
    BY <1>3, SameView
  <2>2. (IF call = {} THEN Shown ELSE before) = Shown
    BY <1>1
  <2>3. (IF call = {} THEN Shown ELSE before)' = Shown
    BY <1>1
  <2>4. c.op \in {"Next", "Prev"} => Shown # {}
    BY <1>1, <1>9
  <2>5. QED
    BY <1>1, <2>1, <2>2, <2>3, <2>4 DEF Snapshot!Call
<1>12. c \in Snapshot!Calls
  BY DEF Calls, Snapshot!Calls
<1>13. QED
  BY <1>3, <1>7, <1>8, <1>10, <1>11, <1>12 DEF IInv, Snapshot!Next

LEMMA InsertHolds ==
  ASSUME IInv, NEW k \in Keys, Insert(k)
  PROVE  IInv' /\ [Snapshot!Next]_(Snapshot!vars)
<1>1. /\ StoreInv /\ MergeInv /\ MembersTyped /\ CallInv /\ LoopInv
      /\ sequence' = sequence /\ UNCHANGED members /\ UNCHANGED locals
  BY DEF IInv, Insert
<1>2. /\ StoreInv' /\ MergeInv' /\ Seen' = Seen /\ Ahead' = Ahead /\ Key' = Key
      /\ mdir' = mdir /\ sought' = sought
  BY <1>1, InsertStep
<1>3. QED
  BY <1>1, <1>2, SameLoop DEF IInv

LEMMA StutterHolds ==
  ASSUME IInv, UNCHANGED vars
  PROVE  IInv' /\ [Snapshot!Next]_(Snapshot!vars)
<1>1. /\ StoreInv /\ MergeInv /\ MembersTyped /\ CallInv /\ LoopInv
      /\ UNCHANGED store /\ UNCHANGED merging
      /\ UNCHANGED members /\ UNCHANGED locals
  BY DEF IInv, vars
<1>2. /\ StoreInv' /\ MergeInv' /\ Seen' = Seen /\ Ahead' = Ahead /\ Key' = Key
      /\ mdir' = mdir /\ sought' = sought /\ sequence' = sequence
  BY <1>1, SameStore, SameMerging DEF store
<1>3. QED
  BY <1>1, <1>2, SameLoop DEF IInv

-----------------------------------------------------------------------------
(* The theorems. *)

LEMMA InitHolds == Init => IInv /\ Snapshot!Init
<1> SUFFICES ASSUME Init PROVE IInv /\ Snapshot!Init
  OBVIOUS
<1>1. StoreInv
  BY LayoutsAssumption DEF Init, StoreInv
<1>2. /\ pos = [c \in Children |-> {}] /\ current = {}
      /\ mdir = "forward" /\ sought = FALSE
      /\ direction = "forward" /\ valid = FALSE
      /\ savedKey = {} /\ savedValue = Deleted
      /\ pc = "idle" /\ skipping = FALSE /\ valueType = "deletion"
      /\ call = {} /\ before = {}
  BY DEF Init
<1>3. MergeInv
  <2>1. pos = [c \in Children |-> pos[c]] /\ \A c \in Children : pos[c] = {}
    BY <1>2
  <2>2. current = FindSmallest(pos)
    BY <1>2, <2>1 DEF FindSmallest
  <2>3. Ahead = {}
    BY <2>1 DEF Ahead
  <2>4. QED
    BY <1>2, <2>1, <2>2, <2>3 DEF MergeInv
<1>4. MembersTyped
  BY <1>2, DeletedIsValue, Zenon DEF MembersTyped
<1>5. CallInv /\ LoopInv
  BY <1>2 DEF CallInv, LoopInv, Rest
<1>6. Snapshot!Init
  <2>1. SnapshotView \in [Keys -> 0 .. MaxSeq]
    BY <1>1, ViewFacts
  <2>2. SnapshotView \in [Keys -> Nat]
    BY <2>1, KeysAssumption
  <2>3. Shown = {}
    BY <1>2 DEF Shown
  <2>4. QED
    BY <1>2, <2>2, <2>3 DEF Snapshot!Init
<1>7. QED
  BY <1>1, <1>3, <1>4, <1>5, <1>6 DEF IInv

LEMMA StepHolds == IInv /\ [Next]_vars => IInv' /\ [Snapshot!Next]_(Snapshot!vars)
<1> SUFFICES ASSUME IInv, [Next]_vars PROVE IInv' /\ [Snapshot!Next]_(Snapshot!vars)
  OBVIOUS
<1>1. ASSUME NEW c \in Calls, Call(c) PROVE IInv' /\ [Snapshot!Next]_(Snapshot!vars)
  BY <1>1, CallStep
<1>2. CASE SeekToFirst
  BY <1>2, SeekToFirstStep
<1>3. CASE SeekToLast
  BY <1>3, SeekToLastStep
<1>4. CASE NextCall
  BY <1>4, NextCallStep
<1>5. CASE PrevCall
  BY <1>5, PrevCallStep
<1>6. CASE FindNextUserEntry
  BY <1>6, FindNextStep
<1>7. CASE LeaveKey
  BY <1>7, LeaveKeyStep
<1>8. CASE FindPrevUserEntry
  BY <1>8, FindPrevStep
<1>9. ASSUME NEW c \in call, SeekTarget(c) PROVE IInv' /\ [Snapshot!Next]_(Snapshot!vars)
  BY <1>9, SeekTargetStep
<1>10. ASSUME NEW k \in Keys, Insert(k) PROVE IInv' /\ [Snapshot!Next]_(Snapshot!vars)
  BY <1>10, InsertHolds
<1>11. CASE UNCHANGED vars
  BY <1>11, StutterHolds
<1>12. QED
  BY <1>1, <1>2, <1>3, <1>4, <1>5, <1>6, <1>7, <1>8, <1>9, <1>10, <1>11
     DEF Next, IteratorStep

\* Whatever is inserted between the steps of a call: the merging iterator stands on
\* the first of the entries the reader sees ahead of it, and each loop of DBIter
\* (db_iter.cc) has lost none of the entries its call is about.
THEOREM IteratorInvariant == Spec => []IInv
<1>1. Init => IInv
  BY InitHolds
<1>2. IInv /\ [Next]_vars => IInv'
  BY StepHolds
<1>3. QED
  BY <1>1, <1>2, PTL DEF Spec

\* Each child stands on an entry of its own list, and the merging iterator
\* (merger.cc) on a child that stands somewhere.
THEOREM IteratorTyping == Spec => []TypeOK
<1>1. ASSUME IInv PROVE TypeOK
  <2>1. /\ StoreInv /\ MergeInv /\ MembersTyped /\ CallInv /\ FrontKept
        /\ \A c \in Children : Ents(c) \subseteq All
    BY <1>1, FrontHolds, StoreFacts DEF IInv
  <2>2. mem \subseteq All /\ \A e \in All : e.key \in Keys /\ e.seq \in 1 .. MaxSeq
    BY <2>1, StoreFacts DEF All, Numbered, Entries
  <2>3. /\ pos \in [Children -> {{}} \cup {{e} : e \in All}]
        /\ \A c \in {"mem", "imm"} : pos[c] \subseteq List(c)
    <3>1. pos = [c \in Children |-> pos[c]]
      BY <2>1 DEF MergeInv
    <3>2. ASSUME NEW c \in Children
          PROVE  pos[c] \subseteq Ents(c) /\ pos[c] \in {{}} \cup {{e} : e \in All}
      <4>1. pos[c] = {} \/ \E e \in Ents(c) : pos[c] = {e}
        BY <2>1 DEF MergeInv
      <4>2. QED
        BY <2>1, <4>1
    <3>3. List("mem") = Ents("mem") /\ List("imm") = Ents("imm")
      BY DEF List, Ents
    <3>4. pos \in [Children -> {{}} \cup {{e} : e \in All}]
      BY <3>1, <3>2
    <3>5. QED
      BY <3>2, <3>3, <3>4 DEF Children
  <2>4. current \in {{}} \cup {{c} : c \in Children} /\ \A c \in current : pos[c] # {}
    BY <2>1 DEF FrontKept
  <2>5. pc \in {"idle", "FindNext", "FindPrev", "Leave"} \cup {c.op : c \in Calls}
    BY <2>1 DEF CallInv
  <2>6. pc = "idle" <=> call = {}
    BY <2>1 DEF CallInv
  <2>7. savedKey \in {{}} \cup {{k} : k \in Keys}
    BY <2>1 DEF MembersTyped
  <2>8. /\ mdir \in {"forward", "reverse"} /\ direction \in {"forward", "reverse"}
        /\ sought \in BOOLEAN /\ valid \in BOOLEAN /\ skipping \in BOOLEAN
        /\ savedValue \in 0 .. MaxSeq /\ valueType \in {"value", "deletion"}
    BY <2>1, Zenon DEF MergeInv, MembersTyped
  <2>9. QED
    BY <2>2, <2>3, <2>4, <2>5, <2>6, <2>7, <2>8, Zenon DEF TypeOK
<1>2. IInv => TypeOK
  BY <1>1
<1>3. QED
  BY <1>2, IteratorInvariant, PTL

\* Moving backwards, the merging iterator stands just before all entries the reader
\* sees of the key that is shown: what Next relies on (db_iter.cc:44).
THEOREM ReverseStandsThere == Spec => []ReverseStandsBefore
<1>1. ASSUME IInv PROVE ReverseStandsBefore
  <2> SUFFICES ASSUME call = {}, valid, direction = "reverse",
                      NEW k \in savedKey, NEW e \in Key
               PROVE  e.key < k /\ \A d \in Seen : d.key < k => ~Before(e, d)
    BY DEF ReverseStandsBefore
  <2>1. FrontKept /\ RestReverse
    BY <1>1, FrontHolds DEF IInv, CallInv, LoopInv, Rest
  <2>2. PICK s \in Seen : /\ savedKey = {s.key}
                          /\ Ahead = {x \in Seen : x.key < s.key}
                          /\ \A x \in Key : x.key < s.key
    BY <2>1 DEF RestReverse
  <2>3. \A d \in Ahead : ~Before(e, d)
    BY <2>1 DEF FrontKept, Reaches, RestReverse
  <2>4. QED
    BY <2>2, <2>3
<1>2. IInv => ReverseStandsBefore
  BY <1>1
<1>3. QED
  BY <1>2, IteratorInvariant, PTL

\* If a writer comes between the two calls with which Prev of the merging iterator
\* (merger.cc) turns the memtable's iterator around, Prev may move on, but only
\* onto an entry the reader does not see.
THEOREM PrevOvershoots == Spec => PrevOvershootsUnseen
<1>1. ASSUME IInv, [Next]_vars, IterPrev, NEW d \in Key, NEW e \in Key'
      PROVE  Before(e, d) \/ ~Visible(e)
  <2>1. StoreInv /\ MergeInv /\ FrontKept /\ IInv'
    BY <1>1, FrontHolds, StepHolds DEF IInv
  <2>2. FrontKept'
    <3>1. (StoreInv /\ MergeInv => FrontKept)'
      BY FrontHolds, PTL
    <3>2. QED
      BY <2>1, <3>1 DEF IInv
  <2>3. CASE UNCHANGED store
    <3>1. /\ mdir' = "reverse" /\ Key = {d} /\ d \in All
          /\ Ahead' = IF mdir = "reverse" THEN Ahead \ {d} ELSE {x \in Seen : Before(x, d)}
      BY <1>1, <2>1, <2>3, PrevStep
    <3>2. Visible(e) => e \in Ahead'
      BY <2>2, <2>3, SameStore DEF FrontKept
    <3>3. CASE mdir = "reverse"
      <4> SUFFICES ASSUME Visible(e) PROVE Before(e, d)
        OBVIOUS
      <4>1. e \in Ahead /\ e # d
        BY <3>1, <3>2, <3>3
      <4>2. ~Before(d, e)
        BY <2>1, <3>1, <3>3, <4>1 DEF FrontKept, Reaches
      <4>3. e \in All
        BY <4>1 DEF Ahead, Seen
      <4>4. QED
        BY <2>1, <3>1, <4>1, <4>2, <4>3, Total, StoreFacts
    <3>4. CASE mdir # "reverse"
      BY <3>1, <3>2, <3>4
    <3>5. QED
      BY <3>3, <3>4
  \* A writer's step moves no iterator.
  <2>4. ASSUME NEW k \in Keys, Insert(k) PROVE FALSE
    <3>1. pos' = pos
      BY <2>4 DEF Insert, merging
    <3>2. PICK c \in Children : \E x \in Ents(c) :
            current = {c} /\ pos[c] = {x} /\ Key = {x}
      BY <1>1, <2>1 DEF FrontKept
    <3>3. PICK x \in Ents(c) : current = {c} /\ pos[c] = {x} /\ Key = {x}
      BY <3>2
    <3>4. pos'[c] = ChildPrev(c, x)
      BY <1>1, <3>3 DEF IterPrev, StandBackward
    <3>5. x \in Largest(Below(Ents(c), x))
      BY <2>1, <3>1, <3>3, <3>4, ChildMoves
    <3>6. Before(x, x) /\ x \in Points
      BY <2>1, <3>5, StoreFacts DEF Largest, Below
    <3>7. QED
      BY <3>6, BeforeOrder
  <2>5. UNCHANGED store \/ \E k \in Keys : Insert(k)
    BY <1>1 DEF vars, Next, IteratorStep, Call, SeekToFirst, SeekToLast, NextCall, PrevCall,
       FindNextUserEntry, LeaveKey, FindPrevUserEntry, SeekTarget
  <2>6. QED
    BY <2>3, <2>4, <2>5
<1>2. IInv /\ [Next]_vars =>
        [IterPrev => \A d \in Key, e \in Key' : Before(e, d) \/ ~Visible(e)]_vars
  BY <1>1
<1>3. QED
  BY <1>2, IteratorInvariant, PTL DEF Spec, PrevOvershootsUnseen

\* Each call leads to the key it would lead to over the map at the iterator's
\* sequence number, and shows its value there, whatever is inserted meanwhile.
THEOREM IteratorRefines == Spec => IteratesSnapshot
<1>1. Init => Snapshot!Init
  BY InitHolds
<1>2. IInv /\ [Next]_vars => [Snapshot!Next]_(Snapshot!vars)
  BY StepHolds
<1>3. QED
  BY <1>1, <1>2, IteratorInvariant, PTL DEF Spec, IteratesSnapshot, Snapshot!Spec
=============================================================================
