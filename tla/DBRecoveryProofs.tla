--------------------------- MODULE DBRecoveryProofs ---------------------------
(***************************************************************************)
(* Proofs about the LevelDB store through crashes, for every set of keys   *)
(* and batches, every shape of the levels and of the blocks of a log, and  *)
(* every bound: types, the files that must be there while the store is     *)
(* open, the files a recovery needs, that work is never left to a thread   *)
(* nobody wakes, and that no two entries ever have one sequence number.    *)
(***************************************************************************)
EXTENDS DBRecovery, FiniteSetTheorems, SequenceTheorems, WellFoundedInduction, TLAPS

-----------------------------------------------------------------------------
(* Natural numbers.  The induction theorems of the library take a property *)
(* as an operator; here it is a set, got from the order of the numbers.    *)

NatLess == OpToRel(<, Nat)

LEMMA NatLessWF == IsWellFoundedOn(NatLess, Nat)
BY NatLessThanWellFounded, Zenon DEF NatLess

LEMMA NatLessIs == NatLess = {p \in Nat \X Nat : p[1] < p[2]}
BY Zenon DEF NatLess, OpToRel

\* A set of natural numbers that has one has a least one.
LEMMA LeastElement ==
  ASSUME NEW S \in SUBSET Nat, S # {}
  PROVE  \E x \in S : \A y \in S : x <= y
<1>1. PICK x \in S : \A y \in S : ~(<<y, x>> \in NatLess)
  BY WFMin, NatLessWF
<1>2. \A y \in S : ~(y < x)
  BY <1>1, NatLessIs
<1>3. QED
  BY <1>2

\* A set with 0 and the successor of each of its members has every number.
LEMMA Induct ==
  ASSUME NEW S \in SUBSET Nat, 0 \in S, \A n \in S : n + 1 \in S
  PROVE  S = Nat
<1> SUFFICES ASSUME Nat \ S # {} PROVE FALSE
  OBVIOUS
<1>1. PICK x \in Nat \ S : \A y \in Nat \ S : x <= y
  BY LeastElement
<1>2. x - 1 \in Nat /\ x - 1 \notin Nat \ S
  BY <1>1
<1>3. QED
  BY <1>1, <1>2

\* The same up to a bound.
LEMMA InductTo ==
  ASSUME NEW n \in Nat, NEW S, 0 \in S, \A i \in 0 .. n - 1 : i \in S => i + 1 \in S
  PROVE  \A i \in 0 .. n : i \in S
<1> DEFINE T == {i \in Nat : i <= n => i \in S}
<1>1. 0 \in T
  OBVIOUS
<1>2. \A i \in T : i + 1 \in T
  OBVIOUS
<1>3. T = Nat
  <2> HIDE DEF T
  <2>1. T \in SUBSET Nat
    BY DEF T
  <2>2. QED
    BY <1>1, <1>2, <2>1, Induct
<1>4. QED
  BY <1>3

\* A bounded set of numbers has a largest one, and Max is it.
LEMMA MaxBounded ==
  ASSUME NEW S \in SUBSET Nat, S # {}, NEW n \in Nat, \A x \in S : x <= n
  PROVE  Max(S) \in S /\ \A x \in S : Max(S) >= x
<1> DEFINE T == {k \in Nat : \E x \in S : k = n - x}
<1>1. PICK x \in S : TRUE
  OBVIOUS
<1>2. n - x \in T
  BY <1>1
<1>3. PICK t \in T : \A u \in T : t <= u
  <2>1. T \in SUBSET Nat /\ T # {}
    BY <1>2
  <2> HIDE DEF T
  <2>2. QED
    BY <2>1, LeastElement
<1>4. PICK m \in S : t = n - m
  BY <1>3
<1>5. \A y \in S : m >= y
  <2> SUFFICES ASSUME NEW y \in S PROVE m >= y
    OBVIOUS
  <2>1. n - y \in T
    OBVIOUS
  <2>2. QED
    BY <1>3, <1>4, <2>1
<1>6. QED
  BY <1>5 DEF Max

\* So has a finite set of numbers.
LEMMA FiniteHasBound ==
  ASSUME NEW S \in SUBSET Nat, IsFiniteSet(S)
  PROVE  \E n \in Nat : \A x \in S : x <= n
<1>1. ASSUME NEW T \in SUBSET S, Cardinality(T) = 0
      PROVE  \E n \in Nat : \A x \in T : x <= n
  <2>1. T = {}
    BY <1>1, FS_Subset, FS_EmptySet
  <2>2. QED
    BY <2>1
<1>2. ASSUME NEW k \in Nat,
             \A T \in SUBSET S : Cardinality(T) = k => \E n \in Nat : \A x \in T : x <= n,
             NEW T \in SUBSET S, Cardinality(T) = k + 1
      PROVE  \E n \in Nat : \A x \in T : x <= n
  <2>1. IsFiniteSet(T)
    BY FS_Subset
  <2>2. T # {}
    BY <1>2, FS_EmptySet
  <2>3. PICK x \in T : TRUE
    BY <2>2
  <2>4. Cardinality(T \ {x}) = k
    <3>1. Cardinality(T \ {x}) = Cardinality(T) - 1
      BY <2>1, <2>3, FS_RemoveElement
    <3>2. QED
      BY <1>2, <3>1
  <2>5. PICK n \in Nat : \A y \in T \ {x} : y <= n
    BY <1>2, <2>4
  <2>6. \A y \in T : y <= n + x /\ n + x \in Nat
    BY <2>3, <2>5
  <2>7. QED
    BY <2>3, <2>6
<1> DEFINE P == {k \in Nat : \A T \in SUBSET S : Cardinality(T) = k =>
                               \E n \in Nat : \A x \in T : x <= n}
<1>3. P = Nat
  <2>1. 0 \in P
    BY <1>1
  <2>2. ASSUME NEW k \in P
        PROVE  k + 1 \in P
    <3>1. /\ k \in Nat /\ k + 1 \in Nat
          /\ \A T \in SUBSET S : Cardinality(T) = k => \E n \in Nat : \A x \in T : x <= n
      OBVIOUS
    <3>2. \A T \in SUBSET S : Cardinality(T) = k + 1 => \E n \in Nat : \A x \in T : x <= n
      BY <1>2, <3>1
    <3>3. QED
      BY <3>1, <3>2
  <2>3. P \in SUBSET Nat
    OBVIOUS
  <2> HIDE DEF P
  <2>4. QED
    BY <2>1, <2>2, <2>3, Induct
<1>4. Cardinality(S) \in Nat
  BY FS_CardinalityType
<1>5. QED
  BY <1>3, <1>4

LEMMA MaxFinite ==
  ASSUME NEW S \in SUBSET Nat, S # {}, IsFiniteSet(S)
  PROVE  Max(S) \in S /\ \A x \in S : Max(S) >= x
BY FiniteHasBound, MaxBounded

\* The elements of a finite set of numbers can be put in their order.
LEMMA InOrderFacts ==
  ASSUME NEW S \in SUBSET Nat, IsFiniteSet(S)
  PROVE  InOrder(S, <) \in Seq(S)
<1> DEFINE Below(x) == {y \in S : y < x}
           Rank(x) == Cardinality(Below(x))
<1>0. /\ Cardinality(S) \in Nat
      /\ \A x \in S : IsFiniteSet(Below(x)) /\ Rank(x) \in Nat
  <2>1. \A x \in S : Below(x) \in SUBSET S
    OBVIOUS
  <2> HIDE DEF Below
  <2>2. QED
    BY <2>1, FS_CardinalityType, FS_Subset
<1>1. ASSUME 0 < Cardinality(S)
      PROVE  \E x \in S : Rank(x) = 0
  <2>1. S # {}
    BY <1>1, FS_EmptySet
  <2>2. PICK x \in S : \A y \in S : x <= y
    BY <2>1, LeastElement
  <2>3. \A y \in S : ~(y < x)
    BY <2>2
  <2>4. Below(x) = {}
    BY <2>3
  <2>5. QED
    BY <2>4, FS_EmptySet
<1>2. ASSUME NEW x \in S, Rank(x) + 1 < Cardinality(S)
      PROVE  \E z \in S : Rank(z) = Rank(x) + 1
  <2>1. Cardinality(Below(x) \cup {x}) = Rank(x) + 1
    <3>1. x \notin Below(x)
      OBVIOUS
    <3> HIDE DEF Below
    <3>2. QED
      BY <1>0, <3>1, FS_AddElement
  <2> DEFINE Above == {y \in S : x < y}
  <2>2. Above # {}
    <3> SUFFICES ASSUME Above = {} PROVE FALSE
      OBVIOUS
    <3>1. \A y \in S : y < x \/ y = x
      OBVIOUS
    <3>2. S = Below(x) \cup {x}
      BY <3>1
    <3> HIDE DEF Below
    <3>3. Cardinality(S) = Rank(x) + 1
      BY <2>1, <3>2
    <3>4. QED
      BY <1>0, <1>2, <3>3
  <2>3. PICK z \in Above : \A y \in Above : z <= y
    <3>1. Above \in SUBSET Nat
      OBVIOUS
    <3> HIDE DEF Above
    <3>2. QED
      BY <2>2, <3>1, LeastElement
  <2>4. \A y \in S : y < z <=> y < x \/ y = x
    BY <2>3
  <2>5. Below(z) = Below(x) \cup {x}
    BY <2>3, <2>4
  <2>6. QED
    BY <2>1, <2>3, <2>5
<1> HIDE DEF Rank
<1> DEFINE P == {k \in Nat : k < Cardinality(S) => \E x \in S : Rank(x) = k}
<1>3. P = Nat
  <2>1. 0 \in P
    BY <1>1
  <2>2. ASSUME NEW k \in P
        PROVE  k + 1 \in P
    BY <1>0, <1>2
  <2>3. P \in SUBSET Nat
    OBVIOUS
  <2> HIDE DEF P
  <2>4. QED
    BY <2>1, <2>2, <2>3, Induct
<1>4. ASSUME NEW i \in 1 .. Cardinality(S)
      PROVE  (CHOOSE x \in S : Rank(x) = i - 1) \in S
  <2>1. i - 1 \in P /\ i - 1 < Cardinality(S)
    BY <1>0, <1>3
  <2>2. QED
    BY <2>1
<1>5. InOrder(S, <) =
        [i \in 1 .. Cardinality(S) |-> CHOOSE x \in S : Rank(x) = i - 1]
  BY DEF InOrder, Rank
<1>6. InOrder(S, <) \in [1 .. Cardinality(S) -> S]
  BY <1>4, <1>5
<1> DEFINE order == InOrder(S, <)
<1> HIDE DEF order, Below, P
<1>7. order \in [1 .. Cardinality(S) -> S]
  BY <1>6 DEF order
<1>8. order \in Seq(S)
  BY <1>0, <1>7
<1>9. QED
  BY <1>8 DEF order

\* And none is left out.
LEMMA InOrderAll ==
  ASSUME NEW S \in SUBSET Nat, IsFiniteSet(S)
  PROVE  \A n \in S : \E i \in DOMAIN InOrder(S, <) : InOrder(S, <)[i] = n
<1> DEFINE Below(x) == {y \in S : y < x}
           Rank(x) == Cardinality(Below(x))
<1>1. Cardinality(S) \in Nat /\ \A x \in S : IsFiniteSet(Below(x)) /\ Rank(x) \in Nat
  <2>1. \A x \in S : Below(x) \in SUBSET S
    OBVIOUS
  <2> HIDE DEF Below
  <2>2. QED
    BY <2>1, FS_CardinalityType, FS_Subset
<1>2. ASSUME NEW x \in S
      PROVE  Rank(x) < Cardinality(S)
  <2>1. Below(x) \subseteq S /\ Below(x) # S
    OBVIOUS
  <2> HIDE DEF Below
  <2>2. QED
    BY <1>1, <2>1, FS_Subset
<1>3. ASSUME NEW x \in S, NEW y \in S, Rank(x) = Rank(y)
      PROVE  x = y
  <2>1. ASSUME NEW a \in S, NEW b \in S, a < b
        PROVE  Rank(a) < Rank(b)
    <3>1. Below(a) \subseteq Below(b)
      <4>1. a \in Nat /\ b \in Nat /\ \A z \in S : z \in Nat
        OBVIOUS
      <4>2. \A z \in S : z < a => z < b
        BY <2>1, <4>1
      <4>3. QED
        BY <4>2
    <3>2. Below(a) # Below(b)
      <4>1. a \in Below(b) /\ a \notin Below(a)
        BY <2>1
      <4>2. QED
        BY <4>1
    <3> HIDE DEF Below
    <3>3. QED
      BY <1>1, <3>1, <3>2, FS_Subset
  <2>2. x < y \/ y < x \/ x = y
    OBVIOUS
  <2>3. Rank(x) \in Nat /\ Rank(y) \in Nat
    BY <1>1
  <2> HIDE DEF Rank
  <2>4. ~(x < y)
    BY <1>3, <2>1, <2>3
  <2>5. ~(y < x)
    BY <1>3, <2>1, <2>3
  <2>6. QED
    BY <2>2, <2>4, <2>5
<1>4. InOrder(S, <) =
        [i \in 1 .. Cardinality(S) |-> CHOOSE x \in S : Rank(x) = i - 1]
  BY DEF InOrder
<1>5. ASSUME NEW n \in S
      PROVE  \E i \in 1 .. Cardinality(S) : (CHOOSE x \in S : Rank(x) = i - 1) = n
  <2>1. Rank(n) + 1 \in 1 .. Cardinality(S) /\ (Rank(n) + 1) - 1 = Rank(n)
    <3>1. Rank(n) \in Nat /\ Cardinality(S) \in Nat /\ Rank(n) < Cardinality(S)
      BY <1>1, <1>2
    <3>2. QED
      BY <3>1
  <2> HIDE DEF Rank
  <2>2. (CHOOSE x \in S : Rank(x) = Rank(n)) = n
    BY <1>3
  <2>3. QED
    BY <2>1, <2>2
<1> HIDE DEF Rank
<1> DEFINE order == InOrder(S, <)
<1> HIDE DEF order
<1>6. order = [i \in 1 .. Cardinality(S) |-> CHOOSE x \in S : Rank(x) = i - 1]
  BY <1>4 DEF order
<1>7. \A n \in S : \E i \in DOMAIN order : order[i] = n
  BY <1>5, <1>6
<1>8. QED
  BY <1>7 DEF order

\* Steps that go from members of S to members of S, and what they go through.
Steps(n, S) == [1 .. n -> [S -> S]]

Runs(g, n, S, base, step) ==
  /\ g \in [0 .. n -> S] /\ g[0] = base
  /\ \A i \in 1 .. n : g[i] = step[i][g[i - 1]]

\* Such steps have a run from each member of S.
LEMMA FoldStates ==
  ASSUME NEW n \in Nat, NEW S, NEW base \in S, NEW step \in Steps(n, S)
  PROVE  \E g : Runs(g, n, S, base, step)
<1> DEFINE Goes(g, k) == /\ g \in [0 .. k -> S] /\ g[0] = base
                         /\ \A i \in 1 .. k : g[i] = step[i][g[i - 1]]
<1>1. \E g : Goes(g, 0)
  <2>1. Goes([i \in 0 .. 0 |-> base], 0)
    OBVIOUS
  <2>2. QED
    BY <2>1
<1>2. ASSUME NEW k \in 0 .. n - 1, NEW g, Goes(g, k)
      PROVE  \E h : Goes(h, k + 1)
  <2> DEFINE h == [i \in 0 .. k + 1 |-> IF i = k + 1 THEN step[k + 1][g[k]] ELSE g[i]]
  <2>1. k + 1 \in 1 .. n /\ g[k] \in S
    BY <1>2
  <2>2. step[k + 1][g[k]] \in S
    BY <2>1 DEF Steps
  <2>3. h \in [0 .. k + 1 -> S] /\ h[0] = base
    BY <1>2, <2>2
  <2>4. ASSUME NEW i \in 1 .. k + 1
        PROVE  h[i] = step[i][h[i - 1]]
    <3>1. CASE i = k + 1
      BY <3>1
    <3>2. CASE i # k + 1
      <4>1. h[i] = g[i] /\ h[i - 1] = g[i - 1] /\ i \in 1 .. k
        BY <3>2
      <4>2. QED
        BY <1>2, <4>1
    <3>3. QED
      BY <3>1, <3>2
  <2>5. Goes(h, k + 1)
    BY <2>3, <2>4
  <2>6. QED
    BY <2>5
<1> HIDE DEF Goes
<1> DEFINE P == {k \in 0 .. n : \E g : Goes(g, k)}
<1>3. \A k \in 0 .. n : k \in P
  <2>1. 0 \in P
    BY <1>1
  <2>2. ASSUME NEW i \in 0 .. n - 1, i \in P
        PROVE  i + 1 \in P
    BY <1>2, <2>2
  <2> HIDE DEF P
  <2>3. QED
    BY <2>1, <2>2, InductTo
<1>4. \E g : Goes(g, n)
  BY <1>3
<1>5. QED
  BY <1>4 DEF Goes, Runs

-----------------------------------------------------------------------------
(* Logs: what is appended and what is read back has the types of a log.    *)

LogEntry == [key : Keys, seq : Nat, val : Nat]

Chunk(E) == {c \in [type : {"full", "first", "middle", "last", "zero", "bad"},
                 rec : Seq(E), from : Nat, len : Nat] :
            c.from + c.len <= Len(c.rec)}

Units(E) == [chunk : Chunk(E), i : Nat]

Log(E) == [data : Seq(Units(E)), synced : Nat, offset : 0 .. BlockSize, damaged : BOOLEAN]

LEMMA NewLogTyping == \A E : NewLog \in Log(E)
BY LogAssumption, EmptySeq DEF NewLog, Log

\* The states AddRecord goes through.
Fragments(E, rec) == [units : Seq(Units(E)), offset : 0 .. BlockSize, from : 0 .. Len(rec),
                   begin : BOOLEAN, done : BOOLEAN]

LEMMA FragmentTyping ==
  ASSUME NEW E, NEW rec \in Seq(E), NEW st \in Fragments(E, rec)
  PROVE  Fragment(rec, st) \in Fragments(E, rec)
<1> DEFINE leftover == BlockSize - st.offset
           fill     == IF leftover < HeaderSize THEN leftover ELSE 0
           start    == IF leftover < HeaderSize THEN 0 ELSE st.offset
           avail    == BlockSize - start - HeaderSize
           len      == IF Len(rec) - st.from < avail THEN Len(rec) - st.from ELSE avail
           end      == st.from + len = Len(rec)
           type     == IF st.begin THEN IF end THEN "full" ELSE "first"
                                   ELSE IF end THEN "last" ELSE "middle"
           chunk    == [type |-> type, rec |-> rec, from |-> st.from, len |-> len]
           zeros    == [i \in 1 .. fill |-> Trailer]
           bytes    == [i \in 1 .. HeaderSize + len |-> Unit(chunk, i)]
<1>1. /\ st.offset \in 0 .. BlockSize /\ st.from \in 0 .. Len(rec) /\ Len(rec) \in Nat
      /\ st.units \in Seq(Units(E))
  BY LenProperties DEF Fragments
<1>2. /\ fill \in Nat /\ start \in Nat /\ avail \in Nat /\ start + HeaderSize + avail = BlockSize
  BY <1>1, LogAssumption
<1>3. len \in Nat /\ len <= avail /\ st.from + len <= Len(rec)
  BY <1>1, <1>2
<1>4. type \in {"full", "first", "middle", "last"}
  OBVIOUS
<1> HIDE DEF type
<1>5. chunk \in Chunk(E)
  BY <1>1, <1>3, <1>4 DEF Chunk
<1> HIDE DEF chunk, fill, len
<1>6. Trailer \in Units(E)
  BY EmptySeq DEF Trailer, Unit, Units, Chunk
<1>7. zeros \in Seq(Units(E))
  BY <1>2, <1>6
<1>8. bytes \in Seq(Units(E))
  <2>1. HeaderSize + len \in Nat
    BY <1>3, LogAssumption
  <2>2. \A i \in 1 .. HeaderSize + len : Unit(chunk, i) \in Units(E)
    BY <1>5, <2>1 DEF Unit, Units
  <2>3. QED
    BY <2>1, <2>2
<1> HIDE DEF zeros, bytes
<1>9. st.units \o zeros \o bytes \in Seq(Units(E))
  BY <1>1, <1>7, <1>8, ConcatProperties
<1> HIDE DEF start
<1>10. start + HeaderSize + len \in 0 .. BlockSize /\ st.from + len \in 0 .. Len(rec)
  BY <1>1, <1>2, <1>3, LogAssumption
<1>11. end \in BOOLEAN /\ FALSE \in BOOLEAN
  BY Zenon
<1> HIDE DEF end
<1>12. Fragment(rec, st) =
         [units |-> st.units \o zeros \o bytes, offset |-> start + HeaderSize + len,
          from |-> st.from + len, begin |-> FALSE, done |-> end]
  BY Zenon DEF Fragment, leftover, fill, start, avail, len, end, type, chunk, zeros, bytes
<1>13. QED
  BY <1>9, <1>10, <1>11, <1>12 DEF Fragments

\* The turns of AddRecord write units of a log, and the offset stays within a block.
LEMMA TriedTyping ==
  ASSUME NEW E, NEW rec \in Seq(E), NEW offset \in 0 .. BlockSize, NEW k \in Nat
  PROVE  Tried(rec, offset, k) \in Fragments(E, rec)
<1> DEFINE Turn(st, i) == IF st.done THEN st ELSE Fragment(rec, st)
           base == [units |-> <<>>, offset |-> offset, from |-> 0, begin |-> TRUE, done |-> FALSE]
           s == [i \in 1 .. k |-> i]
           S == Fragments(E, rec)
           Goes(st) == st = [i \in 0 .. Len(s) |->
                         IF i = 0 THEN base
                         ELSE CHOOSE y \in {Turn(x, s[i]) : x \in {st[i - 1]}} : TRUE]
           f == CHOOSE st : Goes(st)
           step == [i \in 1 .. Len(s) |-> [x \in S |-> Turn(x, s[i])]]
<1>1. Len(s) \in Nat
  OBVIOUS
<1>2. base \in S
  <2>1. 0 \in 0 .. Len(rec) /\ <<>> \in Seq(Units(E))
    BY LenProperties, EmptySeq
  <2>2. TRUE \in BOOLEAN /\ FALSE \in BOOLEAN
    OBVIOUS
  <2>3. QED
    BY <2>1, <2>2 DEF Fragments
<1>3. ASSUME NEW x \in S, NEW i
      PROVE  Turn(x, i) \in S
  BY FragmentTyping
<1>4. Tried(rec, offset, k) = f[Len(s)]
  BY DEF Tried, FoldSteps
<1> HIDE DEF s, base, S, Turn
<1>5. step \in Steps(Len(s), S)
  BY <1>3 DEF Steps
<1>6. PICK g : Runs(g, Len(s), S, base, step)
  <2> HIDE DEF step
  <2>1. QED
    BY <1>1, <1>2, <1>5, FoldStates
<1>7. /\ g \in [0 .. Len(s) -> S] /\ g[0] = base
      /\ \A i \in 1 .. Len(s) : g[i] = Turn(g[i - 1], s[i])
  <2>1. ASSUME NEW i \in 1 .. Len(s), NEW x \in S
        PROVE  step[i][x] = Turn(x, s[i])
    <3>1. step[i] = [y \in S |-> Turn(y, s[i])]
      BY Zenon
    <3>2. QED
      BY <3>1, Zenon
  <2> HIDE DEF step
  <2>2. /\ g \in [0 .. Len(s) -> S] /\ g[0] = base
        /\ \A i \in 1 .. Len(s) : g[i] = step[i][g[i - 1]]
    BY <1>6 DEF Runs
  <2>3. ASSUME NEW i \in 1 .. Len(s)
        PROVE  g[i] = Turn(g[i - 1], s[i])
    <3>1. i - 1 \in 0 .. Len(s)
      BY <1>1
    <3>2. g[i - 1] \in S
      BY <2>2, <3>1
    <3>3. QED
      BY <2>1, <2>2, <3>2
  <2>4. QED
    BY <2>2, <2>3
<1> HIDE DEF step
<1>8. Goes(g)
  <2>1. ASSUME NEW i \in 1 .. Len(s)
        PROVE  g[i] = CHOOSE y \in {Turn(x, s[i]) : x \in {g[i - 1]}} : TRUE
    BY <1>7
  <2>2. QED
    BY <1>1, <1>7, <2>1
<1>9. Goes(f)
  BY <1>8
<1> HIDE DEF f
<1>10. f[0] = base
  BY <1>1, <1>9
<1>11. \A i \in 1 .. Len(s) : f[i] = Turn(f[i - 1], s[i])
  BY <1>1, <1>9
<1> HIDE DEF Goes
<1> DEFINE T == {i \in 0 .. Len(s) : f[i] \in S}
<1>12. \A i \in 0 .. Len(s) : i \in T
  <2>1. 0 \in T
    BY <1>1, <1>2, <1>10
  <2>2. \A i \in 0 .. Len(s) - 1 : i \in T => i + 1 \in T
    BY <1>1, <1>3, <1>11
  <2> HIDE DEF T
  <2>3. QED
    BY <1>1, <2>1, <2>2, InductTo
<1>13. QED
  BY <1>1, <1>4, <1>12 DEF S

LEMMA AppendedTyping ==
  ASSUME NEW E, NEW log \in Log(E), NEW rec \in Seq(E)
  PROVE  /\ Appended(log, rec) \in Log(E) /\ Synced(log) \in Log(E)
         /\ \A l \in Torn(log, rec) : l \in Log(E)
         /\ \A n \in 0 .. Len(log.data) : Cut(log, n) \in Log(E)
<1> DEFINE added == AddRecord(rec, log.offset)
<1>1. /\ log = [data |-> log.data, synced |-> log.synced, offset |-> log.offset,
                damaged |-> log.damaged]
      /\ log.data \in Seq(Units(E)) /\ log.synced \in Nat /\ log.offset \in 0 .. BlockSize
      /\ log.damaged \in BOOLEAN
  BY DEF Log
<1>2. added.units \in Seq(Units(E)) /\ added.offset \in 0 .. BlockSize
  <2>1. MaxTurns(rec) \in Nat
    BY LenProperties DEF MaxTurns
  <2>2. added \in Fragments(E, rec)
    BY <1>1, <2>1, TriedTyping DEF AddRecord
  <2> HIDE DEF added
  <2>3. QED
    BY <2>2 DEF Fragments
<1>3. Len(log.data) \in Nat /\ Len(added.units) \in Nat
  BY <1>1, <1>2, LenProperties
<1>5. Appended(log, rec) = [data |-> log.data \o added.units, synced |-> log.synced,
                            offset |-> added.offset, damaged |-> log.damaged]
  <2>1. Appended(log, rec) = [log EXCEPT !.data = @ \o added.units, !.offset = added.offset]
    BY Zenon DEF Appended
  <2> HIDE DEF added
  <2>2. QED
    BY <1>1, <2>1
<1> HIDE DEF added
<1>7. log.data \o added.units \in Seq(Units(E))
  BY <1>1, <1>2, ConcatProperties
<1>8. Appended(log, rec) \in Log(E)
  BY <1>1, <1>2, <1>5, <1>7 DEF Log
<1>9. Synced(log) \in Log(E)
  <2>1. Synced(log) = [data |-> log.data, synced |-> Len(log.data), offset |-> log.offset,
                       damaged |-> log.damaged]
    BY <1>1 DEF Synced
  <2>2. QED
    BY <1>1, <1>3, <2>1 DEF Log
<1>10. ASSUME NEW l \in Torn(log, rec)
       PROVE  l \in Log(E)
  <2> DEFINE before(k) == Tried(rec, log.offset, k - 1)
             tried(k)  == Tried(rec, log.offset, k)
             left(k, n) == [log EXCEPT !.data = @ \o SubSeq(tried(k).units, 1, n),
                                       !.offset = tried(k).offset, !.damaged = TRUE]
  <2>1. PICK k \in 1 .. MaxTurns(rec) :
          l \in {left(k, n) : n \in Len(before(k).units) .. Len(tried(k).units)}
    BY <1>10, Zenon DEF Torn
  <2>2. MaxTurns(rec) \in Nat
    BY LenProperties DEF MaxTurns
  <2>3. before(k) \in Fragments(E, rec) /\ tried(k) \in Fragments(E, rec)
    <3>1. k - 1 \in Nat /\ k \in Nat
      BY <2>2
    <3>2. QED
      BY <1>1, <3>1, TriedTyping
  <2> DEFINE b == before(k)
             t == tried(k)
  <2>4. PICK n \in Len(b.units) .. Len(t.units) : l = left(k, n)
    BY <2>1
  <2>5. l = [log EXCEPT !.data = @ \o SubSeq(t.units, 1, n), !.offset = t.offset,
                        !.damaged = TRUE]
    BY <2>4
  <2>6. b \in Fragments(E, rec) /\ t \in Fragments(E, rec)
    BY <2>3
  <2> HIDE DEF b, t
  <2>7. /\ b.units \in Seq(Units(E)) /\ t.units \in Seq(Units(E))
        /\ t.offset \in 0 .. BlockSize
    BY <2>6 DEF Fragments
  <2>8. n \in 0 .. Len(t.units)
    BY <2>7, LenProperties
  <2>9. SubSeq(t.units, 1, n) \in Seq(Units(E))
    BY <2>7, <2>8, LenProperties, SubSeqProperties
  <2>10. log.data \o SubSeq(t.units, 1, n) \in Seq(Units(E))
    BY <1>1, <2>9, ConcatProperties
  <2>11. l = [data |-> log.data \o SubSeq(t.units, 1, n), synced |-> log.synced,
              offset |-> t.offset, damaged |-> TRUE]
    BY <1>1, <2>5
  <2>12. QED
    BY <1>1, <2>7, <2>10, <2>11 DEF Log
<1>11. ASSUME NEW n \in 0 .. Len(log.data)
       PROVE  Cut(log, n) \in Log(E)
  <2>1. SubSeq(log.data, 1, n) \in Seq(Units(E))
    BY <1>1, <1>3, SubSeqProperties
  <2>2. Cut(log, n) = [data |-> SubSeq(log.data, 1, n), synced |-> log.synced,
                       offset |-> log.offset, damaged |-> log.damaged]
    <3>1. Cut(log, n) = [log EXCEPT !.data = SubSeq(log.data, 1, n)]
      BY Zenon DEF Cut
    <3>2. QED
      BY <1>1, <3>1
  <2>3. QED
    BY <1>1, <2>1, <2>2 DEF Log
<1>12. QED
  BY <1>8, <1>9, <1>10, <1>11

\* A block ends after every place in it.
LEMMA BlockEnds ==
  ASSUME NEW p \in Nat
  PROVE  (p \div BlockSize + 1) * BlockSize \in Nat /\ (p \div BlockSize + 1) * BlockSize > p
<1>1. BlockSize \in Nat \ {0}
  BY LogAssumption
<1>2. (p \div BlockSize + 1) * BlockSize > p
  BY <1>1
<1>3. p \div BlockSize \in Nat
  BY <1>1
<1>4. (p \div BlockSize + 1) * BlockSize \in Nat
  BY <1>1, <1>3
<1>5. QED
  BY <1>2, <1>4

\* What is read from a log is chunks.
LEMMA PhysicalTyping ==
  ASSUME NEW E, NEW data \in Seq(Units(E))
  PROVE  PhysicalRecords(data) \in Seq(Chunk(E))
<1> DEFINE n == Len(data)
           BlockEnd(p) == IF (p \div BlockSize + 1) * BlockSize < n
                            THEN (p \div BlockSize + 1) * BlockSize ELSE n
           Whole(p) == LET c == data[p + 1].chunk
                       IN  p + HeaderSize + c.len <= BlockEnd(p) /\ ChecksumMatches(data, p, c)
           Read(read, p) ==
             IF p = n THEN <<>>
             ELSE IF BlockEnd(p) - p < HeaderSize THEN read[BlockEnd(p)]
             ELSE IF Whole(p) THEN <<data[p + 1].chunk>>
                                   \o read[p + HeaderSize + data[p + 1].chunk.len]
             ELSE <<BadRecord>> \o read[BlockEnd(p)]
           Goes(read) == read = [p \in 0 .. n |-> Read(read, p)]
           f == CHOOSE read : Goes(read)
<1>1. n \in Nat
  BY LenProperties
<1>2. PhysicalRecords(data) = f[0]
  BY Zenon DEF PhysicalRecords
<1>3. ASSUME NEW p \in 0 .. n - 1
      PROVE  BlockEnd(p) \in p + 1 .. n
  <2> DEFINE end == (p \div BlockSize + 1) * BlockSize
  <2>1. end \in Nat /\ end > p
    <3>1. p \in Nat
      OBVIOUS
    <3>2. QED
      BY <3>1, BlockEnds
  <2>2. BlockEnd(p) = IF end < n THEN end ELSE n
    OBVIOUS
  <2> HIDE DEF end, BlockEnd
  <2>3. QED
    BY <1>1, <2>1, <2>2
<1>4. ASSUME NEW p \in 0 .. n - 1
      PROVE  /\ data[p + 1].chunk \in Chunk(E)
             /\ data[p + 1].chunk.len \in Nat
             /\ p + HeaderSize + data[p + 1].chunk.len > p
  <2>1. data[p + 1] \in Units(E)
    BY <1>1
  <2>2. data[p + 1].chunk \in Chunk(E)
    BY <2>1 DEF Units
  <2>3. data[p + 1].chunk.len \in Nat
    BY <2>2 DEF Chunk
  <2>4. QED
    BY <2>2, <2>3, LogAssumption
<1>5. BadRecord \in Chunk(E)
  BY EmptySeq DEF BadRecord, Chunk
\* Where a reading goes on is further on: it depends on the readings there.
<1>6. ASSUME NEW p \in 0 .. n, NEW g, NEW h, \A q \in p + 1 .. n : g[q] = h[q]
      PROVE  Read(g, p) = Read(h, p)
  <2>1. CASE p = n
    BY <2>1
  <2>2. CASE p # n
    <3>1. p \in 0 .. n - 1
      BY <1>1, <2>2
    <3>2. g[BlockEnd(p)] = h[BlockEnd(p)]
      BY <1>3, <1>6, <3>1
    <3>3. CASE Whole(p)
      <4>1. p + HeaderSize + data[p + 1].chunk.len \in p + 1 .. n
        <5>1. p + HeaderSize + data[p + 1].chunk.len <= BlockEnd(p)
          BY <3>3
        <5> HIDE DEF BlockEnd
        <5>2. QED
          BY <1>1, <1>3, <1>4, <3>1, <5>1, LogAssumption
      <4>2. g[p + HeaderSize + data[p + 1].chunk.len] = h[p + HeaderSize + data[p + 1].chunk.len]
        BY <1>6, <4>1
      <4> HIDE DEF BlockEnd, Whole
      <4>3. QED
        BY <3>2, <4>2
    <3>4. CASE ~Whole(p)
      <4> HIDE DEF BlockEnd, Whole
      <4>1. QED
        BY <3>2, <3>4
    <3>5. QED
      BY <3>3, <3>4
  <2>3. QED
    BY <2>1, <2>2
<1>7. ASSUME NEW p \in 0 .. n, NEW g, \A q \in p + 1 .. n : g[q] \in Seq(Chunk(E))
      PROVE  Read(g, p) \in Seq(Chunk(E))
  <2>1. CASE p = n
    BY <2>1, EmptySeq
  <2>2. CASE p # n
    <3>1. p \in 0 .. n - 1
      BY <1>1, <2>2
    <3>2. g[BlockEnd(p)] \in Seq(Chunk(E))
      BY <1>3, <1>7, <3>1
    <3>3. <<BadRecord>> \in Seq(Chunk(E)) /\ <<data[p + 1].chunk>> \in Seq(Chunk(E))
      BY <1>4, <1>5, <3>1
    <3>4. Whole(p) => g[p + HeaderSize + data[p + 1].chunk.len] \in Seq(Chunk(E))
      <4>1. HAVE Whole(p)
      <4>2. p + HeaderSize + data[p + 1].chunk.len \in p + 1 .. n
        <5>1. p + HeaderSize + data[p + 1].chunk.len <= BlockEnd(p)
          BY <4>1
        <5> HIDE DEF BlockEnd
        <5>2. QED
          BY <1>1, <1>3, <1>4, <3>1, <5>1, LogAssumption
      <4>3. QED
        BY <1>7, <4>2
    <3>5. /\ <<BadRecord>> \o g[BlockEnd(p)] \in Seq(Chunk(E))
          /\ Whole(p) => <<data[p + 1].chunk>>
                           \o g[p + HeaderSize + data[p + 1].chunk.len] \in Seq(Chunk(E))
      <4> HIDE DEF BlockEnd, Whole
      <4>1. QED
        BY <3>2, <3>3, <3>4, ConcatProperties
    <3> HIDE DEF BlockEnd, Whole
    <3>6. QED
      BY <2>2, <3>2, <3>5
  <2>3. QED
    BY <2>1, <2>2
<1> HIDE DEF n, Read
\* There is such a reading of the last k units, for every k.
<1> DEFINE Reads(g, k) == /\ g \in [n - k .. n -> Seq(Chunk(E))]
                          /\ \A p \in n - k .. n : g[p] = Read(g, p)
           P == {k \in 0 .. n : \E g : Reads(g, k)}
<1>8. \E g : Reads(g, 0)
  <2> DEFINE g == [p \in n - 0 .. n |-> Read(<<>>, n)]
  <2>1. Read(<<>>, n) \in Seq(Chunk(E)) /\ Read(g, n) = Read(<<>>, n)
    <3> HIDE DEF g
    <3>1. Read(<<>>, n) \in Seq(Chunk(E))
      BY <1>1, <1>7
    <3>2. Read(g, n) = Read(<<>>, n)
      <4>1. n \in 0 .. n /\ \A q \in n + 1 .. n : g[q] = <<>>[q]
        BY <1>1
      <4>2. QED
        BY <1>6, <4>1
    <3>3. QED
      BY <3>1, <3>2
  <2>2. Reads(g, 0)
    BY <1>1, <2>1
  <2>3. QED
    BY <2>2
<1>9. ASSUME NEW k \in 0 .. n - 1, NEW g, Reads(g, k)
      PROVE  \E h : Reads(h, k + 1)
  <2> DEFINE at == n - (k + 1)
             h == [p \in at .. n |-> IF p = at THEN Read(g, at) ELSE g[p]]
  <2>1. at \in 0 .. n /\ at + 1 = n - k
    BY <1>1
  <2>2. \A p \in at + 1 .. n : h[p] = g[p]
    BY <1>1, <2>1
  <2>3. h[at] = Read(g, at) /\ DOMAIN h = at .. n
    BY <1>1, <2>1
  <2>4. Read(g, at) \in Seq(Chunk(E))
    BY <1>7, <1>9, <2>1
  <2>5. h \in [at .. n -> Seq(Chunk(E))]
    BY <1>1, <1>9, <2>1, <2>4
  <2> HIDE DEF h
  <2>6. ASSUME NEW p \in at .. n
        PROVE  h[p] = Read(h, p)
    <3>1. p \in 0 .. n /\ \A q \in p + 1 .. n : q \in at + 1 .. n
      BY <1>1, <2>1
    <3>2. Read(h, p) = Read(g, p)
      <4>1. \A q \in p + 1 .. n : h[q] = g[q]
        BY <2>2, <3>1
      <4>2. QED
        BY <1>6, <3>1, <4>1
    <3>3. CASE p = at
      BY <2>3, <3>2, <3>3
    <3>4. CASE p # at
      <4>1. p \in at + 1 .. n
        BY <1>1, <2>1, <3>4
      <4>2. QED
        BY <1>9, <2>1, <2>2, <3>2, <4>1
    <3>5. QED
      BY <3>3, <3>4
  <2>7. Reads(h, k + 1)
    BY <2>5, <2>6
  <2>8. QED
    BY <2>7
<1> HIDE DEF Reads
<1>10. \A k \in 0 .. n : k \in P
  <2>1. 0 \in P
    BY <1>1, <1>8
  <2>2. \A k \in 0 .. n - 1 : k \in P => k + 1 \in P
    BY <1>1, <1>9
  <2> HIDE DEF P
  <2>3. QED
    BY <1>1, <2>1, <2>2, InductTo
<1>11. PICK g : Reads(g, n)
  BY <1>1, <1>10
<1>12. g \in [0 .. n -> Seq(Chunk(E))] /\ \A p \in 0 .. n : g[p] = Read(g, p)
  BY <1>1, <1>11 DEF Reads
<1>13. Goes(g)
  BY <1>12
<1>14. Goes(f)
  BY <1>13
<1> HIDE DEF f
<1>15. \A p \in 0 .. n : f[p] = Read(f, p)
  BY <1>14
<1> HIDE DEF Goes
<1> DEFINE Q == {k \in 0 .. n : \A p \in n - k .. n : f[p] \in Seq(Chunk(E))}
<1>16. \A k \in 0 .. n : k \in Q
  <2>1. 0 \in Q
    <3>1. f[n] \in Seq(Chunk(E))
      <4>1. Read(f, n) \in Seq(Chunk(E))
        BY <1>1, <1>7
      <4>2. QED
        BY <1>1, <1>15, <4>1
    <3>2. QED
      BY <1>1, <3>1
  <2>2. ASSUME NEW k \in 0 .. n - 1, k \in Q
        PROVE  k + 1 \in Q
    <3> DEFINE at == n - (k + 1)
    <3>1. at \in 0 .. n /\ k + 1 \in 0 .. n
      BY <1>1
    <3>2. \A q \in at + 1 .. n : f[q] \in Seq(Chunk(E))
      BY <1>1, <2>2
    <3>3. f[at] \in Seq(Chunk(E))
      <4>1. Read(f, at) \in Seq(Chunk(E))
        BY <1>7, <3>1, <3>2
      <4>2. QED
        BY <1>15, <3>1, <4>1
    <3>4. \A q \in at .. n : f[q] \in Seq(Chunk(E))
      BY <1>1, <3>1, <3>2, <3>3
    <3>5. QED
      BY <3>1, <3>4
  <2> HIDE DEF Q
  <2>3. QED
    BY <1>1, <2>1, <2>2, InductTo
<1>17. f[0] \in Seq(Chunk(E))
  <2>1. n \in Q
    BY <1>1, <1>16
  <2>2. QED
    BY <1>1, <2>1
<1>18. QED
  BY <1>2, <1>17

\* Sequences put one after another are a sequence.
LEMMA FlattenTyping ==
  ASSUME NEW X, NEW ss \in Seq(Seq(X))
  PROVE  FlattenSeq(ss) \in Seq(X)
<1> DEFINE n == Len(ss)
           S == Seq(X)
           step == [i \in 1 .. n |-> [x \in S |-> x \o ss[i]]]
           Goes(st) == st = [i \in 1 .. n |-> IF i = 1 THEN ss[i] ELSE st[i - 1] \o ss[i]]
           f == CHOOSE st : Goes(st)
<1>1. n \in Nat /\ \A i \in 1 .. n : ss[i] \in S
  BY LenProperties
<1>2. CASE n = 0
  <2>1. FlattenSeq(ss) = ss /\ ss = <<>>
    BY <1>2, EmptySeq DEF FlattenSeq
  <2>2. QED
    BY <2>1, EmptySeq
<1>3. CASE n # 0
  <2>1. FlattenSeq(ss) = f[n]
    BY <1>3, Zenon DEF FlattenSeq
  <2>2. step \in Steps(n, S)
    <3>1. \A i \in 1 .. n, x \in S : x \o ss[i] \in S
      BY <1>1, ConcatProperties
    <3> HIDE DEF n, S
    <3>2. QED
      BY <3>1 DEF Steps
  <2>3. <<>> \in S
    BY EmptySeq
  <2>4. PICK g : Runs(g, n, S, <<>>, step)
    <3> HIDE DEF n, S, step
    <3>1. QED
      BY <1>1, <2>2, <2>3, FoldStates
  <2>5. \A i \in 1 .. n, x \in S : step[i][x] = x \o ss[i]
    <3> HIDE DEF S, n
    <3>1. QED
      OBVIOUS
  <2> HIDE DEF step
  <2>6. /\ g \in [0 .. n -> S] /\ g[0] = <<>>
        /\ \A i \in 1 .. n : g[i] = g[i - 1] \o ss[i]
    <3> HIDE DEF n, S
    <3>1. /\ g \in [0 .. n -> S] /\ g[0] = <<>>
          /\ \A i \in 1 .. n : g[i] = step[i][g[i - 1]]
      BY <2>4 DEF Runs
    <3>2. ASSUME NEW i \in 1 .. n
          PROVE  g[i] = g[i - 1] \o ss[i]
      <4>1. g[i - 1] \in S
        BY <1>1, <3>1
      <4>2. step[i][g[i - 1]] = g[i - 1] \o ss[i]
        BY <2>5, <4>1
      <4>3. QED
        BY <3>1, <4>2
    <3>3. QED
      BY <3>1, <3>2
  <2> DEFINE h == [i \in 1 .. n |-> g[i]]
  <2>7. Goes(h)
    <3>1. g[1] = ss[1]
      <4>1. 1 \in 1 .. n /\ ss[1] \in S
        BY <1>1, <1>3
      <4>2. g[1] = <<>> \o ss[1]
        <5>1. ASSUME NEW i \in 1 .. n, i = 1
              PROVE  g[i] = g[0] \o ss[i]
          <6>1. g[i] = g[i - 1] \o ss[i]
            BY <2>6
          <6>2. i - 1 = 0
            BY <5>1
          <6>3. QED
            BY <6>1, <6>2
        <5>2. QED
          BY <2>6, <4>1, <5>1
      <4>3. QED
        BY <4>1, <4>2, ConcatEmptySeq
    <3>2. ASSUME NEW i \in 1 .. n
          PROVE  h[i] = IF i = 1 THEN ss[i] ELSE h[i - 1] \o ss[i]
      <4> HIDE DEF n, S
      <4>1. CASE i = 1
        BY <3>1, <4>1
      <4>2. CASE i # 1
        <5>1. i - 1 \in 1 .. n
          BY <1>1, <4>2
        <5>2. QED
          BY <2>6, <4>2, <5>1
      <4>3. QED
        BY <4>1, <4>2
    <3>3. DOMAIN h = 1 .. n
      OBVIOUS
    <3>4. h = [i \in 1 .. n |-> h[i]]
      OBVIOUS
    <3> HIDE DEF h, n
    <3>5. QED
      BY <3>2, <3>4, Zenon
  <2>8. Goes(f)
    <3> HIDE DEF h
    <3>1. QED
      BY <2>7
  <2> HIDE DEF f
  <2>9. /\ f[1] = ss[1]
        /\ \A i \in 2 .. n : f[i] = f[i - 1] \o ss[i]
    <3> HIDE DEF n
    <3>1. \A i \in 1 .. n : f[i] = IF i = 1 THEN ss[i] ELSE f[i - 1] \o ss[i]
      BY <2>8
    <3>2. f[1] = ss[1]
      BY <1>1, <1>3, <3>1
    <3>3. ASSUME NEW i \in 2 .. n
          PROVE  f[i] = f[i - 1] \o ss[i]
      <4>1. i \in 1 .. n /\ i # 1
        BY <1>1
      <4>2. QED
        BY <3>1, <4>1
    <3>4. QED
      BY <3>2, <3>3
  <2> HIDE DEF Goes
  <2> DEFINE T == {i \in 0 .. n : i # 0 => f[i] \in S}
  <2>10. \A i \in 0 .. n : i \in T
    <3>1. 0 \in T
      BY <1>1
    <3>2. ASSUME NEW i \in 0 .. n - 1, i \in T
          PROVE  i + 1 \in T
      <4>1. i + 1 \in 1 .. n /\ ss[i + 1] \in S
        BY <1>1
      <4>2. CASE i = 0
        BY <1>1, <2>9, <4>1, <4>2
      <4>3. CASE i # 0
        <5>1. f[i] \in S /\ f[i + 1] = f[i] \o ss[i + 1]
          <6>1. i + 1 \in 2 .. n /\ (i + 1) - 1 = i
            BY <1>1, <4>3
          <6>2. f[i + 1] = f[(i + 1) - 1] \o ss[i + 1]
            BY <2>9, <6>1
          <6>3. QED
            BY <3>2, <4>3, <6>1, <6>2
        <5>2. f[i + 1] \in S
          BY <4>1, <5>1, ConcatProperties
        <5>3. QED
          BY <4>1, <5>2
      <4>4. QED
        BY <4>2, <4>3
    <3> HIDE DEF T
    <3>3. QED
      BY <1>1, <3>1, <3>2, InductTo
  <2>11. QED
    BY <1>1, <1>3, <2>1, <2>10
<1>4. QED
  BY <1>2, <1>3

\* The states ReadRecord goes through.
Reading(E) == [recs : Seq(Seq(Chunk(E))), scratch : Seq(Chunk(E))]

LEMMA ReadChunkTyping ==
  ASSUME NEW E, NEW st \in Reading(E), NEW c \in Chunk(E)
  PROVE  ReadChunk(st, c) \in Reading(E)
<1>1. st = [recs |-> st.recs, scratch |-> st.scratch] /\ st.recs \in Seq(Seq(Chunk(E)))
      /\ st.scratch \in Seq(Chunk(E))
  BY DEF Reading
<1>2. <<c>> \in Seq(Chunk(E)) /\ <<>> \in Seq(Chunk(E)) /\ Append(st.scratch, c) \in Seq(Chunk(E))
  BY <1>1
<1>3. /\ Append(st.recs, <<c>>) \in Seq(Seq(Chunk(E)))
      /\ Append(st.recs, Append(st.scratch, c)) \in Seq(Seq(Chunk(E)))
  BY <1>1, <1>2
<1>4. QED
  BY <1>1, <1>2, <1>3 DEF ReadChunk, Reading

LEMMA LogRecordsTyping ==
  ASSUME NEW E, NEW log \in Log(E)
  PROVE  LogRecords(log) \in Seq(Seq(Chunk(E)))
<1> DEFINE base == [recs |-> <<>>, scratch |-> <<>>]
           s == PhysicalRecords(log.data)
           Goes(st) == st = [i \in 0 .. Len(s) |->
                         IF i = 0 THEN base
                         ELSE CHOOSE y \in {ReadChunk(x, s[i]) : x \in {st[i - 1]}} : TRUE]
           f == CHOOSE st : Goes(st)
           step == [i \in 1 .. Len(s) |-> [x \in Reading(E) |-> ReadChunk(x, s[i])]]
<1>1. s \in Seq(Chunk(E))
  <2>1. log.data \in Seq(Units(E))
    BY DEF Log
  <2>2. QED
    BY <2>1, PhysicalTyping
<1>2. base \in Reading(E)
  BY EmptySeq DEF Reading
<1>3. LogRecords(log) = f[Len(s)].recs
  <2> DEFINE r == FoldSteps(ReadChunk, base, s)
  <2>1. r = f[Len(s)]
    BY DEF FoldSteps
  <2>2. LogRecords(log) = r.recs
    BY Zenon DEF LogRecords
  <2> HIDE DEF r, f
  <2>3. QED
    BY <2>1, <2>2
<1> HIDE DEF s, base
<1>4. Len(s) \in Nat /\ \A i \in 1 .. Len(s) : s[i] \in Chunk(E)
  BY <1>1
<1>5. step \in Steps(Len(s), Reading(E))
  BY <1>4, ReadChunkTyping DEF Steps
<1>6. PICK g : Runs(g, Len(s), Reading(E), base, step)
  <2> HIDE DEF step
  <2>1. QED
    BY <1>2, <1>4, <1>5, FoldStates
<1>7. /\ g \in [0 .. Len(s) -> Reading(E)] /\ g[0] = base
      /\ \A i \in 1 .. Len(s) : g[i] = ReadChunk(g[i - 1], s[i])
  <2>1. \A i \in 1 .. Len(s), x \in Reading(E) : step[i][x] = ReadChunk(x, s[i])
    OBVIOUS
  <2> HIDE DEF step
  <2>2. QED
    BY <1>4, <1>6, <2>1 DEF Runs
<1> HIDE DEF step
<1>8. Goes(g)
  <2>1. ASSUME NEW i \in 1 .. Len(s)
        PROVE  g[i] = CHOOSE y \in {ReadChunk(x, s[i]) : x \in {g[i - 1]}} : TRUE
    BY <1>7
  <2>2. QED
    BY <1>4, <1>7, <2>1
<1>9. Goes(f)
  BY <1>8
<1> HIDE DEF f
<1>10. f[0] = base
  BY <1>4, <1>9
<1>11. \A i \in 1 .. Len(s) : f[i] = ReadChunk(f[i - 1], s[i])
  BY <1>4, <1>9
<1> HIDE DEF Goes
<1> DEFINE T == {i \in 0 .. Len(s) : f[i] \in Reading(E)}
<1>12. \A i \in 0 .. Len(s) : i \in T
  <2>1. 0 \in T
    BY <1>4, <1>2, <1>10
  <2>2. \A i \in 0 .. Len(s) - 1 : i \in T => i + 1 \in T
    BY <1>4, <1>11, ReadChunkTyping
  <2> HIDE DEF T
  <2>3. QED
    BY <1>4, <2>1, <2>2, InductTo
<1>13. f[Len(s)] \in Reading(E)
  BY <1>4, <1>12
<1>14. QED
  BY <1>3, <1>13 DEF Reading

\* What a recovery replays is sequences of entries of the store.
LEMMA ReplayedTyping ==
  ASSUME NEW E, NEW log \in Log(E)
  PROVE  Replayed(log) \in Seq(Seq(E))
<1> DEFINE recs == LogRecords(log)
<1>1. ASSUME NEW pieces \in Seq(Chunk(E))
      PROVE  Contents(pieces) \in Seq(E)
  <2> DEFINE Part(c) == SubSeq(c.rec, c.from + 1, c.from + c.len)
  <2>1. ASSUME NEW c \in Chunk(E)
        PROVE  Part(c) \in Seq(E)
    <3>1. /\ c.rec \in Seq(E) /\ c.from \in Nat /\ c.len \in Nat
          /\ c.from + c.len <= Len(c.rec) /\ Len(c.rec) \in Nat
      BY LenProperties DEF Chunk
    <3>2. QED
      BY <3>1, SubSeqProperties
  <2>2. Contents(pieces) = FlattenSeq([i \in DOMAIN pieces |-> Part(pieces[i])])
    BY Zenon DEF Contents
  <2> HIDE DEF Part
  <2>3. [i \in DOMAIN pieces |-> Part(pieces[i])] \in Seq(Seq(E))
    <3>1. Len(pieces) \in Nat /\ DOMAIN pieces = 1 .. Len(pieces)
      BY LenProperties
    <3>2. \A i \in 1 .. Len(pieces) : Part(pieces[i]) \in Seq(E)
      BY <2>1
    <3>3. [i \in 1 .. Len(pieces) |-> Part(pieces[i])] \in Seq(Seq(E))
      BY <3>1, <3>2
    <3>4. QED
      BY <3>1, <3>3
  <2>4. QED
    BY <2>2, <2>3, FlattenTyping
<1>2. recs \in Seq(Seq(Chunk(E)))
  BY LogRecordsTyping
<1>3. Replayed(log) = [i \in DOMAIN recs |-> Contents(recs[i])]
  BY DEF Replayed
<1> HIDE DEF recs
<1>4. Len(recs) \in Nat /\ DOMAIN recs = 1 .. Len(recs)
  BY <1>2, LenProperties
<1>5. \A i \in 1 .. Len(recs) : Contents(recs[i]) \in Seq(E)
  BY <1>1, <1>2
<1>6. [i \in 1 .. Len(recs) |-> Contents(recs[i])] \in Seq(Seq(E))
  BY <1>4, <1>5
<1>7. QED
  BY <1>3, <1>4, <1>6

-----------------------------------------------------------------------------
(* The group of writers.                                                   *)

Operation == [key : Keys, val : Nat]

Writer == [batch : Seq([key : Keys, del : BOOLEAN]), sync : Syncs, id : Nat]

\* There is a group for the front writer, of no more writers than there are.
LEMMA GroupSizeBounds ==
  ASSUME writers \in Seq(Writer), writers # <<>>
  PROVE  GroupSize \in 1 .. Len(writers)
<1> DEFINE Entries(n) == SumFunctionOnSet([i \in 1 .. Len(writers) |-> Len(writers[i].batch)],
                                          1 .. n)
           Joins(n)   == /\ writers[n].sync => writers[1].sync
                         /\ Entries(n) <= MaxGroup
           sizes == {n \in 1 .. Len(writers) : \A i \in 2 .. n : Joins(i)}
<1>1. Len(writers) \in Nat \ {0}
  BY EmptySeq, LenProperties
<1>2. GroupSize = Max(sizes)
  BY Zenon DEF GroupSize
<1> HIDE DEF Joins
<1>3. 1 \in sizes
  BY <1>1
<1>4. Max(sizes) \in sizes
  <2>1. sizes \in SUBSET Nat /\ \A n \in sizes : n <= Len(writers)
    BY <1>1
  <2> HIDE DEF sizes
  <2>2. QED
    BY <1>1, <1>3, <2>1, MaxBounded
<1>5. QED
  BY <1>2, <1>4

\* Its record is entries of the store.
LEMMA GroupRecordTyping ==
  ASSUME writers \in Seq(Writer), lastSequence \in Nat, NEW n \in 1 .. Len(writers)
  PROVE  /\ GroupRecord(n) \in Seq(LogEntry)
         /\ \A j \in DOMAIN GroupRecord(n) : GroupRecord(n)[j].seq = lastSequence + j
<1> DEFINE Op(i, j) == [key |-> writers[i].batch[j].key,
                        val |-> IF writers[i].batch[j].del THEN Deleted ELSE writers[i].id]
           batches == [i \in 1 .. n |-> [j \in DOMAIN writers[i].batch |-> Op(i, j)]]
           ops == FlattenSeq(batches)
<1>1. ASSUME NEW i \in 1 .. n
      PROVE  [j \in DOMAIN writers[i].batch |-> Op(i, j)] \in Seq(Operation)
  <2>1. /\ writers[i].batch \in Seq([key : Keys, del : BOOLEAN]) /\ writers[i].id \in Nat
    <3>1. writers[i] \in Writer
      BY LenProperties
    <3>2. QED
      BY <3>1 DEF Writer
  <2>2. /\ DOMAIN writers[i].batch = 1 .. Len(writers[i].batch)
        /\ Len(writers[i].batch) \in Nat
    BY <2>1, LenProperties
  <2>3. \A j \in 1 .. Len(writers[i].batch) : Op(i, j) \in Operation
    <3>1. ASSUME NEW j \in 1 .. Len(writers[i].batch)
          PROVE  /\ writers[i].batch[j].key \in Keys
                 /\ (IF writers[i].batch[j].del THEN Deleted ELSE writers[i].id) \in Nat
      <4>1. writers[i].batch[j] \in [key : Keys, del : BOOLEAN]
        BY <2>1, ElementOfSeq
      <4>2. QED
        BY <2>1, <4>1 DEF Deleted
    <3>2. QED
      BY <3>1 DEF Operation
  <2> HIDE DEF Op
  <2>4. QED
    BY <2>2, <2>3
<1>2. ops \in Seq(Operation)
  <2> DEFINE At1(i) == [j \in DOMAIN writers[i].batch |-> Op(i, j)]
  <2>1. \A i \in 1 .. n : At1(i) \in Seq(Operation)
    BY <1>1
  <2>2. batches = [i \in 1 .. n |-> At1(i)]
    OBVIOUS
  <2>3. n \in Nat
    BY LenProperties
  <2> HIDE DEF At1
  <2>4. [i \in 1 .. n |-> At1(i)] \in Seq(Seq(Operation))
    BY <2>1, <2>3
  <2>5. batches \in Seq(Seq(Operation))
    BY <2>2, <2>4, Zenon
  <2> HIDE DEF batches
  <2>6. QED
    BY <2>5, FlattenTyping
<1>3. GroupRecord(n) = [j \in DOMAIN ops |-> Entry(ops[j].key, lastSequence + j, ops[j].val)]
  BY Zenon DEF GroupRecord
<1> HIDE DEF ops
<1>4. DOMAIN ops = 1 .. Len(ops) /\ Len(ops) \in Nat
  BY <1>2, LenProperties
<1>5. \A j \in 1 .. Len(ops) : Entry(ops[j].key, lastSequence + j, ops[j].val) \in LogEntry
  <2>1. \A j \in 1 .. Len(ops) : ops[j] \in Operation
    BY <1>2
  <2>2. QED
    BY <1>4, <2>1 DEF Operation, LogEntry, Entry
<1>6. \A j \in DOMAIN ops : Entry(ops[j].key, lastSequence + j, ops[j].val).seq = lastSequence + j
  BY DEF Entry
<1>7. QED
  BY <1>3, <1>4, <1>5, <1>6

-----------------------------------------------------------------------------
(* What a recovery replays.                                                *)

\* The disk has the types of a disk.
DiskTyped ==
  /\ IsFiniteSet(DOMAIN logs) /\ DOMAIN logs \subseteq Nat
  /\ \A n \in DOMAIN logs : logs[n] \in Log(LogEntry)
  /\ DOMAIN tables \subseteq Nat
  /\ manifest.log \in Nat /\ manifest.next \in Nat /\ manifest.seq \in Nat

\* Some number is no less than every sequence number.
Bounded(ents) == \E b \in Nat : \A e \in ents : e.seq <= b

LEMMA BoundedUnion ==
  ASSUME NEW S \in SUBSET LogEntry, NEW T \in SUBSET LogEntry, Bounded(S), Bounded(T)
  PROVE  Bounded(S \cup T)
<1>1. PICK b \in Nat : \A e \in S : e.seq <= b
  BY DEF Bounded
<1>2. PICK c \in Nat : \A e \in T : e.seq <= c
  BY DEF Bounded
<1>3. \A e \in S \cup T : e.seq \in Nat
  BY DEF LogEntry
<1>4. b + c \in Nat /\ \A e \in S \cup T : e.seq <= b + c
  BY <1>1, <1>2, <1>3
<1>5. QED
  BY <1>4 DEF Bounded

LEMMA BoundedRecord ==
  ASSUME NEW rec \in Seq(LogEntry)
  PROVE  ToSet(rec) \subseteq LogEntry /\ Bounded(ToSet(rec))
<1> DEFINE n == Len(rec)
           Bound(k) == \E b \in Nat : \A i \in 1 .. k : rec[i].seq <= b
           T == {k \in 0 .. n : Bound(k)}
<1>1. n \in Nat /\ DOMAIN rec = 1 .. n /\ \A i \in 1 .. n : rec[i] \in LogEntry
  BY LenProperties
<1>2. \A i \in 1 .. n : rec[i].seq \in Nat
  BY <1>1 DEF LogEntry
<1> HIDE DEF n
<1>3. \A k \in 0 .. n : k \in T
  <2>1. 0 \in T
    <3>1. \A i \in 1 .. 0 : rec[i].seq <= 0
      OBVIOUS
    <3>2. QED
      BY <1>1, <3>1
  <2>2. ASSUME NEW k \in 0 .. n - 1, k \in T
        PROVE  k + 1 \in T
    <3>1. PICK b \in Nat : \A i \in 1 .. k : rec[i].seq <= b
      BY <2>2
    <3>2. k + 1 \in 1 .. n /\ rec[k + 1].seq \in Nat
      BY <1>1, <1>2
    <3>3. b + rec[k + 1].seq \in Nat
      BY <3>2
    <3>4. ASSUME NEW i \in 1 .. k + 1
          PROVE  rec[i].seq <= b + rec[k + 1].seq
      <4>1. CASE i = k + 1
        BY <3>2, <4>1
      <4>2. CASE i # k + 1
        <5>1. i \in 1 .. k /\ i \in 1 .. n
          BY <1>1, <4>2
        <5>2. QED
          BY <1>2, <3>1, <3>2, <5>1
      <4>3. QED
        BY <4>1, <4>2
    <3>5. Bound(k + 1)
      BY <3>3, <3>4
    <3> HIDE DEF Bound
    <3>6. QED
      BY <1>1, <3>5
  <2> HIDE DEF T
  <2>3. QED
    BY <1>1, <2>1, <2>2, InductTo
<1>4. PICK b \in Nat : \A i \in 1 .. n : rec[i].seq <= b
  <2>1. n \in T
    <3> HIDE DEF T
    <3>1. QED
      BY <1>1, <1>3
  <2>2. QED
    BY <2>1
<1>5. QED
  BY <1>1, <1>4 DEF ToSet, Bounded

\* A table that a recovery writes: its number was not used yet, and it holds something.
NewFile(E, next) ==
  {f \in [num : Nat, ents : SUBSET E] :
     manifest.next < f.num /\ f.num < next /\ f.ents # {}}

\* The logs that a recovery reads hold entries of E only.
LogsIn(E) == \A n \in DOMAIN logs : n >= manifest.log => logs[n] \in Log(E)

\* The states a recovery goes through, with entries of E: the next number is
\* after those of B.
Replaying(E, B) ==
  {st \in [files : SUBSET [num : Nat, ents : SUBSET E], mem : SUBSET E, next : Nat] :
     /\ manifest.next < st.next
     /\ \A b \in B : b < st.next
     /\ st.files \subseteq NewFile(E, st.next)
     /\ \A f, g \in st.files : f.num = g.num => f = g
     /\ Bounded(AllEntries(st.files) \cup st.mem)}

\* The memtable becomes a table of the next number.
LEMMA WriteOut ==
  ASSUME DiskTyped, NEW E \in SUBSET LogEntry, NEW B \in SUBSET Nat,
         NEW st \in Replaying(E, B), NEW ents \in SUBSET E, Bounded(ents), ents # {}
  PROVE  [files |-> st.files \cup {File(st.next, ents)}, mem |-> {}, next |-> st.next + 1]
           \in Replaying(E, B)
<1> DEFINE file == File(st.next, ents)
           files == st.files \cup {file}
<1>1. /\ st.files \subseteq NewFile(E, st.next) /\ st.next \in Nat /\ manifest.next < st.next
      /\ \A b \in B : b < st.next
      /\ \A f, g \in st.files : f.num = g.num => f = g
      /\ Bounded(AllEntries(st.files) \cup st.mem)
      /\ st.files \subseteq [num : Nat, ents : SUBSET E] /\ st.mem \subseteq E
  BY DEF Replaying
<1>2. manifest.next \in Nat
  BY DEF DiskTyped
<1>3. /\ file \in [num : Nat, ents : SUBSET E] /\ file.num = st.next
      /\ file.ents = ents
  BY <1>1 DEF File
<1> HIDE DEF file
<1>4. files \subseteq NewFile(E, st.next + 1)
  BY <1>1, <1>2, <1>3 DEF NewFile
<1>5. ASSUME NEW f \in files, NEW g \in files, f.num = g.num
      PROVE  f = g
  <2>1. \A h \in st.files : h.num # file.num
    BY <1>1, <1>3 DEF NewFile
  <2>2. QED
    BY <1>1, <1>5, <2>1
<1>6. Bounded(AllEntries(files) \cup {})
  <2>1. AllEntries(files) = AllEntries(st.files) \cup ents
    BY <1>3 DEF AllEntries
  <2>2. /\ AllEntries(st.files) \subseteq LogEntry
        /\ Bounded(AllEntries(st.files))
    BY <1>1 DEF AllEntries, Bounded
  <2>3. QED
    BY <2>1, <2>2, BoundedUnion
<1> HIDE DEF files
<1>7. files \in SUBSET [num : Nat, ents : SUBSET E]
  BY <1>4 DEF NewFile
<1> DEFINE new == [files |-> files, mem |-> {}, next |-> st.next + 1]
<1>8. new \in Replaying(E, B)
  <2>1. new.files = files /\ new.mem = {} /\ new.next = st.next + 1
    OBVIOUS
  <2>2. new \in [files : SUBSET [num : Nat, ents : SUBSET E], mem : SUBSET E,
                 next : Nat]
    BY <1>1, <1>7
  <2>3. manifest.next < new.next /\ \A b \in B : b < new.next
    BY <1>1, <1>2
  <2> HIDE DEF new
  <2>4. QED
    BY <1>4, <1>5, <1>6, <2>1, <2>2, <2>3 DEF Replaying
<1>9. QED
  BY <1>8 DEF files, file

\* A memtable that is full holds something.
LEMMA FullHolds ==
  ASSUME NEW ents, Full(ents)
  PROVE  ents # {}
<1>1. Cardinality(ents) >= MemLimit /\ MemLimit \in Nat \ {0}
  BY DBAssumption DEF Full
<1>2. QED
  BY <1>1, FS_EmptySet

LEMMA ReplayRecordTyping ==
  ASSUME DiskTyped, NEW E \in SUBSET LogEntry, NEW B \in SUBSET Nat,
         NEW st \in Replaying(E, B), NEW rec \in Seq(E)
  PROVE  ReplayRecord(st, rec) \in Replaying(E, B)
<1> DEFINE ents == st.mem \cup ToSet(rec)
<1>1. /\ st = [files |-> st.files, mem |-> st.mem, next |-> st.next]
      /\ st.mem \subseteq E /\ st.files \subseteq [num : Nat, ents : SUBSET E]
      /\ Bounded(AllEntries(st.files) \cup st.mem)
  BY DEF Replaying
<1>2. ToSet(rec) \subseteq E /\ Bounded(ToSet(rec))
  <2>1. Len(rec) \in Nat /\ rec \in [1 .. Len(rec) -> E] /\ DOMAIN rec = 1 .. Len(rec)
    BY LenProperties
  <2>2. rec \in Seq(LogEntry)
    BY <2>1
  <2>3. ToSet(rec) \subseteq E
    BY <2>1 DEF ToSet
  <2>4. QED
    BY <2>2, <2>3, BoundedRecord
<1>3. AllEntries(st.files) \subseteq E
  BY <1>1 DEF AllEntries
<1>4. ents \in SUBSET E /\ Bounded(ents)
  <2>1. Bounded(st.mem)
    BY <1>1 DEF Bounded
  <2>2. QED
    BY <1>1, <1>2, <2>1, BoundedUnion
<1>5. ReplayRecord(st, rec) =
        IF Full(ents)
          THEN [st EXCEPT !.files = @ \cup {File(st.next, ents)}, !.next = @ + 1, !.mem = {}]
          ELSE [st EXCEPT !.mem = ents]
  BY Zenon DEF ReplayRecord
<1> HIDE DEF ents
<1>6. CASE Full(ents)
  <2>1. ReplayRecord(st, rec) = [files |-> st.files \cup {File(st.next, ents)}, mem |-> {},
                                 next |-> st.next + 1]
    BY <1>1, <1>5, <1>6
  <2>2. ents # {}
    BY <1>6, FullHolds
  <2>3. QED
    BY <1>4, <2>1, <2>2, WriteOut
<1>7. CASE ~Full(ents)
  <2>1. ReplayRecord(st, rec) = [files |-> st.files, mem |-> ents, next |-> st.next]
    BY <1>1, <1>5, <1>7
  <2>2. Bounded(AllEntries(st.files) \cup ents)
    <3>1. Bounded(AllEntries(st.files))
      BY <1>1 DEF Bounded
    <3>2. QED
      BY <1>3, <1>4, <3>1, BoundedUnion
  <2> DEFINE new == [files |-> st.files, mem |-> ents, next |-> st.next]
  <2>3. new \in Replaying(E, B)
    BY <1>4, <2>2 DEF Replaying
  <2>4. QED
    BY <2>1, <2>3
<1>8. QED
  BY <1>6, <1>7

LEMMA ReplayRecords ==
  ASSUME DiskTyped, NEW E \in SUBSET LogEntry, NEW B \in SUBSET Nat,
         NEW st0 \in Replaying(E, B), NEW s \in Seq(Seq(E))
  PROVE  FoldSteps(ReplayRecord, st0, s) \in Replaying(E, B)
<1> DEFINE Goes(st) == st = [i \in 0 .. Len(s) |->
                         IF i = 0 THEN st0
                         ELSE CHOOSE y \in {ReplayRecord(x, s[i]) : x \in {st[i - 1]}} : TRUE]
           f == CHOOSE st : Goes(st)
           step == [i \in 1 .. Len(s) |-> [x \in Replaying(E, B) |-> ReplayRecord(x, s[i])]]
<1>1. FoldSteps(ReplayRecord, st0, s) = f[Len(s)]
  BY DEF FoldSteps
<1>2. Len(s) \in Nat /\ \A i \in 1 .. Len(s) : s[i] \in Seq(E)
  BY LenProperties
<1>3. ASSUME NEW i \in 1 .. Len(s), NEW x \in Replaying(E, B)
      PROVE  ReplayRecord(x, s[i]) \in Replaying(E, B)
  BY <1>2, ReplayRecordTyping
<1>4. step \in Steps(Len(s), Replaying(E, B))
  BY <1>3 DEF Steps
<1>5. PICK g : Runs(g, Len(s), Replaying(E, B), st0, step)
  <2> HIDE DEF step
  <2>1. QED
    BY <1>2, <1>4, FoldStates
<1>6. /\ g \in [0 .. Len(s) -> Replaying(E, B)] /\ g[0] = st0
      /\ \A i \in 1 .. Len(s) : g[i] = ReplayRecord(g[i - 1], s[i])
  <2>1. \A i \in 1 .. Len(s), x \in Replaying(E, B) : step[i][x] = ReplayRecord(x, s[i])
    OBVIOUS
  <2> HIDE DEF step
  <2>2. /\ g \in [0 .. Len(s) -> Replaying(E, B)] /\ g[0] = st0
        /\ \A i \in 1 .. Len(s) : g[i] = step[i][g[i - 1]]
    BY <1>5 DEF Runs
  <2>3. \A i \in 1 .. Len(s) : g[i - 1] \in Replaying(E, B)
    BY <1>2, <2>2
  <2>4. QED
    BY <2>1, <2>2, <2>3
<1> HIDE DEF step
<1>7. Goes(g)
  <2>1. ASSUME NEW i \in 1 .. Len(s)
        PROVE  g[i] = CHOOSE y \in {ReplayRecord(x, s[i]) : x \in {g[i - 1]}} : TRUE
    BY <1>6
  <2>2. QED
    BY <1>2, <1>6, <2>1
<1>8. Goes(f)
  BY <1>7
<1> HIDE DEF f
<1>9. f[0] = st0
  BY <1>2, <1>8
<1>10. ASSUME NEW i \in 1 .. Len(s)
       PROVE  f[i] = ReplayRecord(f[i - 1], s[i])
  <2>1. f[i] = CHOOSE y \in {ReplayRecord(x, s[i]) : x \in {f[i - 1]}} : TRUE
    <3>1. i \in 0 .. Len(s) /\ i # 0
      BY <1>2
    <3>2. QED
      BY <1>8, <3>1, Zenon
  <2>2. QED
    BY <2>1
<1> HIDE DEF Goes
<1> DEFINE T == {i \in 0 .. Len(s) : f[i] \in Replaying(E, B)}
<1>11. \A i \in 0 .. Len(s) : i \in T
  <2>1. 0 \in T
    BY <1>2, <1>9
  <2>2. \A i \in 0 .. Len(s) - 1 : i \in T => i + 1 \in T
    BY <1>2, <1>3, <1>10
  <2> HIDE DEF T
  <2>3. QED
    BY <1>2, <2>1, <2>2, InductTo
<1>12. QED
  BY <1>1, <1>2, <1>11

LEMMA ReplayLogTyping ==
  ASSUME DiskTyped, NEW E \in SUBSET LogEntry, NEW B \in SUBSET Nat,
         NEW st \in Replaying(E, B), NEW n \in DOMAIN logs,
         logs[n] \in Log(E)
  PROVE  ReplayLog(st, n) \in Replaying(E, B \cup {n})
<1> DEFINE read == FoldSteps(ReplayRecord, st, Replayed(logs[n]))
           rest == IF read.mem = {} THEN read
                   ELSE [files |-> read.files \cup {File(read.next, read.mem)},
                         next |-> read.next + 1, mem |-> {}]
<1>1. n \in Nat
  BY DEF DiskTyped
<1>2. read \in Replaying(E, B)
  <2>1. Replayed(logs[n]) \in Seq(Seq(E))
    BY ReplayedTyping
  <2> DEFINE s == Replayed(logs[n])
  <2> HIDE DEF s
  <2>2. FoldSteps(ReplayRecord, st, s) \in Replaying(E, B)
    BY <2>1, ReplayRecords DEF s
  <2>3. QED
    BY <2>2, Zenon DEF s
<1>3. ReplayLog(st, n) = [rest EXCEPT !.next = IF @ <= n THEN n + 1 ELSE @]
  BY Zenon DEF ReplayLog
<1> HIDE DEF read
<1>4. rest \in Replaying(E, B)
  <2>1. read.mem \in SUBSET E /\ Bounded(read.mem)
    BY <1>2 DEF Replaying, Bounded
  <2>2. CASE read.mem # {}
    <3>1. [files |-> read.files \cup {File(read.next, read.mem)}, mem |-> {},
           next |-> read.next + 1] \in Replaying(E, B)
      BY <1>2, <2>1, <2>2, WriteOut
    <3>2. QED
      BY <2>2, <3>1
  <2>3. QED
    BY <1>2, <2>2
<1> HIDE DEF rest
<1> DEFINE next == IF rest.next <= n THEN n + 1 ELSE rest.next
           new == [files |-> rest.files, mem |-> rest.mem, next |-> next]
<1>5. rest = [files |-> rest.files, mem |-> rest.mem, next |-> rest.next] /\ rest.next \in Nat
      /\ manifest.next < rest.next /\ rest.files \subseteq NewFile(E, rest.next)
      /\ \A b \in B : b < rest.next
  BY <1>4 DEF Replaying
<1>6. ReplayLog(st, n) = new
  BY <1>3, <1>5
<1>7. next \in Nat /\ rest.next <= next /\ n < next
  BY <1>1, <1>5
<1> HIDE DEF next
<1>8. manifest.next < next /\ \A b \in B \cup {n} : b < next
  BY <1>5, <1>7 DEF DiskTyped
<1>9. rest.files \subseteq NewFile(E, next)
  BY <1>5, <1>7 DEF NewFile
<1>10. new \in Replaying(E, B \cup {n})
  <2>1. new.files = rest.files /\ new.mem = rest.mem /\ new.next = next
    OBVIOUS
  <2>2. new \in [files : SUBSET [num : Nat, ents : SUBSET E], mem : SUBSET E,
                 next : Nat]
    BY <1>4, <1>7 DEF Replaying
  <2> HIDE DEF new
  <2>3. QED
    BY <1>4, <1>8, <1>9, <2>1, <2>2 DEF Replaying
<1>11. QED
  BY <1>6, <1>10

\* The files that a recovery writes have numbers of their own, all of them new,
\* and the next number is new too.
LEMMA ReplayTyping ==
  ASSUME DiskTyped, NEW E \in SUBSET LogEntry, LogsIn(E)
  PROVE  Replay \in Replaying(E, {manifest.log} \cup DOMAIN logs)
<1> DEFINE next == manifest.next + 1
           base == [files |-> {}, mem |-> {},
                    next |-> IF next <= manifest.log THEN manifest.log + 1 ELSE next]
           s == LogsToReplay
           S == Replaying(E, {manifest.log})
           Behind(i) == {manifest.log} \cup {s[k] : k \in 1 .. i}
           Goes(st) == st = [i \in 0 .. Len(s) |->
                         IF i = 0 THEN base
                         ELSE CHOOSE y \in {ReplayLog(x, s[i]) : x \in {st[i - 1]}} : TRUE]
           f == CHOOSE st : Goes(st)
           step == [i \in 1 .. Len(s) |-> [x \in S |-> ReplayLog(x, s[i])]]
<1>0. {manifest.log} \cup DOMAIN logs \subseteq Nat
  BY DEF DiskTyped
<1>1. base \in S
  <2>1. /\ base.files = {} /\ base.mem = {} /\ base.next \in Nat /\ manifest.next < base.next
        /\ manifest.log < base.next
    BY DEF DiskTyped
  <2>2. Bounded({})
    BY DEF Bounded
  <2>3. AllEntries(base.files) \cup base.mem = {}
    BY <2>1 DEF AllEntries
  <2>4. base \in [files : SUBSET [num : Nat, ents : SUBSET E], mem : SUBSET E, next : Nat]
    BY <2>1
  <2> HIDE DEF base
  <2>5. QED
    BY <2>1, <2>2, <2>3, <2>4 DEF Replaying
<1>2. /\ Len(s) \in Nat
      /\ \A i \in 1 .. Len(s) : s[i] \in DOMAIN logs /\ s[i] >= manifest.log
      /\ \A n \in DOMAIN logs : n >= manifest.log => \E i \in 1 .. Len(s) : s[i] = n
  <2> DEFINE Q == {n \in DOMAIN logs : n >= manifest.log}
             o == InOrder(Q, <)
  <2>1. Q \in SUBSET Nat /\ IsFiniteSet(Q)
    BY FS_Subset DEF DiskTyped
  <2>2. s = o
    BY DEF LogsToReplay
  <2>3. o \in Seq(Q) /\ \A n \in Q : \E i \in DOMAIN o : o[i] = n
    <3> HIDE DEF Q
    <3>1. QED
      BY <2>1, InOrderFacts, InOrderAll
  <2> HIDE DEF s, Q, o
  <2>4. Len(s) \in Nat /\ DOMAIN s = 1 .. Len(s) /\ \A i \in 1 .. Len(s) : s[i] \in Q
    BY <2>2, <2>3, LenProperties
  <2>5. \A n \in Q : \E i \in 1 .. Len(s) : s[i] = n
    BY <2>2, <2>3, <2>4
  <2>6. QED
    BY <2>4, <2>5 DEF Q
<1>3. Replay = f[Len(s)]
  BY DEF Replay, FoldSteps
<1> HIDE DEF s, base
<1>4. ASSUME NEW i \in 1 .. Len(s), NEW B \in SUBSET Nat, NEW x \in Replaying(E, B)
      PROVE  ReplayLog(x, s[i]) \in Replaying(E, B \cup {s[i]})
  <2>1. s[i] \in DOMAIN logs /\ logs[s[i]] \in Log(E)
    BY <1>2 DEF LogsIn
  <2>2. QED
    BY <2>1, ReplayLogTyping
<1>5. ASSUME NEW i \in 1 .. Len(s), NEW x \in S
      PROVE  ReplayLog(x, s[i]) \in S
  <2>1. ReplayLog(x, s[i]) \in Replaying(E, {manifest.log} \cup {s[i]})
    BY <1>0, <1>4
  <2>2. QED
    BY <2>1 DEF Replaying
<1>6. step \in Steps(Len(s), S)
  BY <1>5 DEF Steps
<1>7. PICK g : Runs(g, Len(s), S, base, step)
  <2> HIDE DEF step, S
  <2>1. QED
    BY <1>1, <1>2, <1>6, FoldStates
<1>8. /\ g \in [0 .. Len(s) -> S] /\ g[0] = base
      /\ \A i \in 1 .. Len(s) : g[i] = ReplayLog(g[i - 1], s[i])
  <2>1. \A i \in 1 .. Len(s), x \in S : step[i][x] = ReplayLog(x, s[i])
    OBVIOUS
  <2> HIDE DEF step, S
  <2>2. /\ g \in [0 .. Len(s) -> S] /\ g[0] = base
        /\ \A i \in 1 .. Len(s) : g[i] = step[i][g[i - 1]]
    BY <1>7 DEF Runs
  <2>3. \A i \in 1 .. Len(s) : g[i - 1] \in S
    <3>1. \A i \in 1 .. Len(s) : i - 1 \in 0 .. Len(s)
      BY <1>2
    <3>2. QED
      BY <2>2, <3>1
  <2>4. QED
    BY <2>1, <2>2, <2>3
<1> HIDE DEF step
<1>9. Goes(g)
  <2>1. ASSUME NEW i \in 1 .. Len(s)
        PROVE  g[i] = CHOOSE y \in {ReplayLog(x, s[i]) : x \in {g[i - 1]}} : TRUE
    BY <1>8
  <2>2. QED
    BY <1>2, <1>8, <2>1
<1>10. Goes(f)
  BY <1>9
<1> HIDE DEF f
<1>11. f[0] = base
  BY <1>2, <1>10
<1>12. \A i \in 1 .. Len(s) : f[i] = ReplayLog(f[i - 1], s[i])
  BY <1>2, <1>10
<1> HIDE DEF Goes
<1> DEFINE T == {i \in 0 .. Len(s) : f[i] \in Replaying(E, Behind(i))}
<1>13. \A i \in 0 .. Len(s) : i \in T
  <2>1. 0 \in T
    <3>1. Behind(0) = {manifest.log}
      OBVIOUS
    <3>2. f[0] \in Replaying(E, {manifest.log})
      BY <1>1, <1>11
    <3>3. 0 \in 0 .. Len(s)
      BY <1>2
    <3> HIDE DEF s, Behind, S, next
    <3>4. QED
      BY <3>1, <3>2, <3>3
  <2>2. ASSUME NEW i \in 0 .. Len(s) - 1, i \in T
        PROVE  i + 1 \in T
    <3>1. i + 1 \in 1 .. Len(s) /\ i + 1 \in 0 .. Len(s) /\ (i + 1) - 1 = i
      BY <1>2
    <3>2. Behind(i) \in SUBSET Nat
      <4>1. \A k \in 1 .. i : k \in 1 .. Len(s)
        BY <1>2
      <4>2. QED
        BY <1>0, <1>2, <4>1
    <3>3. Behind(i + 1) = Behind(i) \cup {s[i + 1]}
      <4>1. \A k : k \in 1 .. i + 1 <=> k \in 1 .. i \/ k = i + 1
        OBVIOUS
      <4>2. QED
        BY <4>1
    <3>4. f[i + 1] = ReplayLog(f[i], s[i + 1])
      BY <1>12, <3>1
    <3> HIDE DEF Behind
    <3>5. f[i + 1] \in Replaying(E, Behind(i) \cup {s[i + 1]})
      BY <1>4, <2>2, <3>1, <3>2, <3>4
    <3>6. QED
      BY <3>1, <3>3, <3>5
  <2> HIDE DEF T
  <2>3. QED
    BY <1>2, <2>1, <2>2, InductTo
<1>14. Replay \in Replaying(E, Behind(Len(s)))
  BY <1>2, <1>3, <1>13
<1>15. ASSUME NEW b \in {manifest.log} \cup DOMAIN logs
       PROVE  b \in Behind(Len(s)) \/ b < manifest.log
  <2>1. CASE b = manifest.log
    BY <2>1
  <2>2. CASE b # manifest.log /\ b >= manifest.log
    <3>1. PICK i \in 1 .. Len(s) : s[i] = b
      BY <1>2, <2>2
    <3>2. QED
      BY <3>1
  <2>3. b \in Nat /\ manifest.log \in Nat
    BY <1>0
  <2> HIDE DEF Behind
  <2>4. QED
    BY <2>1, <2>2, <2>3
<1>16. \A b \in {manifest.log} \cup DOMAIN logs : b < Replay.next
  <2>1. Replay.next \in Nat /\ \A b \in Behind(Len(s)) : b < Replay.next
    <3> HIDE DEF Behind
    <3>1. QED
      BY <1>14 DEF Replaying
  <2>2. manifest.log < Replay.next
    BY <2>1
  <2>3. ASSUME NEW b \in {manifest.log} \cup DOMAIN logs
        PROVE  b < Replay.next
    <3> HIDE DEF Behind
    <3>1. CASE b \in Behind(Len(s))
      BY <2>1, <3>1
    <3>2. CASE b < manifest.log
      <4>1. b \in Nat /\ manifest.log \in Nat
        BY <1>0
      <4>2. QED
        BY <2>1, <2>2, <3>2, <4>1
    <3>3. QED
      BY <1>15, <3>1, <3>2
  <2>4. QED
    BY <2>3
<1>17. QED
  BY <1>14, <1>16 DEF Replaying

\* The largest sequence number found is one, and none is larger.
LEMMA RecoveredSequenceTyping ==
  ASSUME DiskTyped, NEW E \in SUBSET LogEntry, NEW B \in SUBSET Nat,
         NEW st \in Replaying(E, B)
  PROVE  /\ RecoveredSequence(st.files) \in Nat /\ manifest.seq <= RecoveredSequence(st.files)
         /\ \A e \in AllEntries(st.files) : e.seq <= RecoveredSequence(st.files)
<1> DEFINE S == {manifest.seq} \cup {e.seq : e \in AllEntries(st.files)}
<1>1. AllEntries(st.files) \subseteq LogEntry /\ manifest.seq \in Nat
  BY DEF Replaying, AllEntries, DiskTyped
<1>2. PICK b \in Nat : \A e \in AllEntries(st.files) : e.seq <= b
  BY DEF Replaying, Bounded
<1>3. S \in SUBSET Nat /\ \A x \in S : x <= manifest.seq + b
  BY <1>1, <1>2 DEF LogEntry
<1>4. Max(S) \in S /\ \A x \in S : Max(S) >= x
  <2>1. S # {} /\ manifest.seq + b \in Nat
    BY <1>1
  <2> HIDE DEF S
  <2>2. QED
    BY <1>3, <2>1, MaxBounded
<1>5. manifest.seq \in S /\ \A e \in AllEntries(st.files) : e.seq \in S
  OBVIOUS
<1>6. RecoveredSequence(st.files) = Max(S)
  BY DEF RecoveredSequence
<1> HIDE DEF S
<1>7. QED
  BY <1>3, <1>4, <1>5, <1>6

-----------------------------------------------------------------------------
(* The inductive invariant.                                                *)

Stored(f) == f.num \in DOMAIN tables /\ tables[f.num] = f.ents

Added == IF edit = NoEdit THEN {} ELSE {a.file : a \in edit.add}

Merging == UNION {FilesOf(c.base) \cup c.outs : c \in bg.comp}

Read == UNION {FilesOf(readers[r].version) : r \in DOMAIN readers}

\* The files that somebody refers to, or that MANIFEST names or is to name.
Live == FilesOf(manifest.version) \cup FilesOf(current) \cup Added \cup Merging \cup Read

\* They are on the disk.
LiveStored == \A f \in Live : Stored(f)

\* Their numbers were given out, and not to a table that is being built.
LiveNumbered ==
  phase # "down" =>
    /\ bg.pc = "build" => bg.out < nextFile
    /\ \A f \in Live : /\ f.num \in Nat /\ f.num < nextFile
                       /\ bg.pc = "build" => f.num # bg.out

\* What MANIFEST says: a recovery goes on from its next number.
ManifestNumbered == \A f \in FilesOf(manifest.version) : f.num \in Nat /\ f.num < manifest.next

\* Unless there was an error, MANIFEST says what the current version is or is about to be.
ManifestCurrent ==
  /\ phase = "recovering" => manifest.version = current
  /\ phase = "committed" => manifest.version = ApplyEdit(current, edit)
  /\ phase = "open" /\ ~bgError =>
       manifest.version = IF bg.pc = "install" THEN ApplyEdit(current, edit) ELSE current

\* The numbers of files and logs of a running process.
Numbered ==
  phase # "down" => /\ nextFile \in Nat /\ manifest.next <= nextFile
                    /\ mem \in Nat /\ 0 < mem /\ mem < nextFile
                    /\ mem \in DOMAIN logs /\ mem \in DOMAIN memtables

LogsKept ==
  phase = "open" =>
    /\ logNumber \in Nat /\ imm \in Nat
    /\ logNumber <= mem
    /\ imm # NoFile => /\ logNumber <= imm
                       /\ imm \in DOMAIN logs /\ imm \in DOMAIN memtables

Merge(c) == [level |-> c.level, base |-> c.base, in0 |-> c.in0, in1 |-> c.in1,
             outs |-> c.outs, todo |-> c.todo]

\* Where the background thread is.
BgTyped ==
  /\ bg = [pc |-> bg.pc, out |-> bg.out, comp |-> bg.comp]
  /\ bg.pc \in {"idle", "build", "compact", "manifest", "install"} /\ bg.out \in Nat
  /\ bg.pc = "idle" => bg = Idle
  /\ bg.pc = "compact" => bg.out = NoFile /\ bg.comp # {}
  /\ bg.pc = "build" => bg.out # NoFile /\ imm # NoFile
  /\ \A c \in bg.comp : c = Merge(c) /\ bg.comp = {c}
  /\ \A n \in Outputs : n # NoFile /\ n # bg.out
  /\ pending = Outputs \cup (IF bg.pc = "build" THEN {bg.out} ELSE {})
  /\ scheduled \/ bg = Idle

\* The edit that is being logged.
EditTyped ==
  /\ edit # NoEdit =>
       /\ edit = Edit(edit.kind, edit.add, edit.del, edit.log, edit.next, edit.seq)
       /\ edit.kind \in {"recover", "flush", "move", "compact"}
       /\ {edit.log, edit.next, edit.seq} \subseteq Nat
       /\ manifest.next <= edit.next /\ edit.next <= nextFile
       /\ \A f \in Added : f.num < edit.next
  /\ phase \in {"recovering", "committed"} => edit.kind = "recover" /\ edit.log = mem
  /\ phase = "open" =>
       /\ (edit # NoEdit) = (bg.pc \in {"manifest", "install"})
       /\ edit # NoEdit => /\ edit.kind # "recover"
                           /\ edit.kind = "move" => bg.comp = {}
                           /\ IF edit.kind = "flush" THEN imm # NoFile /\ edit.log = mem
                                                     ELSE edit.log = logNumber

\* The file that used up its seeks is one of the current version.
SeekFileCurrent == \A a \in seekFile : a.level \in Levels /\ a.file \in current[a.level]

Batch == [rec : Seq(LogEntry), sync : BOOLEAN, log : Nat, risky : BOOLEAN]

\* The group that is being written.
GroupTyped ==
  group # NoGroup => /\ group \in [stage : {"log", "insert", "finish", "failed", "unsynced"},
                                   n : Nat, sync : Syncs, batch : Batch]
                     /\ group.n \in 1 .. Len(writers)

Opening ==
  /\ imm = NoFile /\ seekFile = NoSeekFile /\ pending = {} /\ writers = <<>> /\ group = NoGroup
  /\ snaps = <<>> /\ readers = <<>> /\ bg = Idle /\ scheduled = FALSE /\ bgError = FALSE

Phases ==
  /\ phase \in {"down", "recovering", "committed", "open"}
  /\ phase = "down" => NoProcess
  /\ phase \in {"recovering", "committed"} => Opening

Scalars ==
  /\ lastSequence \in Nat /\ issued \in Nat
  /\ bgError \in BOOLEAN /\ scheduled \in BOOLEAN
  /\ writers \in Seq(Writer)

IInv ==
  /\ DiskTyped /\ Phases /\ Scalars /\ Numbered /\ LogsKept
  /\ LiveStored /\ LiveNumbered /\ ManifestNumbered /\ ManifestCurrent
  /\ BgTyped /\ EditTyped /\ SeekFileCurrent /\ GroupTyped
  /\ WorkIsScheduled

-----------------------------------------------------------------------------
(* What a step that leaves the variables of a part alone keeps.            *)

LEMMA KeepDisk ==
  DiskTyped /\ ManifestNumbered /\ UNCHANGED disk => DiskTyped' /\ ManifestNumbered'
BY DEF DiskTyped, ManifestNumbered, disk

LEMMA KeepManifestCurrent ==
  ManifestCurrent /\ UNCHANGED <<manifest, phase, current, edit, bg>> /\ (bgError => bgError')
    => ManifestCurrent'
BY DEF ManifestCurrent, ApplyEdit

LEMMA KeepLogs ==
  /\ Numbered /\ LogsKept
  /\ UNCHANGED <<manifest, phase, mem, imm, logNumber>>
  /\ DOMAIN logs' = DOMAIN logs
  /\ {mem, imm} \cap DOMAIN memtables \subseteq DOMAIN memtables'
  /\ nextFile' \in Nat /\ nextFile <= nextFile'
  /\ DiskTyped
  => Numbered' /\ LogsKept'
BY DEF Numbered, LogsKept, DiskTyped

LEMMA KeepBack ==
  /\ BgTyped /\ UNCHANGED <<bg, pending>>
  /\ scheduled => scheduled'
  /\ imm # NoFile => imm' # NoFile
  => BgTyped'
BY DEF BgTyped, Outputs, OutNumbers, Merge

LEMMA KeepEdit ==
  /\ EditTyped /\ Numbered
  /\ UNCHANGED <<edit, bg, manifest, phase, logNumber>>
  /\ phase # "down" => nextFile' \in Nat /\ nextFile <= nextFile'
  /\ imm # NoFile \/ phase # "open" => UNCHANGED <<mem, imm>>
  /\ phase = "down" => nextFile' = nextFile
  => EditTyped'
BY DEF EditTyped, Numbered, Added

\* Files referred to stay where they are.
LEMMA KeepLive ==
  /\ LiveStored /\ LiveNumbered /\ Live' \subseteq Live
  /\ UNCHANGED tables /\ phase # "down"
  /\ nextFile \in Nat /\ nextFile' \in Nat /\ nextFile <= nextFile'
  /\ BgTyped
  /\ bg'.pc = "build" => bg.pc = "build" /\ bg'.out = bg.out
  => LiveStored' /\ LiveNumbered'
BY DEF LiveStored, LiveNumbered, Stored, BgTyped

LEMMA SameLive ==
  UNCHANGED <<manifest, current, edit, bg, readers>> => Live' = Live
BY DEF Live, Added, Merging, Read, FilesOf

LEMMA KeepSeek ==
  SeekFileCurrent /\ UNCHANGED <<seekFile, current>> => SeekFileCurrent'
BY DEF SeekFileCurrent

LEMMA KeepGroup ==
  GroupTyped /\ UNCHANGED <<group, writers>> => GroupTyped'
BY DEF GroupTyped

LEMMA KeepWork ==
  /\ WorkIsScheduled
  /\ UNCHANGED <<phase, imm, current, seekFile>> /\ (bgError => bgError')
  /\ scheduled => scheduled'
  => WorkIsScheduled'
BY DEF WorkIsScheduled, NeedsCompaction, SizeCompaction

-----------------------------------------------------------------------------
(* Writers.                                                                *)

LEMMA WriteStep ==
  ASSUME IInv, NEW b \in Batches, NEW sync \in Syncs, Write(b, sync)
  PROVE  IInv'
<1>1. /\ phase = "open" /\ issued' = issued + 1
      /\ writers' = Append(writers, [batch |-> b, sync |-> sync, id |-> issued'])
      /\ UNCHANGED <<disk, phase, mems, version, nextFile, lastSequence, pending, group, held,
                     back, bgError>>
  BY DEF Write
<1>2. UNCHANGED <<tables, logs, manifest, phase, memtables, mem, imm, current, logNumber, seekFile,
                  nextFile, lastSequence, pending, group, snaps, readers, bg, edit, scheduled,
                  bgError>>
  BY <1>1 DEF disk, mems, version, held, back
<1>3. DiskTyped' /\ ManifestNumbered' /\ ManifestCurrent'
  BY <1>1, <1>2, KeepDisk, KeepManifestCurrent DEF IInv
<1>4. Numbered' /\ LogsKept'
  BY <1>1, <1>2, KeepLogs DEF IInv, Numbered
<1>5. LiveStored' /\ LiveNumbered'
  BY <1>1, <1>2, SameLive, KeepLive DEF IInv, Numbered
<1>6. BgTyped' /\ EditTyped' /\ SeekFileCurrent'
  BY <1>1, <1>2, KeepBack, KeepEdit, KeepSeek DEF IInv, Numbered
<1>7. WorkIsScheduled'
  BY <1>1, <1>2, KeepWork DEF IInv
<1>8. Phases'
  BY <1>1 DEF Phases
<1>9. Scalars' /\ Len(writers') = Len(writers) + 1
  <2>1. writers \in Seq(Writer) /\ issued \in Nat
    BY DEF IInv, Scalars
  <2>2. [batch |-> b, sync |-> sync, id |-> issued'] \in Writer
    <3>1. b \in Seq([key : Keys, del : BOOLEAN])
      BY BatchesAssumption
    <3>2. issued' \in Nat
      BY <1>1, <2>1
    <3>3. QED
      BY <3>1, <3>2, Zenon DEF Writer
  <2>3. writers' \in Seq(Writer) /\ Len(writers') = Len(writers) + 1
    BY <1>1, <2>1, <2>2, AppendProperties
  <2>4. QED
    BY <1>1, <1>2, <2>1, <2>3 DEF IInv, Scalars
<1>10. GroupTyped'
  <2>1. Len(writers) \in Nat
    BY LenProperties DEF IInv, Scalars
  <2>2. QED
    BY <1>2, <1>9, <2>1 DEF IInv, GroupTyped
<1>11. QED
  BY <1>3, <1>4, <1>5, <1>6, <1>7, <1>8, <1>9, <1>10 DEF IInv

\* The front writer goes on, with a new log and a new memtable where it needs them.
LEMMA RoomMade ==
  ASSUME IInv, phase = "open", MakeRoomForWrite,
         UNCHANGED <<tables, manifest, phase, current, logNumber, seekFile, edit, bg, readers,
                     pending, bgError>>
  PROVE  /\ DiskTyped' /\ ManifestNumbered' /\ ManifestCurrent' /\ Numbered' /\ LogsKept'
         /\ LiveStored' /\ LiveNumbered' /\ BgTyped' /\ EditTyped' /\ SeekFileCurrent'
         /\ WorkIsScheduled' /\ scheduled' \in BOOLEAN
<1>1. Numbered /\ LogsKept /\ DiskTyped /\ scheduled \in BOOLEAN /\ bgError \in BOOLEAN
  BY DEF IInv, Scalars
<1>2. /\ nextFile \in Nat /\ mem \in Nat /\ 0 < mem /\ mem < nextFile /\ manifest.next <= nextFile
      /\ mem \in DOMAIN logs /\ mem \in DOMAIN memtables
      /\ logNumber \in Nat /\ imm \in Nat /\ logNumber <= mem
      /\ manifest.next \in Nat
  BY <1>1 DEF Numbered, LogsKept, DiskTyped
<1>3. ManifestNumbered' /\ ManifestCurrent' /\ SeekFileCurrent'
  BY KeepManifestCurrent, KeepSeek DEF IInv, ManifestNumbered
<1>4. Live' = Live
  BY SameLive
<1>5. CASE UNCHANGED <<logs, mems, nextFile, scheduled>>
  <2>1. UNCHANGED <<logs, memtables, mem, imm, nextFile, scheduled>>
    BY <1>5 DEF mems
  <2>2. DiskTyped' /\ Numbered' /\ LogsKept'
    BY <1>1, <1>2, <2>1, KeepLogs DEF DiskTyped
  <2>3. LiveStored' /\ LiveNumbered'
    BY <1>2, <1>4, <2>1, KeepLive DEF IInv
  <2>4. BgTyped' /\ EditTyped'
    BY <1>2, <2>1, KeepBack, KeepEdit DEF IInv
  <2>5. WorkIsScheduled'
    BY <2>1, KeepWork DEF IInv
  <2>6. QED
    BY <1>1, <1>3, <2>1, <2>2, <2>3, <2>4, <2>5
<1>6. CASE SwitchMemTable
  <2>1. /\ imm = NoFile
        /\ logs' = Bind(logs, nextFile, NewLog)
        /\ memtables' = Bind(memtables, nextFile, {})
        /\ mem' = nextFile /\ imm' = mem
        /\ nextFile' = nextFile + 1
        /\ scheduled' = MaybeSchedule(scheduled, imm', current, seekFile)
    BY <1>6 DEF SwitchMemTable, MustSwitch
  <2>2. /\ DOMAIN logs' = DOMAIN logs \cup {nextFile}
        /\ \A n \in DOMAIN logs' : logs'[n] = IF n = nextFile THEN NewLog ELSE logs[n]
        /\ DOMAIN memtables' = DOMAIN memtables \cup {nextFile}
    BY <2>1 DEF Bind
  <2>3. DiskTyped'
    <3>1. IsFiniteSet(DOMAIN logs')
      BY <1>1, <2>2, FS_AddElement DEF DiskTyped
    <3>2. QED
      BY <1>1, <1>2, <2>2, <3>1, NewLogTyping DEF DiskTyped
  <2>4. Numbered' /\ LogsKept'
    BY <1>2, <2>1, <2>2 DEF Numbered, LogsKept, NoFile
  <2>5. LiveStored' /\ LiveNumbered'
    BY <1>2, <1>4, <2>1, KeepLive DEF IInv
  <2>6. scheduled' = (scheduled \/ (~bgError /\ (imm' # NoFile \/ NeedsCompaction(current, seekFile))))
    BY <2>1 DEF MaybeSchedule
  <2> DEFINE needs == NeedsCompaction(current, seekFile)
  <2>7. scheduled' \in BOOLEAN /\ (scheduled => scheduled') /\ (~bgError => scheduled')
    <3>1. imm' # NoFile
      BY <1>2, <2>1 DEF NoFile
    <3>2. scheduled' = (scheduled \/ ~bgError)
      <4> HIDE DEF needs
      <4>1. scheduled' = (scheduled \/ (~bgError /\ (imm' # NoFile \/ needs)))
        BY <2>6 DEF needs
      <4>2. QED
        BY <3>1, <4>1, Zenon
    <3>3. QED
      BY <1>1, <3>2
  <2>8. BgTyped'
    <3>1. imm = NoFile => bg.pc # "build"
      BY DEF IInv, BgTyped
    <3>2. QED
      BY <2>1, <2>7, <3>1, KeepBack DEF IInv
  <2>9. EditTyped'
    BY <1>2, <2>1, KeepEdit DEF IInv
  <2>10. WorkIsScheduled'
    BY <2>7 DEF WorkIsScheduled
  <2>11. QED
    BY <1>3, <2>3, <2>4, <2>5, <2>7, <2>8, <2>9, <2>10
<1>7. QED
  BY <1>5, <1>6 DEF MakeRoomForWrite

LEMMA BeginGroupStep ==
  ASSUME IInv, BeginGroup
  PROVE  IInv'
<1> DEFINE n == GroupSize
           r == [rec |-> GroupRecord(n), sync |-> \E i \in 1 .. n : writers[i].sync,
                 log |-> mem', risky |-> logs'[mem'].damaged]
<1>1. /\ phase = "open" /\ writers # <<>> /\ MakeRoomForWrite
      /\ group' = [stage |-> "log", n |-> n, sync |-> writers[1].sync, batch |-> r]
      /\ UNCHANGED <<tables, manifest, phase, current, logNumber, seekFile, lastSequence, pending,
                     writers, snaps, readers, bg, edit, bgError, issued>>
  BY DEF BeginGroup, version, held, counts
<1>2. /\ DiskTyped' /\ ManifestNumbered' /\ ManifestCurrent' /\ Numbered' /\ LogsKept'
      /\ LiveStored' /\ LiveNumbered' /\ BgTyped' /\ EditTyped' /\ SeekFileCurrent'
      /\ WorkIsScheduled' /\ scheduled' \in BOOLEAN
  BY <1>1, RoomMade
<1>3. Phases' /\ Scalars'
  BY <1>1, <1>2 DEF IInv, Phases, Scalars
<1>4. GroupTyped'
  <2>1. writers \in Seq(Writer) /\ lastSequence \in Nat
    BY DEF IInv, Scalars
  <2>2. n \in 1 .. Len(writers) /\ Len(writers) \in Nat
    BY <1>1, <2>1, GroupSizeBounds, LenProperties
  <2>3. GroupRecord(n) \in Seq(LogEntry)
    BY <2>1, <2>2, GroupRecordTyping
  <2>4. writers[1].sync \in Syncs
    <3>1. 1 \in 1 .. Len(writers)
      BY <2>2
    <3>2. writers[1] \in Writer
      BY <2>1, <3>1, ElementOfSeq
    <3>3. QED
      BY <3>2 DEF Writer
  <2>5. mem' \in Nat /\ logs'[mem'].damaged \in BOOLEAN
    <3>1. phase' # "down"
      BY <1>1
    <3>2. mem' \in Nat /\ mem' \in DOMAIN logs'
      BY <1>2, <3>1 DEF Numbered
    <3>3. logs'[mem'] \in Log(LogEntry)
      BY <1>2, <3>2 DEF DiskTyped
    <3>4. QED
      BY <3>2, <3>3 DEF Log
  <2> HIDE DEF n
  <2>6. (\E i \in 1 .. n : writers[i].sync) \in BOOLEAN
    OBVIOUS
  <2>7. r \in Batch
    BY <2>3, <2>5, <2>6 DEF Batch
  <2> HIDE DEF r
  <2>8. group' \in [stage : {"log", "insert", "finish", "failed", "unsynced"},
                    n : Nat, sync : Syncs, batch : Batch]
    BY <1>1, <2>2, <2>4, <2>7
  <2>9. group'.n \in 1 .. Len(writers')
    BY <1>1, <2>2
  <2>10. QED
    BY <2>8, <2>9 DEF GroupTyped
<1>5. QED
  BY <1>2, <1>3, <1>4 DEF IInv

LEMMA FailFrontStep ==
  ASSUME IInv, FailFront
  PROVE  IInv'
<1>1. /\ phase = "open" /\ writers # <<>> /\ group = NoGroup
      /\ writers' = Tail(writers)
      /\ UNCHANGED <<tables, logs, manifest, phase, memtables, mem, imm, current, logNumber,
                     seekFile, nextFile, lastSequence, pending, group, snaps, readers, bg, edit,
                     scheduled, bgError, issued>>
  BY DEF FailFront, disk, mems, version, held, back
<1>2. DiskTyped' /\ ManifestNumbered' /\ ManifestCurrent'
  BY <1>1, KeepDisk, KeepManifestCurrent DEF IInv, disk
<1>3. Numbered' /\ LogsKept'
  BY <1>1, KeepLogs DEF IInv, Numbered
<1>4. LiveStored' /\ LiveNumbered'
  BY <1>1, SameLive, KeepLive DEF IInv, Numbered
<1>5. BgTyped' /\ EditTyped' /\ SeekFileCurrent'
  BY <1>1, KeepBack, KeepEdit, KeepSeek DEF IInv, Numbered
<1>6. WorkIsScheduled'
  BY <1>1, KeepWork DEF IInv
<1>7. Phases' /\ GroupTyped'
  BY <1>1 DEF Phases, GroupTyped
<1>8. Scalars'
  <2>1. writers' \in Seq(Writer)
    BY <1>1, HeadTailProperties DEF IInv, Scalars
  <2>2. QED
    BY <1>1, <2>1 DEF IInv, Scalars
<1>9. QED
  BY <1>2, <1>3, <1>4, <1>5, <1>6, <1>7, <1>8 DEF IInv

\* A group under way means that the store is open.
LEMMA GroupOpen ==
  ASSUME IInv, group # NoGroup
  PROVE  /\ phase = "open" /\ group.batch.rec \in Seq(LogEntry)
         /\ group \in [stage : {"log", "insert", "finish", "failed", "unsynced"},
                       n : Nat, sync : Syncs, batch : Batch]
         /\ group.n \in 1 .. Len(writers)
<1>1. phase = "open"
  BY DEF IInv, Phases, NoProcess, Opening
<1>2. group.batch \in Batch
  BY DEF IInv, GroupTyped
<1>3. group.batch.rec \in Seq(LogEntry)
  BY <1>2 DEF Batch
<1>4. QED
  BY <1>1, <1>3 DEF IInv, GroupTyped

LEMMA GroupStage ==
  ASSUME IInv, group # NoGroup, UNCHANGED writers,
         NEW s \in {"log", "insert", "finish", "failed", "unsynced"}, Stage(s)
  PROVE  GroupTyped'
<1>1. /\ group \in [stage : {"log", "insert", "finish", "failed", "unsynced"},
                    n : Nat, sync : Syncs, batch : Batch]
      /\ group.n \in 1 .. Len(writers)
  BY GroupOpen
<1>2. group' = [group EXCEPT !.stage = s]
  BY DEF Stage
<1>3. /\ group' \in [stage : {"log", "insert", "finish", "failed", "unsynced"},
                     n : Nat, sync : Syncs, batch : Batch]
      /\ group'.n = group.n
  BY <1>1, <1>2
<1>4. QED
  BY <1>1, <1>3 DEF GroupTyped

\* The log is one of the entries it had and of those of the group.
LEMMA GroupLogged ==
  ASSUME LogGroup, NEW E, group.batch.rec \in Seq(E), logs[mem] \in Log(E)
  PROVE  \E l \in Log(E) : logs' = [logs EXCEPT ![mem] = l]
<1> DEFINE rec == group.batch.rec
<1>1. Appended(logs[mem], rec) \in Log(E)
  BY AppendedTyping
<1>2. Synced(Appended(logs[mem], rec)) \in Log(E)
  BY <1>1, AppendedTyping
<1>3. \A l \in Torn(logs[mem], rec) : l \in Log(E)
  BY AppendedTyping
<1>4. \/ logs' = [logs EXCEPT ![mem] = IF group.sync THEN Synced(Appended(logs[mem], rec))
                                       ELSE Appended(logs[mem], rec)]
      \/ \E l \in Torn(logs[mem], rec) : logs' = [logs EXCEPT ![mem] = l]
      \/ logs' = [logs EXCEPT ![mem] = Appended(logs[mem], rec)]
  BY Zenon DEF LogGroup
<1> HIDE DEF rec
<1>5. QED
  BY <1>1, <1>2, <1>3, <1>4

LEMMA LogGroupStep ==
  ASSUME IInv, LogGroup
  PROVE  IInv'
<1>1. /\ group.stage = "log"
      /\ UNCHANGED <<tables, manifest, phase, memtables, mem, imm, current, logNumber, seekFile,
                     nextFile, lastSequence, pending, writers, snaps, readers, bg, edit, scheduled,
                     bgError, issued>>
  BY DEF LogGroup, mems, version, held, back
<1>2. group # NoGroup
  BY <1>1 DEF NoGroup
<1>3. phase = "open" /\ group.batch.rec \in Seq(LogEntry)
  BY <1>2, GroupOpen
<1>4. logs[mem] \in Log(LogEntry) /\ mem \in DOMAIN logs
  BY <1>3 DEF IInv, DiskTyped, Numbered
<1>5. \E l \in Log(LogEntry) : logs' = [logs EXCEPT ![mem] = l]
  BY <1>3, <1>4, GroupLogged
<1>6. PICK l \in Log(LogEntry) : logs' = [logs EXCEPT ![mem] = l]
  BY <1>5
<1>7. DOMAIN logs' = DOMAIN logs /\ \A n \in DOMAIN logs : logs'[n] \in Log(LogEntry)
  BY <1>4, <1>6 DEF IInv, DiskTyped
<1>8. DiskTyped' /\ ManifestNumbered'
  BY <1>1, <1>7 DEF IInv, DiskTyped, ManifestNumbered
<1>9. ManifestCurrent'
  BY <1>1, KeepManifestCurrent DEF IInv
<1>10. Numbered' /\ LogsKept'
  BY <1>1, <1>3, <1>7, KeepLogs DEF IInv, Numbered
<1>11. LiveStored' /\ LiveNumbered'
  BY <1>1, <1>3, SameLive, KeepLive DEF IInv, Numbered
<1>12. BgTyped' /\ EditTyped' /\ SeekFileCurrent'
  BY <1>1, KeepBack, KeepEdit, KeepSeek DEF IInv, Numbered
<1>13. WorkIsScheduled'
  BY <1>1, KeepWork DEF IInv
<1>14. Phases' /\ Scalars'
  BY <1>1, <1>3 DEF IInv, Phases, Scalars
<1>15. GroupTyped'
  <2>1. \E s \in {"insert", "failed", "unsynced"} : Stage(s)
    BY DEF LogGroup
  <2>2. QED
    BY <1>1, <1>2, <2>1, GroupStage
<1>16. QED
  BY <1>8, <1>9, <1>10, <1>11, <1>12, <1>13, <1>14, <1>15 DEF IInv

LEMMA InsertGroupStep ==
  ASSUME IInv, InsertGroup
  PROVE  IInv'
<1>1. /\ group.stage = "insert" /\ Stage("finish")
      /\ DOMAIN memtables' = DOMAIN memtables
      /\ UNCHANGED <<tables, logs, manifest, phase, mem, imm, current, logNumber, seekFile,
                     nextFile, lastSequence, pending, writers, snaps, readers, bg, edit, scheduled,
                     bgError, issued>>
  BY DEF InsertGroup, disk, version, held, back, counts
<1>2. group # NoGroup
  BY <1>1 DEF NoGroup
<1>3. phase = "open"
  BY <1>2, GroupOpen
<1>4. DiskTyped' /\ ManifestNumbered' /\ ManifestCurrent'
  BY <1>1, KeepDisk, KeepManifestCurrent DEF IInv, disk
<1>5. Numbered' /\ LogsKept'
  BY <1>1, <1>3, KeepLogs DEF IInv, Numbered
<1>6. LiveStored' /\ LiveNumbered'
  BY <1>1, <1>3, SameLive, KeepLive DEF IInv, Numbered
<1>7. BgTyped' /\ EditTyped' /\ SeekFileCurrent'
  BY <1>1, KeepBack, KeepEdit, KeepSeek DEF IInv, Numbered
<1>8. WorkIsScheduled'
  BY <1>1, KeepWork DEF IInv
<1>9. Phases' /\ Scalars'
  BY <1>1, <1>3 DEF IInv, Phases, Scalars
<1>10. GroupTyped'
  BY <1>1, <1>2, GroupStage
<1>11. QED
  BY <1>4, <1>5, <1>6, <1>7, <1>8, <1>9, <1>10 DEF IInv

LEMMA FinishGroupStep ==
  ASSUME IInv, FinishGroup
  PROVE  IInv'
<1>1. /\ group.stage \in {"finish", "failed", "unsynced"}
      /\ lastSequence' = lastSequence + Len(group.batch.rec)
      /\ writers' = SubSeq(writers, group.n + 1, Len(writers))
      /\ group' = NoGroup
      /\ bgError' = (bgError \/ group.stage = "unsynced")
      /\ UNCHANGED <<tables, logs, manifest, phase, memtables, mem, imm, current, logNumber,
                     seekFile, nextFile, pending, snaps, readers, bg, edit, scheduled, issued>>
  BY DEF FinishGroup, LastSequenceOfGroup, disk, mems, version, held, back, counts
<1>2. group # NoGroup
  BY <1>1 DEF NoGroup
<1>3. phase = "open" /\ group.batch.rec \in Seq(LogEntry) /\ group.n \in 1 .. Len(writers)
  BY <1>2, GroupOpen
<1>4. bgError' \in BOOLEAN /\ (bgError => bgError')
  BY <1>1
<1>5. DiskTyped' /\ ManifestNumbered' /\ ManifestCurrent'
  BY <1>1, <1>4, KeepDisk, KeepManifestCurrent DEF IInv, disk
<1>6. Numbered' /\ LogsKept'
  BY <1>1, <1>3, KeepLogs DEF IInv, Numbered
<1>7. LiveStored' /\ LiveNumbered'
  BY <1>1, <1>3, SameLive, KeepLive DEF IInv, Numbered
<1>8. BgTyped' /\ EditTyped' /\ SeekFileCurrent'
  BY <1>1, KeepBack, KeepEdit, KeepSeek DEF IInv, Numbered
<1>9. WorkIsScheduled'
  BY <1>1, <1>4, KeepWork DEF IInv
<1>10. Phases' /\ GroupTyped'
  BY <1>1, <1>3 DEF Phases, GroupTyped
<1>11. Scalars'
  <2>1. writers \in Seq(Writer) /\ lastSequence \in Nat /\ Len(writers) \in Nat
    BY LenProperties DEF IInv, Scalars
  <2>2. group.n + 1 \in 1 .. Len(writers) + 1
    BY <1>3, <2>1
  <2>3. writers' \in Seq(Writer)
    BY <1>1, <2>1, <2>2, SubSeqProperties
  <2>4. lastSequence' \in Nat
    BY <1>1, <1>3, <2>1, LenProperties
  <2>5. QED
    BY <1>1, <1>4, <2>3, <2>4 DEF IInv, Scalars
<1>12. QED
  BY <1>5, <1>6, <1>7, <1>8, <1>9, <1>10, <1>11 DEF IInv

LEMMA WriterSteps ==
  ASSUME IInv, WriterStep
  PROVE  IInv'
BY BeginGroupStep, FailFrontStep, LogGroupStep, InsertGroupStep, FinishGroupStep DEF WriterStep

-----------------------------------------------------------------------------
(* Readers.                                                                *)

\* A search goes through files of the version.
LEMMA SearchInVersion ==
  ASSUME NEW v, NEW key, NEW seq
  PROVE  /\ \A a \in FilesToSearch(v, key, seq) : a.level \in Levels /\ a.file \in v[a.level]
         /\ \A a \in FilesRead(v, key, seq) : a.level \in Levels /\ a.file \in v[a.level]
<1> DEFINE InLevel(l) == IF l = 0 THEN {f \in v[0] : Covers(f, key)}
                         ELSE {f \in FindFile(v[l], key, seq) : MinKey(f.ents) <= key}
<1>1. \A l \in Levels : InLevel(l) \subseteq v[l]
  BY DEF FindFile
<1>2. FilesToSearch(v, key, seq) = UNION {{[level |-> l, file |-> f] : f \in InLevel(l)} : l \in Levels}
  BY DEF FilesToSearch
<1> HIDE DEF InLevel
<1>3. \A a \in FilesToSearch(v, key, seq) : a.level \in Levels /\ a.file \in v[a.level]
  BY <1>1, <1>2
<1>4. FilesRead(v, key, seq) \subseteq FilesToSearch(v, key, seq)
  BY DEF FilesRead
<1>5. QED
  BY <1>3, <1>4

\* A step of a reader that asks for no more than a compaction.
LEMMA ReaderKeeps ==
  ASSUME IInv, phase = "open", Live' \subseteq Live,
         UNCHANGED <<tables, logs, manifest, phase, mem, imm, current, logNumber, nextFile,
                     lastSequence, pending, writers, group, bg, edit, bgError, issued>>,
         {mem, imm} \cap DOMAIN memtables \subseteq DOMAIN memtables',
         scheduled => scheduled', scheduled' \in BOOLEAN, SeekFileCurrent', WorkIsScheduled'
  PROVE  IInv'
<1>1. DiskTyped' /\ ManifestNumbered' /\ ManifestCurrent'
  BY KeepDisk, KeepManifestCurrent DEF IInv, disk
<1>2. Numbered' /\ LogsKept'
  BY KeepLogs DEF IInv, Numbered
<1>3. LiveStored' /\ LiveNumbered'
  BY KeepLive DEF IInv, Numbered
<1>4. BgTyped' /\ EditTyped'
  BY KeepBack, KeepEdit DEF IInv, Numbered
<1>5. Phases' /\ Scalars'
  BY DEF IInv, Phases, Scalars
<1>6. GroupTyped'
  BY KeepGroup DEF IInv
<1>7. QED
  BY <1>1, <1>2, <1>3, <1>4, <1>5, <1>6 DEF IInv

LEMMA SnapshotStep ==
  ASSUME IInv, NEW s \in Snapshots, GetSnapshot(s) \/ ReleaseSnapshot(s)
  PROVE  IInv'
<1>1. UNCHANGED <<tables, logs, manifest, phase, memtables, mem, imm, current, logNumber,
                  seekFile, nextFile, lastSequence, pending, writers, group, readers, bg, edit,
                  scheduled, bgError, issued>>
  BY DEF GetSnapshot, ReleaseSnapshot, disk, mems, version, back, counts
<1>2. phase = "open"
  <2>1. CASE GetSnapshot(s)
    BY <2>1 DEF GetSnapshot
  <2>2. CASE ReleaseSnapshot(s)
    <3>1. s \in DOMAIN snaps
      BY <2>2 DEF ReleaseSnapshot
    <3>2. snaps # <<>>
      BY <3>1
    <3>3. QED
      BY <3>2 DEF IInv, Phases, NoProcess, Opening
  <2>3. QED
    BY <2>1, <2>2
<1>3. SeekFileCurrent' /\ WorkIsScheduled' /\ scheduled' \in BOOLEAN
  BY <1>1, KeepSeek, KeepWork DEF IInv, Scalars
<1>4. Live' = Live
  BY <1>1, SameLive
<1>5. QED
  BY <1>1, <1>2, <1>3, <1>4, ReaderKeeps

LEMMA BeginReadStep ==
  ASSUME IInv, NEW r \in Readers, BeginRead(r)
  PROVE  IInv'
<1>1. /\ phase = "open"
      /\ UNCHANGED <<tables, logs, manifest, phase, memtables, mem, imm, current, logNumber,
                     seekFile, nextFile, lastSequence, pending, writers, group, bg, edit,
                     scheduled, bgError, issued>>
  BY DEF BeginRead, disk, mems, version, back
<1>2. SeekFileCurrent' /\ WorkIsScheduled' /\ scheduled' \in BOOLEAN
  BY <1>1, KeepSeek, KeepWork DEF IInv, Scalars
<1>3. Live' \subseteq Live
  <2>1. PICK seq : readers' = Bind(readers, r, [seq |-> seq, mem |-> mem, imm |-> imm,
                                                version |-> current])
    BY DEF BeginRead
  <2>2. /\ DOMAIN readers' = DOMAIN readers \cup {r}
        /\ \A q \in DOMAIN readers' :
             readers'[q].version = IF q = r THEN current ELSE readers[q].version
    BY <2>1 DEF Bind
  <2>3. Read' \subseteq Read \cup FilesOf(current)
    BY <2>2 DEF Read
  <2>4. Added' = Added /\ Merging' = Merging
    BY <1>1 DEF Added, Merging
  <2>5. FilesOf(manifest.version)' = FilesOf(manifest.version) /\ FilesOf(current)' = FilesOf(current)
    BY <1>1
  <2>6. QED
    BY <2>3, <2>4, <2>5 DEF Live
<1>4. QED
  BY <1>1, <1>2, <1>3, ReaderKeeps

\* What is charged to a file may call for a compaction of it.
LEMMA ChargeStep ==
  ASSUME IInv, phase = "open", UNCHANGED <<phase, imm, current, bgError>>,
         NEW files, UsesUpSeeks(files),
         \A a \in files : a.level \in Levels /\ a.file \in current[a.level]
  PROVE  /\ SeekFileCurrent' /\ WorkIsScheduled' /\ scheduled' \in BOOLEAN
         /\ scheduled => scheduled'
<1>1. /\ seekFile' = FirstOf(files)
      /\ scheduled' = (scheduled \/ (~bgError /\ (imm # NoFile \/ NeedsCompaction(current, seekFile'))))
  BY DEF UsesUpSeeks, MaybeSchedule
<1>2. SeekFileCurrent'
  BY <1>1 DEF SeekFileCurrent, FirstOf
<1>3. scheduled \in BOOLEAN /\ bgError \in BOOLEAN
  BY DEF IInv, Scalars
<1> DEFINE needs == NeedsCompaction(current, seekFile')
<1>4. needs \in BOOLEAN
  BY DEF NeedsCompaction
<1>5. NeedsCompaction(current, seekFile)' = needs
  BY DEF NeedsCompaction, SizeCompaction
<1> HIDE DEF needs
<1>6. scheduled' = (scheduled \/ (~bgError /\ (imm # NoFile \/ needs)))
  BY <1>1 DEF needs
<1>7. WorkIsScheduled'
  BY <1>3, <1>4, <1>5, <1>6 DEF WorkIsScheduled
<1>8. QED
  BY <1>2, <1>3, <1>4, <1>6, <1>7

LEMMA EndReadStep ==
  ASSUME IInv, NEW r \in Readers, EndRead(r)
  PROVE  IInv'
<1>1. /\ r \in DOMAIN readers
      /\ readers' = Restrict(readers, DOMAIN readers \ {r})
      /\ memtables' = Referred({mem, imm} \cup HeldMemtables(readers'))
      /\ UNCHANGED <<tables, logs, manifest, phase, mem, imm, current, logNumber, nextFile,
                     lastSequence, pending, writers, group, bg, edit, bgError, issued>>
  BY DEF EndRead, disk, counts
<1>2. phase = "open"
  <2>1. readers # <<>>
    BY <1>1
  <2>2. QED
    BY <2>1 DEF IInv, Phases, NoProcess, Opening
<1>3. Live' \subseteq Live
  <2>1. /\ DOMAIN readers' \subseteq DOMAIN readers
        /\ \A q \in DOMAIN readers' : readers'[q] = readers[q]
    BY <1>1 DEF Restrict
  <2>2. Read' \subseteq Read
    BY <2>1 DEF Read
  <2>3. Added' = Added /\ Merging' = Merging
    BY <1>1 DEF Added, Merging
  <2>4. FilesOf(manifest.version)' = FilesOf(manifest.version) /\ FilesOf(current)' = FilesOf(current)
    BY <1>1
  <2>5. QED
    BY <2>2, <2>3, <2>4 DEF Live
<1>4. {mem, imm} \cap DOMAIN memtables \subseteq DOMAIN memtables'
  BY <1>1 DEF Referred, Restrict
<1>5. SeekFileCurrent' /\ WorkIsScheduled' /\ scheduled' \in BOOLEAN /\ (scheduled => scheduled')
  <2> DEFINE rd == readers[r]
  <2>1. CASE UNCHANGED <<seekFile, scheduled>>
    BY <1>1, <2>1, KeepSeek, KeepWork DEF IInv, Scalars
  <2>2. CASE \E key \in Keys : rd.version = current /\ UsesUpSeeks(FilesRead(rd.version, key, rd.seq))
    <3>1. PICK key \in Keys : UsesUpSeeks(FilesRead(current, key, rd.seq))
      BY <2>2
    <3>2. \A a \in FilesRead(current, key, rd.seq) : a.level \in Levels /\ a.file \in current[a.level]
      BY SearchInVersion
    <3>3. QED
      BY <1>1, <1>2, <3>1, <3>2, ChargeStep
  <2>3. QED
    BY <2>1, <2>2 DEF EndRead
<1>6. QED
  BY <1>1, <1>2, <1>3, <1>4, <1>5, ReaderKeeps

LEMMA RecordReadSampleStep ==
  ASSUME IInv, NEW r \in Readers, RecordReadSample(r)
  PROVE  IInv'
<1>1. /\ r \in DOMAIN readers
      /\ UNCHANGED <<tables, logs, manifest, phase, memtables, mem, imm, current, logNumber,
                     nextFile, lastSequence, pending, writers, group, readers, bg, edit, bgError,
                     issued>>
  BY DEF RecordReadSample, disk, mems, held, counts
<1>2. phase = "open"
  <2>1. readers # <<>>
    BY <1>1
  <2>2. QED
    BY <2>1 DEF IInv, Phases, NoProcess, Opening
<1>3. PICK key \in Keys : UsesUpSeeks(FilesToSearch(current, key, readers[r].seq))
  BY DEF RecordReadSample
<1>4. SeekFileCurrent' /\ WorkIsScheduled' /\ scheduled' \in BOOLEAN /\ (scheduled => scheduled')
  <2>1. \A a \in FilesToSearch(current, key, readers[r].seq) :
          a.level \in Levels /\ a.file \in current[a.level]
    BY SearchInVersion
  <2>2. QED
    BY <1>1, <1>2, <1>3, <2>1, ChargeStep
<1>5. Live' = Live
  BY <1>1, SameLive
<1>6. QED
  BY <1>1, <1>2, <1>4, <1>5, ReaderKeeps

LEMMA ReaderSteps ==
  ASSUME IInv, ReaderStep
  PROVE  IInv'
BY SnapshotStep, BeginReadStep, EndReadStep, RecordReadSampleStep DEF ReaderStep

-----------------------------------------------------------------------------
(* The background thread.                                                  *)

\* It is at work, or asked for, in an open store only.
LEMMA BackOpen ==
  ASSUME IInv, bg.pc # "idle" \/ scheduled
  PROVE  phase = "open" /\ scheduled
<1>1. phase = "open"
  BY DEF IInv, Phases, NoProcess, Opening, Idle
<1>2. bg.pc # "idle" => bg # Idle
  BY DEF Idle
<1>3. QED
  BY <1>1, <1>2 DEF IInv, BgTyped, Scalars

\* What no background step touches.
LEMMA BackKeeps ==
  ASSUME IInv, phase = "open", UNCHANGED <<phase, lastSequence, writers, group, issued>>,
         bgError' \in BOOLEAN, scheduled' \in BOOLEAN,
         DiskTyped', ManifestNumbered', ManifestCurrent', Numbered', LogsKept',
         LiveStored', LiveNumbered', BgTyped', EditTyped', SeekFileCurrent', WorkIsScheduled'
  PROVE  IInv'
<1>1. Phases' /\ Scalars'
  BY DEF IInv, Phases, Scalars
<1>2. GroupTyped'
  BY KeepGroup DEF IInv
<1>3. QED
  BY <1>1, <1>2 DEF IInv

\* The facts about an open store that the steps of the thread use most.
LEMMA OpenFacts ==
  ASSUME IInv, phase = "open"
  PROVE  /\ nextFile \in Nat /\ mem \in Nat /\ imm \in Nat /\ logNumber \in Nat
         /\ 0 < mem /\ mem < nextFile /\ manifest.next \in Nat /\ manifest.next <= nextFile
         /\ lastSequence \in Nat /\ bgError \in BOOLEAN /\ scheduled \in BOOLEAN
         /\ bg = [pc |-> bg.pc, out |-> bg.out, comp |-> bg.comp] /\ bg.out \in Nat
         /\ \A f \in Live : f.num \in Nat /\ f.num < nextFile /\ Stored(f)
BY DEF IInv, Numbered, LogsKept, Scalars, BgTyped, DiskTyped, LiveNumbered, LiveStored

\* An edit adds the files it names, and no others.
LEMMA EditFiles ==
  ASSUME NEW v, NEW e
  PROVE  FilesOf(ApplyEdit(v, e)) \subseteq FilesOf(v) \cup {a.file : a \in e.add}
BY DEF FilesOf, ApplyEdit

\* Files to be kept and logs to be kept survive DeleteObsoleteFiles.
LEMMA DeletionKeeps ==
  ASSUME NEW err, NEW v, NEW pend, NEW comp, NEW log, DeleteObsoleteFiles(err, v, pend, comp, log)
  PROVE  /\ \A f : Stored(f) /\ (err \/ f.num \in pend \cup LiveFiles(v, comp)) => Stored(f)'
         /\ DOMAIN tables' \subseteq DOMAIN tables
         /\ DOMAIN logs' \subseteq DOMAIN logs
         /\ \A n \in DOMAIN logs' : logs'[n] = logs[n]
         /\ \A n \in DOMAIN logs : err \/ n >= log => n \in DOMAIN logs'
<1>1. CASE err
  BY <1>1 DEF DeleteObsoleteFiles, Stored
<1>2. CASE ~err
  <2> DEFINE kept == DOMAIN tables \cap (pend \cup LiveFiles(v, comp))
  <2>1. tables' = [n \in kept |-> tables[n]]
        /\ logs' = [n \in {m \in DOMAIN logs : m >= log} |-> logs[n]]
    BY <1>2 DEF DeleteObsoleteFiles, Restrict
  <2>2. \A f : Stored(f) /\ f.num \in pend \cup LiveFiles(v, comp) => Stored(f)'
    <3>1. ASSUME NEW f, Stored(f), f.num \in pend \cup LiveFiles(v, comp)
          PROVE  Stored(f)'
      <4>1. f.num \in kept /\ tables[f.num] = f.ents
        BY <3>1 DEF Stored
      <4> HIDE DEF kept
      <4>2. f.num \in DOMAIN tables' /\ tables'[f.num] = f.ents
        BY <2>1, <4>1
      <4>3. QED
        BY <4>2 DEF Stored
    <3>2. QED
      BY <3>1
  <2>3. DOMAIN tables' \subseteq DOMAIN tables
    BY <2>1
  <2> HIDE DEF kept
  <2>4. QED
    BY <1>2, <2>1, <2>2, <2>3
<1>3. QED
  BY <1>1, <1>2

LEMMA BackgroundErrorStep ==
  ASSUME IInv, BackgroundError
  PROVE  IInv'
<1>1. /\ bg.pc = "idle" /\ scheduled /\ bgError /\ scheduled' = FALSE
      /\ UNCHANGED <<tables, logs, manifest, phase, memtables, mem, imm, current, logNumber,
                     seekFile, nextFile, lastSequence, pending, writers, group, snaps, readers, bg,
                     edit, bgError, issued>>
  BY DEF BackgroundError, BackgroundCall, disk, mems, version, held, counts
<1>2. phase = "open"
  BY <1>1, BackOpen
<1>3. DiskTyped' /\ ManifestNumbered' /\ ManifestCurrent'
  BY <1>1, KeepDisk, KeepManifestCurrent DEF IInv, disk
<1>4. Numbered' /\ LogsKept'
  BY <1>1, <1>2, KeepLogs DEF IInv, Numbered
<1>5. LiveStored' /\ LiveNumbered'
  BY <1>1, <1>2, SameLive, KeepLive DEF IInv, Numbered
<1>6. BgTyped'
  <2>1. bg = Idle /\ BgTyped
    BY <1>1 DEF IInv, BgTyped
  <2>2. Outputs' = Outputs
    BY <1>1 DEF Outputs, OutNumbers
  <2>3. QED
    BY <1>1, <2>1, <2>2 DEF BgTyped, Merge
<1>7. EditTyped' /\ SeekFileCurrent'
  BY <1>1, <1>2, KeepEdit, KeepSeek DEF IInv, Numbered
<1>8. WorkIsScheduled'
  BY <1>1 DEF WorkIsScheduled
<1>9. QED
  BY <1>1, <1>2, <1>3, <1>4, <1>5, <1>6, <1>7, <1>8, BackKeeps

LEMMA BeginFlushStep ==
  ASSUME IInv, BeginFlush
  PROVE  IInv'
<1>1. /\ imm # NoFile /\ bg.pc \in {"idle", "compact"}
      /\ bg.pc = "idle" => scheduled
      /\ bg' = [bg EXCEPT !.pc = "build", !.out = nextFile]
      /\ nextFile' = nextFile + 1
      /\ pending' = pending \cup {nextFile}
      /\ UNCHANGED <<tables, logs, manifest, phase, memtables, mem, imm, current, logNumber,
                     seekFile, lastSequence, writers, group, snaps, readers, edit, scheduled,
                     bgError, issued>>
  BY DEF BeginFlush, BackgroundCall, disk, mems, version, held, counts
<1>2. phase = "open" /\ scheduled
  BY <1>1, BackOpen
<1>3. /\ nextFile \in Nat /\ bgError \in BOOLEAN /\ scheduled \in BOOLEAN /\ 0 < nextFile
      /\ bg = [pc |-> bg.pc, out |-> bg.out, comp |-> bg.comp]
      /\ \A f \in Live : f.num \in Nat /\ f.num < nextFile
  BY <1>2, OpenFacts
<1>4. bg' = [pc |-> "build", out |-> nextFile, comp |-> bg.comp]
  BY <1>1, <1>3
<1>5. Live' = Live
  <2>1. bg'.comp = bg.comp
    BY <1>4
  <2>2. QED
    BY <1>1, <2>1 DEF Live, Added, Merging, Read, FilesOf
<1>6. DiskTyped' /\ ManifestNumbered'
  BY <1>1, KeepDisk DEF IInv, disk
<1>7. ManifestCurrent'
  BY <1>1, <1>2, <1>4 DEF IInv, ManifestCurrent
<1>8. Numbered' /\ LogsKept'
  BY <1>1, <1>2, <1>3, KeepLogs DEF IInv
<1>9. LiveStored' /\ LiveNumbered'
  BY <1>1, <1>3, <1>4, <1>5 DEF IInv, LiveStored, LiveNumbered, Stored
<1>10. BgTyped'
  <2>1. Outputs' = Outputs
    BY <1>4 DEF Outputs, OutNumbers
  <2>2. \A n \in Outputs : n # NoFile /\ n \in Nat /\ n < nextFile
    <3>1. \A n \in Outputs : \E f \in Live : n = f.num
      BY DEF Outputs, OutNumbers, Live, Merging
    <3>2. QED
      BY <1>3, <3>1 DEF IInv, BgTyped
  <2>3. pending = Outputs
    BY <1>1 DEF IInv, BgTyped
  <2>4. \A c \in bg'.comp : c = Merge(c) /\ bg'.comp = {c}
    BY <1>4 DEF IInv, BgTyped
  <2>5. \A n \in Outputs' : n # NoFile /\ n # bg'.out
    BY <1>3, <1>4, <2>1, <2>2
  <2>6. pending' = Outputs' \cup {bg'.out}
    BY <1>1, <1>4, <2>1, <2>3
  <2>7. bg' = [pc |-> bg'.pc, out |-> bg'.out, comp |-> bg'.comp]
    BY <1>4
  <2>8. bg'.pc = "build" /\ bg'.out = nextFile
    BY <1>4
  <2>9. bg'.out \in Nat /\ bg'.out # NoFile
    BY <1>3, <2>8 DEF NoFile
  <2>10. imm' # NoFile /\ scheduled'
    BY <1>1, <1>2
  <2>11. QED
    BY <2>4, <2>5, <2>6, <2>7, <2>8, <2>9, <2>10 DEF BgTyped, Merge
<1>11. EditTyped'
  <2>1. edit = NoEdit
    BY <1>1, <1>2 DEF IInv, EditTyped
  <2>2. QED
    BY <1>1, <1>2, <1>4, <2>1 DEF EditTyped
<1>12. SeekFileCurrent' /\ WorkIsScheduled'
  BY <1>1, KeepSeek, KeepWork DEF IInv
<1>13. QED
  BY <1>1, <1>2, <1>3, <1>6, <1>7, <1>8, <1>9, <1>10, <1>11, <1>12, BackKeeps

LEMMA BuildTableStep ==
  ASSUME IInv, BuildTable
  PROVE  IInv'
<1> DEFINE f == File(bg.out, memtables[imm])
           l == PickLevelForMemTableOutput(current, f.ents)
<1>1. /\ bg.pc = "build"
      /\ tables' = Bind(tables, f.num, f.ents)
      /\ edit' = Edit("flush", At(l, {f}), {}, mem, nextFile, lastSequence)
      /\ pending' = pending \ {bg.out}
      /\ bg' = [bg EXCEPT !.pc = "manifest"]
      /\ UNCHANGED <<logs, manifest, phase, memtables, mem, imm, current, logNumber, seekFile,
                     nextFile, lastSequence, writers, group, snaps, readers, scheduled, bgError,
                     issued>>
  BY DEF BuildTable, mems, version, held, counts
<1>2. phase = "open" /\ scheduled
  BY <1>1, BackOpen
<1>3. /\ nextFile \in Nat /\ mem \in Nat /\ lastSequence \in Nat /\ bgError \in BOOLEAN
      /\ scheduled \in BOOLEAN /\ manifest.next <= nextFile
      /\ bg = [pc |-> bg.pc, out |-> bg.out, comp |-> bg.comp] /\ bg.out \in Nat
      /\ \A g \in Live : g.num \in Nat /\ g.num < nextFile /\ Stored(g)
  BY <1>2, OpenFacts
<1>4. bg' = [pc |-> "manifest", out |-> bg.out, comp |-> bg.comp]
  BY <1>1, <1>3
<1>5. bg.out < nextFile /\ (\A g \in Live : g.num # bg.out) /\ imm # NoFile
  BY <1>1, <1>2 DEF IInv, LiveNumbered, BgTyped
<1>6. f.num = bg.out
  BY DEF File
<1> HIDE DEF l
<1>7. Added' = {f}
  <2>1. edit'.kind = "flush" /\ edit'.add = {[level |-> l, file |-> f]}
    BY <1>1 DEF Edit, At
  <2>2. edit' # NoEdit
    BY <2>1 DEF NoEdit
  <2>3. QED
    BY <2>1, <2>2 DEF Added
<1> HIDE DEF f
<1>8. Live' \subseteq Live \cup {f}
  <2>1. bg'.comp = bg.comp
    BY <1>4
  <2>2. QED
    BY <1>1, <1>7, <2>1 DEF Live, Merging, Read, FilesOf
<1>9. /\ DOMAIN tables' = DOMAIN tables \cup {bg.out}
      /\ \A n \in DOMAIN tables' : tables'[n] = IF n = bg.out THEN f.ents ELSE tables[n]
  BY <1>1, <1>6 DEF Bind
<1>10. DiskTyped' /\ ManifestNumbered'
  BY <1>1, <1>3, <1>9 DEF IInv, DiskTyped, ManifestNumbered
<1>11. ManifestCurrent'
  BY <1>1, <1>2, <1>4 DEF IInv, ManifestCurrent
<1>12. Numbered' /\ LogsKept'
  BY <1>1, <1>3, KeepLogs DEF IInv
<1>13. LiveStored' /\ LiveNumbered'
  <2>1. \A g \in Live' : Stored(g)'
    BY <1>3, <1>5, <1>6, <1>8, <1>9 DEF Stored
  <2>2. \A g \in Live' : g.num \in Nat /\ g.num < nextFile'
    BY <1>1, <1>3, <1>5, <1>6, <1>8
  <2>3. QED
    BY <1>4, <2>1, <2>2 DEF LiveStored, LiveNumbered
<1>14. BgTyped'
  <2>1. Outputs' = Outputs
    BY <1>4 DEF Outputs, OutNumbers
  <2>2. BgTyped
    BY DEF IInv
  <2>3. \A n \in Outputs : n # NoFile /\ n # bg.out
    BY <2>2 DEF BgTyped
  <2>4. pending' = Outputs'
    BY <1>1, <2>1, <2>2, <2>3 DEF BgTyped
  <2>5. \A c \in bg'.comp : c = Merge(c) /\ bg'.comp = {c}
    BY <1>4, <2>2 DEF BgTyped
  <2>6. \A n \in Outputs' : n # NoFile /\ n # bg'.out
    BY <1>4, <2>1, <2>3
  <2>7. /\ bg' = [pc |-> bg'.pc, out |-> bg'.out, comp |-> bg'.comp]
        /\ bg'.pc = "manifest" /\ bg'.out \in Nat /\ scheduled'
    BY <1>1, <1>2, <1>3, <1>4
  <2>8. QED
    BY <2>4, <2>5, <2>6, <2>7 DEF BgTyped, Merge
<1>15. EditTyped'
  <2>1. /\ edit'.kind = "flush" /\ edit'.log = mem /\ edit'.next = nextFile
        /\ edit'.seq = lastSequence
        /\ edit' = Edit(edit'.kind, edit'.add, edit'.del, edit'.log, edit'.next, edit'.seq)
    BY <1>1 DEF Edit
  <2>2. edit' # NoEdit
    BY <2>1 DEF NoEdit
  <2>3. \A g \in Added' : g.num < edit'.next
    BY <1>5, <1>6, <1>7, <2>1
  <2>4. bg'.pc = "manifest"
    BY <1>4
  <2>5. /\ {edit'.log, edit'.next, edit'.seq} \subseteq Nat
        /\ manifest'.next <= edit'.next /\ edit'.next <= nextFile'
    BY <1>1, <1>3, <2>1
  <2>6. phase' = "open" /\ imm' # NoFile /\ edit'.log = mem'
    BY <1>1, <1>2, <1>5, <2>1
  <2>7. QED
    BY <2>1, <2>2, <2>3, <2>4, <2>5, <2>6 DEF EditTyped
<1>16. SeekFileCurrent' /\ WorkIsScheduled'
  BY <1>1, KeepSeek, KeepWork DEF IInv
<1>17. QED
  BY <1>1, <1>2, <1>3, <1>10, <1>11, <1>12, <1>13, <1>14, <1>15, <1>16, BackKeeps

\* The thread is done, and has nothing in hand.
LEMMA CallEnds ==
  ASSUME IInv, NEW im, NEW v, NEW seek, NEW err, EndCall(im, v, seek, err),
         pending' = {}, phase' = "open"
  PROVE  /\ BgTyped' /\ EditTyped' /\ scheduled' \in BOOLEAN
         /\ Added' = {} /\ Merging' = {} /\ bg' = Idle /\ edit' = NoEdit
<1>1. /\ bg' = Idle /\ edit' = NoEdit
      /\ scheduled' = (~err /\ MaybeSchedule(FALSE, im, v, seek))
  BY DEF EndCall
<1>2. bg'.pc = "idle" /\ bg'.out = NoFile /\ bg'.comp = {} /\ NoFile \in Nat
  BY <1>1 DEF Idle, NoFile
<1>3. bg' = [pc |-> bg'.pc, out |-> bg'.out, comp |-> bg'.comp]
  BY <1>1, <1>2 DEF Idle
<1>4. Added' = {} /\ Merging' = {} /\ Outputs' = {}
  BY <1>1, <1>2 DEF Added, Merging, Outputs
<1>5. BgTyped'
  BY <1>1, <1>2, <1>3, <1>4 DEF BgTyped
<1>6. EditTyped'
  BY <1>1, <1>2 DEF EditTyped
<1>7. scheduled' \in BOOLEAN
  <2> DEFINE asked == ~err /\ MaybeSchedule(FALSE, im, v, seek)
  <2>1. asked \in BOOLEAN /\ scheduled' = asked
    BY <1>1, Zenon
  <2>2. QED
    BY <2>1
<1>8. QED
  BY <1>1, <1>4, <1>5, <1>6, <1>7

\* A flush is over: a compaction goes on with the tables it has.
LEMMA FlushEnds ==
  ASSUME IInv, phase = "open", bg.pc # "idle", NEW im, NEW v, NEW seek, NEW err,
         EndFlush(im, v, seek, err), pending' = Outputs, phase' = "open"
  PROVE  /\ BgTyped' /\ EditTyped' /\ scheduled' \in BOOLEAN
         /\ Added' = {} /\ Merging' \subseteq Merging
         /\ bg'.pc \in {"idle", "compact"} /\ edit' = NoEdit
<1>1. CASE bg.comp = {}
  <2>1. EndCall(im, v, seek, err) /\ pending' = {}
    BY <1>1 DEF EndFlush, Outputs
  <2>2. QED
    BY <2>1, CallEnds DEF Idle
<1>2. CASE bg.comp # {}
  <2>1. /\ bg' = [bg EXCEPT !.pc = "compact", !.out = NoFile]
        /\ edit' = NoEdit /\ scheduled' = scheduled
    BY <1>2 DEF EndFlush
  <2>2. BgTyped /\ bg = [pc |-> bg.pc, out |-> bg.out, comp |-> bg.comp]
    BY DEF IInv, BgTyped
  <2>3. bg' = [pc |-> "compact", out |-> NoFile, comp |-> bg.comp]
    BY <2>1, <2>2
  <2>4. /\ bg'.pc = "compact" /\ bg'.out = NoFile /\ bg'.comp = bg.comp
        /\ bg' = [pc |-> bg'.pc, out |-> bg'.out, comp |-> bg'.comp]
    BY <2>3
  <2>5. Outputs' = Outputs /\ Merging' = Merging
    BY <2>4 DEF Outputs, OutNumbers, Merging, FilesOf
  <2>6. \A c \in bg'.comp : c = Merge(c) /\ bg'.comp = {c}
    BY <2>2, <2>4 DEF BgTyped
  <2>7. \A n \in Outputs' : n # NoFile /\ n # bg'.out
    BY <2>2, <2>4, <2>5 DEF BgTyped
  <2>8. scheduled /\ scheduled' /\ scheduled' \in BOOLEAN
    BY <2>1, BackOpen DEF IInv, Scalars
  <2>9. NoFile \in Nat
    BY DEF NoFile
  <2>10. BgTyped'
    BY <1>2, <2>4, <2>5, <2>6, <2>7, <2>8, <2>9 DEF BgTyped, Merge
  <2>11. EditTyped' /\ Added' = {}
    BY <2>1, <2>4 DEF EditTyped, Added
  <2>12. QED
    BY <2>1, <2>4, <2>5, <2>8, <2>10, <2>11
<1>3. QED
  BY <1>1, <1>2

LEMMA BuildTableFailsStep ==
  ASSUME IInv, BuildTableFails
  PROVE  IInv'
<1>1. /\ bg.pc = "build" /\ pending' = pending \ {bg.out} /\ bgError' = TRUE
      /\ EndFlush(imm, current, seekFile, TRUE)
      /\ UNCHANGED <<tables, logs, manifest, phase, memtables, mem, imm, current, logNumber,
                     seekFile, nextFile, lastSequence, writers, group, snaps, readers, issued>>
  BY DEF BuildTableFails, disk, mems, version, held
<1>2. phase = "open" /\ phase' = "open"
  BY <1>1, BackOpen
<1>3. pending' = Outputs
  BY <1>1 DEF IInv, BgTyped
<1>4. /\ BgTyped' /\ EditTyped' /\ scheduled' \in BOOLEAN
      /\ Added' = {} /\ Merging' \subseteq Merging /\ bg'.pc \in {"idle", "compact"}
  BY <1>1, <1>2, <1>3, FlushEnds
<1>5. DiskTyped' /\ ManifestNumbered'
  BY <1>1, KeepDisk DEF IInv, disk
<1>6. ManifestCurrent' /\ WorkIsScheduled'
  BY <1>1, <1>2 DEF ManifestCurrent, WorkIsScheduled
<1>7. Numbered' /\ LogsKept'
  BY <1>1, <1>2, KeepLogs DEF IInv, Numbered
<1>8. Live' \subseteq Live
  BY <1>1, <1>4 DEF Live, Read, FilesOf
<1>9. LiveStored' /\ LiveNumbered'
  BY <1>1, <1>2, <1>4, <1>8, KeepLive DEF IInv, Numbered
<1>10. SeekFileCurrent' /\ bgError' \in BOOLEAN
  BY <1>1, KeepSeek DEF IInv
<1>11. QED
  BY <1>1, <1>2, <1>4, <1>5, <1>6, <1>7, <1>9, <1>10, BackKeeps

\* The files a compaction takes are files of their level.
LEMMA InputsInLevel ==
  ASSUME NEW v, NEW l, NEW files
  PROVE  Inputs(v, l, files) \subseteq v[l]
BY DEF Inputs, GetOverlappingInputs

LEMMA CompactionPicked ==
  ASSUME IInv, NEW c \in Compactions(current, seekFile)
  PROVE  /\ c.level \in Levels /\ (SeekFileHasNextLevel => c.level + 1 \in Levels)
         /\ c.base = current /\ c.in0 \subseteq current[c.level] /\ c.in1 \subseteq current[c.level + 1]
<1> DEFINE Fits(l) == l \in Levels /\ (SeekFileHasNextLevel => l + 1 \in Levels)
<1>1. \A a \in FirstInputs(current, seekFile) : Fits(a.level) /\ a.file \in current[a.level]
  <2>1. CASE SizeCompaction(current)
    <3>1. \A l \in CompactionLevel(current) : Fits(l)
      BY VersionAssumption DEF CompactionLevel, Levels
    <3> HIDE DEF Fits
    <3>2. QED
      BY <2>1, <3>1 DEF FirstInputs, At
  <2>2. CASE ~SizeCompaction(current)
    BY <2>2 DEF FirstInputs, IInv, SeekFileCurrent, SeekFileHasNextLevel
  <2>3. QED
    BY <2>1, <2>2
<1> HIDE DEF Fits
<1>2. \A p \in PickCompaction(current, seekFile) :
        Fits(p.level) /\ p.base = current /\ p.in0 \subseteq current[p.level]
  <2> SUFFICES ASSUME NEW p \in PickCompaction(current, seekFile)
               PROVE  Fits(p.level) /\ p.base = current /\ p.in0 \subseteq current[p.level]
    OBVIOUS
  <2>1. PICK a \in FirstInputs(current, seekFile) :
          p = [level |-> a.level, base |-> current,
               in0 |-> IF a.level = 0 THEN Inputs(current, 0, {a.file}) ELSE {a.file}]
    BY DEF PickCompaction
  <2>2. Inputs(current, 0, {a.file}) \subseteq current[0]
    BY InputsInLevel
  <2>3. p.in0 \subseteq current[a.level]
    BY <1>1, <2>1, <2>2
  <2>4. QED
    BY <1>1, <2>1, <2>3
<1> DEFINE Picked(d) == /\ Fits(d.level) /\ d.base = current
                        /\ d.in0 \subseteq current[d.level] /\ d.in1 \subseteq current[d.level + 1]
<1>3. \A d \in WithNextLevel(current, PickCompaction(current, seekFile)) :
        Picked(d) /\ d = [level |-> d.level, base |-> d.base, in0 |-> d.in0, in1 |-> d.in1]
  <2> SUFFICES ASSUME NEW d \in WithNextLevel(current, PickCompaction(current, seekFile))
               PROVE  Picked(d) /\ d = [level |-> d.level, base |-> d.base, in0 |-> d.in0, in1 |-> d.in1]
    OBVIOUS
  <2>1. PICK p \in PickCompaction(current, seekFile) :
          d = [level |-> p.level, base |-> p.base, in0 |-> p.in0,
               in1 |-> Inputs(current, p.level + 1, p.in0)]
    BY DEF WithNextLevel
  <2>2. Inputs(current, p.level + 1, p.in0) \subseteq current[p.level + 1]
    BY InputsInLevel
  <2>3. QED
    BY <1>2, <2>1, <2>2
<1>4. \A d \in WithNextLevel(current, PickCompaction(current, seekFile)) : Picked(Widened(current, d))
  <2> SUFFICES ASSUME NEW d \in WithNextLevel(current, PickCompaction(current, seekFile))
               PROVE  Picked(Widened(current, d))
    OBVIOUS
  <2> DEFINE wide0 == Inputs(current, d.level, d.in0 \cup d.in1)
             wide1 == Inputs(current, d.level + 1, wide0)
  <2>1. Widened(current, d) \in {d, [d EXCEPT !.in0 = wide0, !.in1 = wide1]}
    BY DEF Widened
  <2>2. wide0 \subseteq current[d.level] /\ wide1 \subseteq current[d.level + 1]
    BY InputsInLevel
  <2> HIDE DEF wide0, wide1
  <2>3. \A w : w = [d EXCEPT !.in0 = wide0, !.in1 = wide1]
                 => w.level = d.level /\ w.base = d.base /\ w.in0 = wide0 /\ w.in1 = wide1
    <3>1. DOMAIN d = {"level", "base", "in0", "in1"}
      <4>1. d = [level |-> d.level, base |-> d.base, in0 |-> d.in0, in1 |-> d.in1]
        BY <1>3
      <4>2. QED
        BY <4>1
    <3>2. QED
      BY <3>1
  <2>4. QED
    BY <1>3, <2>1, <2>2, <2>3
<1> HIDE DEF Picked
<1> DEFINE picked == WithNextLevel(current, PickCompaction(current, seekFile))
<1>5. \E w \in {Widened(current, d) : d \in picked} :
        c.level = w.level /\ c.base = w.base /\ c.in0 = w.in0 /\ c.in1 = w.in1
  <2>1. PICK w \in {Widened(current, d) : d \in picked} :
          c = [level |-> w.level, base |-> w.base, in0 |-> w.in0, in1 |-> w.in1,
               grand |-> IF w.level + 2 < NumLevels THEN Inputs(current, w.level + 2, w.in0 \cup w.in1)
                                                    ELSE {}]
    BY Zenon DEF Compactions
  <2>2. c.level = w.level /\ c.base = w.base /\ c.in0 = w.in0 /\ c.in1 = w.in1
    BY <2>1
  <2>3. QED
    BY <2>2
<1>6. Picked(c)
  BY <1>4, <1>5 DEF Picked
<1>7. QED
  BY <1>6 DEF Picked, Fits

\* What the thread finds in hand when it is at one of its stages.
LEMMA NothingInHand ==
  ASSUME IInv, phase = "open", bg.pc = "idle"
  PROVE  /\ bg = [pc |-> "idle", out |-> NoFile, comp |-> {}]
         /\ edit = NoEdit /\ pending = {} /\ Outputs = {} /\ Added = {} /\ Merging = {}
<1>1. bg = [pc |-> "idle", out |-> NoFile, comp |-> {}]
  BY DEF IInv, BgTyped, Idle
<1>2. edit = NoEdit /\ bg.comp = {}
  BY <1>1 DEF IInv, EditTyped
<1>3. QED
  BY <1>1, <1>2 DEF IInv, BgTyped, Outputs, Added, Merging

LEMMA AddedAt ==
  ASSUME NEW l, NEW S
  PROVE  {a.file : a \in At(l, S)} = S
<1>1. \A a \in At(l, S) : a.file \in S
  BY DEF At
<1>2. ASSUME NEW f \in S
      PROVE  \E a \in At(l, S) : f = a.file
  <2> DEFINE a == [level |-> l, file |-> f]
  <2>1. a \in At(l, S) /\ a.file = f
    BY DEF At
  <2>2. QED
    BY <2>1
<1>3. QED
  BY <1>1, <1>2

LEMMA BeginCompactionStep ==
  ASSUME IInv, BeginCompaction
  PROVE  IInv'
<1>1. /\ bg.pc = "idle" /\ scheduled /\ ~bgError /\ imm = NoFile
      /\ UNCHANGED <<tables, logs, manifest, phase, memtables, mem, imm, current, logNumber,
                     seekFile, nextFile, lastSequence, pending, writers, group, snaps, readers,
                     scheduled, bgError, issued>>
  BY DEF BeginCompaction, BackgroundCall, disk, mems, version, held, counts
<1>2. PICK c \in Compactions(current, seekFile) :
        \/ /\ edit' = Edit("move", At(c.level + 1, c.in0), At(c.level, c.in0), logNumber,
                           nextFile, lastSequence)
           /\ bg' = [bg EXCEPT !.pc = "manifest"]
        \/ /\ bg' = [bg EXCEPT !.pc = "compact", !.comp = {CompactionState(c, SmallestSnapshot)}]
           /\ UNCHANGED edit
  BY DEF BeginCompaction
<1>3. phase = "open" /\ phase' = "open"
  BY <1>1, BackOpen
<1>4. c.level \in Levels /\ c.base = current /\ c.in0 \subseteq current[c.level]
  BY CompactionPicked
<1>5. /\ bg = [pc |-> "idle", out |-> NoFile, comp |-> {}]
      /\ edit = NoEdit /\ pending = {}
  BY <1>1, <1>3, NothingInHand
<1>6. /\ nextFile \in Nat /\ logNumber \in Nat /\ lastSequence \in Nat
      /\ manifest.next <= nextFile /\ bgError \in BOOLEAN /\ scheduled \in BOOLEAN
      /\ \A f \in Live : f.num \in Nat /\ f.num < nextFile
  BY <1>3, OpenFacts
<1>7. c.in0 \subseteq FilesOf(current)
  BY <1>4 DEF FilesOf
<1>8. DiskTyped' /\ ManifestNumbered' /\ ManifestCurrent'
  <2>1. bg.pc # "install" /\ bg'.pc # "install"
    <3> DEFINE cs == CompactionState(c, SmallestSnapshot)
    <3>1. bg' = [bg EXCEPT !.pc = "manifest"] \/ bg' = [bg EXCEPT !.pc = "compact", !.comp = {cs}]
      BY <1>2
    <3> HIDE DEF cs
    <3>2. QED
      BY <1>5, <3>1
  <2>2. QED
    BY <1>1, <1>3, <2>1, KeepDisk DEF IInv, ManifestCurrent, disk
<1>9. Numbered' /\ LogsKept'
  BY <1>1, <1>6, KeepLogs DEF IInv
<1>10. SeekFileCurrent' /\ WorkIsScheduled'
  BY <1>1, KeepSeek, KeepWork DEF IInv
<1>11. BgTyped' /\ EditTyped' /\ Live' \subseteq Live /\ bg'.pc # "build"
  <2>1. CASE /\ edit' = Edit("move", At(c.level + 1, c.in0), At(c.level, c.in0), logNumber,
                             nextFile, lastSequence)
             /\ bg' = [bg EXCEPT !.pc = "manifest"]
    <3>1. bg' = [pc |-> "manifest", out |-> NoFile, comp |-> {}]
      BY <1>5, <2>1
    <3>2. /\ bg'.pc = "manifest" /\ bg'.out = NoFile /\ bg'.comp = {}
          /\ bg' = [pc |-> bg'.pc, out |-> bg'.out, comp |-> bg'.comp]
      BY <3>1
    <3>3. /\ edit'.kind = "move" /\ edit'.add = At(c.level + 1, c.in0) /\ edit'.log = logNumber
          /\ edit'.next = nextFile /\ edit'.seq = lastSequence
          /\ edit' = Edit(edit'.kind, edit'.add, edit'.del, edit'.log, edit'.next, edit'.seq)
      BY <2>1 DEF Edit
    <3>4. edit' # NoEdit
      BY <3>3 DEF NoEdit
    <3>5. Added' = c.in0 /\ Added' \subseteq Live
      <4>1. Added' = {a.file : a \in At(c.level + 1, c.in0)}
        BY <3>3, <3>4 DEF Added
      <4>2. QED
        BY <1>7, <4>1, AddedAt DEF Live
    <3>6. Merging' = {} /\ Outputs' = {}
      BY <3>2 DEF Merging, Outputs
    <3>7. BgTyped'
      BY <1>1, <1>5, <3>2, <3>6 DEF BgTyped, NoFile
    <3>8. /\ {edit'.log, edit'.next, edit'.seq} \subseteq Nat
          /\ manifest'.next <= edit'.next /\ edit'.next <= nextFile'
          /\ \A f \in Added' : f.num < edit'.next
      BY <1>1, <1>6, <3>3, <3>5
    <3>9. EditTyped'
      BY <1>1, <1>3, <3>2, <3>3, <3>4, <3>8 DEF EditTyped
    <3>10. Live' \subseteq Live
      BY <1>1, <3>5, <3>6 DEF Live, Read, FilesOf
    <3>11. QED
      BY <3>2, <3>7, <3>9, <3>10
  <2>2. CASE /\ bg' = [bg EXCEPT !.pc = "compact", !.comp = {CompactionState(c, SmallestSnapshot)}]
             /\ UNCHANGED edit
    <3> DEFINE cs == CompactionState(c, SmallestSnapshot)
    <3>1. cs.base = current /\ cs.outs = {} /\ cs = Merge(cs)
      BY <1>4 DEF CompactionState, Merge
    <3>2. bg' = [bg EXCEPT !.pc = "compact", !.comp = {cs}]
      BY <2>2
    <3> HIDE DEF cs
    <3>3. bg' = [pc |-> "compact", out |-> NoFile, comp |-> {cs}]
      BY <1>5, <3>2
    <3>4. /\ bg'.pc = "compact" /\ bg'.out = NoFile /\ bg'.comp = {cs}
          /\ bg' = [pc |-> bg'.pc, out |-> bg'.out, comp |-> bg'.comp]
      BY <3>3
    <3>5. Outputs' = {} /\ Merging' = FilesOf(current) /\ Added' = {}
      BY <1>5, <2>2, <3>1, <3>4 DEF Outputs, OutNumbers, Merging, Added, FilesOf
    <3>6. \A d \in bg'.comp : d = Merge(d) /\ bg'.comp = {d}
      BY <3>1, <3>4
    <3>7. BgTyped'
      BY <1>1, <1>5, <3>4, <3>5, <3>6 DEF BgTyped, Merge, NoFile
    <3>8. EditTyped'
      BY <1>5, <2>2, <1>3, <3>4 DEF EditTyped
    <3>9. Live' \subseteq Live
      BY <1>1, <3>5 DEF Live, Read, FilesOf
    <3>10. QED
      BY <3>4, <3>7, <3>8, <3>9
  <2>3. QED
    BY <1>2, <2>1, <2>2
<1>12. LiveStored' /\ LiveNumbered'
  BY <1>1, <1>3, <1>6, <1>11, KeepLive DEF IInv
<1>13. QED
  BY <1>1, <1>3, <1>6, <1>8, <1>9, <1>10, <1>11, <1>12, BackKeeps

LEMMA CompactOutputStep ==
  ASSUME IInv, CompactOutput
  PROVE  IInv'
<1>1. /\ bg.pc = "compact" /\ pending' = pending \cup {nextFile} /\ nextFile' = nextFile + 1
      /\ UNCHANGED <<logs, manifest, phase, memtables, mem, imm, current, logNumber, seekFile,
                     lastSequence, writers, group, snaps, readers, edit, scheduled, bgError,
                     issued>>
  BY DEF CompactOutput, OutputPinned, mems, version, held, counts
<1>2. PICK c \in bg.comp :
        /\ tables' = Bind(tables, nextFile, Head(c.todo))
        /\ bg' = [bg EXCEPT !.comp = {[c EXCEPT !.todo = Tail(@),
                                                !.outs = @ \cup {File(nextFile, Head(c.todo))}]}]
  BY DEF CompactOutput
<1> DEFINE g == File(nextFile, Head(c.todo))
           d == [c EXCEPT !.todo = Tail(@), !.outs = @ \cup {g}]
<1>3. phase = "open" /\ phase' = "open"
  BY <1>1, BackOpen
<1>4. /\ nextFile \in Nat /\ 0 < nextFile /\ bgError \in BOOLEAN /\ scheduled \in BOOLEAN
      /\ bg = [pc |-> bg.pc, out |-> bg.out, comp |-> bg.comp]
      /\ \A f \in Live : f.num \in Nat /\ f.num < nextFile /\ Stored(f)
  BY <1>3, OpenFacts
<1>5. BgTyped
  BY DEF IInv
<1>6. bg.out = NoFile /\ bg.comp = {c} /\ c = Merge(c)
  BY <1>1, <1>5 DEF BgTyped
<1>7. g.num = nextFile /\ g.ents = Head(c.todo) /\ tables' = Bind(tables, g.num, g.ents)
  BY <1>2 DEF File
<1>8. bg' = [bg EXCEPT !.comp = {d}]
  BY <1>2
<1> HIDE DEF g
<1>9. d = [level |-> c.level, base |-> c.base, in0 |-> c.in0, in1 |-> c.in1,
           outs |-> c.outs \cup {g}, todo |-> Tail(c.todo)]
  <2>1. c = [level |-> c.level, base |-> c.base, in0 |-> c.in0, in1 |-> c.in1,
             outs |-> c.outs, todo |-> c.todo]
    BY <1>6 DEF Merge
  <2> DEFINE t == Tail(c.todo)
             o == c.outs \cup {g}
  <2>2. d = [c EXCEPT !.todo = t, !.outs = o]
    BY Zenon
  <2> HIDE DEF t, o, d
  <2>3. d = [level |-> c.level, base |-> c.base, in0 |-> c.in0, in1 |-> c.in1,
             outs |-> o, todo |-> t]
    BY <2>1, <2>2
  <2>4. QED
    BY <2>3 DEF t, o
<1>10. d.base = c.base /\ d.outs = c.outs \cup {g} /\ d = Merge(d)
  BY <1>9 DEF Merge
<1> HIDE DEF d
<1>11. bg' = [pc |-> "compact", out |-> NoFile, comp |-> {d}]
  BY <1>1, <1>4, <1>6, <1>8
<1>12. /\ bg'.pc = "compact" /\ bg'.out = NoFile /\ bg'.comp = {d}
       /\ bg' = [pc |-> bg'.pc, out |-> bg'.out, comp |-> bg'.comp]
  BY <1>11
<1>13. Live' \subseteq Live \cup {g}
  <2>1. Merging' = Merging \cup {g}
    BY <1>6, <1>10, <1>12 DEF Merging, FilesOf
  <2>2. QED
    BY <1>1, <2>1 DEF Live, Added, Read, FilesOf
<1>14. /\ DOMAIN tables' = DOMAIN tables \cup {nextFile}
       /\ \A n \in DOMAIN tables' : tables'[n] = IF n = nextFile THEN g.ents ELSE tables[n]
  BY <1>7 DEF Bind
<1>15. DiskTyped' /\ ManifestNumbered'
  BY <1>1, <1>4, <1>14 DEF IInv, DiskTyped, ManifestNumbered
<1>16. ManifestCurrent'
  BY <1>1, <1>3, <1>12 DEF IInv, ManifestCurrent
<1>17. Numbered' /\ LogsKept'
  BY <1>1, <1>4, KeepLogs DEF IInv
<1>18. LiveStored' /\ LiveNumbered'
  <2>1. \A f \in Live' : Stored(f)'
    BY <1>4, <1>7, <1>13, <1>14 DEF Stored
  <2>2. \A f \in Live' : f.num \in Nat /\ f.num < nextFile'
    BY <1>1, <1>4, <1>7, <1>13
  <2>3. QED
    BY <1>12, <2>1, <2>2 DEF LiveStored, LiveNumbered
<1>19. BgTyped'
  <2>1. Outputs' = Outputs \cup {nextFile}
    BY <1>6, <1>7, <1>10, <1>12 DEF Outputs, OutNumbers
  <2>2. pending = Outputs
    BY <1>1, <1>5 DEF BgTyped
  <2>3. \A n \in Outputs' : n # NoFile /\ n # bg'.out
    BY <1>4, <1>5, <1>6, <1>12, <2>1 DEF BgTyped, NoFile
  <2>4. \A e \in bg'.comp : e = Merge(e) /\ bg'.comp = {e}
    BY <1>10, <1>12
  <2>5. scheduled' /\ NoFile \in Nat
    BY <1>1, BackOpen DEF NoFile
  <2>6. pending' = Outputs'
    BY <1>1, <2>1, <2>2
  <2>7. QED
    BY <1>12, <2>3, <2>4, <2>5, <2>6 DEF BgTyped, Merge
<1>20. EditTyped'
  <2>1. edit = NoEdit
    BY <1>1, <1>3 DEF IInv, EditTyped
  <2>2. QED
    BY <1>1, <1>3, <1>12, <2>1 DEF EditTyped
<1>21. SeekFileCurrent' /\ WorkIsScheduled'
  BY <1>1, KeepSeek, KeepWork DEF IInv
<1>22. QED
  BY <1>1, <1>3, <1>4, <1>15, <1>16, <1>17, <1>18, <1>19, <1>20, <1>21, BackKeeps

LEMMA CompactOutputFailsStep ==
  ASSUME IInv, CompactOutputFails
  PROVE  IInv'
<1>1. /\ bg.pc = "compact" /\ bgError' = TRUE
      /\ EndCall(imm, current, seekFile, TRUE)
      /\ UNCHANGED <<tables, logs, manifest, phase, memtables, mem, imm, current, logNumber,
                     seekFile, lastSequence, writers, group, snaps, readers, issued>>
  BY DEF CompactOutputFails, DeleteObsoleteFiles, mems, version, held
<1>2. PICK c \in bg.comp : /\ nextFile' = nextFile + 1 \/ nextFile' = nextFile
                           /\ pending' = pending \ OutNumbers(c)
  BY DEF CompactOutputFails
<1>3. phase = "open" /\ phase' = "open"
  BY <1>1, BackOpen
<1>4. pending' = {}
  <2>1. pending = Outputs /\ bg.comp = {c}
    BY <1>1 DEF IInv, BgTyped
  <2>2. QED
    BY <1>2, <2>1 DEF Outputs
<1>5. /\ BgTyped' /\ EditTyped' /\ scheduled' \in BOOLEAN
      /\ Added' = {} /\ Merging' = {} /\ bg'.pc = "idle"
  <2>1. /\ BgTyped' /\ EditTyped' /\ scheduled' \in BOOLEAN
        /\ Added' = {} /\ Merging' = {} /\ bg' = Idle
    BY <1>1, <1>3, <1>4, CallEnds
  <2>2. QED
    BY <2>1 DEF Idle
<1>6. nextFile \in Nat /\ nextFile' \in Nat /\ nextFile <= nextFile'
  BY <1>2, <1>3, OpenFacts
<1>7. DiskTyped' /\ ManifestNumbered'
  BY <1>1, KeepDisk DEF IInv, disk
<1>8. ManifestCurrent' /\ WorkIsScheduled'
  BY <1>1, <1>3 DEF ManifestCurrent, WorkIsScheduled
<1>9. Numbered' /\ LogsKept'
  BY <1>1, <1>6, KeepLogs DEF IInv
<1>10. Live' \subseteq Live
  BY <1>1, <1>5 DEF Live, Read, FilesOf
<1>11. LiveStored' /\ LiveNumbered'
  BY <1>1, <1>3, <1>5, <1>6, <1>10, KeepLive DEF IInv
<1>12. SeekFileCurrent' /\ bgError' \in BOOLEAN
  BY <1>1, KeepSeek DEF IInv
<1>13. QED
  BY <1>1, <1>3, <1>5, <1>7, <1>8, <1>9, <1>11, <1>12, BackKeeps

LEMMA CompactDoneStep ==
  ASSUME IInv, CompactDone
  PROVE  IInv'
<1>1. /\ bg.pc = "compact" /\ bg' = [bg EXCEPT !.pc = "manifest"]
      /\ UNCHANGED <<tables, logs, manifest, phase, memtables, mem, imm, current, logNumber,
                     seekFile, nextFile, lastSequence, pending, writers, group, snaps, readers,
                     scheduled, bgError, issued>>
  BY DEF CompactDone, disk, mems, version, held, counts
<1>2. PICK c \in bg.comp :
        edit' = Edit("compact", At(c.level + 1, c.outs),
                     At(c.level, c.in0) \cup At(c.level + 1, c.in1),
                     logNumber, nextFile, lastSequence)
  BY DEF CompactDone
<1>3. phase = "open" /\ phase' = "open"
  BY <1>1, BackOpen
<1>4. /\ nextFile \in Nat /\ logNumber \in Nat /\ lastSequence \in Nat
      /\ manifest.next <= nextFile /\ bgError \in BOOLEAN /\ scheduled \in BOOLEAN
      /\ bg = [pc |-> bg.pc, out |-> bg.out, comp |-> bg.comp]
      /\ \A f \in Live : f.num \in Nat /\ f.num < nextFile
  BY <1>3, OpenFacts
<1>5. bg' = [pc |-> "manifest", out |-> bg.out, comp |-> bg.comp]
  BY <1>1, <1>4
<1>6. bg'.pc = "manifest" /\ bg'.out = bg.out /\ bg'.comp = bg.comp
  BY <1>5
<1>7. /\ edit'.kind = "compact" /\ edit'.add = At(c.level + 1, c.outs) /\ edit'.log = logNumber
      /\ edit'.next = nextFile /\ edit'.seq = lastSequence
      /\ edit' = Edit(edit'.kind, edit'.add, edit'.del, edit'.log, edit'.next, edit'.seq)
  BY <1>2 DEF Edit
<1>8. edit' # NoEdit
  BY <1>7 DEF NoEdit
<1>9. Added' = c.outs /\ Added' \subseteq Merging
  <2>1. Added' = {a.file : a \in At(c.level + 1, c.outs)}
    BY <1>7, <1>8 DEF Added
  <2>2. QED
    BY <2>1, AddedAt DEF Merging
<1>10. Merging' = Merging /\ Outputs' = Outputs
  BY <1>6 DEF Merging, Outputs, OutNumbers, FilesOf
<1>11. DiskTyped' /\ ManifestNumbered'
  BY <1>1, KeepDisk DEF IInv, disk
<1>12. ManifestCurrent'
  BY <1>1, <1>3, <1>6 DEF IInv, ManifestCurrent
<1>13. Numbered' /\ LogsKept'
  BY <1>1, <1>4, KeepLogs DEF IInv
<1>14. Live' \subseteq Live
  BY <1>1, <1>9, <1>10 DEF Live, Read, FilesOf
<1>15. LiveStored' /\ LiveNumbered'
  BY <1>1, <1>3, <1>4, <1>6, <1>14, KeepLive DEF IInv
<1>16. BgTyped'
  <2>1. BgTyped
    BY DEF IInv
  <2>2. \A d \in bg'.comp : d = Merge(d) /\ bg'.comp = {d}
    BY <1>6, <2>1 DEF BgTyped
  <2>3. pending' = Outputs'
    BY <1>1, <1>10, <2>1 DEF BgTyped
  <2>4. \A n \in Outputs' : n # NoFile /\ n # bg'.out
    BY <1>6, <1>10, <2>1 DEF BgTyped
  <2>5. scheduled' /\ bg'.out \in Nat
    BY <1>1, <1>6, <2>1, BackOpen DEF BgTyped
  <2>6. bg' = [pc |-> bg'.pc, out |-> bg'.out, comp |-> bg'.comp]
    BY <1>5
  <2>7. QED
    BY <1>6, <2>2, <2>3, <2>4, <2>5, <2>6 DEF BgTyped, Merge
<1>17. EditTyped'
  <2>1. Added' \subseteq Live
    BY <1>9 DEF Live
  <2>2. /\ {edit'.log, edit'.next, edit'.seq} \subseteq Nat
        /\ manifest'.next <= edit'.next /\ edit'.next <= nextFile'
        /\ \A f \in Added' : f.num < edit'.next
    BY <1>1, <1>4, <1>7, <2>1
  <2>3. QED
    BY <1>1, <1>3, <1>6, <1>7, <1>8, <2>2 DEF EditTyped
<1>18. SeekFileCurrent' /\ WorkIsScheduled'
  BY <1>1, KeepSeek, KeepWork DEF IInv
<1>19. QED
  BY <1>1, <1>3, <1>4, <1>11, <1>12, <1>13, <1>15, <1>16, <1>17, <1>18, BackKeeps

\* What MANIFEST says once the edit is written to it.
LEMMA EditLogged ==
  ASSUME IInv, phase # "down", edit # NoEdit, manifest' = Logged(edit), UNCHANGED <<tables, logs>>
  PROVE  /\ DiskTyped' /\ ManifestNumbered'
         /\ manifest'.version = ApplyEdit(manifest.version, edit)
         /\ manifest'.next = edit.next /\ edit.next <= nextFile
         /\ FilesOf(manifest'.version) \subseteq Live
<1>1. /\ manifest'.version = ApplyEdit(manifest.version, edit)
      /\ manifest'.log = edit.log /\ manifest'.next = edit.next /\ manifest'.seq = edit.seq
  BY DEF Logged, InManifest
<1>2. /\ edit.log \in Nat /\ edit.next \in Nat /\ edit.seq \in Nat
      /\ manifest.next <= edit.next /\ edit.next <= nextFile
      /\ \A f \in Added : f.num < edit.next
  BY DEF IInv, EditTyped
<1>3. FilesOf(manifest'.version) \subseteq FilesOf(manifest.version) \cup Added
  BY <1>1, EditFiles DEF Added
<1>4. DiskTyped'
  BY <1>1, <1>2 DEF IInv, DiskTyped
<1>5. ManifestNumbered'
  <2>1. \A f \in FilesOf(manifest.version) : f.num \in Nat /\ f.num < manifest.next
    BY DEF IInv, ManifestNumbered
  <2>2. \A f \in Added : f.num \in Nat
    BY DEF IInv, LiveNumbered, Live
  <2>3. manifest.next \in Nat
    BY DEF IInv, DiskTyped
  <2>4. \A f \in FilesOf(manifest.version)' : f.num \in Nat /\ f.num < edit.next
    <3>1. FilesOf(manifest.version)' = FilesOf(manifest'.version)
      BY DEF FilesOf
    <3>2. QED
      BY <1>2, <1>3, <2>1, <2>2, <2>3, <3>1
  <2>5. QED
    BY <1>1, <2>4 DEF ManifestNumbered
<1>6. QED
  BY <1>1, <1>2, <1>3, <1>4, <1>5 DEF Live

LEMMA WriteManifestStep ==
  ASSUME IInv, WriteManifest
  PROVE  IInv'
<1>1. /\ bg.pc = "manifest" /\ manifest' = Logged(edit) /\ bg' = [bg EXCEPT !.pc = "install"]
      /\ UNCHANGED <<tables, logs, phase, memtables, mem, imm, current, logNumber, seekFile,
                     nextFile, lastSequence, pending, writers, group, snaps, readers, edit,
                     scheduled, bgError, issued>>
  BY DEF WriteManifest, mems, version, held, counts
<1>2. phase = "open" /\ phase' = "open" /\ edit # NoEdit
  BY <1>1, BackOpen DEF IInv, EditTyped
<1>3. /\ nextFile \in Nat /\ bgError \in BOOLEAN /\ scheduled \in BOOLEAN
      /\ bg = [pc |-> bg.pc, out |-> bg.out, comp |-> bg.comp] /\ bg.out \in Nat
  BY <1>2, OpenFacts
<1>4. bg' = [pc |-> "install", out |-> bg.out, comp |-> bg.comp]
  BY <1>1, <1>3
<1>5. /\ bg'.pc = "install" /\ bg'.out = bg.out /\ bg'.comp = bg.comp
      /\ bg' = [pc |-> bg'.pc, out |-> bg'.out, comp |-> bg'.comp]
  BY <1>4
<1>6. /\ DiskTyped' /\ ManifestNumbered'
      /\ manifest'.version = ApplyEdit(manifest.version, edit)
      /\ manifest'.next = edit.next /\ edit.next <= nextFile
      /\ FilesOf(manifest'.version) \subseteq Live
  BY <1>1, <1>2, EditLogged
<1>7. ManifestCurrent'
  <2>1. ~bgError' => manifest.version = current
    BY <1>1, <1>2 DEF IInv, ManifestCurrent
  <2>2. ~bgError' => manifest'.version = ApplyEdit(current, edit)
    BY <1>6, <2>1
  <2>3. ApplyEdit(current, edit)' = ApplyEdit(current, edit)
    BY <1>1 DEF ApplyEdit
  <2>4. QED
    BY <1>2, <1>5, <2>2, <2>3 DEF ManifestCurrent
<1>8. Numbered' /\ LogsKept'
  BY <1>1, <1>2, <1>6 DEF IInv, Numbered, LogsKept
<1>9. Live' \subseteq Live
  <2>1. Merging' = Merging
    BY <1>5 DEF Merging, FilesOf
  <2>2. QED
    BY <1>1, <1>6, <2>1 DEF Live, Added, Read, FilesOf
<1>10. LiveStored' /\ LiveNumbered'
  BY <1>1, <1>2, <1>3, <1>5, <1>9, KeepLive DEF IInv
<1>11. BgTyped'
  <2>1. BgTyped
    BY DEF IInv
  <2>2. Outputs' = Outputs
    BY <1>5 DEF Outputs, OutNumbers
  <2>3. \A c \in bg'.comp : c = Merge(c) /\ bg'.comp = {c}
    BY <1>5, <2>1 DEF BgTyped
  <2>4. pending' = Outputs' /\ scheduled'
    BY <1>1, <2>1, <2>2, BackOpen DEF BgTyped
  <2>5. \A n \in Outputs' : n # NoFile /\ n # bg'.out
    BY <1>5, <2>1, <2>2 DEF BgTyped
  <2>6. QED
    BY <1>3, <1>5, <2>3, <2>4, <2>5 DEF BgTyped, Merge
<1>12. EditTyped'
  <2>1. EditTyped
    BY DEF IInv
  <2>2. edit.next \in Nat /\ Added' = Added
    BY <1>1, <1>2, <2>1 DEF EditTyped, Added
  <2>3. QED
    BY <1>1, <1>2, <1>5, <1>6, <2>1, <2>2 DEF EditTyped
<1>13. SeekFileCurrent' /\ WorkIsScheduled'
  BY <1>1, KeepSeek, KeepWork DEF IInv
<1>14. QED
  BY <1>1, <1>2, <1>3, <1>6, <1>7, <1>8, <1>10, <1>11, <1>12, <1>13, BackKeeps

LEMMA WriteManifestFailsStep ==
  ASSUME IInv, WriteManifestFails
  PROVE  IInv'
<1>1. /\ bg.pc = "manifest" /\ manifest' \in {manifest, Logged(edit)} /\ bgError' = TRUE
      /\ pending' = pending \ Outputs
      /\ EndCall(imm, current, seekFile, TRUE)
      /\ UNCHANGED <<tables, logs, phase, memtables, mem, imm, current, logNumber, seekFile,
                     nextFile, lastSequence, writers, group, snaps, readers, issued>>
  BY DEF WriteManifestFails, DeleteObsoleteFiles, mems, version, held
<1>2. phase = "open" /\ phase' = "open" /\ edit # NoEdit
  BY <1>1, BackOpen DEF IInv, EditTyped
<1>3. pending' = {}
  BY <1>1 DEF IInv, BgTyped
<1>4. /\ BgTyped' /\ EditTyped' /\ scheduled' \in BOOLEAN
      /\ Added' = {} /\ Merging' = {} /\ bg' = Idle
  BY <1>1, <1>2, <1>3, CallEnds
<1>5. nextFile \in Nat /\ manifest.next <= nextFile /\ Numbered /\ LogsKept
  BY <1>2, OpenFacts DEF IInv
<1>6. /\ DiskTyped' /\ ManifestNumbered' /\ manifest'.next <= nextFile'
      /\ FilesOf(manifest'.version) \subseteq Live
  <2>1. CASE manifest' = manifest
    <3>1. DiskTyped' /\ ManifestNumbered'
      BY <1>1, <2>1, KeepDisk DEF IInv, disk
    <3>2. QED
      BY <1>1, <1>5, <2>1, <3>1 DEF Live
  <2>2. CASE manifest' = Logged(edit)
    <3>1. /\ DiskTyped' /\ ManifestNumbered' /\ manifest'.next = edit.next /\ edit.next <= nextFile
          /\ FilesOf(manifest'.version) \subseteq Live
      BY <1>1, <1>2, <2>2, EditLogged
    <3>2. QED
      BY <1>1, <3>1
  <2>3. QED
    BY <1>1, <2>1, <2>2
<1>7. ManifestCurrent' /\ WorkIsScheduled'
  BY <1>1, <1>2 DEF ManifestCurrent, WorkIsScheduled
<1>8. Numbered' /\ LogsKept'
  BY <1>1, <1>2, <1>5, <1>6 DEF Numbered, LogsKept
<1>9. Live' \subseteq Live
  BY <1>1, <1>4, <1>6 DEF Live, Read, FilesOf
<1>10. bg'.pc = "idle"
  BY <1>4 DEF Idle
<1>11. LiveStored' /\ LiveNumbered'
  BY <1>1, <1>2, <1>5, <1>9, <1>10, KeepLive DEF IInv
<1>12. SeekFileCurrent' /\ bgError' \in BOOLEAN
  BY <1>1, KeepSeek DEF IInv
<1>13. QED
  BY <1>1, <1>2, <1>4, <1>6, <1>7, <1>8, <1>11, <1>12, BackKeeps

\* The new version: its files are those of the edit and of the version before,
\* and it is what MANIFEST says.
LEMMA VersionInstalled ==
  ASSUME IInv, phase = "open", bg.pc = "install", NewVersion, UNCHANGED manifest
  PROVE  /\ FilesOf(current') \subseteq Live /\ SeekFileCurrent'
         /\ ~bgError => manifest.version = current'
         /\ edit # NoEdit /\ logNumber' = edit.log /\ logNumber <= edit.log /\ edit.log <= mem
         /\ edit.kind \in {"flush", "move", "compact"}
         /\ edit.kind # "flush" => edit.log = logNumber
         /\ edit.kind = "flush" => edit.log = mem
         /\ edit.kind = "move" => bg.comp = {}
<1>1. current' = ApplyEdit(current, edit) /\ logNumber' = edit.log /\ seekFile' = NoSeekFile
  BY DEF NewVersion
<1>2. edit # NoEdit
  BY DEF IInv, EditTyped
<1>3. FilesOf(current') \subseteq Live
  BY <1>1, <1>2, EditFiles DEF Live, Added
<1>4. SeekFileCurrent'
  BY <1>1 DEF SeekFileCurrent, NoSeekFile
<1>5. ~bgError => manifest.version = current'
  BY <1>1 DEF IInv, ManifestCurrent
<1>6. /\ edit.kind \in {"flush", "move", "compact"}
      /\ edit.kind # "flush" => edit.log = logNumber
      /\ edit.kind = "flush" => edit.log = mem
      /\ edit.kind = "move" => bg.comp = {}
  BY <1>2 DEF IInv, EditTyped
<1>7. mem \in Nat /\ logNumber \in Nat /\ logNumber <= mem
  BY DEF IInv, Numbered, LogsKept
<1>8. QED
  BY <1>1, <1>2, <1>3, <1>4, <1>5, <1>6, <1>7

\* The background thread is asked for as MaybeScheduleCompaction finds the
\* store when it is done.
LEMMA CallEndsScheduled ==
  ASSUME EndCall(imm', current', seekFile', FALSE), UNCHANGED bgError
  PROVE  WorkIsScheduled'
<1> DEFINE needs == imm' # NoFile \/ NeedsCompaction(current', seekFile')
<1>1. scheduled' = (~FALSE /\ (FALSE \/ (~bgError /\ needs)))
  BY Zenon DEF EndCall, MaybeSchedule
<1>2. needs = (imm # NoFile \/ NeedsCompaction(current, seekFile))'
  BY DEF NeedsCompaction, SizeCompaction
<1> HIDE DEF needs
<1>3. ~bgError /\ needs => scheduled'
  BY <1>1, Zenon
<1>4. QED
  BY <1>2, <1>3 DEF WorkIsScheduled

LEMMA InstallMoveStep ==
  ASSUME IInv, InstallMove
  PROVE  IInv'
<1>1. /\ bg.pc = "install" /\ edit.kind = "move" /\ NewVersion
      /\ EndCall(imm, current', NoSeekFile, FALSE)
      /\ UNCHANGED <<tables, logs, manifest, phase, memtables, mem, imm, nextFile, lastSequence,
                     pending, writers, group, snaps, readers, bgError, issued>>
  BY DEF InstallMove, disk, mems, held, counts
<1>2. phase = "open" /\ phase' = "open"
  BY <1>1, BackOpen
<1>3. /\ FilesOf(current') \subseteq Live /\ SeekFileCurrent'
      /\ ~bgError => manifest.version = current'
      /\ logNumber' = logNumber /\ bg.comp = {}
  BY <1>1, <1>2, VersionInstalled
<1>4. pending' = {}
  BY <1>1, <1>3 DEF IInv, BgTyped, Outputs
<1>5. /\ BgTyped' /\ EditTyped' /\ scheduled' \in BOOLEAN
      /\ Added' = {} /\ Merging' = {} /\ bg' = Idle
  BY <1>1, <1>2, <1>4, CallEnds
<1>6. bg'.pc = "idle"
  BY <1>5 DEF Idle
<1>7. DiskTyped' /\ ManifestNumbered'
  BY <1>1, KeepDisk DEF IInv, disk
<1>8. ManifestCurrent'
  BY <1>1, <1>2, <1>3, <1>6 DEF ManifestCurrent
<1>9. Numbered' /\ LogsKept'
  BY <1>1, <1>2, <1>3, KeepLogs DEF IInv, Numbered
<1>10. Live' \subseteq Live
  BY <1>1, <1>3, <1>5 DEF Live, Read, FilesOf
<1>11. LiveStored' /\ LiveNumbered'
  BY <1>1, <1>2, <1>6, <1>10, KeepLive DEF IInv, Numbered
<1>12. WorkIsScheduled'
  BY <1>1, CallEndsScheduled DEF NewVersion
<1>13. bgError' \in BOOLEAN
  BY <1>1 DEF IInv, Scalars
<1>14. QED
  BY <1>1, <1>2, <1>3, <1>5, <1>7, <1>8, <1>9, <1>11, <1>12, <1>13, BackKeeps

\* AddLiveFiles adds the files of the current version and of the readers' versions.
LEMMA FilesKept ==
  ASSUME NEW v, NEW comp, NEW r \in DOMAIN readers
  PROVE  FileNumbers(readers[r].version) \subseteq LiveFiles(v, comp)
BY DEF LiveFiles

\* What DeleteObsoleteFiles leaves: the disk has its types, the files referred
\* to are there, and so are the logs of both memtables.
LEMMA ObsoleteDeleted ==
  ASSUME IInv, NEW comp, NEW log,
         phase # "down", phase' = "open", UNCHANGED <<manifest, readers>>,
         DeleteObsoleteFiles(bgError, current', pending', comp, log),
         ~bgError => manifest.version = current',
         FilesOf(current') \subseteq Live, Added' = {}, Merging' \subseteq Merging,
         \A f \in Merging' : f.num \in pending' \cup LiveFiles(current', comp),
         nextFile' = nextFile, bg'.pc # "build"
  PROVE  /\ DiskTyped' /\ ManifestNumbered' /\ LiveStored' /\ LiveNumbered'
         /\ DOMAIN logs' \subseteq DOMAIN logs
         /\ \A n \in DOMAIN logs : n >= log => n \in DOMAIN logs'
<1>1. /\ \A f : Stored(f) /\ (bgError \/ f.num \in pending' \cup LiveFiles(current', comp)) => Stored(f)'
      /\ DOMAIN tables' \subseteq DOMAIN tables
      /\ DOMAIN logs' \subseteq DOMAIN logs
      /\ \A n \in DOMAIN logs' : logs'[n] = logs[n]
      /\ \A n \in DOMAIN logs : n >= log => n \in DOMAIN logs'
  BY DeletionKeeps
<1>2. Live' = FilesOf(manifest.version) \cup FilesOf(current') \cup Merging' \cup Read
  BY DEF Live, Read, FilesOf
<1>3. Live' \subseteq Live
  BY <1>2 DEF Live
<1>4. \A f \in Live' : ~bgError => f.num \in pending' \cup LiveFiles(current', comp)
  <2>1. \A f \in FilesOf(current') : f.num \in LiveFiles(current', comp)
    BY DEF LiveFiles, FileNumbers
  <2>2. \A f \in Read : f.num \in LiveFiles(current', comp)
    <3>1. \A r \in DOMAIN readers : FileNumbers(readers[r].version) \subseteq LiveFiles(current', comp)
      BY FilesKept
    <3>2. QED
      BY <3>1 DEF Read, FileNumbers
  <2>3. QED
    BY <1>2, <2>1, <2>2
<1>5. LiveStored'
  <2>1. bgError \in BOOLEAN /\ LiveStored
    BY DEF IInv, Scalars
  <2>2. \A f \in Live' : Stored(f)'
    BY <1>1, <1>3, <1>4, <2>1 DEF LiveStored
  <2>3. QED
    BY <2>2 DEF LiveStored
<1>6. LiveNumbered'
  <2>1. \A f \in Live : f.num \in Nat /\ f.num < nextFile
    BY DEF IInv, LiveNumbered
  <2>2. QED
    BY <1>3, <2>1 DEF LiveNumbered
<1>7. DiskTyped'
  <2>1. IsFiniteSet(DOMAIN logs')
    BY <1>1, FS_Subset DEF IInv, DiskTyped
  <2>2. QED
    BY <1>1, <2>1 DEF IInv, DiskTyped
<1>8. ManifestNumbered'
  BY DEF IInv, ManifestNumbered
<1>9. QED
  BY <1>1, <1>5, <1>6, <1>7, <1>8

LEMMA InstallFlushStep ==
  ASSUME IInv, InstallFlush
  PROVE  IInv'
<1>1. /\ bg.pc = "install" /\ edit.kind = "flush" /\ NewVersion
      /\ imm' = NoFile
      /\ memtables' = Referred({mem} \cup HeldMemtables(readers))
      /\ DeleteObsoleteFiles(bgError, current', pending', bg.comp, edit.log)
      /\ EndFlush(NoFile, current', NoSeekFile, FALSE)
      /\ UNCHANGED <<manifest, phase, mem, nextFile, lastSequence, pending, writers, group, snaps,
                     readers, bgError, issued>>
  BY DEF InstallFlush, held, counts
<1>2. phase = "open" /\ phase' = "open" /\ scheduled
  BY <1>1, BackOpen
<1>3. /\ FilesOf(current') \subseteq Live /\ SeekFileCurrent'
      /\ ~bgError => manifest.version = current'
      /\ logNumber' = mem /\ edit.log = mem /\ logNumber <= mem
  BY <1>1, <1>2, VersionInstalled
<1>4. pending = Outputs /\ pending' = Outputs
  BY <1>1 DEF IInv, BgTyped
<1>5. /\ BgTyped' /\ EditTyped' /\ scheduled' \in BOOLEAN
      /\ Added' = {} /\ Merging' \subseteq Merging
      /\ bg'.pc \in {"idle", "compact"}
  BY <1>1, <1>2, <1>4, FlushEnds
<1>6. \A f \in Merging : f.num \in pending' \cup LiveFiles(current', bg.comp)
  <2> SUFFICES ASSUME NEW c \in bg.comp, NEW f \in FilesOf(c.base) \cup c.outs
               PROVE  f.num \in pending' \cup LiveFiles(current', bg.comp)
    BY DEF Merging
  <2>1. CASE f \in c.outs
    BY <1>4, <2>1 DEF Outputs, OutNumbers
  <2>2. CASE f \in FilesOf(c.base)
    <3>1. f.num \in FileNumbers(c.base)
      BY <2>2 DEF FileNumbers
    <3>2. f.num \in UNION {FileNumbers(d.base) : d \in bg.comp}
      BY <3>1
    <3>3. QED
      BY <3>2 DEF LiveFiles
  <2>3. QED
    BY <2>1, <2>2
<1>7. /\ DiskTyped' /\ ManifestNumbered' /\ LiveStored' /\ LiveNumbered'
      /\ \A n \in DOMAIN logs : n >= mem => n \in DOMAIN logs'
  <2>1. bg'.pc # "build"
    BY <1>5
  <2>2. \A f \in Merging' : f.num \in pending' \cup LiveFiles(current', bg.comp)
    BY <1>5, <1>6
  <2>3. QED
    BY <1>1, <1>2, <1>3, <1>5, <2>1, <2>2, ObsoleteDeleted
<1>8. ManifestCurrent'
  BY <1>1, <1>2, <1>3, <1>5 DEF ManifestCurrent
<1>9. Numbered' /\ LogsKept'
  <2>1. Numbered
    BY DEF IInv
  <2>2. mem \in Nat /\ mem \in DOMAIN logs' /\ mem \in DOMAIN memtables'
    BY <1>1, <1>2, <1>7, <2>1 DEF Numbered, Referred, Restrict
  <2>3. QED
    BY <1>1, <1>2, <1>3, <2>1, <2>2 DEF Numbered, LogsKept, NoFile
<1>10. WorkIsScheduled'
  <2>1. CASE bg.comp = {}
    <3>1. EndCall(imm', current', seekFile', FALSE)
      BY <1>1, <2>1 DEF EndFlush, NewVersion
    <3>2. QED
      BY <1>1, <3>1, CallEndsScheduled
  <2>2. CASE bg.comp # {}
    BY <1>1, <1>2, <2>2 DEF EndFlush, WorkIsScheduled
  <2>3. QED
    BY <2>1, <2>2
<1>11. bgError' \in BOOLEAN
  BY <1>1 DEF IInv, Scalars
<1>12. QED
  BY <1>1, <1>2, <1>3, <1>5, <1>7, <1>8, <1>9, <1>10, <1>11, BackKeeps

LEMMA InstallCompactionStep ==
  ASSUME IInv, InstallCompaction
  PROVE  IInv'
<1>1. /\ bg.pc = "install" /\ edit.kind = "compact" /\ NewVersion
      /\ pending' = pending \ Outputs
      /\ DeleteObsoleteFiles(bgError, current', pending', {}, edit.log)
      /\ EndCall(imm, current', NoSeekFile, FALSE)
      /\ UNCHANGED <<manifest, phase, memtables, mem, imm, nextFile, lastSequence, writers, group,
                     snaps, readers, bgError, issued>>
  BY DEF InstallCompaction, mems, held, counts
<1>2. phase = "open" /\ phase' = "open"
  BY <1>1, BackOpen
<1>3. /\ FilesOf(current') \subseteq Live /\ SeekFileCurrent'
      /\ ~bgError => manifest.version = current'
      /\ logNumber' = logNumber /\ edit.log = logNumber /\ logNumber <= mem
  BY <1>1, <1>2, VersionInstalled
<1>4. pending' = {}
  BY <1>1 DEF IInv, BgTyped
<1>5. /\ BgTyped' /\ EditTyped' /\ scheduled' \in BOOLEAN
      /\ Added' = {} /\ Merging' = {} /\ bg' = Idle
  BY <1>1, <1>2, <1>4, CallEnds
<1>6. bg'.pc = "idle"
  BY <1>5 DEF Idle
<1>7. /\ DiskTyped' /\ ManifestNumbered' /\ LiveStored' /\ LiveNumbered'
      /\ \A n \in DOMAIN logs : n >= logNumber => n \in DOMAIN logs'
  BY <1>1, <1>2, <1>3, <1>5, <1>6, ObsoleteDeleted
<1>8. ManifestCurrent'
  BY <1>1, <1>2, <1>3, <1>6 DEF ManifestCurrent
<1>9. Numbered' /\ LogsKept'
  <2>1. Numbered /\ LogsKept
    BY DEF IInv
  <2>2. QED
    BY <1>1, <1>2, <1>3, <1>7, <2>1 DEF Numbered, LogsKept
<1>10. WorkIsScheduled'
  BY <1>1, CallEndsScheduled DEF NewVersion
<1>11. bgError' \in BOOLEAN
  BY <1>1 DEF IInv, Scalars
<1>12. QED
  BY <1>1, <1>2, <1>3, <1>5, <1>7, <1>8, <1>9, <1>10, <1>11, BackKeeps

LEMMA BackgroundSteps ==
  IInv /\ BackgroundStep => IInv'
BY BackgroundErrorStep, BeginFlushStep, BuildTableStep, BuildTableFailsStep, BeginCompactionStep,
   CompactOutputStep, CompactOutputFailsStep, CompactDoneStep, WriteManifestStep,
   WriteManifestFailsStep, InstallFlushStep, InstallMoveStep, InstallCompactionStep
   DEF BackgroundStep

-----------------------------------------------------------------------------
(* Opening the store.                                                      *)

LEMMA RecoverStep ==
  ASSUME IInv, Recover
  PROVE  IInv'
<1> DEFINE r == Replay
           numbers == {f.num : f \in r.files}
           ents == [n \in DOMAIN tables \cup numbers |->
                      IF n \in numbers THEN (CHOOSE f \in r.files : f.num = n).ents
                                      ELSE tables[n]]
<1>1. /\ phase = "down" /\ phase' = "recovering"
      /\ tables' = ents
      /\ lastSequence' = RecoveredSequence(r.files)
      /\ mem' = r.next /\ nextFile' = r.next + 1
      /\ edit' = Edit("recover", At(0, r.files), {}, mem', nextFile', lastSequence')
      /\ logs' = Bind(logs, mem', NewLog)
      /\ memtables' = Bind(<<>>, mem', {})
      /\ current' = manifest.version
      /\ UNCHANGED <<manifest, imm, seekFile, pending, writers, group, snaps, readers, bg, scheduled,
                     bgError, issued>>
  BY DEF Recover, held, counts
<1>2. DiskTyped /\ NoProcess
  BY <1>1 DEF IInv, Phases
<1>3. r \in Replaying(LogEntry, {manifest.log} \cup DOMAIN logs)
  <2>1. LogsIn(LogEntry)
    BY <1>2 DEF DiskTyped, LogsIn
  <2>2. QED
    BY <1>2, <2>1, ReplayTyping
<1>4. RecoveredSequence(r.files) \in Nat
  <2>1. {manifest.log} \cup DOMAIN logs \in SUBSET Nat
    BY <1>2 DEF DiskTyped
  <2> HIDE DEF r
  <2>2. QED
    BY <1>2, <1>3, <2>1, RecoveredSequenceTyping
<1>5. /\ r.next \in Nat /\ manifest.next < r.next /\ manifest.next \in Nat
      /\ \A f \in r.files : f.num \in Nat /\ manifest.next < f.num /\ f.num < r.next
      /\ \A f, g \in r.files : f.num = g.num => f = g
  BY <1>2, <1>3 DEF Replaying, NewFile, DiskTyped
<1> HIDE DEF r
<1>6. \A f \in r.files : f.num \in DOMAIN tables' /\ tables'[f.num] = f.ents
  <2> SUFFICES ASSUME NEW f \in r.files
               PROVE  f.num \in DOMAIN tables' /\ tables'[f.num] = f.ents
    OBVIOUS
  <2>1. f.num \in numbers
    OBVIOUS
  <2>2. (CHOOSE g \in r.files : g.num = f.num) = f
    BY <1>5
  <2> HIDE DEF numbers
  <2>3. QED
    BY <1>1, <2>1, <2>2
<1>7. DOMAIN tables' = DOMAIN tables \cup numbers
      /\ \A n \in DOMAIN tables : n \notin numbers => tables'[n] = tables[n]
  BY <1>1
<1>8. \A f \in FilesOf(manifest.version) :
        /\ f.num \in Nat /\ f.num < manifest.next /\ f.num \in DOMAIN tables'
        /\ tables'[f.num] = f.ents
  <2> SUFFICES ASSUME NEW f \in FilesOf(manifest.version)
               PROVE  /\ f.num \in Nat /\ f.num < manifest.next /\ f.num \in DOMAIN tables'
                      /\ tables'[f.num] = f.ents
    OBVIOUS
  <2>1. f.num \in Nat /\ f.num < manifest.next /\ Stored(f)
    BY DEF IInv, ManifestNumbered, LiveStored, Live
  <2>2. f.num \notin numbers
    BY <1>5, <2>1
  <2> HIDE DEF numbers
  <2>3. QED
    BY <1>7, <2>1, <2>2 DEF Stored
<1>9. numbers \subseteq Nat
  BY <1>5
<1> HIDE DEF numbers, ents
<1>10. /\ DOMAIN logs' = DOMAIN logs \cup {mem'}
       /\ \A n \in DOMAIN logs' : logs'[n] = IF n = mem' THEN NewLog ELSE logs[n]
       /\ mem' \in DOMAIN memtables'
  BY <1>1 DEF Bind
<1>11. DiskTyped'
  <2>1. IsFiniteSet(DOMAIN logs')
    BY <1>2, <1>10, FS_AddElement DEF DiskTyped
  <2>2. mem' \in Nat
    BY <1>1, <1>5
  <2>3. QED
    BY <1>1, <1>2, <1>7, <1>9, <1>10, <2>1, <2>2, NewLogTyping DEF DiskTyped
<1>12. edit' # NoEdit /\ Added' = r.files
  <2>1. edit'.kind = "recover" /\ edit'.add = At(0, r.files)
    BY <1>1 DEF Edit
  <2>2. edit' # NoEdit
    BY <2>1 DEF NoEdit
  <2>3. Added' = {a.file : a \in At(0, r.files)}
    BY <2>1, <2>2 DEF Added
  <2>4. QED
    BY <2>2, <2>3, AddedAt
<1>13. Live' = FilesOf(manifest.version) \cup r.files
  <2>1. bg'.comp = {} /\ DOMAIN readers' = {}
    BY <1>1, <1>2 DEF NoProcess, Idle
  <2>2. Merging' = {} /\ Read' = {}
    BY <2>1 DEF Merging, Read
  <2>3. FilesOf(manifest.version)' = FilesOf(manifest.version) /\ FilesOf(current)' = FilesOf(manifest.version)
    BY <1>1 DEF FilesOf
  <2>4. QED
    BY <1>12, <2>2, <2>3 DEF Live
<1>14. bg' = Idle /\ bg'.pc = "idle"
  BY <1>1, <1>2 DEF NoProcess, Idle
<1>15. LiveStored' /\ LiveNumbered'
  <2>1. \A f \in Live' : f.num \in Nat /\ f.num < nextFile' /\ Stored(f)'
    BY <1>1, <1>5, <1>6, <1>8, <1>13 DEF Stored
  <2>2. QED
    BY <1>14, <2>1 DEF LiveStored, LiveNumbered
<1>16. ManifestNumbered' /\ ManifestCurrent'
  BY <1>1 DEF IInv, ManifestNumbered, ManifestCurrent
<1>17. Numbered' /\ LogsKept'
  BY <1>1, <1>5, <1>10 DEF Numbered, LogsKept
<1>18. BgTyped' /\ GroupTyped' /\ SeekFileCurrent' /\ WorkIsScheduled'
  <2>1. bg = Idle /\ pending = {} /\ group = NoGroup /\ seekFile = {}
    BY <1>2 DEF NoProcess, NoSeekFile
  <2>2. BgTyped'
    <3>1. Outputs' = Outputs
      BY <1>1 DEF Outputs, OutNumbers
    <3>2. QED
      BY <1>1, <2>1, <3>1 DEF IInv, BgTyped, Merge, Idle
  <2>3. QED
    BY <1>1, <2>1, <2>2 DEF GroupTyped, SeekFileCurrent, WorkIsScheduled
<1>19. EditTyped'
  <2>1. /\ edit'.kind = "recover" /\ edit'.log = mem' /\ edit'.next = nextFile'
        /\ edit'.seq = lastSequence'
        /\ edit' = Edit(edit'.kind, edit'.add, edit'.del, edit'.log, edit'.next, edit'.seq)
    BY <1>1 DEF Edit
  <2>2. /\ {edit'.log, edit'.next, edit'.seq} \subseteq Nat
        /\ manifest'.next <= edit'.next /\ edit'.next <= nextFile'
    BY <1>1, <1>4, <1>5, <2>1
  <2>3. \A f \in Added' : f.num < edit'.next
    BY <1>1, <1>5, <1>12, <2>1
  <2>4. QED
    BY <1>1, <1>12, <2>1, <2>2, <2>3 DEF EditTyped
<1>20. Phases' /\ Scalars'
  BY <1>1, <1>2, <1>4 DEF IInv, Phases, Scalars, NoProcess, Opening
<1>21. QED
  BY <1>11, <1>15, <1>16, <1>17, <1>18, <1>19, <1>20 DEF IInv

\* Nobody but the one who opens the store is at work.
LEMMA OpeningFacts ==
  ASSUME IInv, phase \in {"recovering", "committed"}
  PROVE  /\ edit # NoEdit /\ edit.kind = "recover" /\ edit.log = mem
         /\ bg = Idle /\ bg.pc = "idle" /\ pending = {} /\ imm = NoFile /\ scheduled = FALSE
         /\ bgError = FALSE /\ Merging = {} /\ Read = {} /\ Outputs = {}
<1>1. edit.kind = "recover" /\ edit.log = mem
  BY DEF IInv, EditTyped
<1>2. edit # NoEdit
  BY <1>1 DEF NoEdit
<1>3. Opening
  BY DEF IInv, Phases
<1>4. bg.pc = "idle" /\ bg.comp = {} /\ DOMAIN readers = {}
  BY <1>3 DEF Opening, Idle
<1>5. QED
  BY <1>1, <1>2, <1>3, <1>4 DEF Opening, Merging, Read, Outputs

LEMMA CommitRecoveryStep ==
  ASSUME IInv, CommitRecovery
  PROVE  IInv'
<1>1. /\ phase = "recovering" /\ phase' = "committed" /\ manifest' = Logged(edit)
      /\ UNCHANGED <<tables, logs, memtables, mem, imm, current, logNumber, seekFile, nextFile,
                     lastSequence, pending, writers, group, snaps, readers, bg, edit, scheduled,
                     bgError, issued>>
  BY DEF CommitRecovery, mems, version, held, back, counts
<1>2. edit # NoEdit /\ bg = Idle /\ bg.pc = "idle"
  BY <1>1, OpeningFacts
<1>3. /\ DiskTyped' /\ ManifestNumbered'
      /\ manifest'.version = ApplyEdit(manifest.version, edit)
      /\ manifest'.next = edit.next /\ edit.next <= nextFile
      /\ FilesOf(manifest'.version) \subseteq Live
  BY <1>1, <1>2, EditLogged
<1>4. ManifestCurrent'
  <2>1. manifest'.version = ApplyEdit(current, edit)
    BY <1>1, <1>3 DEF IInv, ManifestCurrent
  <2>2. ApplyEdit(current, edit)' = ApplyEdit(current, edit)
    BY <1>1 DEF ApplyEdit
  <2>3. QED
    BY <1>1, <2>1, <2>2 DEF ManifestCurrent
<1>5. Numbered' /\ LogsKept'
  BY <1>1, <1>3 DEF IInv, Numbered, LogsKept
<1>6. Live' \subseteq Live
  BY <1>1, <1>3 DEF Live, Added, Merging, Read, FilesOf
<1>7. LiveStored' /\ LiveNumbered'
  BY <1>1, <1>2, <1>6, KeepLive DEF IInv, Numbered
<1>8. BgTyped' /\ SeekFileCurrent' /\ GroupTyped' /\ WorkIsScheduled'
  BY <1>1, KeepBack, KeepSeek, KeepGroup DEF IInv, WorkIsScheduled
<1>9. EditTyped'
  <2>1. EditTyped
    BY DEF IInv
  <2>2. edit.next \in Nat /\ Added' = Added
    BY <1>1, <1>2, <2>1 DEF EditTyped, Added
  <2>3. QED
    BY <1>1, <1>2, <1>3, <2>1, <2>2 DEF EditTyped
<1>10. Phases' /\ Scalars'
  BY <1>1 DEF IInv, Phases, Scalars, Opening
<1>11. QED
  BY <1>3, <1>4, <1>5, <1>7, <1>8, <1>9, <1>10 DEF IInv

LEMMA FinishOpenStep ==
  ASSUME IInv, FinishOpen
  PROVE  IInv'
<1>1. /\ phase = "committed" /\ phase' = "open" /\ NewVersion
      /\ DeleteObsoleteFiles(bgError, current', pending', {}, edit.log)
      /\ edit' = NoEdit
      /\ scheduled' = MaybeSchedule(scheduled, imm, current', NoSeekFile)
      /\ UNCHANGED <<manifest, memtables, mem, imm, nextFile, lastSequence, pending, writers, group,
                     snaps, readers, bg, bgError, issued>>
  BY DEF FinishOpen, mems, held, counts
<1>2. /\ edit # NoEdit /\ edit.log = mem /\ bg = Idle /\ bg.pc = "idle" /\ pending = {}
      /\ imm = NoFile /\ scheduled = FALSE /\ bgError = FALSE
      /\ Merging = {} /\ Outputs = {}
  BY <1>1, OpeningFacts
<1>3. current' = ApplyEdit(current, edit) /\ logNumber' = mem /\ seekFile' = {}
  BY <1>1, <1>2 DEF NewVersion, NoSeekFile
<1>4. manifest.version = current'
  BY <1>1, <1>3 DEF IInv, ManifestCurrent
<1>5. Added' = {} /\ Merging' = {} /\ Outputs' = {}
  BY <1>1, <1>2 DEF Added, Merging, Outputs, OutNumbers, FilesOf
<1>6. FilesOf(current') \subseteq Live
  BY <1>4 DEF Live
<1>7. /\ DiskTyped' /\ ManifestNumbered' /\ LiveStored' /\ LiveNumbered'
      /\ \A n \in DOMAIN logs : n >= mem => n \in DOMAIN logs'
  BY <1>1, <1>2, <1>4, <1>5, <1>6, ObsoleteDeleted
<1>8. ManifestCurrent'
  BY <1>1, <1>2, <1>4 DEF ManifestCurrent
<1>9. Numbered' /\ LogsKept'
  BY <1>1, <1>2, <1>3, <1>7 DEF IInv, Numbered, LogsKept, NoFile
<1>10. BgTyped' /\ EditTyped'
  <2>1. BgTyped' 
    BY <1>1, <1>2, <1>5 DEF IInv, BgTyped, Merge, Idle
  <2>2. QED
    BY <1>1, <1>2, <2>1 DEF EditTyped
<1>11. SeekFileCurrent' /\ GroupTyped'
  BY <1>1, <1>3, KeepGroup DEF IInv, SeekFileCurrent
<1>12. scheduled' \in BOOLEAN /\ WorkIsScheduled'
  <2> DEFINE needs == imm # NoFile \/ NeedsCompaction(current', NoSeekFile)
  <2>1. scheduled' = (scheduled \/ (~bgError /\ needs))
    BY <1>1, Zenon DEF MaybeSchedule
  <2>2. needs = (imm # NoFile \/ NeedsCompaction(current, seekFile))'
    BY <1>1 DEF NewVersion, NeedsCompaction, SizeCompaction
  <2> HIDE DEF needs
  <2>3. ~bgError /\ needs => scheduled'
    BY <2>1, Zenon
  <2>4. scheduled' \in BOOLEAN
    <3> DEFINE asked == scheduled \/ (~bgError /\ needs)
    <3>1. asked \in BOOLEAN /\ scheduled' = asked
      BY <2>1, Zenon
    <3>2. QED
      BY <3>1
  <2>5. QED
    BY <1>1, <2>2, <2>3, <2>4 DEF WorkIsScheduled
<1>13. Phases' /\ Scalars'
  BY <1>1, <1>12 DEF IInv, Phases, Scalars
<1>14. QED
  BY <1>7, <1>8, <1>9, <1>10, <1>11, <1>12, <1>13 DEF IInv

LEMMA OpenSteps ==
  IInv /\ OpenStep => IInv'
BY RecoverStep, CommitRecoveryStep, FinishOpenStep DEF OpenStep

-----------------------------------------------------------------------------
(* Crashes, and the whole specification.                                   *)

\* What a crash leaves of the logs: every log is still there, and still a log.
LEMMA InterruptedTyping ==
  ASSUME IInv, NEW E, group # NoGroup => group.batch.rec \in Seq(E), NEW ls \in Interrupted
  PROVE  DOMAIN ls = DOMAIN logs /\ \A n \in DOMAIN logs : logs[n] \in Log(E) => ls[n] \in Log(E)
<1>1. CASE group.stage # "log"
  BY <1>1 DEF Interrupted
<1>2. CASE group.stage = "log"
  <2>1. group # NoGroup
    BY <1>2 DEF NoGroup
  <2>2. group.batch.rec \in Seq(E)
    BY <2>1
  <2>3. logs[mem] \in Log(E) => \A l \in Torn(logs[mem], group.batch.rec) : l \in Log(E)
    BY <2>2, AppendedTyping
  <2>4. PICK l \in Torn(logs[mem], group.batch.rec) : ls = [logs EXCEPT ![mem] = l]
    BY <1>2 DEF Interrupted
  <2>5. logs[mem] \in Log(E) => l \in Log(E)
    BY <2>3
  <2>6. QED
    BY <2>4, <2>5
<1>3. QED
  BY <1>1, <1>2

LEMMA CutsTyping ==
  ASSUME NEW E, NEW ls, NEW cs \in Cuts(ls)
  PROVE  DOMAIN cs = DOMAIN ls /\ \A n \in DOMAIN ls : ls[n] \in Log(E) => cs[n] \in Log(E)
<1> DEFINE Ends == [n \in DOMAIN ls |-> ls[n].synced .. Len(ls[n].data)]
           Places == {e \in [DOMAIN ls -> UNION Range(Ends)] : \A n \in DOMAIN ls : e[n] \in Ends[n]}
<1>1. cs \in {[n \in DOMAIN ls |-> Cut(ls[n], end[n])] : end \in Places}
  BY Zenon DEF Cuts
<1>2. \A end \in Places : \A n \in DOMAIN ls : end[n] \in ls[n].synced .. Len(ls[n].data)
  OBVIOUS
<1> HIDE DEF Places
<1>3. PICK end \in Places : cs = [n \in DOMAIN ls |-> Cut(ls[n], end[n])]
  BY <1>1
<1>4. ASSUME NEW n \in DOMAIN ls, ls[n] \in Log(E)
      PROVE  cs[n] \in Log(E)
  <2>1. ls[n].synced \in Nat /\ ls[n].data \in Seq(Units(E))
    BY <1>4 DEF Log
  <2>2. Len(ls[n].data) \in Nat
    BY <2>1, LenProperties
  <2>3. end[n] \in 0 .. Len(ls[n].data)
    BY <1>2, <2>1, <2>2
  <2>4. Cut(ls[n], end[n]) \in Log(E)
    BY <1>4, <2>1, <2>3, AppendedTyping, EmptySeq
  <2>5. QED
    BY <1>3, <2>4
<1>5. QED
  BY <1>3, <1>4

LEMMA LeftTyping ==
  ASSUME IInv, NEW E, group # NoGroup => group.batch.rec \in Seq(E),
         NEW kind, NEW ls \in Left(kind)
  PROVE  DOMAIN ls = DOMAIN logs /\ \A n \in DOMAIN logs : logs[n] \in Log(E) => ls[n] \in Log(E)
<1>1. CASE kind = "process"
  BY <1>1, InterruptedTyping DEF Left
<1>2. CASE kind # "process"
  <2>1. PICK is \in Interrupted : ls \in Cuts(is)
    BY <1>2 DEF Left
  <2>2. DOMAIN is = DOMAIN logs /\ \A n \in DOMAIN logs : logs[n] \in Log(E) => is[n] \in Log(E)
    BY InterruptedTyping
  <2>3. DOMAIN ls = DOMAIN is /\ \A n \in DOMAIN is : is[n] \in Log(E) => ls[n] \in Log(E)
    BY <2>1, CutsTyping
  <2>4. QED
    BY <2>2, <2>3
<1>3. QED
  BY <1>1, <1>2

\* With no process at work, only what is on the disk is left to say.
LEMMA NoProcessKeeps ==
  ASSUME phase = "down", NoProcess, DiskTyped, ManifestNumbered, issued \in Nat,
         \A f \in FilesOf(manifest.version) : Stored(f)
  PROVE  IInv
<1>1. Phases /\ Numbered /\ LogsKept /\ LiveNumbered /\ ManifestCurrent /\ WorkIsScheduled
  BY DEF Phases, Numbered, LogsKept, LiveNumbered, ManifestCurrent, WorkIsScheduled
<1>2. Scalars
  <2>1. writers \in Seq(Writer)
    BY EmptySeq DEF NoProcess
  <2>2. QED
    BY <2>1 DEF NoProcess, Scalars
<1>3. /\ bg = [pc |-> "idle", out |-> NoFile, comp |-> {}] /\ edit = NoEdit
      /\ DOMAIN readers = {} /\ pending = {} /\ group = NoGroup /\ seekFile = {}
  BY DEF NoProcess, Idle, NoSeekFile
<1>4. bg.pc = "idle" /\ bg.out = NoFile /\ bg.comp = {}
      /\ bg = [pc |-> bg.pc, out |-> bg.out, comp |-> bg.comp]
  BY <1>3
<1>5. Added = {} /\ Merging = {} /\ Read = {} /\ Outputs = {}
  BY <1>3, <1>4 DEF Added, Merging, Read, Outputs
<1>6. FilesOf(current) = {}
  BY DEF NoProcess, NoFiles, FilesOf
<1>7. LiveStored
  BY <1>5, <1>6 DEF Live, LiveStored
<1>8. BgTyped
  BY <1>3, <1>4, <1>5 DEF BgTyped, NoFile, Idle
<1>9. EditTyped /\ SeekFileCurrent /\ GroupTyped
  BY <1>3 DEF EditTyped, SeekFileCurrent, GroupTyped
<1>10. QED
  BY <1>1, <1>2, <1>7, <1>8, <1>9 DEF IInv

LEMMA InitIInv ==
  Init => IInv
<1> SUFFICES ASSUME Init
             PROVE  IInv
  OBVIOUS
<1>1. /\ tables = <<>> /\ logs = <<>> /\ phase = "down" /\ NoProcess /\ issued = 0
      /\ manifest = [version |-> NoFiles, log |-> 0, next |-> 2, seq |-> 0]
  BY DEF Init, InManifest
<1>2. DOMAIN tables = {} /\ DOMAIN logs = {} /\ FilesOf(manifest.version) = {}
  BY <1>1 DEF FilesOf, NoFiles
<1>3. DiskTyped
  BY <1>1, <1>2, FS_EmptySet DEF DiskTyped
<1>4. ManifestNumbered /\ \A f \in FilesOf(manifest.version) : Stored(f)
  BY <1>2 DEF ManifestNumbered
<1>5. QED
  BY <1>1, <1>3, <1>4, NoProcessKeeps

LEMMA CrashStep ==
  ASSUME IInv, NEW kind, Crash(kind)
  PROVE  IInv'
<1>1. /\ phase' = "down" /\ logs' \in Left(kind)
      /\ UNCHANGED <<tables, manifest, issued>>
      /\ NoProcess'
  BY DEF Crash, ProcessEnds, NoProcess
<1>2. DOMAIN logs' = DOMAIN logs /\ \A n \in DOMAIN logs : logs'[n] \in Log(LogEntry)
  <2>1. group # NoGroup => group.batch.rec \in Seq(LogEntry)
    BY GroupOpen
  <2>2. \A n \in DOMAIN logs : logs[n] \in Log(LogEntry)
    BY DEF IInv, DiskTyped
  <2>3. QED
    BY <1>1, <2>1, <2>2, LeftTyping
<1>3. DiskTyped'
  BY <1>1, <1>2 DEF IInv, DiskTyped
<1>4. ManifestNumbered'
  BY <1>1 DEF IInv, ManifestNumbered
<1>5. (\A f \in FilesOf(manifest.version) : Stored(f))'
  <2>1. \A f \in FilesOf(manifest.version) : Stored(f)
    BY DEF IInv, LiveStored, Live
  <2>2. FilesOf(manifest.version)' = FilesOf(manifest.version)
    BY <1>1 DEF FilesOf
  <2>3. QED
    BY <1>1, <2>1, <2>2 DEF Stored
<1>6. issued' \in Nat
  BY <1>1 DEF IInv, Scalars
<1>7. (phase = "down" /\ NoProcess /\ DiskTyped /\ ManifestNumbered /\ issued \in Nat
         /\ (\A f \in FilesOf(manifest.version) : Stored(f)))'
  BY <1>1, <1>3, <1>4, <1>5, <1>6
<1>8. QED
  BY <1>7, NoProcessKeeps, PTL

LEMMA StutterStep ==
  ASSUME IInv, UNCHANGED vars
  PROVE  IInv'
<1>1. UNCHANGED <<tables, logs, manifest, phase, memtables, mem, imm, current, logNumber, seekFile,
                  nextFile, lastSequence, pending, writers, group, snaps, readers, bg, edit,
                  scheduled, bgError, issued>>
  BY DEF vars, disk, mems, version, held, back, counts
<1>2. DiskTyped' /\ ManifestNumbered' /\ ManifestCurrent'
  BY <1>1, KeepDisk, KeepManifestCurrent DEF IInv, disk
<1>3. Numbered' /\ LogsKept'
  BY <1>1 DEF IInv, Numbered, LogsKept
<1>4. Live' = Live
  BY <1>1, SameLive
<1>5. LiveStored' /\ LiveNumbered'
  BY <1>1, <1>4 DEF IInv, LiveStored, LiveNumbered, Stored
<1>6. BgTyped' /\ EditTyped' /\ SeekFileCurrent' /\ GroupTyped' /\ WorkIsScheduled'
  BY <1>1, KeepBack, KeepSeek, KeepGroup, KeepWork DEF IInv, EditTyped, Added
<1>7. Phases' /\ Scalars'
  BY <1>1 DEF IInv, Phases, Scalars, NoProcess, Opening
<1>8. QED
  BY <1>2, <1>3, <1>5, <1>6, <1>7 DEF IInv

\* Every step of every thread keeps the invariant, and so does every crash.
LEMMA NextIInv ==
  IInv /\ [Next]_vars => IInv'
<1>1. ASSUME IInv, Next
      PROVE  IInv'
  <2>1. ASSUME NEW b \in Batches, NEW sync \in Syncs, Write(b, sync)
        PROVE  IInv'
    BY <1>1, <2>1, WriteStep
  <2>2. ASSUME NEW kind \in CrashKinds, Crash(kind)
        PROVE  IInv'
    BY <1>1, <2>2, CrashStep
  <2>3. OpenStep \/ WriterStep \/ BackgroundStep \/ ReaderStep => IInv'
    BY <1>1, OpenSteps, WriterSteps, BackgroundSteps, ReaderSteps
  <2>4. QED
    BY <1>1, <2>1, <2>2, <2>3 DEF Next
<1>2. QED
  BY <1>1, StutterStep

\* The invariant holds for every number of keys, writers, readers, levels and
\* faults, for every size of a block, a memtable and a table, and through every
\* crash.
THEOREM Invariant == Spec => []IInv
<1>1. Init => IInv
  BY InitIInv
<1>2. IInv /\ [Next]_vars => IInv'
  BY NextIInv
<1>3. QED
  BY <1>1, <1>2, PTL DEF Spec

\* No background thread works on a version, a table or an edit it does not hold:
\* what the thread is at agrees with what it has in hand (BackgroundCall,
\* CompactMemTable, DoCompactionWork), and bg_compaction_scheduled_ is set while it works.
THEOREM TypeCorrect == Spec => []TypeOK
<1>1. IInv => TypeOK
  <2> SUFFICES ASSUME IInv
               PROVE  TypeOK
    OBVIOUS
  <2>1. /\ phase \in {"down", "recovering", "committed", "open"}
        /\ DOMAIN tables \subseteq Nat /\ DOMAIN logs \subseteq Nat
        /\ lastSequence \in Nat /\ bgError \in BOOLEAN /\ (scheduled \/ bg = Idle)
        /\ bg.pc \in {"idle", "build", "compact", "manifest", "install"}
        /\ bg.pc = "compact" => bg.comp # {}
    BY DEF IInv, Phases, DiskTyped, Scalars, BgTyped
  <2>2. phase = "open" => {mem, imm} \ {NoFile} \subseteq DOMAIN memtables
    BY DEF IInv, Numbered, LogsKept
  <2>3. Outputs \subseteq Nat
    <3>1. CASE bg = Idle
      BY <3>1 DEF Outputs, Idle
    <3>2. CASE bg # Idle
      <4>1. phase = "open"
        BY <3>2 DEF IInv, Phases, NoProcess, Opening
      <4>2. \A f \in Live : f.num \in Nat
        BY <4>1 DEF IInv, LiveNumbered
      <4>3. \A n \in Outputs : \E f \in Live : n = f.num
        BY DEF Outputs, OutNumbers, Live, Merging
      <4>4. QED
        BY <4>2, <4>3
    <3>3. QED
      BY <3>1, <3>2
  <2>4. pending \subseteq Nat /\ ((bg.pc = "build") = (bg.out \in pending))
        /\ (bg.pc = "idle" => pending = {})
    <3>1. bg.out \in Nat /\ pending = Outputs \cup (IF bg.pc = "build" THEN {bg.out} ELSE {})
          /\ bg.out \notin Outputs
      BY DEF IInv, BgTyped
    <3>2. bg.pc = "idle" => Outputs = {}
      BY DEF IInv, BgTyped, Idle, Outputs
    <3>3. pending \subseteq Nat /\ (bg.pc = "idle" => pending = {})
      BY <2>3, <3>1, <3>2
    <3>4. (bg.pc = "build") = (bg.out \in pending)
      <4>1. CASE bg.pc = "build"
        BY <3>1, <4>1
      <4>2. CASE bg.pc # "build"
        <5>1. pending = Outputs
          BY <3>1, <4>2
        <5>2. QED
          BY <3>1, <4>2, <5>1
      <4>3. QED
        BY <4>1, <4>2
    <3>5. QED
      BY <3>3, <3>4
  <2>5. (edit = NoEdit) = (bg.pc \notin {"manifest", "install"} /\ phase \in {"down", "open"})
    <3>1. CASE phase = "down"
      <4>1. edit = NoEdit /\ bg.pc = "idle"
        BY <3>1 DEF IInv, Phases, NoProcess, Idle
      <4>2. QED
        BY <3>1, <4>1
    <3>2. CASE phase \in {"recovering", "committed"}
      BY <3>2, OpeningFacts
    <3>3. CASE phase = "open"
      BY <3>3 DEF IInv, EditTyped
    <3>4. QED
      BY <2>1, <3>1, <3>2, <3>3
  <2>6. QED
    BY <2>1, <2>2, <2>4, <2>5 DEF TypeOK
<1>2. QED
  BY <1>1, Invariant, PTL

\* While there is something to flush or to compact and no error, the background
\* thread has been asked for: MaybeScheduleCompaction is called wherever the
\* memtable, the version or the seeks of a file change.
THEOREM WorkScheduled == Spec => []WorkIsScheduled
<1>1. IInv => WorkIsScheduled
  BY DEF IInv
<1>2. QED
  BY <1>1, Invariant, PTL

\* DeleteObsoleteFiles never takes a table that the current version, a merge or
\* a reader goes to, nor the log of a memtable that is not on the disk yet.
THEOREM NeededKept == Spec => []NeededFilesExist
<1>1. IInv => NeededFilesExist
  <2> SUFFICES ASSUME IInv, phase = "open"
               PROVE  /\ \A f \in FilesOf(current) \cup Merging \cup Read :
                           f.num \in DOMAIN tables /\ tables[f.num] = f.ents
                      /\ {mem, imm} \ {NoFile} \subseteq DOMAIN logs
    BY DEF NeededFilesExist, Merging, Read
  <2>1. \A f \in FilesOf(current) \cup Merging \cup Read : Stored(f)
    BY DEF IInv, LiveStored, Live
  <2>2. {mem, imm} \ {NoFile} \subseteq DOMAIN logs
    BY DEF IInv, Numbered, LogsKept
  <2>3. QED
    BY <2>1, <2>2 DEF Stored
<1>2. QED
  BY <1>1, Invariant, PTL

\* A crash at any moment, a write of MANIFEST that failed included, leaves a
\* disk that DB::Open takes: every table that MANIFEST names is there with its
\* entries.
THEOREM DiskRecoverable == Spec => []DiskIsRecoverable
<1>1. IInv => DiskIsRecoverable
  BY DEF IInv, LiveStored, Live, Stored, DiskIsRecoverable
<1>2. QED
  BY <1>1, Invariant, PTL

-----------------------------------------------------------------------------
(* Entries that each have a sequence number of their own.                  *)

Distinct(U) == \A d, e \in U : d.seq = e.seq => d = e

UpTo(S, b) == \A e \in S : e.seq <= b

LEMMA BeforeOrder ==
  ASSUME NEW U \in SUBSET LogEntry, Distinct(U)
  PROVE  /\ \A d, e \in U : d = e \/ Before(d, e) \/ Before(e, d)
         /\ \A d, e \in U : ~(Before(d, e) /\ Before(e, d))
         /\ \A c, d, e \in U : Before(c, d) /\ Before(d, e) => Before(c, e)
<1>1. \A e \in U : e.key \in Nat /\ e.seq \in Nat
  BY DBAssumption DEF LogEntry
<1>2. \A d, e \in U : d = e \/ Before(d, e) \/ Before(e, d)
  BY <1>1 DEF Before, Distinct
<1>3. \A d, e \in U : ~(Before(d, e) /\ Before(e, d))
  BY <1>1 DEF Before
<1>4. \A c, d, e \in U : Before(c, d) /\ Before(d, e) => Before(c, e)
  BY <1>1 DEF Before
<1>5. QED
  BY <1>2, <1>3, <1>4

\* The keys and the sequence numbers of finitely many entries are finitely many.
LEMMA FieldsFinite ==
  ASSUME NEW S, IsFiniteSet(S)
  PROVE  IsFiniteSet({e.key : e \in S}) /\ IsFiniteSet({e.seq : e \in S})
<1> DEFINE K == {e.key : e \in S}
           Q == {e.seq : e \in S}
<1>1. [e \in S |-> e.key] \in Surjection(S, K)
  BY DEF Surjection
<1>2. [e \in S |-> e.seq] \in Surjection(S, Q)
  BY DEF Surjection
<1> HIDE DEF K, Q
<1>3. IsFiniteSet(K) /\ IsFiniteSet(Q)
  BY <1>1, <1>2, FS_Surjection
<1>4. QED
  BY <1>3 DEF K, Q

\* As many as there are entries, when no two have one number.
LEMMA NumbersCounted ==
  ASSUME NEW S, IsFiniteSet(S), Distinct(S)
  PROVE  Cardinality(S) = Cardinality({e.seq : e \in S})
<1> DEFINE Q == {e.seq : e \in S}
           f == [e \in S |-> e.seq]
<1>1. f \in Surjection(S, Q)
  BY DEF Surjection
<1>2. f \in Injection(S, Q)
  BY DEF Injection, IsInjective, Distinct
<1> HIDE DEF Q, f
<1>3. Cardinality(Q) = Cardinality(S)
  BY <1>1, <1>2, FS_Surjection
<1>4. QED
  BY <1>3 DEF Q

\* A finite set of them has a first one and a last one.
LEMMA FirstExists ==
  ASSUME NEW S \in SUBSET LogEntry, Distinct(S), IsFiniteSet(S), S # {}
  PROVE  \E e \in S : \A d \in S \ {e} : Before(e, d)
<1> DEFINE K == {e.key : e \in S}
<1>1. \A e \in S : e.key \in Nat /\ e.seq \in Nat
  BY DBAssumption DEF LogEntry
<1>2. PICK k \in K : \A j \in K : k <= j
  <2>1. K \in SUBSET Nat /\ K # {}
    BY <1>1
  <2> HIDE DEF K
  <2>2. QED
    BY <2>1, LeastElement
<1> DEFINE T == {e \in S : e.key = k}
           Q == {e.seq : e \in T}
<1>3. Max(Q) \in Q /\ \A q \in Q : Max(Q) >= q
  <2>1. Q \in SUBSET Nat /\ Q # {}
    BY <1>1, <1>2
  <2>2. IsFiniteSet(Q)
    <3>1. IsFiniteSet(T)
      BY FS_Subset
    <3> HIDE DEF T
    <3>2. QED
      BY <3>1, FieldsFinite
  <2> HIDE DEF Q
  <2>3. QED
    BY <2>1, <2>2, MaxFinite
<1>4. PICK e \in T : e.seq = Max(Q)
  BY <1>3
<1>5. \A d \in T : d.seq <= e.seq
  BY <1>1, <1>3, <1>4
<1>6. ASSUME NEW d \in S \ {e}
      PROVE  Before(e, d)
  <2>1. k <= d.key /\ e.key = k
    BY <1>2, <1>4
  <2>2. CASE d.key = k
    <3>1. d.seq <= e.seq /\ d.seq # e.seq
      BY <1>5, <1>6, <2>2 DEF Distinct
    <3>2. QED
      BY <1>1, <2>1, <2>2, <3>1 DEF Before
  <2>3. CASE d.key # k
    BY <1>1, <2>1, <2>3 DEF Before
  <2>4. QED
    BY <2>2, <2>3
<1>7. QED
  BY <1>4, <1>6

LEMMA LastExists ==
  ASSUME NEW S \in SUBSET LogEntry, Distinct(S), IsFiniteSet(S), S # {}
  PROVE  LastEntry(S) \in S
<1> DEFINE K == {e.key : e \in S}
<1>1. \A e \in S : e.key \in Nat /\ e.seq \in Nat
  BY DBAssumption DEF LogEntry
<1>2. Max(K) \in K /\ \A j \in K : Max(K) >= j
  <2>1. K \in SUBSET Nat /\ K # {}
    BY <1>1
  <2>2. IsFiniteSet(K)
    BY FieldsFinite
  <2> HIDE DEF K
  <2>3. QED
    BY <2>1, <2>2, MaxFinite
<1> DEFINE T == {e \in S : e.key = Max(K)}
           Q == {e.seq : e \in T}
<1>3. PICK q \in Q : \A r \in Q : q <= r
  <2>1. Q \in SUBSET Nat /\ Q # {}
    BY <1>1, <1>2
  <2> HIDE DEF Q
  <2>2. QED
    BY <2>1, LeastElement
<1>4. PICK e \in T : e.seq = q
  BY <1>3
<1>5. \A d \in T : e.seq <= d.seq
  BY <1>3, <1>4
<1>6. ASSUME NEW d \in S \ {e}
      PROVE  Before(d, e)
  <2>1. d.key <= Max(K) /\ e.key = Max(K) /\ Max(K) \in Nat
    BY <1>1, <1>2, <1>4
  <2>2. CASE d.key = Max(K)
    <3>1. e.seq <= d.seq /\ d.seq # e.seq
      BY <1>5, <1>6, <2>2 DEF Distinct
    <3>2. QED
      BY <1>1, <2>1, <2>2, <3>1 DEF Before
  <2>3. CASE d.key # Max(K)
    BY <1>1, <2>1, <2>3 DEF Before
  <2>4. QED
    BY <2>2, <2>3
<1>7. \E x \in S : \A d \in S \ {x} : Before(d, x)
  BY <1>4, <1>6
<1>8. QED
  BY <1>7 DEF LastEntry

\* They can be put in the order of their keys.
LEMMA MergedTyping ==
  ASSUME NEW S \in SUBSET LogEntry, Distinct(S), IsFiniteSet(S)
  PROVE  Merged(S) \in Seq(S)
<1> DEFINE Below(x) == {y \in S : Before(y, x)}
           Rank(x) == Cardinality(Below(x))
<1>0. /\ Cardinality(S) \in Nat
      /\ \A x \in S : IsFiniteSet(Below(x)) /\ Rank(x) \in Nat
  <2>1. \A x \in S : Below(x) \in SUBSET S
    OBVIOUS
  <2> HIDE DEF Below
  <2>2. QED
    BY <2>1, FS_CardinalityType, FS_Subset
<1>1. ASSUME 0 < Cardinality(S)
      PROVE  \E x \in S : Rank(x) = 0
  <2>1. S # {}
    BY <1>1, FS_EmptySet
  <2>2. PICK x \in S : \A y \in S \ {x} : Before(x, y)
    BY <2>1, FirstExists
  <2>3. \A y \in S : ~Before(y, x)
    BY <2>2, BeforeOrder
  <2>4. Below(x) = {}
    BY <2>3
  <2>5. QED
    BY <2>4, FS_EmptySet
<1>2. ASSUME NEW x \in S, Rank(x) + 1 < Cardinality(S)
      PROVE  \E z \in S : Rank(z) = Rank(x) + 1
  <2>0. ~Before(x, x)
    BY BeforeOrder
  <2>1. Cardinality(Below(x) \cup {x}) = Rank(x) + 1
    <3>1. x \notin Below(x)
      BY <2>0
    <3> HIDE DEF Below
    <3>2. QED
      BY <1>0, <3>1, FS_AddElement
  <2> DEFINE Above == {y \in S : Before(x, y)}
  <2>2. Above # {}
    <3> SUFFICES ASSUME Above = {} PROVE FALSE
      OBVIOUS
    <3>1. \A y \in S : Before(y, x) \/ y = x
      BY BeforeOrder
    <3>2. S = Below(x) \cup {x}
      BY <3>1
    <3> HIDE DEF Below
    <3>3. Cardinality(S) = Rank(x) + 1
      BY <2>1, <3>2
    <3>4. QED
      BY <1>0, <1>2, <3>3
  <2>3. PICK z \in Above : \A y \in Above \ {z} : Before(z, y)
    <3>1. Above \in SUBSET LogEntry /\ Distinct(Above)
      BY DEF Distinct
    <3>2. IsFiniteSet(Above)
      BY FS_Subset
    <3> HIDE DEF Above
    <3>3. QED
      BY <2>2, <3>1, <3>2, FirstExists
  <2>4. ASSUME NEW y \in S
        PROVE  Before(y, z) <=> Before(y, x) \/ y = x
    <3>1. z \in S /\ Before(x, z)
      BY <2>3
    <3>2. Before(y, x) \/ y = x => Before(y, z)
      BY <3>1, BeforeOrder
    <3>3. ASSUME Before(x, y)
          PROVE  ~Before(y, z)
      <4>1. y = z \/ Before(z, y)
        BY <2>3, <3>3
      <4>2. QED
        BY <3>1, <4>1, BeforeOrder
    <3>4. y = x \/ Before(y, x) \/ Before(x, y)
      BY BeforeOrder
    <3>5. QED
      BY <3>2, <3>3, <3>4
  <2>5. Below(z) = Below(x) \cup {x}
    BY <2>3, <2>4
  <2>6. QED
    BY <2>1, <2>3, <2>5
<1> HIDE DEF Rank
<1> DEFINE P == {k \in Nat : k < Cardinality(S) => \E x \in S : Rank(x) = k}
<1>3. P = Nat
  <2>1. 0 \in P
    BY <1>1
  <2>2. ASSUME NEW k \in P
        PROVE  k + 1 \in P
    BY <1>0, <1>2
  <2>3. P \in SUBSET Nat
    OBVIOUS
  <2> HIDE DEF P
  <2>4. QED
    BY <2>1, <2>2, <2>3, Induct
<1>4. ASSUME NEW i \in 1 .. Cardinality(S)
      PROVE  (CHOOSE x \in S : Rank(x) = i - 1) \in S
  <2>1. i - 1 \in P /\ i - 1 < Cardinality(S)
    BY <1>0, <1>3
  <2>2. QED
    BY <2>1
<1>5. Merged(S) =
        [i \in 1 .. Cardinality(S) |-> CHOOSE x \in S : Rank(x) = i - 1]
  BY DEF Merged, InOrder, Rank
<1> DEFINE order == Merged(S)
<1> HIDE DEF order, Below, P
<1>6. order \in [1 .. Cardinality(S) -> S]
  BY <1>4, <1>5 DEF order
<1>7. order \in Seq(S)
  BY <1>0, <1>6
<1>8. QED
  BY <1>7 DEF order
-----------------------------------------------------------------------------
(* The tables that a merge writes hold entries of its inputs, each of them some. *)

NonEmpty(S) == (SUBSET S) \ {{}}

Cutting(S, st) == st.outs \in Seq(NonEmpty(S)) /\ (st.open => st.outs # <<>>)

LEMMA MergeEntryTyping ==
  ASSUME NEW c, NEW snapshot, NEW S, NEW e \in S, NEW st, Cutting(S, st)
  PROVE  Cutting(S, MergeEntry(c, snapshot, st, e))
<1> DEFINE bytes == st.bytes + Size(UNION {Passed(c, d, e) : d \in st.last})
           stop  == bytes > GrandparentLimit
           open  == st.open /\ ~stop
           outs  == IF Dropped(c, snapshot, e) THEN st.outs
                    ELSE IF open THEN Append(Front(st.outs), Last(st.outs) \cup {e})
                    ELSE Append(st.outs, {e})
           more  == IF Dropped(c, snapshot, e) THEN open
                    ELSE Cardinality(Last(outs)) < MaxFileSize
           rest  == IF stop THEN 0 ELSE bytes
<1>1. MergeEntry(c, snapshot, st, e) = [outs |-> outs, open |-> more, last |-> {e}, bytes |-> rest]
  BY Zenon DEF MergeEntry
<1>2. st.outs \in Seq(NonEmpty(S)) /\ (st.open => st.outs # <<>>)
  BY DEF Cutting
<1>3. open => st.open
  OBVIOUS
<1> HIDE DEF bytes, stop, open, rest
<1>4. CASE Dropped(c, snapshot, e)
  <2>1. outs = st.outs /\ more = open
    BY <1>4
  <2> HIDE DEF outs, more
  <2>2. QED
    BY <1>1, <1>2, <1>3, <2>1 DEF Cutting
<1>5. CASE ~Dropped(c, snapshot, e)
  <2>1. {e} \in NonEmpty(S)
    BY DEF NonEmpty
  <2>2. CASE open
    <3>1. outs = Append(Front(st.outs), Last(st.outs) \cup {e})
      BY <1>5, <2>2
    <3> DEFINE n == Len(st.outs)
    <3>2. n \in Nat \ {0} /\ \A i \in 1 .. n : st.outs[i] \in NonEmpty(S)
      BY <1>2, <1>3, <2>2, EmptySeq, LenProperties
    <3>3. Front(st.outs) = SubSeq(st.outs, 1, n - 1) /\ Last(st.outs) = st.outs[n]
      BY DEF Front, Last
    <3>4. Front(st.outs) \in Seq(NonEmpty(S))
      BY <1>2, <3>2, <3>3, SubSeqProperties
    <3>5. Last(st.outs) \cup {e} \in NonEmpty(S)
      BY <3>2, <3>3 DEF NonEmpty
    <3>6. outs \in Seq(NonEmpty(S)) /\ outs # <<>>
      <4> DEFINE a == Front(st.outs)
                 b == Last(st.outs) \cup {e}
      <4>1. a \in Seq(NonEmpty(S)) /\ b \in NonEmpty(S) /\ outs = Append(a, b)
        BY <3>1, <3>4, <3>5
      <4> HIDE DEF a, b, outs
      <4>2. QED
        BY <4>1, AppendProperties
    <3> HIDE DEF outs, more
    <3>7. QED
      BY <1>1, <3>6 DEF Cutting
  <2>3. CASE ~open
    <3>1. outs = Append(st.outs, {e})
      BY <1>5, <2>3
    <3> HIDE DEF outs, more
    <3>2. outs \in Seq(NonEmpty(S)) /\ outs # <<>>
      BY <1>2, <2>1, <3>1, AppendProperties
    <3>3. QED
      BY <1>1, <3>2 DEF Cutting
  <2>4. QED
    BY <2>2, <2>3
<1>6. QED
  BY <1>4, <1>5

LEMMA OutputsTyping ==
  ASSUME NEW c, NEW snapshot,
         Merged(AllEntries(c.in0 \cup c.in1)) \in Seq(AllEntries(c.in0 \cup c.in1))
  PROVE  CompactionOutputs(c, snapshot) \in Seq(NonEmpty(AllEntries(c.in0 \cup c.in1)))
<1> DEFINE S == AllEntries(c.in0 \cup c.in1)
           s == Merged(S)
           base == [outs |-> <<>>, open |-> FALSE, last |-> {}, bytes |-> 0]
           Op(x, e) == MergeEntry(c, snapshot, x, e)
           Goes(st, n) == st = [i \in 0 .. n |->
                            IF i = 0 THEN base
                            ELSE CHOOSE y \in {Op(x, s[i]) : x \in {st[i - 1]}} : TRUE]
           f == CHOOSE st : Goes(st, Len(s))
<1>1. Len(s) \in Nat /\ \A i \in 1 .. Len(s) : s[i] \in S
  BY LenProperties
<1>2. CompactionOutputs(c, snapshot) = f[Len(s)].outs
  <2> DEFINE r == FoldSteps(LAMBDA st, e : MergeEntry(c, snapshot, st, e), base, s)
  <2>1. r = f[Len(s)]
    BY DEF FoldSteps
  <2>2. CompactionOutputs(c, snapshot) = r.outs
    BY Zenon DEF CompactionOutputs
  <2> HIDE DEF r, f
  <2>3. QED
    BY <2>1, <2>2
<1>3. Cutting(S, base)
  BY EmptySeq DEF Cutting
<1>4. \A x : \A e \in S : Cutting(S, x) => Cutting(S, Op(x, e))
  BY MergeEntryTyping
<1> HIDE DEF S, s, base, Op
<1> DEFINE Run(g, k) == /\ DOMAIN g = 0 .. k /\ g = [i \in 0 .. k |-> g[i]] /\ g[0] = base
                        /\ \A i \in 1 .. k : g[i] = Op(g[i - 1], s[i])
           P == {k \in 0 .. Len(s) : \E g : Run(g, k)}
<1>5. \A k \in 0 .. Len(s) : k \in P
  <2>1. 0 \in P
    <3>1. Run([i \in 0 .. 0 |-> base], 0)
      OBVIOUS
    <3> HIDE DEF Run
    <3>2. QED
      BY <1>1, <3>1
  <2>2. ASSUME NEW k \in 0 .. Len(s) - 1, k \in P
        PROVE  k + 1 \in P
    <3>1. PICK g : Run(g, k)
      BY <2>2
    <3> DEFINE h == [i \in 0 .. k + 1 |-> IF i = k + 1 THEN Op(g[k], s[k + 1]) ELSE g[i]]
    <3>2. DOMAIN h = 0 .. k + 1 /\ h[0] = base /\ h = [i \in 0 .. k + 1 |-> h[i]]
      BY <3>1
    <3>3. ASSUME NEW i \in 1 .. k + 1
          PROVE  h[i] = Op(h[i - 1], s[i])
      <4>1. CASE i = k + 1
        BY <4>1
      <4>2. CASE i # k + 1
        <5>1. h[i] = g[i] /\ h[i - 1] = g[i - 1] /\ i \in 1 .. k
          BY <4>2
        <5>2. QED
          BY <3>1, <5>1
      <4>3. QED
        BY <4>1, <4>2
    <3>4. Run(h, k + 1)
      BY <3>2, <3>3
    <3> HIDE DEF Run, h
    <3>5. k + 1 \in 0 .. Len(s)
      BY <1>1
    <3>6. QED
      BY <3>4, <3>5
  <2> HIDE DEF P
  <2>3. QED
    BY <1>1, <2>1, <2>2, InductTo
<1>6. PICK g : Run(g, Len(s))
  <2> HIDE DEF Run
  <2>1. Len(s) \in P
    BY <1>1, <1>5
  <2>2. QED
    BY <2>1
<1>7. Goes(g, Len(s))
  <2>1. ASSUME NEW i \in 1 .. Len(s)
        PROVE  g[i] = CHOOSE y \in {Op(x, s[i]) : x \in {g[i - 1]}} : TRUE
    BY <1>6
  <2> DEFINE Next1(i) == IF i = 0 THEN base
                         ELSE CHOOSE y \in {Op(x, s[i]) : x \in {g[i - 1]}} : TRUE
  <2>2. \A i \in 0 .. Len(s) : g[i] = Next1(i)
    BY <1>1, <1>6, <2>1
  <2> HIDE DEF Next1
  <2>3. g = [i \in 0 .. Len(s) |-> Next1(i)]
    BY <1>6, <2>2
  <2>4. QED
    BY <2>3 DEF Next1
<1>8. Goes(f, Len(s))
  <2> HIDE DEF Goes
  <2>1. QED
    BY <1>7
<1> HIDE DEF f
<1>9. f[0] = base /\ \A i \in 1 .. Len(s) : f[i] = Op(f[i - 1], s[i])
  BY <1>1, <1>8
<1> HIDE DEF Goes, P, Run
<1> DEFINE T == {i \in 0 .. Len(s) : Cutting(S, f[i])}
<1>10. \A i \in 0 .. Len(s) : i \in T
  <2>1. 0 \in T
    BY <1>1, <1>3, <1>9
  <2>2. \A i \in 0 .. Len(s) - 1 : i \in T => i + 1 \in T
    BY <1>1, <1>4, <1>9
  <2> HIDE DEF T
  <2>3. QED
    BY <1>1, <2>1, <2>2, InductTo
<1>11. Cutting(S, f[Len(s)])
  BY <1>1, <1>10
<1>12. CompactionOutputs(c, snapshot) \in Seq(NonEmpty(S))
  BY <1>2, <1>11 DEF Cutting
<1>13. QED
  BY <1>12 DEF S

-----------------------------------------------------------------------------
(* The file a read charges is not of the last level.                       *)

\* Of a level above 0 a search reads one file at most.
LEMMA OneFileFound ==
  ASSUME NEW files, NEW key, NEW seq, \A f \in files : LastEntry(f.ents) \in LogEntry,
         NEW f \in FindFile(files, key, seq), NEW g \in FindFile(files, key, seq)
  PROVE  f = g
<1> SUFFICES ASSUME f # g PROVE FALSE
  OBVIOUS
<1> DEFINE a == LastEntry(f.ents)
           b == LastEntry(g.ents)
<1>1. f \in files /\ g \in files /\ Before(a, b) /\ Before(b, a)
  BY DEF FindFile
<1>2. a.key \in Nat /\ a.seq \in Nat /\ b.key \in Nat /\ b.seq \in Nat
  BY <1>1, DBAssumption DEF LogEntry
<1> HIDE DEF a, b
<1>3. QED
  BY <1>1, <1>2 DEF Before

LEMMA ChargedHasNext ==
  ASSUME NEW v, NEW key, NEW seq, \A f \in FilesOf(v) : LastEntry(f.ents) \in LogEntry,
         NEW files \in SUBSET FilesToSearch(v, key, seq), Cardinality(files) >= 2,
         NEW a \in FirstOf(files)
  PROVE  a.level + 1 \in Levels
<1> DEFINE InLevel(l) == IF l = 0 THEN {f \in v[0] : Covers(f, key)}
                         ELSE {f \in FindFile(v[l], key, seq) : MinKey(f.ents) <= key}
<1>1. FilesToSearch(v, key, seq) = UNION {{[level |-> l, file |-> f] : f \in InLevel(l)} : l \in Levels}
  BY DEF FilesToSearch
<1>2. ASSUME NEW l \in Levels, l # 0, NEW f \in InLevel(l), NEW g \in InLevel(l)
      PROVE  f = g
  <2>1. \A h \in v[l] : LastEntry(h.ents) \in LogEntry
    BY DEF FilesOf
  <2>2. f \in FindFile(v[l], key, seq) /\ g \in FindFile(v[l], key, seq)
    BY <1>2
  <2>3. QED
    BY <2>1, <2>2, OneFileFound
<1>3. \A b \in files : b = [level |-> b.level, file |-> b.file] /\ b.level \in Levels
                        /\ b.file \in InLevel(b.level)
  <2> HIDE DEF InLevel
  <2>1. QED
    BY <1>1
<1> HIDE DEF InLevel
<1>4. a \in files
  BY DEF FirstOf
<1>5. PICK b \in files : b # a
  <2>1. files # {a}
    <3>1. Cardinality({a}) = 1
      BY FS_Singleton
    <3>2. QED
      BY <3>1
  <2>2. QED
    BY <1>4, <2>1
<1>6. a.level < b.level \/ a.level = b.level
  BY <1>5 DEF FirstOf, Earlier
<1>7. NumLevels \in Nat \ {0, 1} /\ a.level \in Levels /\ b.level \in Levels
  BY <1>3, <1>4, VersionAssumption
<1>8. CASE a.level < b.level
  BY <1>7, <1>8 DEF Levels
<1>9. CASE a.level = b.level /\ a.level # 0
  <2>1. a.level \in Levels /\ a.file \in InLevel(a.level) /\ b.file \in InLevel(a.level)
    BY <1>3, <1>4, <1>5, <1>9
  <2>2. a.file = b.file
    BY <1>2, <1>9, <2>1
  <2>3. QED
    BY <1>3, <1>4, <1>5, <1>9, <2>2
<1>10. CASE a.level = b.level /\ a.level = 0
  BY <1>7, <1>10 DEF Levels
<1>11. QED
  BY <1>6, <1>8, <1>9, <1>10

-----------------------------------------------------------------------------
(* Where the entries of the store are.                                     *)

\* The entries of the group being written, and of the memtable it goes to.
Group == IF group = NoGroup THEN {} ELSE ToSet(group.batch.rec)

NewMem == IF phase = "down" THEN {} ELSE memtables[mem]

\* What a merge has written, and what it will write.
Written == UNION {c.outs : c \in bg.comp}
ToWrite == UNION {ToSet(c.todo) : c \in bg.comp}

Frozen == IF imm = NoFile THEN {} ELSE {memtables[imm]}

\* The tables of a version, of an edit and of a merge, and the memtable to flush.
Tables ==
  {f.ents : f \in FilesOf(manifest.version) \cup FilesOf(current) \cup Added \cup Written}
    \cup ToWrite \cup Frozen

\* Every entry there is, or that a log may give back, is of U, where no two have
\* one number.
Known(U) ==
  /\ IsFiniteSet(U) /\ Distinct(U)
  /\ LogsIn(U) /\ NewMem \subseteq U /\ Group \subseteq U
  /\ \A T \in Tables : T \subseteq U
  /\ phase = "open" => UpTo(U \ Group, lastSequence)

EntriesKnown == \E U \in SUBSET LogEntry : Known(U)

TablesSettled ==
  \A T \in Tables : T # {} /\ (phase # "down" => UpTo(T, lastSequence))

\* What MANIFEST says of numbers covers the tables it names, and that of an edit
\* those it will name; an edit never goes back to an older log.
ManifestSettled == UpTo(AllEntries(FilesOf(manifest.version)), manifest.seq)

EditSettled ==
  edit # NoEdit => /\ manifest.log <= edit.log
                   /\ UpTo(AllEntries(FilesOf(manifest.version) \cup Added), edit.seq)

\* A compaction under way began when MANIFEST was no further than the log number.
LogsForward ==
  phase = "open" => \/ manifest.log <= logNumber
                    \/ bg.pc = "install"
                    \/ bgError /\ bg.pc = "idle"

GroupNumbered ==
  group # NoGroup =>
    \A j \in DOMAIN group.batch.rec : group.batch.rec[j].seq = lastSequence + j

\* While the store is opened there is a new memtable, and its log is the last one.
OpeningClean ==
  /\ phase \in {"recovering", "committed"} =>
       memtables[mem] = {} /\ logs[mem] = NewLog /\ \A n \in DOMAIN logs : n <= mem
  /\ phase = "committed" => manifest.log = mem

\* The two memtables are not the same one.
MemtablesApart == NoFile \notin DOMAIN memtables /\ (phase = "open" => mem # imm)

MergesTyped == \A c \in bg.comp : c.todo \in Seq(SUBSET LogEntry)

SInv ==
  /\ EntriesKnown /\ TablesSettled /\ ManifestSettled /\ EditSettled
  /\ LogsForward /\ GroupNumbered /\ OpeningClean /\ MemtablesApart /\ MergesTyped
  /\ SeekFileHasNextLevel

\* A step that makes no new entry: what it writes was there.
LEMMA QuietStep ==
  ASSUME IInv, SInv, IInv', phase = "open", UNCHANGED <<phase, lastSequence, group>>,
         NewMem' = NewMem, \A T \in Tables' : T # {} /\ T \subseteq UNION Tables,
         manifest.log <= manifest'.log,
         \A n \in DOMAIN logs' : n \in DOMAIN logs /\ logs'[n] = logs[n],
         ManifestSettled', EditSettled', LogsForward', MemtablesApart', MergesTyped',
         SeekFileHasNextLevel'
  PROVE  SInv'
<1>1. PICK U \in SUBSET LogEntry : Known(U)
  BY DEF SInv, EntriesKnown
<1>2. \A e \in UNION Tables : e \in U /\ e.seq <= lastSequence
  BY <1>1 DEF Known, SInv, TablesSettled, UpTo
<1>3. LogsIn(U)'
  <2>1. manifest.log \in Nat /\ manifest'.log \in Nat /\ DOMAIN logs' \subseteq Nat
    BY DEF IInv, DiskTyped
  <2>2. ASSUME NEW n \in DOMAIN logs', n >= manifest'.log
        PROVE  logs'[n] \in Log(U)
    <3>1. n \in DOMAIN logs /\ logs'[n] = logs[n] /\ n >= manifest.log
      BY <2>1, <2>2
    <3>2. QED
      BY <1>1, <3>1 DEF Known, LogsIn
  <2>3. QED
    BY <2>2 DEF LogsIn
<1>4. Group' = Group
  BY DEF Group
<1>5. Known(U)'
  <2>1. \A T \in Tables' : T \subseteq U
    BY <1>2
  <2>2. QED
    BY <1>1, <1>3, <1>4, <2>1 DEF Known
<1>6. TablesSettled'
  BY <1>2 DEF TablesSettled, UpTo
<1>7. GroupNumbered' /\ OpeningClean'
  BY DEF SInv, GroupNumbered, OpeningClean
<1>8. QED
  BY <1>5, <1>6, <1>7 DEF SInv, EntriesKnown

LEMMA TablesKept ==
  ASSUME SInv, UNCHANGED <<phase, manifest, current, edit, bg, imm, logNumber>>,
         bgError => bgError', imm # NoFile => memtables'[imm] = memtables[imm]
  PROVE  Tables' = Tables /\ ManifestSettled' /\ EditSettled' /\ LogsForward' /\ MergesTyped'
<1>1. /\ FilesOf(manifest.version)' = FilesOf(manifest.version)
      /\ FilesOf(current)' = FilesOf(current)
  OBVIOUS
<1>2. Added' = Added /\ Written' = Written /\ ToWrite' = ToWrite
  BY DEF Added, Written, ToWrite
<1>3. Frozen' = Frozen
  BY DEF Frozen
<1>4. Tables' = Tables
  BY <1>1, <1>2, <1>3 DEF Tables
<1>5. ManifestSettled' /\ EditSettled'
  BY <1>1, <1>2 DEF SInv, ManifestSettled, EditSettled
<1>6. LogsForward' /\ MergesTyped'
  BY DEF SInv, LogsForward, MergesTyped
<1>7. QED
  BY <1>4, <1>5, <1>6

\* A step that leaves the tables and the logs alone.
LEMMA SameTablesStep ==
  ASSUME IInv, SInv, IInv', phase = "open",
         UNCHANGED <<phase, lastSequence, group, manifest, current, edit, bg, mem, imm, logNumber,
                     logs>>,
         bgError => bgError', memtables'[mem] = memtables[mem],
         imm # NoFile => memtables'[imm] = memtables[imm],
         MemtablesApart', SeekFileHasNextLevel'
  PROVE  SInv'
<1>1. NewMem' = NewMem
  BY DEF NewMem
<1>2. Tables' = Tables /\ ManifestSettled' /\ EditSettled' /\ LogsForward' /\ MergesTyped'
  BY TablesKept
<1>3. \A T \in Tables' : T # {} /\ T \subseteq UNION Tables
  BY <1>2 DEF SInv, TablesSettled
<1>4. manifest.log <= manifest'.log
  BY DEF IInv, DiskTyped
<1>5. QED
  BY <1>1, <1>2, <1>3, <1>4, QuietStep

\* Entries of the tables, and the last of those of one.
LEMMA EntriesOfTables ==
  ASSUME SInv, NEW S, S \subseteq UNION Tables
  PROVE  IsFiniteSet(S) /\ Distinct(S) /\ S \in SUBSET LogEntry
<1>1. PICK U \in SUBSET LogEntry : Known(U)
  BY DEF SInv, EntriesKnown
<1>2. S \subseteq U /\ IsFiniteSet(U) /\ Distinct(U)
  BY <1>1 DEF Known
<1>3. QED
  BY <1>2, FS_Subset DEF Distinct

LEMMA TableEnds ==
  ASSUME SInv, NEW T, T # {}, T \subseteq UNION Tables
  PROVE  LastEntry(T) \in LogEntry
BY EntriesOfTables, LastExists

LEMMA ChargeSettled ==
  ASSUME SInv, NEW key, NEW seq, NEW files \in SUBSET FilesToSearch(current, key, seq),
         UsesUpSeeks(files)
  PROVE  SeekFileHasNextLevel'
<1>1. Cardinality(files) >= 2 /\ seekFile' = FirstOf(files)
  BY DEF UsesUpSeeks
<1>2. \A f \in FilesOf(current) : LastEntry(f.ents) \in LogEntry
  <2> SUFFICES ASSUME NEW f \in FilesOf(current) PROVE LastEntry(f.ents) \in LogEntry
    OBVIOUS
  <2>1. f.ents \in Tables
    BY DEF Tables
  <2>2. f.ents # {} /\ f.ents \subseteq UNION Tables
    BY <2>1 DEF SInv, TablesSettled
  <2>3. QED
    BY <2>2, TableEnds
<1>3. \A a \in FirstOf(files) : a.level + 1 \in Levels
  BY <1>1, <1>2, ChargedHasNext
<1>4. QED
  BY <1>1, <1>3 DEF SeekFileHasNextLevel

LEMMA EndReadSettled ==
  ASSUME IInv, SInv, IInv', NEW r \in Readers, EndRead(r)
  PROVE  SInv'
<1>1. /\ r \in DOMAIN readers
      /\ memtables' = Referred({mem, imm} \cup HeldMemtables(readers'))
      /\ UNCHANGED <<logs, manifest, phase, mem, imm, current, logNumber, lastSequence, group,
                     bg, edit, bgError>>
  BY DEF EndRead, disk
<1>2. phase = "open"
  <2>1. readers # <<>>
    BY <1>1
  <2>2. QED
    BY <2>1 DEF IInv, Phases, NoProcess, Opening
<1>3. /\ mem \in DOMAIN memtables /\ (imm # NoFile => imm \in DOMAIN memtables)
      /\ NoFile \notin DOMAIN memtables /\ mem # imm
  BY <1>2 DEF IInv, SInv, Numbered, LogsKept, MemtablesApart
<1>4. /\ memtables'[mem] = memtables[mem]
      /\ imm # NoFile => memtables'[imm] = memtables[imm]
      /\ MemtablesApart'
  BY <1>1, <1>3 DEF Referred, Restrict, MemtablesApart
<1>5. SeekFileHasNextLevel'
  <2> DEFINE rd == readers[r]
  <2>1. CASE UNCHANGED seekFile
    BY <2>1 DEF SInv, SeekFileHasNextLevel
  <2>2. CASE \E key \in Keys : rd.version = current /\ UsesUpSeeks(FilesRead(rd.version, key, rd.seq))
    <3>1. PICK key \in Keys : UsesUpSeeks(FilesRead(current, key, rd.seq))
      BY <2>2
    <3>2. FilesRead(current, key, rd.seq) \in SUBSET FilesToSearch(current, key, rd.seq)
      BY DEF FilesRead
    <3> HIDE DEF rd
    <3>3. QED
      BY <3>1, <3>2, ChargeSettled
  <2>3. QED
    BY <2>1, <2>2 DEF EndRead
<1>6. QED
  BY <1>1, <1>2, <1>4, <1>5, SameTablesStep

LEMMA RecordReadSampleSettled ==
  ASSUME IInv, SInv, IInv', NEW r \in Readers, RecordReadSample(r)
  PROVE  SInv'
<1>1. /\ r \in DOMAIN readers
      /\ UNCHANGED <<logs, manifest, phase, memtables, mem, imm, current, logNumber, lastSequence,
                     group, bg, edit, bgError>>
  BY DEF RecordReadSample, disk, mems
<1>2. phase = "open"
  <2>1. readers # <<>>
    BY <1>1
  <2>2. QED
    BY <2>1 DEF IInv, Phases, NoProcess, Opening
<1>3. PICK key \in Keys : UsesUpSeeks(FilesToSearch(current, key, readers[r].seq))
  BY DEF RecordReadSample
<1>4. SeekFileHasNextLevel'
  BY <1>3, ChargeSettled
<1>5. MemtablesApart'
  BY <1>1 DEF SInv, MemtablesApart
<1>6. QED
  BY <1>1, <1>2, <1>4, <1>5, SameTablesStep

\* Steps that touch no table, no log and no memtable.
LEMMA IdleStepsSettled ==
  ASSUME IInv, SInv, IInv', phase = "open",
         UNCHANGED <<phase, lastSequence, group, manifest, current, edit, bg, mem, imm, logNumber,
                     logs, memtables, seekFile, bgError>>
  PROVE  SInv'
<1>1. MemtablesApart' /\ SeekFileHasNextLevel'
  BY DEF SInv, MemtablesApart, SeekFileHasNextLevel
<1>2. QED
  BY <1>1, SameTablesStep

LEMMA ReaderSettled ==
  ASSUME IInv, SInv, IInv', ReaderStep
  PROVE  SInv'
<1>1. ASSUME NEW s \in Snapshots, GetSnapshot(s) \/ ReleaseSnapshot(s)
      PROVE  SInv'
  <2>1. UNCHANGED <<phase, lastSequence, group, manifest, current, edit, bg, mem, imm, logNumber,
                    logs, memtables, seekFile, bgError>>
    BY <1>1 DEF GetSnapshot, ReleaseSnapshot, disk, mems, version, back
  <2>2. phase = "open"
    <3>1. phase = "open" \/ snaps # <<>>
      BY <1>1 DEF GetSnapshot, ReleaseSnapshot
    <3>2. QED
      BY <3>1 DEF IInv, Phases, NoProcess, Opening
  <2>3. QED
    BY <2>1, <2>2, IdleStepsSettled
<1>2. ASSUME NEW r \in Readers, BeginRead(r)
      PROVE  SInv'
  <2>1. /\ phase = "open"
        /\ UNCHANGED <<phase, lastSequence, group, manifest, current, edit, bg, mem, imm, logNumber,
                       logs, memtables, seekFile, bgError>>
    BY <1>2 DEF BeginRead, disk, mems, version, back
  <2>2. QED
    BY <2>1, IdleStepsSettled
<1>3. QED
  BY <1>1, <1>2, EndReadSettled, RecordReadSampleSettled DEF ReaderStep

LEMMA QueueSettled ==
  ASSUME IInv, SInv, IInv',
         FailFront \/ BackgroundError \/ \E b \in Batches, sync \in Syncs : Write(b, sync)
  PROVE  SInv'
<1>1. UNCHANGED <<phase, lastSequence, group, manifest, current, edit, bg, mem, imm, logNumber,
                  logs, memtables, seekFile, bgError>>
  BY DEF FailFront, BackgroundError, Write, disk, mems, version, back
<1>2. phase = "open"
  BY BackOpen DEF FailFront, BackgroundError, BackgroundCall, Write
<1>3. QED
  BY <1>1, <1>2, IdleStepsSettled

\* A log of entries of E holds entries of any larger set.
LEMMA LogMonotone ==
  ASSUME NEW F, NEW E \in SUBSET F, NEW log \in Log(E)
  PROVE  log \in Log(F)
<1>1. ASSUME NEW X, NEW Y, X \subseteq Y, NEW s \in Seq(X)
      PROVE  s \in Seq(Y)
  <2>1. Len(s) \in Nat /\ s \in [1 .. Len(s) -> X]
    BY LenProperties
  <2>2. s \in [1 .. Len(s) -> Y]
    BY <1>1, <2>1
  <2>3. QED
    BY <2>1, <2>2
<1>2. Chunk(E) \subseteq Chunk(F)
  <2>1. \A r : r \in Seq(E) => r \in Seq(F)
    BY <1>1
  <2>2. QED
    BY <2>1 DEF Chunk
<1>3. Units(E) \subseteq Units(F)
  BY <1>2 DEF Units
<1>4. log.data \in Seq(Units(E))
  BY DEF Log
<1>5. log.data \in Seq(Units(F))
  BY <1>1, <1>3, <1>4
<1>6. QED
  BY <1>5 DEF Log

\* The entries of a record numbered from the last sequence number on.
LEMMA RecordNumbered ==
  ASSUME NEW rec \in Seq(LogEntry), lastSequence \in Nat,
         \A j \in DOMAIN rec : rec[j].seq = lastSequence + j
  PROVE  /\ ToSet(rec) \subseteq LogEntry /\ IsFiniteSet(ToSet(rec)) /\ Distinct(ToSet(rec))
         /\ \A e \in ToSet(rec) : lastSequence < e.seq /\ e.seq <= lastSequence + Len(rec)
<1>1. Len(rec) \in Nat /\ DOMAIN rec = 1 .. Len(rec) /\ \A j \in 1 .. Len(rec) : rec[j] \in LogEntry
  BY LenProperties
<1>2. ToSet(rec) = {rec[j] : j \in 1 .. Len(rec)}
  BY <1>1 DEF ToSet
<1>3. IsFiniteSet(ToSet(rec))
  <2> DEFINE n == Len(rec)
             f == [j \in 1 .. n |-> rec[j]]
             S == ToSet(rec)
             D == 1 .. n
  <2>1. f \in Surjection(D, S)
    BY <1>2 DEF Surjection
  <2>2. IsFiniteSet(D)
    BY <1>1, FS_Interval
  <2> HIDE DEF f, S, D
  <2>3. IsFiniteSet(S)
    BY <2>1, <2>2, FS_Surjection
  <2>4. QED
    BY <2>3 DEF S
<1>4. Distinct(ToSet(rec))
  <2> SUFFICES ASSUME NEW d \in ToSet(rec), NEW e \in ToSet(rec), d.seq = e.seq
               PROVE  d = e
    BY DEF Distinct
  <2>1. PICK i \in 1 .. Len(rec) : d = rec[i]
    BY <1>2
  <2>2. PICK j \in 1 .. Len(rec) : e = rec[j]
    BY <1>2
  <2>3. lastSequence + i = lastSequence + j
    BY <1>1, <2>1, <2>2
  <2>4. i = j
    BY <1>1, <2>3
  <2>5. QED
    BY <2>1, <2>2, <2>4
<1>5. \A e \in ToSet(rec) : lastSequence < e.seq /\ e.seq <= lastSequence + Len(rec)
  BY <1>1, <1>2
<1>6. QED
  BY <1>1, <1>2, <1>3, <1>4, <1>5

\* A switch of memtables makes a table to be of the one that was filled.
LEMMA RoomSettled ==
  ASSUME IInv, SInv, phase = "open", MakeRoomForWrite,
         UNCHANGED <<phase, manifest, current, edit, bg>>
  PROVE  /\ NewMem' \subseteq NewMem
         /\ \A T \in Tables' : T \in Tables \/ (T = NewMem /\ T # {})
         /\ \A n \in DOMAIN logs' : logs'[n] = NewLog \/ (n \in DOMAIN logs /\ logs'[n] = logs[n])
         /\ MemtablesApart'
<1>1. /\ mem \in DOMAIN memtables /\ mem \in Nat /\ nextFile \in Nat /\ 0 < mem /\ mem < nextFile
      /\ imm # NoFile => imm \in DOMAIN memtables
      /\ NoFile \notin DOMAIN memtables /\ mem # imm
  BY DEF IInv, SInv, Numbered, LogsKept, MemtablesApart
<1>2. /\ FilesOf(manifest.version)' = FilesOf(manifest.version)
      /\ FilesOf(current)' = FilesOf(current)
      /\ Added' = Added /\ Written' = Written /\ ToWrite' = ToWrite
  BY DEF Added, Written, ToWrite
<1>3. CASE UNCHANGED <<logs, mems, nextFile, scheduled>>
  <2>1. UNCHANGED <<logs, memtables, mem, imm>>
    BY <1>3 DEF mems
  <2>2. NewMem' = NewMem /\ Frozen' = Frozen
    BY <2>1 DEF NewMem, Frozen
  <2>3. Tables' = Tables
    BY <1>2, <2>2 DEF Tables
  <2>4. MemtablesApart'
    BY <1>1, <2>1 DEF MemtablesApart
  <2>5. QED
    BY <2>1, <2>2, <2>3, <2>4
<1>4. CASE SwitchMemTable
  <2>1. /\ Full(memtables[mem]) /\ imm = NoFile
        /\ logs' = Bind(logs, nextFile, NewLog)
        /\ memtables' = Bind(memtables, nextFile, {})
        /\ mem' = nextFile /\ imm' = mem
    BY <1>4 DEF SwitchMemTable, MustSwitch
  <2>2. /\ DOMAIN logs' = DOMAIN logs \cup {nextFile}
        /\ \A n \in DOMAIN logs' : logs'[n] = IF n = nextFile THEN NewLog ELSE logs[n]
        /\ DOMAIN memtables' = DOMAIN memtables \cup {nextFile}
        /\ memtables'[nextFile] = {} /\ memtables'[mem] = memtables[mem]
    BY <1>1, <2>1 DEF Bind
  <2>3. NewMem' = {} /\ NewMem = memtables[mem] /\ NewMem # {}
    <3>1. NewMem = memtables[mem] /\ NewMem' = memtables'[mem']
      BY DEF NewMem
    <3>2. memtables[mem] # {}
      BY <2>1, FullHolds
    <3>3. QED
      BY <2>1, <2>2, <3>1, <3>2
  <2>4. Frozen' = {NewMem}
    BY <1>1, <2>1, <2>2, <2>3 DEF Frozen, NoFile
  <2>5. \A T \in Tables' : T \in Tables \/ T = NewMem
    BY <1>2, <2>4 DEF Tables
  <2>6. MemtablesApart'
    BY <1>1, <2>1, <2>2 DEF MemtablesApart, NoFile
  <2>7. QED
    BY <2>2, <2>3, <2>5, <2>6
<1>5. QED
  BY <1>3, <1>4 DEF MakeRoomForWrite

LEMMA BeginGroupSettled ==
  ASSUME IInv, SInv, IInv', BeginGroup
  PROVE  SInv'
<1> DEFINE n == GroupSize
           R == ToSet(GroupRecord(n))
<1>1. /\ phase = "open" /\ writers # <<>> /\ group = NoGroup /\ MakeRoomForWrite
      /\ group' # NoGroup /\ group'.batch.rec = GroupRecord(n)
      /\ UNCHANGED <<phase, manifest, current, logNumber, lastSequence, bg, edit, bgError, seekFile>>
  BY DEF BeginGroup, version, NoGroup
<1>2. PICK U \in SUBSET LogEntry : Known(U)
  BY DEF SInv, EntriesKnown
<1>3. \A e \in U : e.seq <= lastSequence /\ e.seq \in Nat
  BY <1>1, <1>2 DEF Known, UpTo, Group, LogEntry
<1>4. /\ GroupRecord(n) \in Seq(LogEntry) /\ lastSequence \in Nat
      /\ \A j \in DOMAIN GroupRecord(n) : GroupRecord(n)[j].seq = lastSequence + j
  <2>1. writers \in Seq(Writer) /\ lastSequence \in Nat
    BY DEF IInv, Scalars
  <2>2. n \in 1 .. Len(writers)
    BY <1>1, <2>1, GroupSizeBounds
  <2> HIDE DEF n
  <2>3. QED
    BY <2>1, <2>2, GroupRecordTyping
<1> HIDE DEF n
<1>5. /\ R \subseteq LogEntry /\ IsFiniteSet(R) /\ Distinct(R)
      /\ \A e \in R : lastSequence < e.seq
  BY <1>4, RecordNumbered
<1>6. Group' = R
  BY <1>1 DEF Group
<1>7. /\ NewMem' \subseteq NewMem
      /\ \A T \in Tables' : T \in Tables \/ (T = NewMem /\ T # {})
      /\ \A m \in DOMAIN logs' : logs'[m] = NewLog \/ (m \in DOMAIN logs /\ logs'[m] = logs[m])
      /\ MemtablesApart'
  BY <1>1, RoomSettled
<1> HIDE DEF R
<1>8. PICK V \in SUBSET LogEntry : V = U \cup R
  BY <1>5
<1>9. Known(V)'
  <2>1. IsFiniteSet(U) /\ Distinct(U) /\ LogsIn(U) /\ NewMem \subseteq U
        /\ \A T \in Tables : T \subseteq U
    BY <1>2 DEF Known
  <2>2. IsFiniteSet(V)
    BY <1>5, <1>8, <2>1, FS_Union
  <2>3. Distinct(V)
    <3>1. \A d \in U, e \in R : d.seq # e.seq
      <4>1. \A e \in R : e.seq \in Nat
        BY <1>5 DEF LogEntry
      <4>2. QED
        BY <1>3, <1>4, <1>5, <4>1
    <3>2. QED
      BY <1>5, <1>8, <2>1, <3>1 DEF Distinct
  <2>4. LogsIn(V)'
    <3> SUFFICES ASSUME NEW m \in DOMAIN logs', m >= manifest.log
                 PROVE  logs'[m] \in Log(V)
      BY <1>1 DEF LogsIn
    <3>1. CASE logs'[m] = NewLog
      BY <3>1, NewLogTyping
    <3>2. CASE m \in DOMAIN logs /\ logs'[m] = logs[m]
      <4>1. logs'[m] \in Log(U)
        BY <2>1, <3>2 DEF LogsIn
      <4>2. QED
        BY <1>8, <4>1, LogMonotone
    <3>3. QED
      BY <1>7, <3>1, <3>2
  <2>5. NewMem' \subseteq V /\ Group' \subseteq V
    BY <1>6, <1>8, <1>7, <2>1
  <2>6. \A T \in Tables' : T \subseteq V
    BY <1>7, <1>8, <2>1
  <2>7. UpTo(V \ Group', lastSequence')
    BY <1>1, <1>3, <1>6, <1>8 DEF UpTo
  <2>8. QED
    BY <2>2, <2>3, <2>4, <2>5, <2>6, <2>7 DEF Known
<1>10. EntriesKnown'
  BY <1>9 DEF EntriesKnown
<1>11. TablesSettled'
  <2>1. \A T \in Tables : T # {} /\ UpTo(T, lastSequence)
    BY <1>1 DEF SInv, TablesSettled
  <2>2. UpTo(NewMem, lastSequence)
    BY <1>2, <1>3 DEF Known, UpTo
  <2>3. QED
    BY <1>1, <1>7, <2>1, <2>2 DEF TablesSettled
<1>12. ManifestSettled' /\ EditSettled' /\ LogsForward' /\ MergesTyped' /\ SeekFileHasNextLevel'
  BY <1>1 DEF SInv, ManifestSettled, EditSettled, Added, LogsForward, MergesTyped,
              SeekFileHasNextLevel
<1>13. GroupNumbered'
  BY <1>1, <1>4 DEF GroupNumbered
<1>14. OpeningClean'
  BY <1>1 DEF OpeningClean
<1>15. QED
  BY <1>7, <1>10, <1>11, <1>12, <1>13, <1>14 DEF SInv

LEMMA StageKeeps ==
  ASSUME IInv, group # NoGroup, NEW s, s # "none", Stage(s)
  PROVE  group' # NoGroup /\ group'.batch = group.batch /\ Group' = Group
<1>1. group \in [stage : {"log", "insert", "finish", "failed", "unsynced"},
                n : Nat, sync : Syncs, batch : Batch]
  BY GroupOpen
<1>2. group' = [group EXCEPT !.stage = s]
  BY DEF Stage
<1>3. group'.stage = s /\ group'.batch = group.batch
  BY <1>1, <1>2
<1>4. group' # NoGroup
  BY <1>3 DEF NoGroup
<1>5. QED
  BY <1>3, <1>4 DEF Group

\* A record of entries of U.
LEMMA RecordOf ==
  ASSUME NEW U, NEW rec \in Seq(LogEntry), ToSet(rec) \subseteq U
  PROVE  rec \in Seq(U)
<1>1. Len(rec) \in Nat /\ rec \in [1 .. Len(rec) -> LogEntry] /\ DOMAIN rec = 1 .. Len(rec)
  BY LenProperties
<1>2. rec \in [1 .. Len(rec) -> U]
  BY <1>1 DEF ToSet
<1>3. QED
  BY <1>1, <1>2

LEMMA LogGroupSettled ==
  ASSUME IInv, SInv, IInv', LogGroup
  PROVE  SInv'
<1>1. /\ group # NoGroup /\ \E s \in {"insert", "failed", "unsynced"} : Stage(s)
      /\ UNCHANGED <<manifest, phase, memtables, mem, imm, current, logNumber, seekFile,
                     lastSequence, bg, edit, bgError>>
  BY DEF LogGroup, NoGroup, mems, version, back
<1>2. phase = "open" /\ group.batch.rec \in Seq(LogEntry)
  BY <1>1, GroupOpen
<1>3. group' # NoGroup /\ group'.batch = group.batch /\ Group' = Group
  BY <1>1, StageKeeps
<1>4. PICK U \in SUBSET LogEntry : Known(U)
  BY DEF SInv, EntriesKnown
<1>5. group.batch.rec \in Seq(U)
  <2>1. ToSet(group.batch.rec) \subseteq U
    BY <1>1, <1>4 DEF Known, Group
  <2>2. QED
    BY <1>2, <2>1, RecordOf
<1>6. mem \in DOMAIN logs /\ logs[mem] \in Log(LogEntry)
  BY <1>2 DEF IInv, Numbered, DiskTyped
<1>7. LogsIn(U)'
  <2>1. LogsIn(U) /\ UNCHANGED manifest
    BY <1>1, <1>4 DEF Known
  <2>2. CASE mem >= manifest.log
    <3>1. logs[mem] \in Log(U)
      BY <1>6, <2>1, <2>2 DEF LogsIn
    <3>2. \E l \in Log(U) : logs' = [logs EXCEPT ![mem] = l]
      BY <1>5, <3>1, GroupLogged
    <3>3. QED
      BY <2>1, <3>2 DEF LogsIn
  <2>3. CASE ~(mem >= manifest.log)
    <3>1. \E l \in Log(LogEntry) : logs' = [logs EXCEPT ![mem] = l]
      BY <1>2, <1>6, GroupLogged
    <3>2. QED
      BY <2>1, <2>3, <3>1 DEF LogsIn
  <2>4. QED
    BY <2>2, <2>3
<1>8. Tables' = Tables /\ ManifestSettled' /\ EditSettled' /\ LogsForward' /\ MergesTyped'
  BY <1>1, TablesKept
<1>9. Known(U)'
  <2>1. NewMem' = NewMem
    BY <1>1 DEF NewMem
  <2>2. QED
    BY <1>1, <1>3, <1>4, <1>7, <1>8, <2>1 DEF Known
<1>10. TablesSettled' /\ GroupNumbered' /\ OpeningClean' /\ MemtablesApart' /\ SeekFileHasNextLevel'
  BY <1>1, <1>2, <1>3, <1>8 DEF SInv, TablesSettled, GroupNumbered, OpeningClean, MemtablesApart,
                                SeekFileHasNextLevel
<1>11. QED
  BY <1>8, <1>9, <1>10 DEF SInv, EntriesKnown

LEMMA InsertGroupSettled ==
  ASSUME IInv, SInv, IInv', InsertGroup
  PROVE  SInv'
<1>1. /\ group # NoGroup /\ Stage("finish")
      /\ memtables' = [memtables EXCEPT ![mem] = @ \cup ToSet(group.batch.rec)]
      /\ UNCHANGED <<logs, manifest, phase, mem, imm, current, logNumber, seekFile, lastSequence,
                     bg, edit, bgError>>
  BY DEF InsertGroup, NoGroup, disk, version, back
<1>2. phase = "open"
  BY <1>1, GroupOpen
<1>3. group' # NoGroup /\ group'.batch = group.batch /\ Group' = Group
  BY <1>1, StageKeeps
<1>4. mem # imm /\ mem \in DOMAIN memtables
  BY <1>2 DEF IInv, SInv, MemtablesApart, Numbered
<1>5. Tables' = Tables /\ ManifestSettled' /\ EditSettled' /\ LogsForward' /\ MergesTyped'
  <2>1. memtables'[imm] = memtables[imm]
    BY <1>1, <1>4
  <2>2. QED
    BY <1>1, <2>1, TablesKept
<1>6. PICK U \in SUBSET LogEntry : Known(U)
  BY DEF SInv, EntriesKnown
<1>7. Known(U)'
  <2>1. NewMem' = NewMem \cup Group
    BY <1>1, <1>2, <1>4 DEF NewMem, Group
  <2>2. LogsIn(U)'
    BY <1>1, <1>6 DEF Known, LogsIn
  <2>3. QED
    BY <1>1, <1>3, <1>5, <1>6, <2>1, <2>2 DEF Known
<1>8. TablesSettled' /\ GroupNumbered' /\ OpeningClean' /\ MemtablesApart' /\ SeekFileHasNextLevel'
  BY <1>1, <1>2, <1>3, <1>5 DEF SInv, TablesSettled, GroupNumbered, OpeningClean, MemtablesApart,
                                SeekFileHasNextLevel
<1>9. QED
  BY <1>5, <1>7, <1>8 DEF SInv, EntriesKnown

LEMMA FinishGroupSettled ==
  ASSUME IInv, SInv, IInv', FinishGroup
  PROVE  SInv'
<1>1. /\ group # NoGroup /\ group' = NoGroup /\ (bgError => bgError')
      /\ lastSequence' = lastSequence + Len(group.batch.rec)
      /\ UNCHANGED <<logs, manifest, phase, memtables, mem, imm, current, logNumber, seekFile,
                     bg, edit>>
  <2>1. group # NoGroup
    BY DEF FinishGroup, NoGroup
  <2>2. bgError' = (bgError \/ group.stage = "unsynced")
    BY Zenon DEF FinishGroup
  <2>3. bgError => bgError'
    BY <2>2, Zenon
  <2>4. QED
    BY <2>1, <2>3 DEF FinishGroup, LastSequenceOfGroup, disk, mems, version, back
<1>2. phase = "open" /\ group.batch.rec \in Seq(LogEntry) /\ lastSequence \in Nat
  BY <1>1, GroupOpen DEF IInv, Scalars
<1>3. Tables' = Tables /\ ManifestSettled' /\ EditSettled' /\ LogsForward' /\ MergesTyped'
  BY <1>1, TablesKept
<1>4. PICK U \in SUBSET LogEntry : Known(U)
  BY DEF SInv, EntriesKnown
<1>5. Group' = {} /\ lastSequence' \in Nat /\ lastSequence <= lastSequence'
  <2>1. Len(group.batch.rec) \in Nat
    BY <1>2, LenProperties
  <2>2. QED
    BY <1>1, <1>2, <2>1 DEF Group
<1>6. \A e \in U : e.seq \in Nat
  BY DEF LogEntry
<1>7. UpTo(U, lastSequence')
  <2>1. UpTo(U \ Group, lastSequence)
    BY <1>2, <1>4 DEF Known
  <2>2. \A e \in Group : e.seq <= lastSequence'
    <3>1. \A j \in DOMAIN group.batch.rec : group.batch.rec[j].seq = lastSequence + j
      BY <1>1 DEF SInv, GroupNumbered
    <3>2. \A e \in ToSet(group.batch.rec) : e.seq <= lastSequence + Len(group.batch.rec)
      BY <1>2, <3>1, RecordNumbered
    <3>3. QED
      BY <1>1, <3>2 DEF Group
  <2>3. QED
    BY <1>2, <1>5, <1>6, <2>1, <2>2 DEF UpTo
<1>8. Known(U)'
  <2>1. LogsIn(U)' /\ NewMem' = NewMem
    BY <1>1, <1>4 DEF Known, LogsIn, NewMem
  <2>2. UpTo(U \ Group, lastSequence)'
    BY <1>7 DEF UpTo
  <2>3. QED
    BY <1>3, <1>4, <1>5, <2>1, <2>2 DEF Known
<1>9. TablesSettled'
  <2>1. \A T \in Tables : T # {} /\ T \subseteq U
    BY <1>4 DEF SInv, TablesSettled, Known
  <2>2. QED
    BY <1>3, <1>7, <2>1 DEF TablesSettled, UpTo
<1>10. GroupNumbered' /\ OpeningClean' /\ MemtablesApart' /\ SeekFileHasNextLevel'
  BY <1>1, <1>2 DEF SInv, GroupNumbered, OpeningClean, MemtablesApart, SeekFileHasNextLevel
<1>11. QED
  BY <1>3, <1>8, <1>9, <1>10 DEF SInv, EntriesKnown

LEMMA WriterSettled ==
  ASSUME IInv, SInv, IInv', WriterStep
  PROVE  SInv'
BY BeginGroupSettled, QueueSettled, LogGroupSettled, InsertGroupSettled, FinishGroupSettled
   DEF WriterStep

-----------------------------------------------------------------------------
(* The background thread writes no entry that is not in a table.           *)

OfTables(T) == T # {} /\ T \subseteq UNION Tables

LEMMA BackSettled ==
  ASSUME IInv, SInv, IInv', phase = "open", UNCHANGED <<phase, lastSequence, group, mem>>,
         memtables'[mem] = memtables[mem], DOMAIN memtables' \subseteq DOMAIN memtables,
         imm' = NoFile \/ (imm' = imm /\ memtables'[imm] = memtables[imm]),
         seekFile' = seekFile \/ seekFile' = NoSeekFile,
         FilesOf(manifest'.version) \subseteq FilesOf(manifest.version) \cup Added,
         FilesOf(current') \subseteq FilesOf(current) \cup Added,
         \A f \in Added' \cup Written' : OfTables(f.ents),
         \A T \in ToWrite' : OfTables(T),
         manifest.log <= manifest'.log,
         \A n \in DOMAIN logs' : n \in DOMAIN logs /\ logs'[n] = logs[n],
         ManifestSettled', EditSettled', LogsForward', MergesTyped'
  PROVE  SInv'
<1>1. NewMem' = NewMem
  BY DEF NewMem
<1>2. \A T \in Tables : OfTables(T)
  BY DEF SInv, TablesSettled, OfTables
<1>3. \A T \in Frozen' : OfTables(T)
  <2>1. Frozen' \subseteq Frozen
    BY DEF Frozen
  <2>2. QED
    BY <1>2, <2>1 DEF Tables
<1>4. \A f \in FilesOf(manifest'.version) \cup FilesOf(current') : OfTables(f.ents)
  <2>1. \A f \in FilesOf(manifest.version) \cup FilesOf(current) \cup Added : f.ents \in Tables
    BY DEF Tables
  <2>2. QED
    BY <1>2, <2>1
<1>5. \A T \in Tables' : OfTables(T)
  <2> HIDE DEF OfTables
  <2>1. Tables' = {f.ents : f \in FilesOf(manifest'.version) \cup FilesOf(current') \cup Added' \cup Written'}
                    \cup ToWrite' \cup Frozen'
    BY DEF Tables, FilesOf
  <2>2. QED
    BY <1>3, <1>4, <2>1
<1>6. MemtablesApart' /\ SeekFileHasNextLevel'
  <2>1. 0 < mem /\ mem \in Nat
    BY DEF IInv, Numbered
  <2>2. mem # NoFile
    BY <2>1 DEF NoFile
  <2>3. QED
    BY <2>2 DEF SInv, MemtablesApart, SeekFileHasNextLevel, NoSeekFile
<1>7. QED
  BY <1>1, <1>5, <1>6, QuietStep DEF OfTables

\* An edit made of tables there are, with the last sequence number.
LEMMA EditMade ==
  ASSUME SInv, phase = "open", UNCHANGED manifest, edit'.seq = lastSequence,
         manifest.log <= edit'.log, \A f \in Added' : OfTables(f.ents)
  PROVE  ManifestSettled' /\ EditSettled'
<1>1. \A T \in Tables : UpTo(T, lastSequence)
  BY DEF SInv, TablesSettled
<1>2. \A f \in FilesOf(manifest.version) \cup Added' : \A e \in f.ents : e.seq <= lastSequence
  <2>1. \A f \in FilesOf(manifest.version) : f.ents \in Tables
    BY DEF Tables
  <2>2. \A f \in FilesOf(manifest.version) : \A e \in f.ents : e.seq <= lastSequence
    BY <1>1, <2>1 DEF UpTo
  <2>3. \A f \in Added' : \A e \in f.ents : e.seq <= lastSequence
    BY <1>1 DEF OfTables, UpTo
  <2>4. QED
    BY <2>2, <2>3
<1>3. FilesOf(manifest.version)' = FilesOf(manifest.version)
  OBVIOUS
<1>4. UpTo(AllEntries(FilesOf(manifest.version) \cup Added), edit.seq)'
  BY <1>2, <1>3 DEF UpTo, AllEntries
<1>5. ManifestSettled'
  BY <1>3 DEF SInv, ManifestSettled
<1>6. QED
  BY <1>4, <1>5 DEF EditSettled

\* With no edit left there is nothing more to say of one.
LEMMA EditGone ==
  ASSUME edit' = NoEdit
  PROVE  EditSettled' /\ Added' = {}
BY DEF EditSettled, Added

LEMMA FewerMerges ==
  ASSUME SInv, bg'.comp \subseteq bg.comp
  PROVE  /\ MergesTyped' /\ \A f \in Written' : OfTables(f.ents)
         /\ \A T \in ToWrite' : OfTables(T)
<1>1. Written' \subseteq Written /\ ToWrite' \subseteq ToWrite
  BY DEF Written, ToWrite
<1>2. \A f \in Written : f.ents \in Tables
  BY DEF Tables
<1>3. ToWrite \subseteq Tables
  BY DEF Tables
<1>4. \A T \in Tables : OfTables(T)
  BY DEF SInv, TablesSettled, OfTables
<1>5. MergesTyped'
  BY DEF SInv, MergesTyped
<1>6. QED
  BY <1>1, <1>2, <1>3, <1>4, <1>5

LEMMA BeginFlushSettled ==
  ASSUME IInv, SInv, IInv', BeginFlush
  PROVE  SInv'
<1>1. /\ (BackgroundCall /\ ~bgError) \/ bg.pc = "compact"
      /\ bg' = [bg EXCEPT !.pc = "build", !.out = nextFile]
      /\ UNCHANGED <<logs, manifest, phase, memtables, mem, imm, current, logNumber, seekFile,
                     lastSequence, group, edit, bgError>>
  BY DEF BeginFlush, disk, mems, version
<1>2. phase = "open"
  BY <1>1, BackOpen DEF BackgroundCall
<1>3. bg = [pc |-> bg.pc, out |-> bg.out, comp |-> bg.comp]
  BY <1>2, OpenFacts
<1>4. bg'.comp = bg.comp
  BY <1>1, <1>3
<1>5. edit = NoEdit
  BY <1>1, <1>2 DEF BackgroundCall, IInv, EditTyped
<1>6. EditSettled' /\ Added' = {}
  BY <1>1, <1>5, EditGone
<1>7. manifest.log <= logNumber
  BY <1>1, <1>2 DEF SInv, LogsForward, BackgroundCall
<1>8. LogsForward' /\ ManifestSettled'
  BY <1>1, <1>7 DEF LogsForward, SInv, ManifestSettled
<1>9. MergesTyped' /\ (\A f \in Written' : OfTables(f.ents)) /\ \A T \in ToWrite' : OfTables(T)
  BY <1>4, FewerMerges
<1>10. manifest.log <= manifest'.log
  BY <1>1 DEF IInv, DiskTyped
<1>11. QED
  BY <1>1, <1>2, <1>6, <1>8, <1>9, <1>10, BackSettled

LEMMA BuildTableSettled ==
  ASSUME IInv, SInv, IInv', BuildTable
  PROVE  SInv'
<1> DEFINE l == PickLevelForMemTableOutput(current, memtables[imm])
           f == File(bg.out, memtables[imm])
<1>1. /\ bg.pc = "build" /\ bg' = [bg EXCEPT !.pc = "manifest"]
      /\ UNCHANGED <<logs, manifest, phase, memtables, mem, imm, current, logNumber, seekFile,
                     lastSequence, group, bgError>>
  BY DEF BuildTable, mems, version
<1>2. edit' = Edit("flush", At(l, {f}), {}, mem, nextFile, lastSequence)
  BY DEF BuildTable, File
<1>3. phase = "open"
  BY <1>1, BackOpen
<1>4. imm # NoFile
  BY <1>1 DEF IInv, BgTyped
<1>5. OfTables(memtables[imm])
  <2>1. memtables[imm] \in Tables
    BY <1>4 DEF Tables, Frozen
  <2>2. QED
    BY <2>1 DEF SInv, TablesSettled, OfTables
<1>6. f.ents = memtables[imm]
  BY DEF File
<1> HIDE DEF l, f
<1>7. edit'.add = At(l, {f}) /\ edit'.log = mem /\ edit'.seq = lastSequence /\ edit'.kind = "flush"
  BY <1>2 DEF Edit
<1>8. Added' = {f}
  <2>1. edit' # NoEdit
    BY <1>7 DEF NoEdit
  <2>2. Added' = {a.file : a \in At(l, {f})}
    BY <1>7, <2>1 DEF Added
  <2>3. QED
    BY <2>2, AddedAt
<1>9. manifest.log <= logNumber /\ logNumber <= mem
  BY <1>1, <1>3 DEF SInv, LogsForward, IInv, LogsKept
<1>10. manifest.log \in Nat /\ logNumber \in Nat /\ mem \in Nat
  BY <1>3, OpenFacts DEF IInv, DiskTyped
<1>11. ManifestSettled' /\ EditSettled'
  <2>1. manifest.log <= edit'.log
    BY <1>7, <1>9, <1>10
  <2>2. QED
    BY <1>1, <1>3, <1>5, <1>6, <1>7, <1>8, <2>1, EditMade
<1>12. bg'.comp = bg.comp
  BY <1>1, <1>3, OpenFacts
<1>13. MergesTyped' /\ (\A g \in Written' : OfTables(g.ents)) /\ \A T \in ToWrite' : OfTables(T)
  BY <1>12, FewerMerges
<1>14. LogsForward'
  BY <1>1, <1>9 DEF LogsForward
<1>15. \A g \in Added' \cup Written' : OfTables(g.ents)
  BY <1>5, <1>6, <1>8, <1>13
<1>16. manifest.log <= manifest'.log
  BY <1>1, <1>10
<1>17. QED
  BY <1>1, <1>3, <1>11, <1>13, <1>14, <1>15, <1>16, BackSettled

\* The thread is done, or goes on with the merge it had begun.
LEMMA FlushLeaves ==
  ASSUME IInv, phase = "open", NEW im, NEW v, NEW seek, NEW err, EndFlush(im, v, seek, err)
  PROVE  bg'.comp \subseteq bg.comp /\ edit' = NoEdit /\ bg'.pc \in {"idle", "compact"}
<1>1. CASE bg.comp = {}
  <2>1. bg' = Idle /\ edit' = NoEdit
    BY <1>1 DEF EndFlush, EndCall
  <2>2. QED
    BY <2>1 DEF Idle
<1>2. CASE bg.comp # {}
  <2>1. bg' = [bg EXCEPT !.pc = "compact", !.out = NoFile] /\ edit' = NoEdit
    BY <1>2 DEF EndFlush
  <2>2. bg = [pc |-> bg.pc, out |-> bg.out, comp |-> bg.comp]
    BY OpenFacts
  <2>3. bg'.comp = bg.comp /\ bg'.pc = "compact"
    BY <2>1, <2>2
  <2>4. QED
    BY <2>1, <2>3
<1>3. QED
  BY <1>1, <1>2

LEMMA BuildTableFailsSettled ==
  ASSUME IInv, SInv, IInv', BuildTableFails
  PROVE  SInv'
<1>1. /\ bg.pc = "build" /\ EndFlush(imm, current, seekFile, TRUE)
      /\ UNCHANGED <<logs, manifest, phase, memtables, mem, imm, current, logNumber, seekFile,
                     lastSequence, group>>
  BY DEF BuildTableFails, disk, mems, version
<1>2. phase = "open"
  BY <1>1, BackOpen
<1>3. bg'.comp \subseteq bg.comp /\ edit' = NoEdit
  BY <1>1, <1>2, FlushLeaves
<1>4. EditSettled' /\ Added' = {}
  BY <1>3, EditGone
<1>5. MergesTyped' /\ (\A f \in Written' : OfTables(f.ents)) /\ \A T \in ToWrite' : OfTables(T)
  BY <1>3, FewerMerges
<1>6. LogsForward' /\ ManifestSettled' /\ manifest.log <= manifest'.log
  <2>1. manifest.log <= logNumber
    BY <1>1, <1>2 DEF SInv, LogsForward
  <2>2. QED
    BY <1>1, <2>1 DEF SInv, LogsForward, ManifestSettled, IInv, DiskTyped
<1>7. QED
  BY <1>1, <1>2, <1>4, <1>5, <1>6, BackSettled

\* A merge will write entries of its inputs, and no empty table.
LEMMA MergeBegins ==
  ASSUME SInv, NEW c, NEW snapshot, AllEntries(c.in0 \cup c.in1) \subseteq UNION Tables
  PROVE  /\ CompactionState(c, snapshot).outs = {}
         /\ CompactionState(c, snapshot).todo \in Seq(SUBSET LogEntry)
         /\ \A T \in ToSet(CompactionState(c, snapshot).todo) : OfTables(T)
<1> DEFINE S == AllEntries(c.in0 \cup c.in1)
           todo == CompactionOutputs(c, snapshot)
<1>1. IsFiniteSet(S) /\ Distinct(S) /\ S \in SUBSET LogEntry /\ S \subseteq UNION Tables
  <2> HIDE DEF S
  <2>1. S \subseteq UNION Tables
    BY DEF S
  <2>2. QED
    BY <2>1, EntriesOfTables
<1>2. todo \in Seq(NonEmpty(S))
  <2>1. Merged(S) \in Seq(S)
    <3> HIDE DEF S
    <3>1. QED
      BY <1>1, MergedTyping
  <2>2. QED
    BY <2>1, OutputsTyping
<1>3. CompactionState(c, snapshot).outs = {} /\ CompactionState(c, snapshot).todo = todo
  BY DEF CompactionState
<1> HIDE DEF S, todo
<1>4. Len(todo) \in Nat /\ DOMAIN todo = 1 .. Len(todo) /\ todo \in [1 .. Len(todo) -> NonEmpty(S)]
  BY <1>2, LenProperties
<1>5. todo \in Seq(SUBSET LogEntry)
  <2>1. NonEmpty(S) \subseteq SUBSET LogEntry
    BY <1>1 DEF NonEmpty
  <2>2. todo \in [1 .. Len(todo) -> SUBSET LogEntry]
    BY <1>4, <2>1
  <2>3. QED
    BY <1>4, <2>2
<1>6. \A T \in ToSet(todo) : OfTables(T)
  <2>1. \A T \in ToSet(todo) : T \in NonEmpty(S)
    BY <1>4 DEF ToSet
  <2>2. QED
    BY <1>1, <2>1 DEF NonEmpty, OfTables
<1>7. QED
  BY <1>3, <1>5, <1>6

LEMMA BeginCompactionSettled ==
  ASSUME IInv, SInv, IInv', BeginCompaction
  PROVE  SInv'
<1>1. /\ bg.pc = "idle" /\ scheduled /\ ~bgError
      /\ UNCHANGED <<logs, manifest, phase, memtables, mem, imm, current, logNumber, seekFile,
                     lastSequence, group, bgError>>
  BY DEF BeginCompaction, BackgroundCall, disk, mems, version
<1>2. PICK c \in Compactions(current, seekFile) :
        \/ /\ edit' = Edit("move", At(c.level + 1, c.in0), At(c.level, c.in0), logNumber,
                           nextFile, lastSequence)
           /\ bg' = [bg EXCEPT !.pc = "manifest"]
        \/ /\ bg' = [bg EXCEPT !.pc = "compact", !.comp = {CompactionState(c, SmallestSnapshot)}]
           /\ UNCHANGED edit
  BY DEF BeginCompaction
<1>3. phase = "open"
  BY <1>1, BackOpen
<1>4. c.in0 \subseteq FilesOf(current) /\ c.in1 \subseteq FilesOf(current)
  <2>1. /\ c.level \in Levels /\ c.level + 1 \in Levels
        /\ c.in0 \subseteq current[c.level] /\ c.in1 \subseteq current[c.level + 1]
    BY CompactionPicked DEF SInv
  <2>2. QED
    BY <2>1 DEF FilesOf
<1>5. bg = [pc |-> "idle", out |-> NoFile, comp |-> {}] /\ edit = NoEdit
  BY <1>1, <1>3, NothingInHand
<1>6. \A f \in FilesOf(current) : OfTables(f.ents)
  <2>1. \A f \in FilesOf(current) : f.ents \in Tables
    BY DEF Tables
  <2>2. QED
    BY <2>1 DEF SInv, TablesSettled, OfTables
<1>7. manifest.log <= logNumber
  BY <1>1, <1>3 DEF SInv, LogsForward
<1>8. LogsForward' /\ manifest.log <= manifest'.log
  BY <1>1, <1>7 DEF LogsForward, IInv, DiskTyped
<1>9. CASE /\ edit' = Edit("move", At(c.level + 1, c.in0), At(c.level, c.in0), logNumber,
                           nextFile, lastSequence)
           /\ bg' = [bg EXCEPT !.pc = "manifest"]
  <2>1. /\ edit'.kind = "move" /\ edit'.add = At(c.level + 1, c.in0) /\ edit'.log = logNumber
        /\ edit'.seq = lastSequence
    BY <1>9 DEF Edit
  <2>2. Added' = c.in0
    <3>1. edit' # NoEdit
      BY <2>1 DEF NoEdit
    <3>2. Added' = {a.file : a \in At(c.level + 1, c.in0)}
      BY <2>1, <3>1 DEF Added
    <3>3. QED
      BY <3>2, AddedAt
  <2>3. \A f \in Added' : OfTables(f.ents)
    BY <1>4, <1>6, <2>2
  <2>4. ManifestSettled' /\ EditSettled'
    BY <1>1, <1>3, <1>7, <2>1, <2>3, EditMade
  <2>5. bg'.comp \subseteq bg.comp
    BY <1>5, <1>9
  <2>6. MergesTyped' /\ (\A f \in Written' : OfTables(f.ents)) /\ \A T \in ToWrite' : OfTables(T)
    BY <2>5, FewerMerges
  <2>7. QED
    BY <1>1, <1>3, <1>8, <2>3, <2>4, <2>6, BackSettled
<1>10. CASE /\ bg' = [bg EXCEPT !.pc = "compact", !.comp = {CompactionState(c, SmallestSnapshot)}]
            /\ UNCHANGED edit
  <2> DEFINE cs == CompactionState(c, SmallestSnapshot)
  <2>1. AllEntries(c.in0 \cup c.in1) \subseteq UNION Tables
    BY <1>4, <1>6 DEF AllEntries, OfTables
  <2>2. cs.outs = {} /\ cs.todo \in Seq(SUBSET LogEntry) /\ \A T \in ToSet(cs.todo) : OfTables(T)
    BY <2>1, MergeBegins
  <2>3. bg' = [bg EXCEPT !.pc = "compact", !.comp = {cs}]
    BY <1>10
  <2> HIDE DEF cs
  <2>4. bg'.comp = {cs}
    BY <1>5, <2>3
  <2>5. Written' = {} /\ ToWrite' = ToSet(cs.todo) /\ MergesTyped'
    BY <2>2, <2>4 DEF Written, ToWrite, MergesTyped
  <2>6. EditSettled' /\ Added' = {}
    BY <1>5, <1>10, EditGone
  <2>7. ManifestSettled'
    BY <1>1 DEF SInv, ManifestSettled
  <2>8. QED
    BY <1>1, <1>3, <1>8, <2>2, <2>5, <2>6, <2>7, BackSettled
<1>11. QED
  BY <1>2, <1>9, <1>10

\* The next table of the merge is one it was to write.
LEMMA CompactOutputSettled ==
  ASSUME IInv, SInv, IInv', CompactOutput
  PROVE  SInv'
<1>1. /\ bg.pc = "compact"
      /\ UNCHANGED <<logs, manifest, phase, memtables, mem, imm, current, logNumber, seekFile,
                     lastSequence, group, edit, bgError>>
  BY DEF CompactOutput, mems, version
<1>2. PICK c \in bg.comp :
        /\ c.todo # <<>>
        /\ bg' = [bg EXCEPT !.comp = {[c EXCEPT !.todo = Tail(@),
                                                !.outs = @ \cup {File(nextFile, Head(c.todo))}]}]
  BY DEF CompactOutput
<1> DEFINE g == File(nextFile, Head(c.todo))
           t == Tail(c.todo)
           d == [c EXCEPT !.todo = t, !.outs = @ \cup {g}]
<1>3. phase = "open"
  BY <1>1, BackOpen
<1>4. c = Merge(c) /\ bg = [pc |-> bg.pc, out |-> bg.out, comp |-> bg.comp]
  BY DEF IInv, BgTyped
<1>5. bg' = [bg EXCEPT !.comp = {d}]
  BY <1>2
<1>6. c.todo \in Seq(SUBSET LogEntry)
  BY DEF SInv, MergesTyped
<1>7. /\ t \in Seq(SUBSET LogEntry) /\ ToSet(t) \subseteq ToSet(c.todo)
      /\ Head(c.todo) \in ToSet(c.todo)
  <2> DEFINE s == c.todo
  <2>1. s \in Seq(SUBSET LogEntry) /\ s # <<>>
    BY <1>2, <1>6
  <2> HIDE DEF s
  <2>2. Head(s) = s[1] /\ Tail(s) \in Seq(SUBSET LogEntry)
    BY <2>1, HeadTailProperties
  <2>3. Len(Tail(s)) = Len(s) - 1 /\ \A i \in 1 .. Len(Tail(s)) : Tail(s)[i] = s[i + 1]
    BY <2>1, HeadTailProperties
  <2>4. Len(s) \in Nat \ {0} /\ DOMAIN s = 1 .. Len(s) /\ DOMAIN Tail(s) = 1 .. Len(Tail(s))
    BY <2>1, <2>2, EmptySeq, LenProperties
  <2>5. ToSet(Tail(s)) \subseteq ToSet(s) /\ Head(s) \in ToSet(s)
    BY <2>2, <2>3, <2>4 DEF ToSet
  <2>6. QED
    BY <2>2, <2>5 DEF s
<1>8. g.ents = Head(c.todo)
  BY DEF File
<1> HIDE DEF g, t
<1>9. d.outs = c.outs \cup {g} /\ d.todo = t
  <2>1. c = [level |-> c.level, base |-> c.base, in0 |-> c.in0, in1 |-> c.in1,
             outs |-> c.outs, todo |-> c.todo]
    BY <1>4 DEF Merge
  <2> DEFINE o == c.outs \cup {g}
  <2>2. d = [c EXCEPT !.todo = t, !.outs = o]
    BY Zenon
  <2> HIDE DEF o, d
  <2>3. d = [level |-> c.level, base |-> c.base, in0 |-> c.in0, in1 |-> c.in1,
             outs |-> o, todo |-> t]
    BY <2>1, <2>2
  <2>4. QED
    BY <2>3 DEF o
<1> HIDE DEF d
<1>10. bg'.comp = {d} /\ bg'.pc = "compact"
  BY <1>1, <1>4, <1>5
<1>11. /\ \A f \in c.outs : OfTables(f.ents)
       /\ \A T \in ToSet(c.todo) : OfTables(T)
  <2>1. c.outs \subseteq Written /\ ToSet(c.todo) \subseteq ToWrite
    BY DEF Written, ToWrite
  <2>2. /\ \A f \in Written : f.ents \in Tables
        /\ ToWrite \subseteq Tables
    BY DEF Tables
  <2>3. \A T \in Tables : OfTables(T)
    BY DEF SInv, TablesSettled, OfTables
  <2>4. QED
    BY <2>1, <2>2, <2>3
<1>12. /\ \A f \in Written' : OfTables(f.ents)
       /\ \A T \in ToWrite' : OfTables(T)
       /\ MergesTyped'
  <2>1. Written' = c.outs \cup {g} /\ ToWrite' = ToSet(t)
    BY <1>9, <1>10 DEF Written, ToWrite
  <2>2. MergesTyped'
    BY <1>7, <1>9, <1>10 DEF MergesTyped
  <2>3. QED
    BY <1>7, <1>8, <1>11, <2>1, <2>2
<1>13. edit = NoEdit
  BY <1>1, <1>3 DEF IInv, EditTyped
<1>14. EditSettled' /\ Added' = {}
  BY <1>1, <1>13, EditGone
<1>15. LogsForward' /\ ManifestSettled' /\ manifest.log <= manifest'.log
  BY <1>1, <1>3, <1>10 DEF SInv, LogsForward, ManifestSettled, IInv, DiskTyped
<1>16. QED
  BY <1>1, <1>3, <1>12, <1>14, <1>15, BackSettled

LEMMA CompactOutputFailsSettled ==
  ASSUME IInv, SInv, IInv', CompactOutputFails
  PROVE  SInv'
<1>1. /\ bg.pc = "compact" /\ EndCall(imm, current, seekFile, TRUE)
      /\ DeleteObsoleteFiles(TRUE, current, pending', {}, logNumber)
      /\ UNCHANGED <<manifest, phase, memtables, mem, imm, current, logNumber, seekFile,
                     lastSequence, group>>
  BY DEF CompactOutputFails, mems, version
<1>2. phase = "open"
  BY <1>1, BackOpen
<1>3. bg' = Idle /\ edit' = NoEdit
  BY <1>1 DEF EndCall
<1>4. EditSettled' /\ Added' = {}
  BY <1>3, EditGone
<1>5. MergesTyped' /\ (\A f \in Written' : OfTables(f.ents)) /\ \A T \in ToWrite' : OfTables(T)
  <2>1. bg'.comp \subseteq bg.comp
    BY <1>3 DEF Idle
  <2>2. QED
    BY <2>1, FewerMerges
<1>6. LogsForward' /\ ManifestSettled' /\ manifest.log <= manifest'.log
  <2>1. manifest.log <= logNumber
    BY <1>1, <1>2 DEF SInv, LogsForward
  <2>2. QED
    BY <1>1, <2>1 DEF SInv, LogsForward, ManifestSettled, IInv, DiskTyped
<1>7. \A n \in DOMAIN logs' : n \in DOMAIN logs /\ logs'[n] = logs[n]
  BY <1>1, DeletionKeeps
<1>8. QED
  BY <1>1, <1>2, <1>4, <1>5, <1>6, <1>7, BackSettled

LEMMA CompactDoneSettled ==
  ASSUME IInv, SInv, IInv', CompactDone
  PROVE  SInv'
<1>1. /\ bg.pc = "compact" /\ bg' = [bg EXCEPT !.pc = "manifest"]
      /\ UNCHANGED <<logs, manifest, phase, memtables, mem, imm, current, logNumber, seekFile,
                     lastSequence, group, bgError>>
  BY DEF CompactDone, disk, mems, version
<1>2. PICK c \in bg.comp :
        edit' = Edit("compact", At(c.level + 1, c.outs),
                     At(c.level, c.in0) \cup At(c.level + 1, c.in1),
                     logNumber, nextFile, lastSequence)
  BY DEF CompactDone
<1>3. phase = "open"
  BY <1>1, BackOpen
<1>4. bg'.comp = bg.comp
  BY <1>1, <1>3, OpenFacts
<1>5. MergesTyped' /\ (\A f \in Written' : OfTables(f.ents)) /\ \A T \in ToWrite' : OfTables(T)
  BY <1>4, FewerMerges
<1>6. /\ edit'.kind = "compact" /\ edit'.add = At(c.level + 1, c.outs) /\ edit'.log = logNumber
      /\ edit'.seq = lastSequence
  BY <1>2 DEF Edit
<1>7. Added' = c.outs
  <2>1. edit' # NoEdit
    BY <1>6 DEF NoEdit
  <2>2. Added' = {a.file : a \in At(c.level + 1, c.outs)}
    BY <1>6, <2>1 DEF Added
  <2>3. QED
    BY <2>2, AddedAt
<1>8. \A f \in Added' : OfTables(f.ents)
  <2>1. c.outs \subseteq Written'
    BY <1>4 DEF Written
  <2>2. QED
    BY <1>5, <1>7, <2>1
<1>9. manifest.log <= logNumber
  BY <1>1, <1>3 DEF SInv, LogsForward
<1>10. ManifestSettled' /\ EditSettled'
  BY <1>1, <1>3, <1>6, <1>8, <1>9, EditMade
<1>11. LogsForward' /\ manifest.log <= manifest'.log
  BY <1>1, <1>9 DEF LogsForward, IInv, DiskTyped
<1>12. QED
  BY <1>1, <1>3, <1>5, <1>8, <1>10, <1>11, BackSettled

\* What MANIFEST says once an edit is logged.
LEMMA LoggedSettled ==
  ASSUME SInv, IInv', edit # NoEdit, manifest' = Logged(edit)
  PROVE  /\ FilesOf(manifest'.version) \subseteq FilesOf(manifest.version) \cup Added
         /\ manifest'.log = edit.log /\ manifest.log <= manifest'.log
         /\ ManifestSettled' /\ (edit' = edit => EditSettled')
<1>1. /\ manifest'.version = ApplyEdit(manifest.version, edit)
      /\ manifest'.log = edit.log /\ manifest'.seq = edit.seq
  BY DEF Logged, InManifest
<1>2. FilesOf(manifest'.version) \subseteq FilesOf(manifest.version) \cup Added
  BY <1>1, EditFiles DEF Added
<1>3. manifest.log <= edit.log /\ UpTo(AllEntries(FilesOf(manifest.version) \cup Added), edit.seq)
  BY DEF SInv, EditSettled
<1>4. UpTo(AllEntries(FilesOf(manifest'.version) \cup Added), edit.seq)
  BY <1>2, <1>3 DEF UpTo, AllEntries
<1>5. FilesOf(manifest.version)' = FilesOf(manifest'.version)
  BY DEF FilesOf
<1>6. ManifestSettled'
  BY <1>1, <1>4, <1>5 DEF ManifestSettled, UpTo, AllEntries
<1>7. ASSUME edit' = edit
      PROVE  EditSettled'
  <2>1. Added' = Added
    BY <1>7 DEF Added
  <2>2. manifest'.log <= edit.log
    BY <1>1 DEF IInv, DiskTyped
  <2>3. UpTo(AllEntries(FilesOf(manifest.version) \cup Added), edit.seq)'
    BY <1>4, <1>5, <1>7, <2>1 DEF UpTo, AllEntries
  <2>4. QED
    BY <1>7, <2>2, <2>3 DEF EditSettled
<1>8. QED
  BY <1>1, <1>2, <1>3, <1>6, <1>7

LEMMA WriteManifestSettled ==
  ASSUME IInv, SInv, IInv', WriteManifest
  PROVE  SInv'
<1>1. /\ bg.pc = "manifest" /\ manifest' = Logged(edit) /\ bg' = [bg EXCEPT !.pc = "install"]
      /\ UNCHANGED <<logs, phase, memtables, mem, imm, current, logNumber, seekFile, lastSequence,
                     group, edit, bgError>>
  BY DEF WriteManifest, mems, version
<1>2. phase = "open"
  BY <1>1, BackOpen
<1>3. edit # NoEdit
  BY <1>1, <1>2 DEF IInv, EditTyped
<1>4. /\ FilesOf(manifest'.version) \subseteq FilesOf(manifest.version) \cup Added
      /\ manifest.log <= manifest'.log
      /\ ManifestSettled' /\ EditSettled'
  BY <1>1, <1>3, LoggedSettled
<1>5. bg'.comp = bg.comp /\ bg'.pc = "install"
  BY <1>1, <1>2, OpenFacts
<1>6. MergesTyped' /\ (\A f \in Written' : OfTables(f.ents)) /\ \A T \in ToWrite' : OfTables(T)
  BY <1>5, FewerMerges
<1>7. \A f \in Added' : OfTables(f.ents)
  <2>1. Added' = Added /\ \A f \in Added : f.ents \in Tables
    BY <1>1 DEF Added, Tables
  <2>2. QED
    BY <2>1 DEF SInv, TablesSettled, OfTables
<1>8. LogsForward'
  BY <1>5 DEF LogsForward
<1>9. QED
  BY <1>1, <1>2, <1>4, <1>6, <1>7, <1>8, BackSettled

LEMMA WriteManifestFailsSettled ==
  ASSUME IInv, SInv, IInv', WriteManifestFails
  PROVE  SInv'
<1>1. /\ bg.pc = "manifest" /\ manifest' \in {manifest, Logged(edit)} /\ bgError' = TRUE
      /\ EndCall(imm, current, seekFile, TRUE)
      /\ UNCHANGED <<phase, memtables, mem, imm, current, logNumber, seekFile, lastSequence, group>>
  BY DEF WriteManifestFails, mems, version
<1>2. phase = "open"
  BY <1>1, BackOpen
<1>3. edit # NoEdit
  BY <1>1, <1>2 DEF IInv, EditTyped
<1>4. bg' = Idle /\ edit' = NoEdit
  BY <1>1 DEF EndCall
<1>5. /\ FilesOf(manifest'.version) \subseteq FilesOf(manifest.version) \cup Added
      /\ manifest.log <= manifest'.log
      /\ ManifestSettled'
  <2>1. CASE manifest' = manifest
    BY <2>1 DEF SInv, ManifestSettled, IInv, DiskTyped
  <2>2. CASE manifest' = Logged(edit)
    BY <1>3, <2>2, LoggedSettled
  <2>3. QED
    BY <1>1, <2>1, <2>2
<1>6. EditSettled' /\ Added' = {}
  BY <1>4, EditGone
<1>7. MergesTyped' /\ (\A f \in Written' : OfTables(f.ents)) /\ \A T \in ToWrite' : OfTables(T)
  <2>1. bg'.comp \subseteq bg.comp
    BY <1>4 DEF Idle
  <2>2. QED
    BY <2>1, FewerMerges
<1>8. LogsForward'
  BY <1>1, <1>4 DEF LogsForward, Idle
<1>9. \A n \in DOMAIN logs' : n \in DOMAIN logs /\ logs'[n] = logs[n]
  <2>1. CASE edit.kind = "compact"
    <3>1. DeleteObsoleteFiles(TRUE, current, pending', {}, logNumber)
      BY <2>1 DEF WriteManifestFails
    <3>2. QED
      BY <3>1, DeletionKeeps
  <2>2. CASE edit.kind # "compact"
    BY <2>2 DEF WriteManifestFails
  <2>3. QED
    BY <2>1, <2>2
<1>10. QED
  BY <1>1, <1>2, <1>5, <1>6, <1>7, <1>8, <1>9, BackSettled

\* A version installed has the tables of the one before and of the edit.
LEMMA InstallSettled ==
  ASSUME IInv, SInv, IInv', bg.pc = "install", NewVersion,
         UNCHANGED <<manifest, phase, mem, lastSequence, group, bgError>>,
         memtables'[mem] = memtables[mem], DOMAIN memtables' \subseteq DOMAIN memtables,
         imm' = NoFile \/ (imm' = imm /\ memtables'[imm] = memtables[imm]),
         bg'.comp \subseteq bg.comp, edit' = NoEdit,
         \A n \in DOMAIN logs' : n \in DOMAIN logs /\ logs'[n] = logs[n]
  PROVE  SInv'
<1>1. phase = "open"
  BY BackOpen
<1>2. edit # NoEdit
  BY <1>1 DEF IInv, EditTyped
<1>3. current' = ApplyEdit(current, edit) /\ logNumber' = edit.log /\ seekFile' = NoSeekFile
  BY DEF NewVersion
<1>4. FilesOf(current') \subseteq FilesOf(current) \cup Added
  BY <1>2, <1>3, EditFiles DEF Added
<1>5. EditSettled' /\ Added' = {}
  BY EditGone
<1>6. MergesTyped' /\ (\A f \in Written' : OfTables(f.ents)) /\ \A T \in ToWrite' : OfTables(T)
  BY FewerMerges
<1>7. manifest.log <= edit.log /\ manifest.log <= manifest'.log
  BY <1>2 DEF SInv, EditSettled, IInv, DiskTyped
<1>8. LogsForward' /\ ManifestSettled'
  BY <1>3, <1>7 DEF LogsForward, SInv, ManifestSettled
<1>9. QED
  BY <1>1, <1>3, <1>4, <1>5, <1>6, <1>7, <1>8, BackSettled

LEMMA InstallFlushSettled ==
  ASSUME IInv, SInv, IInv', InstallFlush
  PROVE  SInv'
<1>1. /\ bg.pc = "install" /\ NewVersion /\ imm' = NoFile
      /\ memtables' = Referred({mem} \cup HeldMemtables(readers))
      /\ DeleteObsoleteFiles(bgError, current', pending, bg.comp, edit.log)
      /\ EndFlush(NoFile, current', NoSeekFile, FALSE)
      /\ UNCHANGED <<manifest, phase, mem, lastSequence, group, bgError>>
  BY DEF InstallFlush
<1>2. phase = "open"
  BY <1>1, BackOpen
<1>3. bg'.comp \subseteq bg.comp /\ edit' = NoEdit
  BY <1>1, <1>2, FlushLeaves
<1>4. mem \in DOMAIN memtables
  BY <1>2 DEF IInv, Numbered
<1>5. memtables'[mem] = memtables[mem] /\ DOMAIN memtables' \subseteq DOMAIN memtables
  BY <1>1, <1>4 DEF Referred, Restrict
<1>6. \A n \in DOMAIN logs' : n \in DOMAIN logs /\ logs'[n] = logs[n]
  BY <1>1, DeletionKeeps
<1>7. QED
  BY <1>1, <1>3, <1>5, <1>6, InstallSettled

LEMMA InstallMoveSettled ==
  ASSUME IInv, SInv, IInv', InstallMove
  PROVE  SInv'
<1>1. /\ bg.pc = "install" /\ NewVersion /\ bg' = Idle /\ edit' = NoEdit
      /\ UNCHANGED <<logs, manifest, phase, memtables, mem, imm, lastSequence, group, bgError>>
  BY DEF InstallMove, EndCall, disk, mems
<1>2. bg'.comp \subseteq bg.comp
  BY <1>1 DEF Idle
<1>3. QED
  BY <1>1, <1>2, InstallSettled

LEMMA InstallCompactionSettled ==
  ASSUME IInv, SInv, IInv', InstallCompaction
  PROVE  SInv'
<1>1. /\ bg.pc = "install" /\ NewVersion /\ bg' = Idle /\ edit' = NoEdit
      /\ DeleteObsoleteFiles(bgError, current', pending', {}, edit.log)
      /\ UNCHANGED <<manifest, phase, memtables, mem, imm, lastSequence, group, bgError>>
  BY DEF InstallCompaction, EndCall, mems
<1>2. bg'.comp \subseteq bg.comp
  BY <1>1 DEF Idle
<1>3. \A n \in DOMAIN logs' : n \in DOMAIN logs /\ logs'[n] = logs[n]
  BY <1>1, DeletionKeeps
<1>4. QED
  BY <1>1, <1>2, <1>3, InstallSettled

LEMMA BackgroundSettled ==
  ASSUME IInv, SInv, IInv', BackgroundStep
  PROVE  SInv'
BY QueueSettled, BeginFlushSettled, BuildTableSettled, BuildTableFailsSettled,
   BeginCompactionSettled, CompactOutputSettled, CompactOutputFailsSettled, CompactDoneSettled,
   WriteManifestSettled, WriteManifestFailsSettled, InstallFlushSettled, InstallMoveSettled,
   InstallCompactionSettled
   DEF BackgroundStep

-----------------------------------------------------------------------------
(* Opening, crashes and the whole specification.                           *)

LEMMA RecoverSettled ==
  ASSUME IInv, SInv, IInv', Recover
  PROVE  SInv'
<1> DEFINE r == Replay
<1>1. /\ phase = "down" /\ phase' = "recovering"
      /\ lastSequence' = RecoveredSequence(r.files)
      /\ mem' = r.next
      /\ edit' = Edit("recover", At(0, r.files), {}, mem', nextFile', lastSequence')
      /\ logs' = Bind(logs, mem', NewLog)
      /\ memtables' = Bind(<<>>, mem', {})
      /\ current' = manifest.version
      /\ UNCHANGED <<manifest, imm, seekFile, group, bg>>
  BY DEF Recover, held
<1>2. DiskTyped /\ NoProcess
  BY <1>1 DEF IInv, Phases
<1>3. PICK U \in SUBSET LogEntry : Known(U)
  BY DEF SInv, EntriesKnown
<1>4. r \in Replaying(U, {manifest.log} \cup DOMAIN logs)
  BY <1>2, <1>3, ReplayTyping DEF Known
<1> HIDE DEF r
<1>5. /\ r.next \in Nat /\ manifest.log < r.next /\ \A n \in DOMAIN logs : n < r.next
      /\ \A f \in r.files : f.ents \subseteq U /\ f.ents # {}
  BY <1>4 DEF Replaying, NewFile
<1>6. /\ lastSequence' \in Nat /\ manifest.seq <= lastSequence'
      /\ \A e \in AllEntries(r.files) : e.seq <= lastSequence'
  <2>1. {manifest.log} \cup DOMAIN logs \in SUBSET Nat
    BY <1>2 DEF DiskTyped
  <2>2. /\ RecoveredSequence(r.files) \in Nat /\ manifest.seq <= RecoveredSequence(r.files)
        /\ \A e \in AllEntries(r.files) : e.seq <= RecoveredSequence(r.files)
    BY <1>2, <1>4, <2>1, RecoveredSequenceTyping
  <2>3. QED
    BY <1>1, <2>2
<1>7. /\ DOMAIN logs' = DOMAIN logs \cup {mem'}
      /\ \A n \in DOMAIN logs' : logs'[n] = IF n = mem' THEN NewLog ELSE logs[n]
      /\ DOMAIN memtables' = {mem'} /\ memtables'[mem'] = {}
  BY <1>1 DEF Bind
<1>8. edit' # NoEdit /\ Added' = r.files /\ edit'.log = mem' /\ edit'.seq = lastSequence'
  <2>1. /\ edit'.kind = "recover" /\ edit'.add = At(0, r.files)
        /\ edit'.log = mem' /\ edit'.seq = lastSequence'
    BY <1>1 DEF Edit
  <2>2. edit' # NoEdit
    BY <2>1 DEF NoEdit
  <2>3. Added' = {a.file : a \in At(0, r.files)}
    BY <2>1, <2>2 DEF Added
  <2>4. QED
    BY <2>1, <2>2, <2>3, AddedAt
<1>9. /\ FilesOf(manifest'.version) = FilesOf(manifest.version)
      /\ FilesOf(current') = FilesOf(manifest.version)
  BY <1>1 DEF FilesOf
<1>10. bg'.comp = {} /\ Group' = {} /\ Frozen' = {} /\ NewMem' = {} /\ group' = NoGroup
  BY <1>1, <1>2, <1>7 DEF NoProcess, Idle, Group, Frozen, NewMem
<1>11. Tables' = {f.ents : f \in FilesOf(manifest.version) \cup r.files}
  <2>1. Written' = {} /\ ToWrite' = {}
    BY <1>10 DEF Written, ToWrite
  <2>2. QED
    BY <1>8, <1>9, <1>10, <2>1 DEF Tables, FilesOf
<1>12. \A f \in FilesOf(manifest.version) :
         f.ents \subseteq U /\ f.ents # {} /\ UpTo(f.ents, manifest.seq)
  <2>1. \A f \in FilesOf(manifest.version) : f.ents \in Tables
    BY DEF Tables
  <2>2. QED
    BY <1>3, <2>1 DEF Known, SInv, TablesSettled, ManifestSettled, UpTo, AllEntries
<1>13. \A e \in U : e.seq \in Nat
  BY DEF LogEntry
<1>14. \A f \in FilesOf(manifest.version) \cup r.files : \A e \in f.ents : e.seq <= lastSequence'
  <2>1. \A f \in FilesOf(manifest.version) : \A e \in f.ents : e.seq <= lastSequence'
    <3>1. manifest.seq \in Nat
      BY <1>2 DEF DiskTyped
    <3>2. QED
      BY <1>6, <1>12, <1>13, <3>1 DEF UpTo
  <2>2. \A f \in r.files : \A e \in f.ents : e.seq <= lastSequence'
    BY <1>6 DEF AllEntries
  <2>3. QED
    BY <2>1, <2>2
<1>15. LogsIn(U)'
  <2>1. ASSUME NEW n \in DOMAIN logs', n >= manifest.log
        PROVE  logs'[n] \in Log(U)
    BY <1>3, <1>7, <2>1, NewLogTyping DEF Known, LogsIn
  <2>2. QED
    BY <1>1, <2>1 DEF LogsIn
<1>16. Known(U)'
  <2>1. \A T \in Tables' : T \subseteq U
    BY <1>5, <1>11, <1>12
  <2>2. QED
    BY <1>1, <1>3, <1>10, <1>15, <2>1 DEF Known
<1>17. TablesSettled'
  <2>1. \A T \in Tables' : T # {} /\ \A e \in T : e.seq <= lastSequence'
    BY <1>5, <1>11, <1>12, <1>14
  <2>2. QED
    BY <2>1 DEF TablesSettled, UpTo
<1>18. ManifestSettled'
  BY <1>1, <1>9 DEF SInv, ManifestSettled
<1>19. EditSettled'
  <2>1. manifest.log <= mem'
    BY <1>1, <1>2, <1>5 DEF DiskTyped
  <2>2. UpTo(AllEntries(FilesOf(manifest.version) \cup Added), edit.seq)'
    BY <1>8, <1>9, <1>14 DEF UpTo, AllEntries
  <2>3. QED
    BY <1>1, <1>8, <2>1, <2>2 DEF EditSettled
<1>20. OpeningClean'
  <2>1. \A n \in DOMAIN logs' : n <= mem'
    <3>1. DOMAIN logs \subseteq Nat
      BY <1>2 DEF DiskTyped
    <3>2. QED
      BY <1>1, <1>5, <1>7, <3>1
  <2>2. QED
    BY <1>1, <1>7, <2>1 DEF OpeningClean
<1>21. LogsForward' /\ GroupNumbered' /\ MergesTyped'
  BY <1>1, <1>10 DEF LogsForward, GroupNumbered, MergesTyped
<1>22. MemtablesApart' /\ SeekFileHasNextLevel'
  <2>1. 0 < mem'
    BY <1>1, <1>2, <1>5 DEF DiskTyped
  <2>2. seekFile' = {}
    BY <1>1, <1>2 DEF NoProcess, NoSeekFile
  <2>3. QED
    BY <1>1, <1>7, <2>1, <2>2 DEF MemtablesApart, SeekFileHasNextLevel, NoFile
<1>23. QED
  BY <1>16, <1>17, <1>18, <1>19, <1>20, <1>21, <1>22 DEF SInv, EntriesKnown

LEMMA CommitRecoverySettled ==
  ASSUME IInv, SInv, IInv', CommitRecovery
  PROVE  SInv'
<1>1. /\ phase = "recovering" /\ phase' = "committed" /\ manifest' = Logged(edit)
      /\ UNCHANGED <<logs, memtables, mem, imm, current, logNumber, seekFile, lastSequence, group,
                     bg, edit, bgError>>
  BY DEF CommitRecovery, mems, version, back
<1>2. edit # NoEdit /\ edit.log = mem
  BY <1>1, OpeningFacts
<1>3. /\ FilesOf(manifest'.version) \subseteq FilesOf(manifest.version) \cup Added
      /\ manifest'.log = mem /\ manifest.log <= manifest'.log
      /\ ManifestSettled' /\ EditSettled'
  BY <1>1, <1>2, LoggedSettled
<1>4. PICK U \in SUBSET LogEntry : Known(U)
  BY DEF SInv, EntriesKnown
<1>5. Tables' \subseteq Tables
  <2>1. /\ Added' = Added /\ Written' = Written /\ ToWrite' = ToWrite /\ Frozen' = Frozen
        /\ FilesOf(current') = FilesOf(current)
    BY <1>1 DEF Added, Written, ToWrite, Frozen
  <2>2. Tables' = {f.ents : f \in FilesOf(manifest'.version) \cup FilesOf(current) \cup Added
                                    \cup Written} \cup ToWrite \cup Frozen
    BY <2>1 DEF Tables, FilesOf
  <2>3. QED
    BY <1>3, <2>2 DEF Tables
<1>6. LogsIn(U)'
  <2>1. manifest.log \in Nat /\ manifest'.log \in Nat /\ DOMAIN logs \subseteq Nat
    BY DEF IInv, DiskTyped
  <2>2. LogsIn(U)
    BY <1>4 DEF Known
  <2>3. QED
    BY <1>1, <1>3, <2>1, <2>2 DEF LogsIn
<1>7. Known(U)'
  <2>1. NewMem' = NewMem /\ Group' = Group
    BY <1>1 DEF NewMem, Group
  <2>2. QED
    BY <1>1, <1>4, <1>5, <1>6, <2>1 DEF Known
<1>8. TablesSettled'
  BY <1>1, <1>5 DEF SInv, TablesSettled, UpTo
<1>9. LogsForward' /\ GroupNumbered' /\ MergesTyped' /\ MemtablesApart' /\ SeekFileHasNextLevel'
  BY <1>1 DEF SInv, LogsForward, GroupNumbered, MergesTyped, MemtablesApart, SeekFileHasNextLevel
<1>10. OpeningClean'
  BY <1>1, <1>3 DEF SInv, OpeningClean
<1>11. QED
  BY <1>3, <1>7, <1>8, <1>9, <1>10 DEF SInv, EntriesKnown

LEMMA FinishOpenSettled ==
  ASSUME IInv, SInv, IInv', FinishOpen
  PROVE  SInv'
<1>1. /\ phase = "committed" /\ phase' = "open" /\ NewVersion
      /\ DeleteObsoleteFiles(bgError, current', pending', {}, edit.log)
      /\ edit' = NoEdit
      /\ UNCHANGED <<manifest, memtables, mem, imm, lastSequence, group, bg, bgError>>
  BY DEF FinishOpen, mems
<1>2. /\ edit # NoEdit /\ edit.log = mem /\ bg = Idle /\ imm = NoFile /\ group = NoGroup
  BY <1>1, OpeningFacts DEF IInv, Phases, Opening
<1>3. current' = ApplyEdit(current, edit) /\ logNumber' = mem /\ seekFile' = {}
  BY <1>1, <1>2 DEF NewVersion, NoSeekFile
<1>4. /\ manifest.log = mem /\ memtables[mem] = {} /\ logs[mem] = NewLog
      /\ \A n \in DOMAIN logs : n <= mem
  BY <1>1 DEF SInv, OpeningClean
<1>5. FilesOf(current') \subseteq FilesOf(current) \cup Added
  BY <1>2, <1>3, EditFiles DEF Added
<1>6. EditSettled' /\ Added' = {}
  BY <1>1, EditGone
<1>7. /\ Written' = Written /\ ToWrite' = ToWrite /\ Frozen' = {} /\ Group' = {} /\ NewMem' = {}
      /\ group' = NoGroup
  BY <1>1, <1>2, <1>4 DEF Written, ToWrite, Frozen, Group, NewMem
<1>8. Tables' \subseteq Tables
  <2>1. Tables' = {f.ents : f \in FilesOf(manifest.version) \cup FilesOf(current') \cup Written}
                    \cup ToWrite
    BY <1>1, <1>6, <1>7 DEF Tables, FilesOf
  <2>2. QED
    BY <1>5, <2>1 DEF Tables
<1>9. PICK U \in SUBSET LogEntry : Known(U)
  BY DEF SInv, EntriesKnown
<1>10. PICK V \in SUBSET LogEntry : V = {e \in U : e.seq <= lastSequence}
  OBVIOUS
<1>11. \A T \in Tables : T # {} /\ UpTo(T, lastSequence) /\ T \subseteq V
  BY <1>1, <1>9, <1>10 DEF SInv, TablesSettled, Known, UpTo
<1>12. Known(V)'
  <2>1. IsFiniteSet(V) /\ Distinct(V)
    BY <1>9, <1>10, FS_Subset DEF Known, Distinct
  <2>2. LogsIn(V)'
    <3>1. ASSUME NEW n \in DOMAIN logs', n >= manifest.log
          PROVE  logs'[n] \in Log(V)
      <4>1. n \in DOMAIN logs /\ logs'[n] = logs[n]
        BY <1>1, DeletionKeeps
      <4>2. n \in Nat /\ mem \in Nat
        BY <1>1, <4>1 DEF IInv, DiskTyped, Numbered
      <4>3. n = mem
        BY <1>4, <3>1, <4>1, <4>2
      <4>4. QED
        BY <1>4, <4>1, <4>3, NewLogTyping
    <3>2. QED
      BY <1>1, <3>1 DEF LogsIn
  <2>3. \A T \in Tables' : T \subseteq V
    BY <1>8, <1>11
  <2>4. UpTo(V \ Group, lastSequence)'
    BY <1>1, <1>10 DEF UpTo
  <2>5. QED
    BY <1>7, <2>1, <2>2, <2>3, <2>4 DEF Known
<1>13. TablesSettled'
  BY <1>1, <1>8, <1>11 DEF TablesSettled, UpTo
<1>14. ManifestSettled' /\ MergesTyped'
  BY <1>1 DEF SInv, ManifestSettled, MergesTyped, FilesOf
<1>15. LogsForward'
  <2>1. manifest.log <= mem
    BY <1>4 DEF IInv, DiskTyped
  <2>2. QED
    BY <1>1, <1>3, <2>1 DEF LogsForward
<1>16. GroupNumbered' /\ OpeningClean' /\ SeekFileHasNextLevel'
  BY <1>1, <1>3, <1>7 DEF GroupNumbered, OpeningClean, SeekFileHasNextLevel
<1>17. MemtablesApart'
  <2>1. 0 < mem /\ mem \in Nat
    BY <1>1 DEF IInv, Numbered
  <2>2. QED
    BY <1>1, <1>2, <2>1 DEF SInv, MemtablesApart, NoFile
<1>18. QED
  BY <1>6, <1>12, <1>13, <1>14, <1>15, <1>16, <1>17 DEF SInv, EntriesKnown

LEMMA OpenSettled ==
  ASSUME IInv, SInv, IInv', OpenStep
  PROVE  SInv'
BY RecoverSettled, CommitRecoverySettled, FinishOpenSettled DEF OpenStep

\* The entries that are on the disk.
OnDiskKnown ==
  \E U \in SUBSET LogEntry :
    /\ IsFiniteSet(U) /\ Distinct(U) /\ LogsIn(U)
    /\ \A f \in FilesOf(manifest.version) : f.ents # {} /\ f.ents \subseteq U

\* With no process at work, the tables are those that MANIFEST names.
LEMMA DownSettled ==
  ASSUME phase = "down", NoProcess, OnDiskKnown, ManifestSettled
  PROVE  SInv
<1> PICK U \in SUBSET LogEntry :
      /\ IsFiniteSet(U) /\ Distinct(U) /\ LogsIn(U)
      /\ \A f \in FilesOf(manifest.version) : f.ents # {} /\ f.ents \subseteq U
  BY DEF OnDiskKnown
<1>1. FilesOf(current) = {} /\ Added = {} /\ Frozen = {} /\ bg.comp = {} /\ Group = {} /\ NewMem = {}
  BY DEF NoProcess, FilesOf, NoFiles, Added, Frozen, Idle, Group, NewMem
<1>2. Written = {} /\ ToWrite = {}
  BY <1>1 DEF Written, ToWrite
<1>3. Tables = {f.ents : f \in FilesOf(manifest.version)}
  BY <1>1, <1>2 DEF Tables
<1>4. Known(U)
  BY <1>1, <1>3 DEF Known
<1>5. TablesSettled /\ EditSettled
  BY <1>3 DEF TablesSettled, NoProcess, EditSettled
<1>6. LogsForward /\ GroupNumbered /\ OpeningClean
  BY DEF LogsForward, NoProcess, GroupNumbered, OpeningClean
<1>7. MemtablesApart /\ MergesTyped /\ SeekFileHasNextLevel
  BY <1>1 DEF NoProcess, MemtablesApart, MergesTyped, SeekFileHasNextLevel, NoSeekFile
<1>8. QED
  BY <1>4, <1>5, <1>6, <1>7 DEF SInv, EntriesKnown

LEMMA InitSInv ==
  Init => SInv
<1> SUFFICES ASSUME Init
             PROVE  SInv
  OBVIOUS
<1>1. /\ logs = <<>> /\ phase = "down" /\ NoProcess
      /\ manifest = [version |-> NoFiles, log |-> 0, next |-> 2, seq |-> 0]
  BY DEF Init, InManifest
<1>2. DOMAIN logs = {} /\ FilesOf(manifest.version) = {}
  BY <1>1 DEF FilesOf, NoFiles
<1>3. {} \in SUBSET LogEntry /\ IsFiniteSet({}) /\ Distinct({}) /\ LogsIn({}) /\ ManifestSettled
  BY <1>2, FS_EmptySet DEF Distinct, LogsIn, ManifestSettled, UpTo, AllEntries
<1>4. OnDiskKnown
  BY <1>2, <1>3 DEF OnDiskKnown
<1>5. QED
  BY <1>1, <1>3, <1>4, DownSettled

\* A crash gives back no entry that was not there.
LEMMA CrashSettled ==
  ASSUME IInv, SInv, NEW kind, Crash(kind)
  PROVE  SInv'
<1>1. phase' = "down" /\ logs' \in Left(kind) /\ manifest' = manifest /\ NoProcess'
  BY DEF Crash, ProcessEnds, NoProcess
<1>2. PICK U \in SUBSET LogEntry : Known(U)
  BY DEF SInv, EntriesKnown
<1>3. group # NoGroup => group.batch.rec \in Seq(U)
  <2> SUFFICES ASSUME group # NoGroup
               PROVE  group.batch.rec \in Seq(U)
    OBVIOUS
  <2>1. ToSet(group.batch.rec) \subseteq U
    BY <1>2 DEF Known, Group
  <2>2. group.batch.rec \in Seq(LogEntry)
    BY GroupOpen
  <2>3. QED
    BY <2>1, <2>2, RecordOf
<1>4. DOMAIN logs' = DOMAIN logs /\ \A n \in DOMAIN logs : logs[n] \in Log(U) => logs'[n] \in Log(U)
  BY <1>1, <1>3, LeftTyping
<1>5. LogsIn(U)'
  BY <1>1, <1>2, <1>4 DEF Known, LogsIn
<1>6. FilesOf(manifest.version)' = FilesOf(manifest.version)
  BY <1>1 DEF FilesOf
<1>7. \A f \in FilesOf(manifest.version) : f.ents # {} /\ f.ents \subseteq U
  <2>1. \A f \in FilesOf(manifest.version) : f.ents \in Tables
    BY DEF Tables
  <2>2. QED
    BY <1>2, <2>1 DEF SInv, TablesSettled, Known
<1>8. ManifestSettled'
  BY <1>1, <1>6 DEF SInv, ManifestSettled
<1>9. OnDiskKnown'
  BY <1>2, <1>5, <1>6, <1>7 DEF OnDiskKnown, Known
<1>10. (phase = "down" /\ NoProcess /\ OnDiskKnown /\ ManifestSettled)'
  BY <1>1, <1>8, <1>9
<1>11. QED
  BY <1>10, DownSettled, PTL

LEMMA StutterSettled ==
  ASSUME SInv, UNCHANGED vars
  PROVE  SInv'
<1>1. UNCHANGED <<tables, logs, manifest, phase, memtables, mem, imm, current, logNumber, seekFile,
                  nextFile, lastSequence, group, bg, edit, bgError>>
  BY DEF vars, disk, mems, version, held, back, counts
<1>2. Tables' = Tables /\ ManifestSettled' /\ EditSettled' /\ LogsForward' /\ MergesTyped'
  BY <1>1, TablesKept
<1>3. PICK U \in SUBSET LogEntry : Known(U)
  BY DEF SInv, EntriesKnown
<1>4. LogsIn(U)' /\ NewMem' = NewMem /\ Group' = Group
  BY <1>1, <1>3 DEF Known, LogsIn, NewMem, Group
<1>5. Known(U)'
  BY <1>1, <1>2, <1>3, <1>4 DEF Known
<1>6. TablesSettled' /\ GroupNumbered' /\ OpeningClean' /\ MemtablesApart' /\ SeekFileHasNextLevel'
  BY <1>1, <1>2 DEF SInv, TablesSettled, GroupNumbered, OpeningClean, MemtablesApart,
                    SeekFileHasNextLevel
<1>7. QED
  BY <1>2, <1>5, <1>6 DEF SInv, EntriesKnown

\* Every step keeps the entries of the store apart.
LEMMA NextSettled ==
  IInv /\ SInv /\ IInv' /\ [Next]_vars => SInv'
<1>1. ASSUME IInv, SInv, IInv', Next
      PROVE  SInv'
  <2>1. ASSUME NEW b \in Batches, NEW sync \in Syncs, Write(b, sync)
        PROVE  SInv'
    BY <1>1, <2>1, QueueSettled
  <2>2. ASSUME NEW kind \in CrashKinds, Crash(kind)
        PROVE  SInv'
    BY <1>1, <2>2, CrashSettled
  <2>3. OpenStep \/ WriterStep \/ BackgroundStep \/ ReaderStep => SInv'
    BY <1>1, OpenSettled, WriterSettled, BackgroundSettled, ReaderSettled
  <2>4. QED
    BY <1>1, <2>1, <2>2, <2>3 DEF Next
<1>2. QED
  BY <1>1, StutterSettled

\* Every entry that the store has, or that a log may give back, is one of a
\* finite set of entries of distinct sequence numbers; the tables are not
\* empty and know no number that was not given out, and MANIFEST's number
\* covers its tables: through every step of every thread and every crash.
THEOREM EntriesSettled == Spec => []SInv
<1>1. Init => SInv
  BY InitSInv
<1>2. IInv /\ SInv /\ IInv' /\ [Next]_vars => SInv'
  BY NextSettled
<1>3. Spec => []IInv
  BY Invariant
<1>4. QED
  BY <1>1, <1>2, <1>3, PTL DEF Spec

\* No two entries of the store, in the tables, in what the logs give back or in
\* memory, have one sequence number: after failed writes, logs that were lost or
\* cut and any number of recoveries (WriteBatchInternal::SetSequence and
\* VersionSet::SetLastSequence in Write, VersionEdit::SetLastSequence in
\* LogAndApply, the max_sequence of Recover).
THEOREM SequencesAreDistinct == Spec => []SequencesDistinct
<1>1. ASSUME IInv, SInv
      PROVE  SequencesDistinct
  <2>1. PICK U \in SUBSET LogEntry : Known(U)
    BY <1>1 DEF SInv, EntriesKnown
  <2> DEFINE ents == AllEntries(FilesOf(manifest.version)) \cup AllEntries(Replay.files)
                       \cup UNION {memtables[m] : m \in DOMAIN memtables \cap {mem, imm}}
  <2>2. AllEntries(FilesOf(manifest.version)) \subseteq U
    <3>1. \A f \in FilesOf(manifest.version) : f.ents \in Tables
      BY DEF Tables
    <3>2. QED
      BY <2>1, <3>1 DEF Known, AllEntries
  <2>3. AllEntries(Replay.files) \subseteq U
    <3>1. Replay \in Replaying(U, {manifest.log} \cup DOMAIN logs)
      BY <1>1, <2>1, ReplayTyping DEF IInv, Known
    <3>2. QED
      BY <3>1 DEF Replaying, AllEntries
  <2>4. ASSUME NEW m \in DOMAIN memtables \cap {mem, imm}
        PROVE  memtables[m] \subseteq U
    <3>1. m # NoFile
      BY <1>1 DEF SInv, MemtablesApart
    <3>2. phase # "down"
      BY <1>1, <3>1 DEF IInv, Phases, NoProcess
    <3>3. CASE m = mem
      BY <2>1, <3>2, <3>3 DEF Known, NewMem
    <3>4. CASE m = imm
      <4>1. memtables[m] \in Tables
        BY <3>1, <3>4 DEF Frozen, Tables
      <4>2. QED
        BY <2>1, <4>1 DEF Known
    <3>5. QED
      BY <3>3, <3>4
  <2>5. ents \subseteq U
    BY <2>2, <2>3, <2>4
  <2> HIDE DEF ents
  <2>6. IsFiniteSet(ents) /\ Distinct(ents)
    BY <2>1, <2>5, FS_Subset DEF Known, Distinct
  <2>7. Cardinality(ents) = Cardinality({e.seq : e \in ents})
    BY <2>6, NumbersCounted
  <2>8. QED
    BY <2>7 DEF ents, SequencesDistinct
<1>2. QED
  BY <1>1, Invariant, EntriesSettled, PTL

\* The first of two or more files that a read goes to is not of the last level,
\* for it goes to one file at most of a level other than 0.  So the compaction
\* of a file that used up its seeks has a level to go to, which PickCompaction
\* does not check (Version::UpdateStats, VersionSet::PickCompaction,
\* SetupOtherInputs).
THEOREM SeekFilesHaveNextLevel == Spec => []SeekFileHasNextLevel
<1>1. SInv => SeekFileHasNextLevel
  BY DEF SInv
<1>2. QED
  BY <1>1, EntriesSettled, PTL
=============================================================================
