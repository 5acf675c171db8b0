------------------------------ MODULE DBFormat ------------------------------
(***************************************************************************)
(* The entries of the LevelDB store (Pods/leveldb-library, db/dbformat).   *)
(*                                                                         *)
(* An entry is an internal key with its value: the user key, the sequence  *)
(* number of the write, and what was written.  A value is the number of    *)
(* the batch that wrote it, and Deleted stands for a deletion, so that two *)
(* writes given the same sequence number are still told apart.             *)
(***************************************************************************)
EXTENDS Integers, FiniteSets, FiniteSetsExt, SequencesExt

\* op folded over the sequence from its first element on.  The sets of one
\* element have the sequence, and the value of each step, computed once.
FoldSteps(op(_, _), base, seq) ==
  LET Fold(s) ==
        LET st[i \in 0 .. Len(s)] ==
              IF i = 0 THEN base ELSE CHOOSE y \in {op(x, s[i]) : x \in {st[i - 1]}} : TRUE
        IN  st[Len(s)]
  IN  CHOOSE r \in {Fold(s) : s \in {seq}} : TRUE

\* The elements of a finite set in their order, which is total.
InOrder(S, Less(_, _)) ==
  [i \in 1 .. Cardinality(S) |->
     CHOOSE x \in S : Cardinality({y \in S : Less(y, x)}) = i - 1]

\* The map f with x bound to v.
Bind(f, x, v) == [y \in DOMAIN f \cup {x} |-> IF y = x THEN v ELSE f[y]]

Deleted == 0

Entry(key, seq, val) == [key |-> key, seq |-> seq, val |-> val]

\* InternalKeyComparator: by user key, the newer entry of a user key first.
Before(a, b) ==
  \/ a.key < b.key
  \/ a.key = b.key /\ a.seq > b.seq

FirstEntry(ents) == CHOOSE e \in ents : \A d \in ents \ {e} : Before(e, d)
LastEntry(ents)  == CHOOSE e \in ents : \A d \in ents \ {e} : Before(d, e)

MinKey(ents) == Min({e.key : e \in ents})
MaxKey(ents) == Max({e.key : e \in ents})

\* What Seek finds in a table or a memtable: the entry of the key that a
\* reader at this sequence number sees, in a set of at most one element.
Seek(ents, key, seq) ==
  {e \in ents : /\ e.key = key /\ e.seq <= seq
                /\ \A d \in ents : d.key = key /\ d.seq <= seq => d.seq <= e.seq}

=============================================================================
