------------------------------ MODULE MCDBIter ------------------------------
(* Iterators over small stores. *)
EXTENDS DBIter

CONSTANT Held   \* how many entries the store holds

\* Entries numbered in the order they were written, the older ones further down.
Writes == [1 .. Held -> [key : Keys, del : BOOLEAN]]
Between(w, m, n) == {Entry(w[i].key, i, IF w[i].del THEN Deleted ELSE i) : i \in m .. n}

\* Where the blocks end: their last entry, or a shorter key between the blocks.
Separators(last, next) ==
  {last} \cup {Entry(k, MaxSeq + 1, Deleted) :
                 k \in {j \in Keys : j > last.key /\ \A e \in next : j < e.key}}

Runs(ents) ==
  LET s == SetToSortSeq(ents, Before)
      n == Len(s)
      Block(i, j) == {s[h] : h \in i .. j}
      Blocks(i, j) == {[ents |-> Block(i, j), sep |-> p] :
                         p \in Separators(s[j], IF j < n THEN {s[j + 1]} ELSE {})}
  IN  IF n = 0 THEN {<<>>}
      ELSE {<<b>> : b \in Blocks(1, n)} \cup
           UNION {{<<b, c>> : b \in Blocks(1, j), c \in Blocks(j + 1, n)} : j \in 1 .. n - 1}

\* The numbers up to a are in the run, those after b in the memtable.
MCLayouts ==
  UNION {UNION {
    {[mem |-> Between(w, b + 1, Held), imm |-> Between(w, a + 1, b), run |-> r, sequence |-> s] :
       r \in Runs(Between(w, 1, a)), s \in Held - 1 .. Held}
    : a \in 0 .. b} : w \in Writes, b \in 0 .. Held}
=============================================================================
