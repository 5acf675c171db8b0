------------------------------ MODULE MCAfreeca ------------------------------
(* Afreeca on small instances. *)
EXTENDS Afreeca

MCCallbacks == Blocks

MCFound == {<<>>} \cup SetToSeqs(Names)

\* intent is history no property here speaks of.
View == <<server, pend, reads, mainQueue, sessionVars, listVars, alert, searchVars>>

\* Bound: the search screen is pushed only while the list has laid out nothing,
\* and the list lays out only once no block of the search is under way, so that
\* the two screens are explored one after the other.
OneBusyScreen ==
  \/ \A c \in Cells : cells[c] = NewCell
  \/ /\ top = "list"
     /\ \A i \in DOMAIN reads : reads[i] = FetchBlock
     /\ \A i \in DOMAIN mainQueue : mainQueue[i].c = FetchBlock
     /\ \A i \in DOMAIN pend : pend[i].done = NoCallback

Symmetry == Permutations(Names) \cup Permutations(Cells)
=============================================================================
