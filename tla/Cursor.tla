------------------------------- MODULE Cursor -------------------------------
(***************************************************************************)
(* What an iterator of the LevelDB store promises (include/leveldb/        *)
(* iterator.h): it walks in both directions over one map, that of the      *)
(* store at the sequence number it was made for, whatever is written to    *)
(* the store meanwhile, also in the middle of a call.                      *)
(*                                                                         *)
(* What may be missing (a position, a call under way) is a set of at most  *)
(* one element.                                                            *)
(***************************************************************************)
EXTENDS DBFormat

CONSTANT Keys   \* the user keys

VARIABLES
  view,   \* the map: for each key its value or Deleted
  call,   \* the call under way
  shown   \* key and value the iterator stands at, if it is valid

vars == <<view, call, shown>>

Calls ==
  [op : {"SeekToFirst", "SeekToLast", "Next", "Prev"}] \cup
  [op : {"Seek"}, target : Keys]

Present == {k \in Keys : view[k] # Deleted}

Lowest(ks)  == {k \in ks : \A j \in ks : k <= j}
Highest(ks) == {k \in ks : \A j \in ks : k >= j}

\* The key a call leads to.
Goal(c) ==
  LET After(k)  == {j \in Present : j > k}
      Until(k)  == {j \in Present : j < k}
      Here      == CHOOSE k \in Keys : \E s \in shown : s.key = k
  IN  CASE c.op = "SeekToFirst" -> Lowest(Present)
        [] c.op = "SeekToLast"  -> Highest(Present)
        [] c.op = "Seek"        -> Lowest({k \in Present : k >= c.target})
        [] c.op = "Next"        -> Lowest(After(Here))
        [] c.op = "Prev"        -> Highest(Until(Here))

Init ==
  /\ view \in [Keys -> Nat]
  /\ call = {} /\ shown = {}

\* Next and Prev may be called on a valid iterator only.
Call(c) ==
  /\ call = {}
  /\ c.op \in {"Next", "Prev"} => shown # {}
  /\ call' = {c}
  /\ UNCHANGED <<view, shown>>

Return(c) ==
  /\ call = {c}
  /\ call' = {}
  /\ shown' = {[key |-> k, val |-> view[k]] : k \in Goal(c)}
  /\ UNCHANGED view

Next == \E c \in Calls : Call(c) \/ Return(c)

Spec == Init /\ [][Next]_vars
=============================================================================
