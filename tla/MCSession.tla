----------------------------- MODULE MCSession -----------------------------
(* Session on small instances. *)
EXTENDS Session

Password(len, special) ==
  [len |-> len, letter |-> TRUE, digit |-> TRUE, special |-> special]

MCPasswords == {Password(8, TRUE), Password(8, FALSE), Password(21, TRUE)}
=============================================================================
