---------------------------- MODULE MCConsumers -----------------------------
(***************************************************************************)
(* Consumers for TLC: the applications, the tags and the consumers are     *)
(* interchangeable.                                                        *)
(***************************************************************************)
EXTENDS Consumers, TLC

Symmetric == Permutations(Apps) \cup Permutations(Tags) \cup Permutations(Cons)
=============================================================================
