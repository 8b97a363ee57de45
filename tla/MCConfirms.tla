----------------------------- MODULE MCConfirms -----------------------------
(***************************************************************************)
(* Confirms for TLC: the publishers, and the listeners, are interchangeable. *)
(***************************************************************************)
EXTENDS Confirms, TLC

Symmetric == Permutations(Publishers) \cup Permutations(Listeners)
=============================================================================
