------------------------- MODULE MCChannelRegistry --------------------------
(***************************************************************************)
(* ChannelRegistry for TLC: the applications, and the publishers, are      *)
(* interchangeable.                                                        *)
(***************************************************************************)
EXTENDS ChannelRegistry, TLC

Symmetric == Permutations(Apps) \cup Permutations(Publishers)
=============================================================================
