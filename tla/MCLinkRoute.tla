---------------------------- MODULE MCLinkRoute -----------------------------
(* LinkRoute with the values of its configurations. *)
EXTENDS LinkRoute, TLC

Symmetry == Permutations(Groups) \cup Permutations(Gateways)
=============================================================================
