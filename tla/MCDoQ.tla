------------------------------- MODULE MCDoQ -------------------------------
(* DoQ on small instances. *)
EXTENDS DoQ, TLC

Symmetry ==
  Permutations(Queries) \cup Permutations(Conns) \cup Permutations(Calls)
=============================================================================
