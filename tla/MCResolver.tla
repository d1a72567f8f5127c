----------------------------- MODULE MCResolver -----------------------------
(* Resolver on small instances. *)
EXTENDS Resolver, TLC

Symmetry == Permutations(Clients) \cup Permutations(Calls)
=============================================================================
