---------------------------- MODULE MCPagedCache ----------------------------
(* Requests and blocks are interchangeable. *)
EXTENDS PagedCache, TLC

Symmetry == Permutations(Requests) \cup Permutations(Blocks)
=============================================================================
