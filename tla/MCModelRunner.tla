--------------------------- MODULE MCModelRunner ---------------------------
(***************************************************************************)
(* The requests of a run are interchangeable: no definition tells them     *)
(* apart.                                                                  *)
(***************************************************************************)
EXTENDS ModelRunner

Interchangeable == Permutations(Requests)
=============================================================================
