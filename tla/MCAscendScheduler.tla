------------------------- MODULE MCAscendScheduler -------------------------
(***************************************************************************)
(* The requests of a run are interchangeable: no definition tells them     *)
(* apart.                                                                  *)
(***************************************************************************)
EXTENDS AscendScheduler

Interchangeable == Permutations(Requests)
=============================================================================
