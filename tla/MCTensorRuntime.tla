-------------------------- MODULE MCTensorRuntime --------------------------
(***************************************************************************)
(* Two devices with two buffers each; meshes of one device, and of both in *)
(* two shapes. Contents are interchangeable, and so are the buffers of a   *)
(* device: no definition tells them apart.                                 *)
(***************************************************************************)
EXTENDS TensorRuntime, TLC

CONSTANTS a1, b1, a2, b2, s1, s2, s3

MCDevice == a1 :> 1 @@ b1 :> 1 @@ a2 :> 2 @@ b2 :> 2
MCNumDevices == [s \in Shapes |-> IF s = s1 THEN 1 ELSE 2]
Interchangeable == Permutations(Values) \cup Permutations({a1, b1})
                       \cup Permutations({a2, b2})
=============================================================================
