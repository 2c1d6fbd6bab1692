------------------------------ MODULE MCRegistry ------------------------------
(* The constants of Registry for TLC that a .cfg cannot write down: two     *)
(* manifests share a layer of two chunks and differ in their configs.       *)
EXTENDS Registry

CONSTANTS m1, x    (* a manifest and a chunk *)

TheLayer == [m \in Manifests |-> {<<x, x>>}]
TheConfigs == [m \in Manifests |-> IF m = m1 THEN <<x>> ELSE <<>>]
=============================================================================
