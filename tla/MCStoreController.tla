--------------------------- MODULE MCStoreController ---------------------------
(* Instances of StoreController for TLC.                                    *)
EXTENDS StoreController, TLC

ReplicaSymmetry == Permutations(Replicas)
=============================================================================
