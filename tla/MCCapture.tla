------------------------------ MODULE MCCapture ------------------------------
(***************************************************************************)
(* Instances of Capture for TLC.  Specs and Metas are small naturals so    *)
(* that a hash can be computed from them.                                  *)
(***************************************************************************)
EXTENDS Capture, TLC

CONSTANT NoMetaRank

(* A hash with no respect for the order of capture: among contents with    *)
(* one spec, the metadata with the larger number has the smaller hash.     *)
MCHash ==
    [c \in Content |->
        10 * c.spec + (IF c.meta = NoMeta THEN NoMetaRank ELSE 9 - c.meta)]

ReplicaSymmetry == Permutations(Replicas)
=============================================================================
