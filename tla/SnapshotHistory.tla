--------------------------- MODULE SnapshotHistory ---------------------------
(***************************************************************************)
(* What the plugin computes from a listing of one history's snapshot keys  *)
(* (internal/store/layout.go, snapshots.go, retention.go and               *)
(* internal/restore/select.go).                                            *)
(*                                                                         *)
(* A key is <timestamp>-g<generation>-<hash>.json.  Every field has a      *)
(* fixed width, so comparing two keys as strings compares their fields     *)
(* from left to right; a ref is the record of those fields.  "at" counts   *)
(* seconds, the granularity of TimestampFormat.                            *)
(***************************************************************************)
EXTENDS Naturals, FiniteSets

Refs == [at : Nat, gen : Nat, hash : Nat]

(* Mutant: generations do not break ties between equal timestamps.         *)
KeyLessWithoutGeneration(a, b) ==
    \/ a.at < b.at
    \/ a.at = b.at /\ a.hash < b.hash

(* sortRefs, and the comparison of whole keys in PlanRetention.            *)
KeyLess(a, b) ==
    \/ a.at < b.at
    \/ a.at = b.at /\ a.gen < b.gen
    \/ a.at = b.at /\ a.gen = b.gen /\ a.hash < b.hash

(* r is the last of refs in key order.                                     *)
IsNewest(r, refs) ==
    r \in refs /\ \A o \in refs : ~KeyLess(r, o)

Newest(refs) == CHOOSE r \in refs : IsNewest(r, refs)

(* The refs SelectAtOrBefore walks past before it meets one after the      *)
(* moment, and the answer it gives: the last of those.                     *)
AtOrBefore(refs, moment) == {r \in refs : r.at <= moment}

Selects(refs, moment, r) == IsNewest(r, AtOrBefore(refs, moment))

(* The refs captured before the cutoff form a prefix of the sorted list;   *)
(* the anchor is the last of them.                                         *)
BeforeCutoff(refs, cutoff) == {r \in refs : r.at < cutoff}

(* Mutant: the naive rule, which deletes the anchor as well.               *)
PlanWithAnchor(refs, cutoff) ==
    IF Cardinality(refs) < 2 THEN {} ELSE BeforeCutoff(refs, cutoff)

(* Mutant: nothing is deleted when exactly one snapshot is superseded.     *)
PlanFromTwo(refs, cutoff) ==
    IF Cardinality(BeforeCutoff(refs, cutoff)) < 3 THEN {}
    ELSE {r \in refs : \E anchor \in BeforeCutoff(refs, cutoff) : KeyLess(r, anchor)}

(* PlanRetention: everything the anchor supersedes.                        *)
PlanRetention(refs, cutoff) ==
    {r \in refs : \E anchor \in BeforeCutoff(refs, cutoff) : KeyLess(r, anchor)}

=============================================================================
