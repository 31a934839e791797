----------------------- MODULE SnapshotHistoryProofs -------------------------
(***************************************************************************)
(* What selection and retention guarantee for every history, every cutoff  *)
(* and every target.                                                       *)
(***************************************************************************)
EXTENDS SnapshotHistory, FiniteSetTheorems, WellFoundedInduction, TLAPS

(* Snapshot keys are totally ordered, the reason sortRefs compares whole   *)
(* keys last.                                                              *)
LEMMA KeyOrder ==
    ASSUME NEW a \in Refs, NEW b \in Refs, NEW c \in Refs
    PROVE  /\ ~KeyLess(a, a)
           /\ KeyLess(a, b) /\ KeyLess(b, c) => KeyLess(a, c)
           /\ KeyLess(a, b) \/ KeyLess(b, a) \/ a = b
           /\ KeyLess(a, b) => a.at <= b.at
BY DEF KeyLess, Refs

(* A history that is not empty has a newest snapshot, and only one.        *)
LEMMA NewestExists ==
    ASSUME NEW refs \in SUBSET Refs, IsFiniteSet(refs), refs # {}
    PROVE  /\ \E r \in refs : IsNewest(r, refs)
           /\ IsNewest(Newest(refs), refs)
<1> DEFINE Above(r) == {o \in refs : KeyLess(r, o)}
           Cones == {Above(r) : r \in refs}
<1>1. Cones \subseteq FiniteSubsetsOf(refs) /\ Cones # {}
  <2>1. FiniteSubsetsOf(refs) = SUBSET refs
    BY FS_FiniteSubsetsOfFinite
  <2>2. Cones \subseteq SUBSET refs
    OBVIOUS
  <2>3. Cones # {}
    BY refs # {}
  <2> QED
    BY <2>1, <2>2, <2>3
<1>2. PICK cone \in Cones :
            \A other \in Cones : ~(<<other, cone>> \in StrictSubsetOrdering(refs))
  <2>1. IsWellFoundedOn(StrictSubsetOrdering(refs), FiniteSubsetsOf(refs))
    BY FS_StrictSubsetOrderingWellFounded
  <2> HIDE DEF Cones
  <2> QED
    BY <1>1, <2>1, WFMin
<1>3. PICK r \in refs : cone = Above(r)
  BY <1>2
<1>4. ASSUME NEW o \in refs, KeyLess(r, o) PROVE FALSE
  <2>1. Above(o) \subseteq Above(r)
    BY <1>4, KeyOrder, refs \subseteq Refs
  <2>2. o \in Above(r) /\ o \notin Above(o)
    BY <1>4, KeyOrder, refs \subseteq Refs
  <2>3. <<Above(o), Above(r)>> \in StrictSubsetOrdering(refs)
    BY <2>1, <2>2 DEF StrictSubsetOrdering
  <2> QED
    BY <1>2, <1>3, <2>3
<1>5. IsNewest(r, refs)
  BY <1>4 DEF IsNewest
<1> QED
  BY <1>5 DEF Newest

(* Whatever part of the plan a sweep manages to delete, every target at or *)
(* after the cutoff selects exactly the snapshot it selected before.       *)
THEOREM RetentionPreservesSelection ==
    ASSUME NEW refs \in SUBSET Refs, IsFiniteSet(refs),
           NEW cutoff \in Nat, NEW moment \in Nat, cutoff <= moment,
           NEW deleted \in SUBSET PlanRetention(refs, cutoff),
           NEW r
    PROVE  Selects(refs \ deleted, moment, r) <=> Selects(refs, moment, r)
<1>1. ASSUME Selects(refs, moment, r) PROVE Selects(refs \ deleted, moment, r)
  <2>1. r \notin PlanRetention(refs, cutoff)
    BY <1>1 DEF Selects, IsNewest, AtOrBefore, PlanRetention, BeforeCutoff, Refs
  <2> QED
    BY <1>1, <2>1 DEF Selects, IsNewest, AtOrBefore
<1>2. ASSUME Selects(refs \ deleted, moment, r), ~Selects(refs, moment, r)
      PROVE  FALSE
  <2>1. PICK o \in refs : o.at <= moment /\ KeyLess(r, o) /\ o \in deleted
    BY <1>2 DEF Selects, IsNewest, AtOrBefore
  <2>2. PICK e \in BeforeCutoff(refs, cutoff) : KeyLess(o, e)
    BY <2>1 DEF PlanRetention
  <2> DEFINE old == BeforeCutoff(refs, cutoff)
  <2>3. old \in SUBSET Refs /\ IsFiniteSet(old) /\ old # {}
    BY <2>2, FS_Subset DEF BeforeCutoff
  <2> HIDE DEF old
  <2>4. PICK anchor \in old : IsNewest(anchor, old)
    BY <2>3, NewestExists
  <2>5. anchor = e \/ KeyLess(e, anchor)
    BY <2>2, <2>3, <2>4, KeyOrder DEF IsNewest, old
  <2>6. r \in Refs /\ o \in Refs /\ e \in Refs /\ anchor \in Refs
    BY <1>2, <2>1, <2>2, <2>3, <2>4 DEF Selects, IsNewest, AtOrBefore, old
  <2>7. KeyLess(r, anchor)
    BY <2>1, <2>2, <2>5, <2>6, KeyOrder
  <2>8. anchor \in refs /\ anchor.at < cutoff
    BY <2>4 DEF old, BeforeCutoff
  <2>9. anchor \notin deleted
    BY <2>4 DEF IsNewest, PlanRetention, old
  <2>10. anchor.at <= moment
    BY <2>6, <2>8 DEF Refs
  <2> QED
    BY <1>2, <2>7, <2>8, <2>9, <2>10 DEF Selects, IsNewest, AtOrBefore
<1> QED
  BY <1>1, <1>2

(* A sweep never empties a history, and never deletes its newest snapshot: *)
(* a cluster untouched for a year keeps the record of its configuration.   *)
THEOREM RetentionKeepsNewest ==
    ASSUME NEW refs \in SUBSET Refs, NEW cutoff \in Nat,
           NEW r, IsNewest(r, refs)
    PROVE  r \in refs \ PlanRetention(refs, cutoff)
BY DEF IsNewest, PlanRetention, BeforeCutoff

=============================================================================
