--------------------------- MODULE S3BackendProofs ---------------------------
(***************************************************************************)
(* What reading and sweeping a bucket page by page guarantees, for every   *)
(* number of sweeps and restores, every page size and every history.       *)
(***************************************************************************)
EXTENDS S3Backend, SnapshotHistoryProofs

(* The number of a snapshot is its timestamp, and the next one is larger   *)
(* than any before it and than any cutoff.                                 *)
Numbered ==
    /\ IsFiniteSet(archive)
    /\ \A ref \in archive : 0 < ref.at /\ ref.at <= Clock
    /\ \A a, b \in archive : a.at = b.at => a = b
    /\ horizon <= Clock
    /\ put # None => put.ref.at = Clock + 1

(* A key below one that is in the bucket and lies before the horizon.      *)
Superseded(ref) == \E anchor \in refs : KeyLess(ref, anchor) /\ anchor.at < horizon

OnlySupersededGone ==
    refs \subseteq archive /\ \A ref \in archive \ refs : Superseded(ref)

(* What is in the bucket is an end segment of what was written.            *)
EndSegment == \A ref \in archive, held \in refs : KeyLess(held, ref) => ref \in refs

(* The pages so far: everything up to the cursor that is still there, and  *)
(* perhaps keys that are not.                                              *)
PagesSound(s) ==
    /\ s.found \subseteq archive
    /\ s.cursor <= Clock
    /\ \A ref \in refs : ref.at <= s.cursor => ref \in s.found

(* A plan has everything below a key it will delete on its list as well.   *)
PlanSound(s) ==
    \A ref \in s.left :
        Superseded(ref) /\ \A held \in refs : KeyLess(held, ref) => held \in s.left

(* A choice is right or it can no longer be read.                          *)
ChoiceSound(s) ==
    \A ref \in s.left :
        /\ ref.at <= s.moment
        /\ ref \in refs => Selects(archive, s.moment, ref)

ScanSound(c, s) ==
    /\ s.moment <= Clock
    /\ c \in Sweepers => s.moment <= horizon
    /\ s.phase = "page" => PagesSound(s)
    /\ s.phase = "delete" => PlanSound(s)
    /\ s.phase = "read" => ChoiceSound(s)

(* What has been read was right, and stays right: later captures are later *)
(* than the moment.                                                        *)
ResultSound(r) == r.moment <= Clock /\ Selects(archive, r.moment, r.ref)

(* A bucket that goes missing between its creation and the second attempt  *)
(* was removed; that pays for the error to come.                           *)
PutAccounted ==
    MayCreate =>
        /\ errors <= faults + removals
        /\ put # None /\ put.phase = "retry" /\ ~bucket => errors < faults + removals

BackendInv ==
    /\ TypeOK /\ Numbered /\ OnlySupersededGone /\ EndSegment /\ PutAccounted
    /\ \A c \in Callers : scan[c] # None => ScanSound(c, scan[c])
    /\ \A c \in Readers : result[c] # None => ResultSound(result[c])

-----------------------------------------------------------------------------
(* Facts about the history.                                                *)

(* A superseded key lies before the horizon.                               *)
LEMMA SupersededIsOld ==
    ASSUME TypeOK, NEW ref \in Refs, Superseded(ref)
    PROVE  ref.at < horizon
<1>1. PICK anchor \in refs : KeyLess(ref, anchor) /\ anchor.at < horizon
  BY DEF Superseded
<1>2. anchor \in Refs /\ horizon \in Nat
  BY DEF TypeOK
<1>3. ref.at <= anchor.at
  BY <1>1, <1>2, KeyOrder
<1> QED
  BY <1>1, <1>2, <1>3 DEF Refs

(* The number of snapshots written is a number.                            *)
LEMMA ClockType ==
    ASSUME BackendInv
    PROVE  Clock \in Nat /\ horizon \in Nat /\ archive \subseteq Refs /\ refs \subseteq Refs
BY FS_CardinalityType DEF BackendInv, TypeOK, Numbered, Clock

(* The later of two cutoffs is one of them, and not before either.         *)
LEMMA MaxOfTwo ==
    ASSUME NEW m \in Nat, NEW n \in Nat
    PROVE  Max({m, n}) \in {m, n} /\ Max({m, n}) >= m /\ Max({m, n}) >= n
<1>1. \E x \in {m, n} : \A y \in {m, n} : x >= y
  <2>1. CASE m >= n
    BY <2>1
  <2>2. CASE ~(m >= n)
    BY <2>2
  <2> QED
    BY <2>1, <2>2
<1>2. /\ Max({m, n}) \in {m, n}
      /\ \A y \in {m, n} : Max({m, n}) >= y
  BY <1>1 DEF Max
<1> QED
  BY <1>2

(* A set of keys that is not empty has an oldest.                          *)
LEMMA OldestExists ==
    ASSUME NEW keys \in SUBSET Refs, IsFiniteSet(keys), keys # {}
    PROVE  \E r \in keys : \A o \in keys : ~KeyLess(o, r)
<1> DEFINE Below(r) == {o \in keys : KeyLess(o, r)}
           Cones == {Below(r) : r \in keys}
<1>1. Cones \subseteq FiniteSubsetsOf(keys) /\ Cones # {}
  <2>1. FiniteSubsetsOf(keys) = SUBSET keys
    BY FS_FiniteSubsetsOfFinite
  <2>2. Cones \subseteq SUBSET keys
    OBVIOUS
  <2>3. Cones # {}
    BY keys # {}
  <2> QED
    BY <2>1, <2>2, <2>3
<1>2. PICK cone \in Cones :
            \A other \in Cones : ~(<<other, cone>> \in StrictSubsetOrdering(keys))
  <2>1. IsWellFoundedOn(StrictSubsetOrdering(keys), FiniteSubsetsOf(keys))
    BY FS_StrictSubsetOrderingWellFounded
  <2> HIDE DEF Cones
  <2> QED
    BY <1>1, <2>1, WFMin
<1>3. PICK r \in keys : cone = Below(r)
  BY <1>2
<1>4. ASSUME NEW o \in keys, KeyLess(o, r) PROVE FALSE
  <2>1. Below(o) \subseteq Below(r)
    BY <1>4, KeyOrder, keys \subseteq Refs
  <2>2. o \in Below(r) /\ o \notin Below(o)
    BY <1>4, KeyOrder, keys \subseteq Refs
  <2>3. <<Below(o), Below(r)>> \in StrictSubsetOrdering(keys)
    BY <2>1, <2>2 DEF StrictSubsetOrdering
  <2> QED
    BY <1>2, <1>3, <2>3
<1> QED
  BY <1>4

(* A page is a beginning of what is left to list, and is empty only when   *)
(* nothing is left.                                                        *)
LEMMA PageIsPrefix ==
    ASSUME BackendInv, NEW c \in Callers, scan[c] # None
    PROVE  /\ Page(c) \subseteq Unlisted(c)
           /\ IsFiniteSet(Unlisted(c)) /\ Unlisted(c) \subseteq refs
           /\ Unlisted(c) # {} => Page(c) # {}
           /\ \A ref \in Page(c), o \in Unlisted(c) : KeyLess(o, ref) => o \in Page(c)
<1> DEFINE U == Unlisted(c)
           Below(r) == {o \in U : KeyLess(o, r)}
<1>1. U \subseteq refs /\ refs \subseteq archive /\ archive \subseteq Refs
  BY DEF BackendInv, OnlySupersededGone, TypeOK, Unlisted
<1>2. IsFiniteSet(U) /\ U \in SUBSET Refs
  BY <1>1, FS_Subset DEF BackendInv, Numbered
<1>3. Page(c) = {ref \in U : Cardinality(Below(ref)) < PageSize}
  BY DEF Page
<1> HIDE DEF U
<1>4. \A r : IsFiniteSet(Below(r)) /\ Cardinality(Below(r)) \in Nat
  BY <1>2, FS_Subset, FS_CardinalityType
<1>5. ASSUME U # {} PROVE Page(c) # {}
  <2>1. PICK r \in U : \A o \in U : ~KeyLess(o, r)
    BY <1>2, <1>5, OldestExists
  <2>2. Below(r) = {}
    BY <2>1
  <2>3. Cardinality(Below(r)) = 0
    BY <2>2, FS_EmptySet
  <2>4. Cardinality(Below(r)) < PageSize
    BY <2>3, BackendAssumption
  <2> QED
    BY <1>3, <2>1, <2>4
<1>6. ASSUME NEW ref \in Page(c), NEW o \in U, KeyLess(o, ref) PROVE o \in Page(c)
  <2>1. Below(o) \subseteq Below(ref)
    BY <1>2, <1>3, <1>6, KeyOrder
  <2>2. Cardinality(Below(o)) <= Cardinality(Below(ref))
    BY <1>4, <2>1, FS_Subset
  <2>3. Cardinality(Below(ref)) < PageSize
    BY <1>3, <1>6
  <2>4. Cardinality(Below(o)) < PageSize
    BY <1>4, <2>2, <2>3, BackendAssumption
  <2> QED
    BY <1>3, <1>6, <2>4
<1> QED
  BY <1>1, <1>2, <1>3, <1>5, <1>6 DEF U
-----------------------------------------------------------------------------
(* The steps.                                                              *)

LEMMA BackendInvInit == Init => BackendInv
<1> SUFFICES ASSUME Init PROVE BackendInv
  OBVIOUS
<1>1. TypeOK
  BY DEF Init, TypeOK
<1>2. Numbered
  BY FS_EmptySet DEF Init, Numbered, Clock
<1> QED
  BY <1>1, <1>2 DEF Init, BackendInv, OnlySupersededGone, EndSegment, PutAccounted

(* A step that leaves the history alone: what it lists, plans, chooses or  *)
(* reads must be sound, the rest stays so.                                 *)
LEMMA QuietStep ==
    ASSUME BackendInv, TypeOK', PutAccounted', UNCHANGED <<refs, archive, horizon>>,
           put' # None => put'.ref.at = Clock + 1,
           \A c \in Callers : scan'[c] # None => scan'[c] = scan[c] \/ ScanSound(c, scan'[c]),
           \A c \in Readers : result'[c] # None => result'[c] = result[c] \/ ResultSound(result'[c])
    PROVE  BackendInv'
<1>1. Numbered'
  BY DEF BackendInv, Numbered, Clock
<1>2. OnlySupersededGone' /\ EndSegment'
  BY DEF BackendInv, OnlySupersededGone, EndSegment, Superseded, KeyLess
<1>3. (\A c \in Callers : scan[c] # None => ScanSound(c, scan[c]))'
  <2> SUFFICES ASSUME NEW c \in Callers, scan'[c] # None PROVE ScanSound(c, scan[c])'
    OBVIOUS
  <2>1. ScanSound(c, scan'[c])
    BY DEF BackendInv
  <2> QED
    BY <2>1 DEF ScanSound, PagesSound, PlanSound, ChoiceSound, Superseded, Selects, IsNewest,
       AtOrBefore, KeyLess, Clock
<1>4. (\A c \in Readers : result[c] # None => ResultSound(result[c]))'
  <2> SUFFICES ASSUME NEW c \in Readers, result'[c] # None PROVE ResultSound(result[c])'
    OBVIOUS
  <2>1. ResultSound(result'[c])
    BY DEF BackendInv
  <2> QED
    BY <2>1 DEF ResultSound, Selects, IsNewest, AtOrBefore, KeyLess, Clock
<1> QED
  BY <1>1, <1>2, <1>3, <1>4 DEF BackendInv

(* A capture lands above everything: above the cursor of every listing,    *)
(* the moment of every restore and the horizon.                            *)
LEMMA LandKeeps ==
    ASSUME BackendInv, TypeOK', PutAccounted', put # None, put' = None,
           refs' = refs \union {put.ref}, archive' = archive \union {put.ref},
           UNCHANGED <<scan, result, horizon>>
    PROVE  BackendInv'
<1> DEFINE new == put.ref
<1>1. new \in Refs /\ new.at = Clock + 1 /\ Clock \in Nat /\ horizon \in Nat /\ horizon <= Clock
  BY ClockType DEF BackendInv, TypeOK, Numbered
<1>2. /\ refs \subseteq archive /\ archive \subseteq Refs
      /\ IsFiniteSet(archive) /\ \A ref \in archive : ref.at <= Clock
  BY DEF BackendInv, TypeOK, Numbered, OnlySupersededGone
<1>3. refs' = refs \union {new} /\ archive' = archive \union {new} /\ horizon' = horizon
  OBVIOUS
<1> HIDE DEF new
<1>4. new \notin archive
  BY <1>1, <1>2
<1>5. IsFiniteSet(archive') /\ Clock' = Clock + 1
  <2>1. /\ IsFiniteSet(archive \union {new})
        /\ Cardinality(archive \union {new}) = Cardinality(archive) + 1
    BY <1>2, <1>4, FS_AddElement
  <2> QED
    BY <1>3, <2>1 DEF Clock
<1>6. \A ref \in archive : ref.at \in Nat /\ ~KeyLess(new, ref) /\ ref.at < new.at
  BY <1>1, <1>2 DEF KeyLess, Refs
<1>7. Numbered'
  <2>1. \A ref \in archive' : 0 < ref.at /\ ref.at <= Clock'
    <3>1. \A ref \in archive : 0 < ref.at
      BY DEF BackendInv, Numbered
    <3> QED
      BY <1>1, <1>3, <1>5, <1>6, <3>1
  <2>2. \A a, b \in archive' : a.at = b.at => a = b
    <3>1. \A a, b \in archive : a.at = b.at => a = b
      BY DEF BackendInv, Numbered
    <3>2. \A a \in archive : a.at # new.at
      BY <1>1, <1>6
    <3> QED
      BY <1>3, <3>1, <3>2
  <2>3. horizon' <= Clock'
    BY <1>1, <1>3, <1>5
  <2> QED
    BY <1>5, <2>1, <2>2, <2>3 DEF Numbered
<1>8. ASSUME NEW ref, Superseded(ref) PROVE Superseded(ref)'
  BY <1>3, <1>8 DEF Superseded, KeyLess
<1>9. ASSUME NEW ref \in Refs, Superseded(ref) PROVE ~KeyLess(new, ref)
  <2>1. PICK anchor \in refs : KeyLess(ref, anchor) /\ anchor.at < horizon
    BY <1>9 DEF Superseded
  <2>2. anchor \in archive /\ anchor.at \in Nat /\ anchor.at < new.at
    BY <1>2, <1>6, <2>1
  <2> QED
    BY <1>1, <2>1, <2>2 DEF KeyLess, Refs
<1>10. OnlySupersededGone'
  BY <1>3, <1>8 DEF BackendInv, OnlySupersededGone
<1>11. EndSegment'
  <2> SUFFICES ASSUME NEW ref \in archive', NEW held \in refs', KeyLess(held, ref)
               PROVE  ref \in refs'
    BY DEF EndSegment, KeyLess
  <2>1. CASE ref = new
    BY <1>3, <2>1
  <2>2. CASE ref # new
    BY <1>3, <1>6, <2>2 DEF BackendInv, EndSegment
  <2> QED
    BY <2>1, <2>2
<1>12. ASSUME NEW moment \in Nat, moment <= Clock, NEW ref, Selects(archive, moment, ref)
       PROVE  Selects(archive', moment, ref)
  <2>1. ~(new.at <= moment)
    BY <1>1, <1>12
  <2>2. AtOrBefore(archive', moment) = AtOrBefore(archive, moment)
    BY <1>3, <2>1 DEF AtOrBefore
  <2> QED
    BY <1>12, <2>2 DEF Selects
<1>13. ASSUME NEW c \in Callers, scan[c] # None PROVE ScanSound(c, scan[c])'
  <2> DEFINE s == scan[c]
  <2>1. s \in Scanning /\ ScanSound(c, s)
    BY <1>13 DEF BackendInv, TypeOK
  <2>2. s' = s
    OBVIOUS
  <2>3. s.moment \in Nat /\ s.cursor \in Nat /\ s.left \subseteq Refs
    BY <2>1 DEF Scanning
  <2> HIDE DEF s
  <2>4. s.moment <= Clock' /\ (c \in Sweepers => s.moment <= horizon)
    BY <1>1, <1>5, <2>1, <2>3 DEF ScanSound
  <2>5. ASSUME s.phase = "page"
        PROVE  /\ s.found \subseteq archive' /\ s.cursor <= Clock'
               /\ \A ref \in refs' : ref.at <= s.cursor => ref \in s.found
    <3>1. PagesSound(s)
      BY <2>1, <2>5 DEF ScanSound
    <3>2. s.cursor <= Clock /\ ~(new.at <= s.cursor)
      BY <1>1, <2>3, <3>1 DEF PagesSound
    <3> QED
      BY <1>1, <1>3, <1>5, <2>3, <3>1, <3>2 DEF PagesSound
  <2>6. ASSUME s.phase = "delete", NEW ref \in s.left
        PROVE  Superseded(ref)' /\ \A held \in refs' : KeyLess(held, ref) => held \in s.left
    <3>1. Superseded(ref) /\ \A held \in refs : KeyLess(held, ref) => held \in s.left
      BY <2>1, <2>6 DEF ScanSound, PlanSound
    <3> QED
      BY <1>3, <1>8, <1>9, <2>3, <3>1
  <2>7. ASSUME s.phase = "read", NEW ref \in s.left
        PROVE  ref.at <= s.moment /\ (ref \in refs' => Selects(archive', s.moment, ref))
    <3>1. /\ ref.at <= s.moment /\ s.moment <= Clock
          /\ ref \in refs => Selects(archive, s.moment, ref)
      BY <2>1, <2>7 DEF ScanSound, ChoiceSound
    <3>2. ref # new
      BY <1>1, <2>3, <3>1
    <3> QED
      BY <1>3, <1>12, <2>3, <3>1, <3>2
  <2>8. ScanSound(c, s)'
    BY <1>3, <2>2, <2>4, <2>5, <2>6, <2>7
    DEF ScanSound, PagesSound, PlanSound, ChoiceSound, KeyLess, Selects, IsNewest, AtOrBefore
  <2> QED
    BY <2>8 DEF s
<1>14. ASSUME NEW c \in Readers, result[c] # None PROVE ResultSound(result[c])'
  <2> DEFINE r == result[c]
  <2>1. r.moment \in Nat /\ ResultSound(r) /\ r' = r
    BY <1>14 DEF BackendInv, TypeOK
  <2> HIDE DEF r
  <2>2. r.moment <= Clock' /\ Selects(archive', r.moment, r.ref)
    BY <1>1, <1>5, <1>12, <2>1 DEF ResultSound
  <2>3. ResultSound(r)'
    BY <2>1, <2>2 DEF ResultSound, Selects, IsNewest, AtOrBefore, KeyLess
  <2> QED
    BY <2>3 DEF r
<1> QED
  BY <1>7, <1>10, <1>11, <1>13, <1>14 DEF BackendInv

(* A sweep begins: its cutoff may move the horizon, up to the clock.       *)
LEMMA SweepBeginKeeps ==
    ASSUME BackendInv, NEW c \in Sweepers, NEW cutoff \in 0 .. Clock, SweepBegin(c, cutoff)
    PROVE  BackendInv'
<1> DEFINE begun == [phase |-> "page", moment |-> cutoff, cursor |-> 0, found |-> {}, left |-> {}]
<1>1. /\ c \in Callers /\ Clock \in Nat /\ cutoff \in Nat /\ cutoff <= Clock
      /\ horizon \in Nat /\ horizon <= Clock /\ archive \subseteq Refs /\ refs \subseteq archive
  BY ClockType DEF Callers, BackendInv, Numbered, OnlySupersededGone
<1>2. /\ scan' = [scan EXCEPT ![c] = begun] /\ horizon' = Max({horizon, cutoff})
      /\ UNCHANGED <<bucket, refs, archive, put, result, edits, faults, removals, errors>>
  BY DEF SweepBegin, Begin
<1>3. horizon' \in Nat /\ horizon' >= horizon /\ horizon' >= cutoff /\ horizon' <= Clock
  BY <1>1, <1>2, MaxOfTwo
<1>4. begun \in Scanning
  BY <1>1 DEF Scanning
<1>5. scan' \in [Callers -> Scanning \union {None}]
  BY <1>1, <1>2, <1>4 DEF BackendInv, TypeOK
<1>6. TypeOK'
  BY <1>2, <1>3, <1>5 DEF BackendInv, TypeOK
<1>7. \A d \in Callers : scan'[d] = IF d = c THEN begun ELSE scan[d]
  BY <1>2 DEF BackendInv, TypeOK
<1>8. ASSUME NEW ref, Superseded(ref) PROVE Superseded(ref)'
  <2>1. PICK anchor \in refs : KeyLess(ref, anchor) /\ anchor.at < horizon
    BY <1>8 DEF Superseded
  <2>2. anchor.at \in Nat
    BY <1>1 DEF Refs
  <2>3. anchor.at < horizon'
    BY <1>1, <1>3, <2>1, <2>2
  <2> QED
    BY <1>2, <2>1, <2>3 DEF Superseded, KeyLess
<1>9. Clock' = Clock
  BY <1>2 DEF Clock
<1>10. Numbered' /\ OnlySupersededGone' /\ EndSegment' /\ PutAccounted'
  BY <1>2, <1>3, <1>8, <1>9
  DEF BackendInv, Numbered, OnlySupersededGone, EndSegment, PutAccounted, KeyLess
<1>11. (\A d \in Callers : scan[d] # None => ScanSound(d, scan[d]))'
  <2> SUFFICES ASSUME NEW d \in Callers, scan'[d] # None PROVE ScanSound(d, scan[d])'
    OBVIOUS
  <2>1. CASE d = c
    <3>1. scan'[d] = begun
      BY <1>7, <2>1
    <3>2. \A ref \in refs : ~(ref.at <= 0)
      BY <1>1 DEF BackendInv, Numbered, Refs
    <3> QED
      BY <1>1, <1>2, <1>3, <1>9, <3>1, <3>2 DEF ScanSound, PagesSound
  <2>2. CASE d # c
    <3>1. scan'[d] = scan[d] /\ scan[d] # None /\ scan[d] \in Scanning /\ ScanSound(d, scan[d])
      BY <1>7, <2>2 DEF BackendInv, TypeOK
    <3>2. scan[d].moment <= Clock /\ (d \in Sweepers => scan[d].moment <= horizon')
      BY <1>1, <1>3, <3>1 DEF ScanSound, Scanning
    <3> QED
      BY <1>2, <1>8, <1>9, <3>1, <3>2 DEF ScanSound, PagesSound, PlanSound, ChoiceSound,
         Selects, IsNewest, AtOrBefore, KeyLess
  <2> QED
    BY <2>1, <2>2
<1>12. (\A d \in Readers : result[d] # None => ResultSound(result[d]))'
  BY <1>2, <1>9 DEF BackendInv, ResultSound, Selects, IsNewest, AtOrBefore, KeyLess
<1> QED
  BY <1>6, <1>10, <1>11, <1>12 DEF BackendInv

(* Deleting the oldest planned key leaves every superseded key superseded, *)
(* whatever the other sweeps have listed or planned.                       *)
LEMMA DeleteKeeps ==
    ASSUME BackendInv, NEW c \in Sweepers, Delete(c)
    PROVE  BackendInv'
<1>1. PICK gone \in scan[c].left :
          /\ \A other \in scan[c].left : ~KeyLess(other, gone)
          /\ refs' = refs \ {gone}
          /\ scan' = [scan EXCEPT ![c].left = @ \ {gone}]
  BY DEF Delete
<1>2. /\ c \in Callers /\ scan[c] # None /\ scan[c] \in Scanning /\ scan[c].phase = "delete"
      /\ ScanSound(c, scan[c]) /\ refs \subseteq archive /\ archive \subseteq Refs
      /\ UNCHANGED <<bucket, archive, put, result, horizon, edits, faults, removals, errors>>
  BY DEF Delete, Phase, BackendInv, TypeOK, Callers, OnlySupersededGone
<1>3. /\ gone \in Refs /\ Superseded(gone)
      /\ \A held \in refs : KeyLess(held, gone) => held \in scan[c].left
  BY <1>1, <1>2 DEF ScanSound, PlanSound, Scanning
<1>4. PICK above \in refs : KeyLess(gone, above) /\ above.at < horizon
  BY <1>3 DEF Superseded
<1>5. above \in Refs /\ above \in refs'
  BY <1>1, <1>2, <1>3, <1>4, KeyOrder
<1>6. ASSUME NEW ref \in Refs, Superseded(ref) PROVE Superseded(ref)'
  <2>1. PICK anchor \in refs : KeyLess(ref, anchor) /\ anchor.at < horizon
    BY <1>6 DEF Superseded
  <2>2. CASE anchor = gone
    <3>1. KeyLess(ref, above)
      BY <1>3, <1>4, <1>5, <2>1, <2>2, KeyOrder
    <3> QED
      BY <1>2, <1>4, <1>5, <3>1 DEF Superseded, KeyLess
  <2>3. CASE anchor # gone
    BY <1>1, <1>2, <2>1, <2>3 DEF Superseded, KeyLess
  <2> QED
    BY <2>2, <2>3
<1>7. /\ \A d \in Callers \ {c} : scan'[d] = scan[d]
      /\ scan'[c] = [scan[c] EXCEPT !.left = @ \ {gone}]
  BY <1>1, <1>2 DEF BackendInv, TypeOK
<1>8. /\ scan'[c] \in Scanning /\ scan'[c].left = scan[c].left \ {gone}
      /\ scan'[c].phase = "delete" /\ scan'[c].moment = scan[c].moment
  BY <1>2, <1>7 DEF Scanning
<1>9. scan' \in [Callers -> Scanning \union {None}]
  BY <1>1, <1>2, <1>7, <1>8 DEF BackendInv, TypeOK
<1>10. refs' \subseteq refs /\ refs' \subseteq Refs
  BY <1>1, <1>2
<1>11. TypeOK'
  BY <1>2, <1>9, <1>10 DEF BackendInv, TypeOK
<1>12. Clock' = Clock
  BY <1>2 DEF Clock
<1>13. Numbered' /\ PutAccounted'
  BY <1>2, <1>12 DEF BackendInv, Numbered, PutAccounted
<1>14. OnlySupersededGone'
  BY <1>1, <1>2, <1>3, <1>6 DEF BackendInv, OnlySupersededGone
<1>15. EndSegment'
  <2> SUFFICES ASSUME NEW ref \in archive, NEW held \in refs', KeyLess(held, ref)
               PROVE  ref \in refs'
    BY <1>2 DEF EndSegment, KeyLess
  <2> QED
    BY <1>1, <1>3 DEF BackendInv, EndSegment
<1>16. (\A d \in Callers : scan[d] # None => ScanSound(d, scan[d]))'
  <2> SUFFICES ASSUME NEW d \in Callers, scan'[d] # None PROVE ScanSound(d, scan[d])'
    OBVIOUS
  <2>1. CASE d = c
    <3>1. \A ref \in scan'[c].left :
             Superseded(ref)' /\ \A held \in refs' : KeyLess(held, ref) => held \in scan'[c].left
      BY <1>1, <1>2, <1>6, <1>8 DEF ScanSound, PlanSound, Scanning
    <3>2. scan'[c].moment <= Clock' /\ (c \in Sweepers => scan'[c].moment <= horizon')
      BY <1>2, <1>8, <1>12 DEF ScanSound
    <3> QED
      BY <1>8, <2>1, <3>1, <3>2 DEF ScanSound, PlanSound, KeyLess
  <2>2. CASE d # c
    <3>1. scan'[d] = scan[d] /\ scan[d] # None /\ scan[d] \in Scanning /\ ScanSound(d, scan[d])
      BY <1>7, <2>2 DEF BackendInv, TypeOK
    <3>2. scan[d].left \subseteq Refs
      BY <3>1 DEF Scanning
    <3> QED
      BY <1>2, <1>6, <1>10, <1>12, <3>1, <3>2 DEF ScanSound, PagesSound, PlanSound, ChoiceSound,
         Selects, IsNewest, AtOrBefore, KeyLess
  <2> QED
    BY <2>1, <2>2
<1>17. (\A d \in Readers : result[d] # None => ResultSound(result[d]))'
  BY <1>2, <1>12 DEF BackendInv, ResultSound, Selects, IsNewest, AtOrBefore, KeyLess
<1> QED
  BY <1>11, <1>13, <1>14, <1>15, <1>16, <1>17 DEF BackendInv

(* What follows from a complete listing: everything that is in the bucket, *)
(* perhaps together with keys that no longer are.                          *)
LEMMA ListedSound ==
    ASSUME BackendInv, NEW c \in Callers, scan[c] # None, NEW found,
           refs \subseteq found, found \subseteq archive
    PROVE  Listed(c, found) # None =>
               Listed(c, found) \in Scanning /\ ScanSound(c, Listed(c, found))
<1> DEFINE s == scan[c]
           plan == PlanRetention(found, s.moment)
           wanted == AtOrBefore(found, s.moment)
           chosen == Newest(wanted)
           next == Listed(c, found)
<1> SUFFICES ASSUME next # None PROVE next \in Scanning /\ ScanSound(c, next)
  OBVIOUS
<1>1. /\ s \in Scanning /\ ScanSound(c, s) /\ refs \subseteq archive /\ archive \subseteq Refs
      /\ horizon \in Nat /\ IsFiniteSet(archive) /\ s.moment \in Nat
  BY DEF BackendInv, TypeOK, Numbered, OnlySupersededGone, Scanning
<1>2. CASE c \in Sweepers
  <2>1. next = [s EXCEPT !.phase = "delete", !.found = {}, !.left = plan]
    BY <1>2 DEF Listed
  <2>2. plan \subseteq found
    BY DEF PlanRetention
  <2>3. s.moment <= Clock /\ s.moment <= horizon
    BY <1>1, <1>2 DEF ScanSound
  <2>4. ASSUME NEW ref \in plan
        PROVE  Superseded(ref) /\ \A held \in refs : KeyLess(held, ref) => held \in plan
    <3>1. PICK anchor \in found : KeyLess(ref, anchor) /\ anchor.at < s.moment
      BY <2>4 DEF PlanRetention, BeforeCutoff
    <3>2. ref \in Refs /\ anchor \in Refs /\ anchor.at \in Nat
      BY <1>1, <2>2, <2>4, <3>1 DEF Refs
    <3>3. anchor.at < horizon
      BY <1>1, <2>3, <3>1, <3>2
    <3>4. Superseded(ref)
      <4>1. CASE anchor \in refs
        BY <3>1, <3>3, <4>1 DEF Superseded
      <4>2. CASE anchor \notin refs
        <5>1. PICK higher \in refs : KeyLess(anchor, higher) /\ higher.at < horizon
          BY <4>2 DEF BackendInv, OnlySupersededGone, Superseded
        <5>2. KeyLess(ref, higher)
          BY <1>1, <3>1, <3>2, <5>1, KeyOrder
        <5> QED
          BY <5>1, <5>2 DEF Superseded
      <4> QED
        BY <4>1, <4>2
    <3>5. ASSUME NEW held \in refs, KeyLess(held, ref) PROVE held \in plan
      <4>1. KeyLess(held, anchor)
        BY <1>1, <3>1, <3>2, <3>5, KeyOrder
      <4> QED
        BY <3>1, <4>1 DEF PlanRetention, BeforeCutoff
    <3> QED
      BY <3>4, <3>5
  <2> HIDE DEF plan
  <2>5. /\ next \in Scanning /\ next.phase = "delete" /\ next.left = plan
        /\ next.moment = s.moment
    BY <1>1, <2>1, <2>2 DEF Scanning
  <2> QED
    BY <2>3, <2>4, <2>5 DEF ScanSound, PlanSound
<1>3. CASE c \notin Sweepers
  <2>1. wanted # {} /\ next = [s EXCEPT !.phase = "read", !.found = {}, !.left = {chosen}]
    BY <1>3 DEF Listed
  <2>2. wanted \in SUBSET Refs /\ IsFiniteSet(wanted)
    BY <1>1, FS_Subset DEF AtOrBefore
  <2>3. IsNewest(chosen, wanted)
    BY <2>1, <2>2, NewestExists
  <2>4. chosen \in found /\ chosen.at <= s.moment /\ chosen \in Refs
    BY <1>1, <2>3 DEF IsNewest, AtOrBefore
  <2>5. ASSUME chosen \in refs PROVE Selects(archive, s.moment, chosen)
    BY <2>3, <2>4, <2>5 DEF BackendInv, EndSegment, Selects, IsNewest, AtOrBefore, OnlySupersededGone
  <2> HIDE DEF chosen
  <2>6. /\ next \in Scanning /\ next.phase = "read" /\ next.left = {chosen}
        /\ next.moment = s.moment
    <3>1. {chosen} \in SUBSET Refs /\ {} \in SUBSET Refs
      BY <2>4
    <3> HIDE DEF next, s
    <3> QED
      BY <1>1, <2>1, <3>1 DEF Scanning
  <2>7. s.moment <= Clock
    BY <1>1 DEF ScanSound
  <2> QED
    BY <1>3, <2>4, <2>5, <2>6, <2>7 DEF ScanSound, ChoiceSound
<1> QED
  BY <1>2, <1>3

LEMMA NextPageKeeps ==
    ASSUME BackendInv, NEW c \in Callers, NextPage(c)
    PROVE  BackendInv'
<1> DEFINE s == scan[c]
           page == Page(c)
           found == s.found \union page
           turned == [s EXCEPT !.cursor = Newest(page).at, !.found = found]
           next == IF ~bucket THEN None
                   ELSE IF page = Unlisted(c) THEN Listed(c, found)
                   ELSE turned
<1>1. /\ s # None /\ s \in Scanning /\ s.phase = "page" /\ ScanSound(c, s) /\ PagesSound(s)
      /\ refs \subseteq archive /\ archive \subseteq Refs /\ Clock \in Nat
      /\ s.cursor \in Nat
  BY ClockType DEF NextPage, Phase, BackendInv, TypeOK, ScanSound, OnlySupersededGone, Scanning
<1>2. /\ scan' = [scan EXCEPT ![c] = next]
      /\ UNCHANGED <<bucket, refs, archive, put, result, horizon, edits, faults, removals, errors>>
  BY DEF NextPage
<1>3. /\ page \subseteq Unlisted(c) /\ IsFiniteSet(Unlisted(c)) /\ Unlisted(c) \subseteq refs
      /\ Unlisted(c) # {} => page # {}
      /\ \A ref \in page, o \in Unlisted(c) : KeyLess(o, ref) => o \in page
  BY <1>1, PageIsPrefix
<1>4. \A ref \in refs : ref \in Unlisted(c) \/ ref \in s.found
  BY <1>1 DEF Unlisted, PagesSound, Refs
<1>5. found \subseteq archive
  BY <1>1, <1>3 DEF PagesSound
<1>6. ASSUME page = Unlisted(c), Listed(c, found) # None
      PROVE  Listed(c, found) \in Scanning /\ ScanSound(c, Listed(c, found))
  BY <1>1, <1>4, <1>5, <1>6, ListedSound
<1>7. ASSUME page # Unlisted(c) PROVE turned \in Scanning /\ ScanSound(c, turned)
  <2> DEFINE last == Newest(page)
  <2>1. page \in SUBSET Refs /\ IsFiniteSet(page) /\ page # {}
    BY <1>1, <1>3, <1>7, FS_Subset
  <2>2. IsNewest(last, page)
    BY <2>1, NewestExists
  <2>3. last \in page /\ last \in refs /\ last \in Refs /\ last.at \in Nat /\ last.at <= Clock
    BY <1>1, <1>3, <2>2 DEF IsNewest, BackendInv, Numbered, Refs
  <2>4. ASSUME NEW ref \in refs, ref.at <= last.at PROVE ref \in found
    <3> SUFFICES ASSUME ref \in Unlisted(c) PROVE ref \in page
      BY <1>4
    <3>1. CASE ref = last
      BY <2>3, <3>1
    <3>2. CASE ref # last
      <4>1. ref.at # last.at
        BY <1>1, <2>3, <3>2 DEF BackendInv, Numbered
      <4>2. KeyLess(ref, last)
        BY <1>1, <2>3, <2>4, <4>1 DEF KeyLess, Refs
      <4> QED
        BY <1>3, <2>3, <4>2
    <3> QED
      BY <3>1, <3>2
  <2>5. found \in SUBSET Refs
    BY <1>1, <1>5
  <2>6. turned = [s EXCEPT !.cursor = last.at, !.found = found]
    OBVIOUS
  <2> HIDE DEF last, found, turned, s, page
  <2>7. /\ turned \in Scanning /\ turned.phase = "page" /\ turned.moment = s.moment
        /\ turned.cursor = last.at /\ turned.found = found
    BY <1>1, <2>3, <2>5, <2>6 DEF Scanning
  <2>8. PagesSound(turned)
    BY <1>5, <2>3, <2>4, <2>7 DEF PagesSound
  <2>9. ScanSound(c, turned)
    BY <1>1, <2>7, <2>8 DEF ScanSound
  <2> QED
    BY <2>7, <2>9
<1>8. next # None => next \in Scanning /\ ScanSound(c, next)
  BY <1>6, <1>7
<1> HIDE DEF next
<1>9. scan' \in [Callers -> Scanning \union {None}]
  BY <1>2, <1>8 DEF BackendInv, TypeOK
<1>10. TypeOK' /\ PutAccounted'
  BY <1>2, <1>9 DEF BackendInv, TypeOK, PutAccounted
<1>11. \A d \in Callers : scan'[d] = IF d = c THEN next ELSE scan[d]
  BY <1>2 DEF BackendInv, TypeOK
<1>12. put' # None => put'.ref.at = Clock + 1
  BY <1>2 DEF BackendInv, Numbered
<1> QED
  BY <1>2, <1>8, <1>10, <1>11, <1>12, QuietStep

(* The requests of a Put, and others who create or remove the bucket.      *)
LEMMA PutKeeps ==
    ASSUME BackendInv, CreatedByOther \/ RemoveBucket \/ Puts
    PROVE  BackendInv'
<1>1. /\ TypeOK /\ PutAccounted /\ Clock \in Nat
      /\ errors \in Nat /\ faults \in Nat /\ removals \in Nat /\ edits \in Nat
      /\ put # None => /\ put \in [phase : {"put", "create", "retry"}, ref : Refs]
                       /\ put.ref \in Refs /\ put.ref.at = Clock + 1
  BY ClockType DEF BackendInv, TypeOK, Numbered
<1>2. ASSUME UNCHANGED <<refs, archive, scan, result, horizon>>, TypeOK', PutAccounted',
             put' # None => put'.ref.at = Clock + 1
      PROVE  BackendInv'
  BY <1>2, QuietStep
<1>3. CASE CreatedByOther
  <2>1. TypeOK' /\ PutAccounted'
    BY <1>1, <1>3 DEF CreatedByOther, TypeOK, PutAccounted
  <2> QED
    BY <1>1, <1>2, <1>3, <2>1 DEF CreatedByOther
<1>4. CASE RemoveBucket
  <2>1. TypeOK'
    <3>1. bucket' \in BOOLEAN
      BY <1>4, Zenon DEF RemoveBucket
    <3>2. removals' \in Nat /\ edits' \in Nat
      BY <1>1, <1>4 DEF RemoveBucket
    <3> QED
      BY <1>1, <1>4, <3>1, <3>2 DEF RemoveBucket, TypeOK
  <2>2. PutAccounted'
    BY <1>1, <1>4 DEF RemoveBucket, PutAccounted
  <2> QED
    BY <1>1, <1>2, <1>4, <2>1, <2>2 DEF RemoveBucket
<1>5. CASE PutBegin
  <2> DEFINE new == [at |-> Clock + 1, gen |-> 1, hash |-> 1]
  <2>1. new \in Refs /\ new.at = Clock + 1
    BY <1>1 DEF Refs
  <2>2. put' = [phase |-> "put", ref |-> new]
    BY <1>5 DEF PutBegin
  <2> HIDE DEF new
  <2>3. put' \in [phase : {"put", "create", "retry"}, ref : Refs] /\ put'.phase = "put"
        /\ put'.ref.at = Clock + 1
    BY <2>1, <2>2
  <2>4. TypeOK' /\ PutAccounted'
    BY <1>1, <1>5, <2>3 DEF PutBegin, TypeOK, PutAccounted
  <2> QED
    BY <1>2, <1>5, <2>3, <2>4 DEF PutBegin
<1>6. ASSUME put # None, Land, UNCHANGED <<bucket, scan, result, horizon, edits, faults, removals>>
      PROVE  BackendInv'
  <2>1. TypeOK' /\ PutAccounted'
    BY <1>1, <1>6 DEF Land, TypeOK, PutAccounted
  <2> QED
    BY <1>6, <2>1, LandKeeps DEF Land
<1>7. CASE PutObject
  <2>1. put # None /\ UNCHANGED <<bucket, scan, result, horizon, edits, faults, removals>>
    BY <1>7 DEF PutObject
  <2>2. CASE bucket
    BY <1>6, <1>7, <2>1, <2>2 DEF PutObject
  <2>3. CASE ~bucket
    <3>1. put' = [put EXCEPT !.phase = "create"] /\ UNCHANGED <<refs, archive, errors>>
      BY <1>7, <2>3 DEF PutObject
    <3>2. /\ put' \in [phase : {"put", "create", "retry"}, ref : Refs]
          /\ put'.phase = "create" /\ put'.ref = put.ref
      BY <1>1, <2>1, <3>1
    <3>3. TypeOK' /\ PutAccounted'
      BY <1>1, <2>1, <3>1, <3>2 DEF TypeOK, PutAccounted
    <3> QED
      BY <1>1, <1>2, <2>1, <3>1, <3>2, <3>3
  <2> QED
    BY <2>2, <2>3
<1>8. CASE CreateBucket
  <2>1. /\ put # None /\ UNCHANGED <<scan, result, horizon, edits, faults, removals>>
        /\ UNCHANGED <<refs, archive>>
    BY <1>8 DEF CreateBucket, PutError
  <2>2. CASE bucket' = TRUE /\ put' = [put EXCEPT !.phase = "retry"] /\ UNCHANGED errors
    <3>1. bucket' = TRUE /\ put' = [put EXCEPT !.phase = "retry"] /\ UNCHANGED errors
      BY <2>2
    <3>2. /\ put' \in [phase : {"put", "create", "retry"}, ref : Refs]
          /\ put'.ref = put.ref
      BY <1>1, <2>1, <3>1
    <3>3. TypeOK'
      BY <1>1, <2>1, <3>1, <3>2 DEF TypeOK
    <3>4. PutAccounted'
      BY <1>1, <2>1, <3>1 DEF PutAccounted
    <3> QED
      BY <1>1, <1>2, <2>1, <3>2, <3>3, <3>4
  <2>3. CASE ~MayCreate /\ PutError /\ UNCHANGED bucket
    <3>1. put' = None /\ errors' = errors + 1 /\ UNCHANGED bucket
      BY <2>3 DEF PutError
    <3>2. TypeOK' /\ PutAccounted'
      BY <1>1, <2>1, <2>3, <3>1 DEF TypeOK, PutAccounted
    <3> QED
      BY <1>2, <2>1, <3>1, <3>2
  <2> QED
    <3>1. PICK denied \in {FALSE, ~MayCreate} :
             IF ~denied /\ (bucket \/ MayCreate)
             THEN bucket' = TRUE /\ put' = [put EXCEPT !.phase = "retry"] /\ UNCHANGED errors
             ELSE PutError /\ UNCHANGED bucket
      BY <1>8 DEF CreateBucket
    <3>2. denied \/ ~(bucket \/ MayCreate) => ~MayCreate
      BY Zenon
    <3> QED
      BY <2>2, <2>3, <3>1, <3>2
<1>9. CASE PutAgain
  <2>1. /\ put # None /\ put.phase = "retry"
        /\ UNCHANGED <<bucket, scan, result, horizon, edits, faults, removals>>
    BY <1>9 DEF PutAgain
  <2>2. CASE bucket
    BY <1>6, <1>9, <2>1, <2>2 DEF PutAgain
  <2>3. CASE ~bucket
    <3>1. put' = None /\ errors' = errors + 1 /\ UNCHANGED <<refs, archive>>
      BY <1>9, <2>3 DEF PutAgain, PutError
    <3>2. TypeOK'
      BY <1>1, <2>1, <3>1 DEF TypeOK
    <3>3. PutAccounted'
      BY <1>1, <2>1, <2>3, <3>1 DEF PutAccounted
    <3> QED
      BY <1>2, <2>1, <3>1, <3>2, <3>3
  <2> QED
    BY <2>2, <2>3
<1>10. ASSUME NEW landed \in BOOLEAN, PutFails(landed) PROVE BackendInv'
  <2>1. /\ put # None /\ put' = None /\ faults' = faults + 1 /\ errors' = errors + 1
        /\ UNCHANGED <<scan, result, horizon, edits, removals>>
    BY <1>10 DEF PutFails
  <2>2. bucket' \in BOOLEAN
    BY <1>10 DEF PutFails
  <2>3. PutAccounted'
    BY <1>1, <2>1 DEF PutAccounted
  <2>4. CASE landed /\ bucket /\ put.phase # "create"
    <3>1. refs' = refs \union {put.ref} /\ archive' = archive \union {put.ref}
      BY <1>10, <2>4 DEF PutFails
    <3>2. TypeOK'
      BY <1>1, <2>1, <2>2, <3>1 DEF TypeOK
    <3> QED
      BY <2>1, <2>3, <3>1, <3>2, LandKeeps
  <2>5. CASE ~(landed /\ bucket /\ put.phase # "create")
    <3>1. refs' = refs /\ archive' = archive
      BY <1>10, <2>5 DEF PutFails
    <3>2. TypeOK'
      BY <1>1, <2>1, <2>2, <3>1 DEF TypeOK
    <3> QED
      BY <1>2, <2>1, <2>3, <3>1, <3>2
  <2> QED
    BY <2>4, <2>5
<1> QED
  BY <1>3, <1>4, <1>5, <1>7, <1>8, <1>9, <1>10 DEF Puts

LEMMA BackendInvStep == BackendInv /\ [Next]_vars => BackendInv'
<1> SUFFICES ASSUME BackendInv, [Next]_vars PROVE BackendInv'
  OBVIOUS
<1>1. TypeOK /\ PutAccounted /\ (put # None => put.ref.at = Clock + 1)
  BY DEF BackendInv, Numbered
<1>2. ASSUME NEW c \in Callers, NEW next, scan' = [scan EXCEPT ![c] = next],
             next # None => next \in Scanning /\ ScanSound(c, next),
             result' \in [Readers -> [moment : Nat, ref : Refs] \union {None}],
             \A d \in Readers :
                 result'[d] # None => result'[d] = result[d] \/ ResultSound(result'[d]),
             UNCHANGED <<bucket, refs, archive, put, horizon, edits, removals, errors>>,
             faults' \in Nat, faults' >= faults
      PROVE  BackendInv'
  <2>1. \A d \in Callers : scan'[d] = IF d = c THEN next ELSE scan[d]
    BY <1>1, <1>2 DEF TypeOK
  <2>2. scan' \in [Callers -> Scanning \union {None}]
    BY <1>1, <1>2 DEF TypeOK
  <2>3. TypeOK'
    BY <1>1, <1>2, <2>2 DEF TypeOK
  <2>4. PutAccounted'
    BY <1>1, <1>2 DEF PutAccounted, TypeOK
  <2> QED
    BY <1>1, <1>2, <2>1, <2>3, <2>4, QuietStep
<1>3. /\ faults \in Nat
      /\ result \in [Readers -> [moment : Nat, ref : Refs] \union {None}]
  BY <1>1 DEF TypeOK
<1>4. ASSUME NEW c \in Readers, NEW moment \in 0 .. Clock, RestoreBegin(c, moment)
      PROVE  BackendInv'
  <2> DEFINE begun == [phase |-> "page", moment |-> moment, cursor |-> 0, found |-> {}, left |-> {}]
  <2>1. /\ c \in Callers /\ c \notin Sweepers /\ scan' = [scan EXCEPT ![c] = begun]
        /\ result' = [result EXCEPT ![c] = None]
        /\ UNCHANGED <<bucket, refs, archive, put, horizon, edits, faults, removals, errors>>
    BY <1>4, BackendAssumption DEF RestoreBegin, Begin, Callers
  <2>2. Clock \in Nat /\ moment \in Nat /\ moment <= Clock
    BY ClockType
  <2>3. \A ref \in refs : ~(ref.at <= 0)
    BY DEF BackendInv, Numbered, OnlySupersededGone, TypeOK, Refs
  <2>4. begun \in Scanning /\ ScanSound(c, begun)
    BY <2>1, <2>2, <2>3 DEF Scanning, ScanSound, PagesSound
  <2> HIDE DEF begun
  <2>5. /\ result' \in [Readers -> [moment : Nat, ref : Refs] \union {None}]
        /\ \A d \in Readers : result'[d] # None => result'[d] = result[d]
    BY <1>3, <2>1
  <2>6. faults' \in Nat /\ faults' >= faults
    BY <1>3, <2>1
  <2> QED
    BY <1>2, <2>1, <2>4, <2>5, <2>6
<1>5. ASSUME NEW c \in Readers, Get(c) PROVE BackendInv'
  <2>1. PICK ref \in scan[c].left :
          result' = IF ref \in refs
                    THEN [result EXCEPT ![c] = [moment |-> scan[c].moment, ref |-> ref]]
                    ELSE result
    BY <1>5 DEF Get
  <2>2. /\ c \in Callers /\ scan[c] # None /\ scan[c] \in Scanning /\ scan[c].phase = "read"
        /\ ScanSound(c, scan[c]) /\ scan' = [scan EXCEPT ![c] = None]
        /\ UNCHANGED <<bucket, refs, archive, put, horizon, edits, faults, removals, errors>>
    BY <1>1, <1>5 DEF Get, Phase, Callers, BackendInv, TypeOK
  <2> DEFINE read == [moment |-> scan[c].moment, ref |-> ref]
  <2>3. read \in [moment : Nat, ref : Refs]
    BY <2>1, <2>2 DEF Scanning
  <2>4. ASSUME ref \in refs PROVE ResultSound(read)
    BY <2>1, <2>2, <2>4 DEF ScanSound, ChoiceSound, ResultSound
  <2> HIDE DEF read
  <2>5. /\ result' \in [Readers -> [moment : Nat, ref : Refs] \union {None}]
        /\ \A d \in Readers : result'[d] = result[d] \/ ResultSound(result'[d])
    <3>1. CASE ref \in refs
      BY <1>3, <2>1, <2>3, <2>4, <3>1 DEF read
    <3>2. CASE ref \notin refs
      BY <1>3, <2>1, <3>2
    <3> QED
      BY <3>1, <3>2
  <2>6. faults' \in Nat /\ faults' >= faults
    BY <1>3, <2>2
  <2> QED
    BY <1>2, <2>2, <2>5, <2>6
<1>6. ASSUME NEW c \in Callers, SweepEnds(c) \/ ScanFails(c) PROVE BackendInv'
  <2>1. /\ scan' = [scan EXCEPT ![c] = None] /\ result' = result
        /\ UNCHANGED <<bucket, refs, archive, put, horizon, edits, removals, errors>>
        /\ faults' \in Nat /\ faults' >= faults
    BY <1>3, <1>6 DEF SweepEnds, ScanFails
  <2> QED
    BY <1>2, <1>3, <2>1
<1>7. CASE UNCHANGED vars
  <2>1. TypeOK' /\ PutAccounted'
    BY <1>1, <1>7 DEF vars, TypeOK, PutAccounted
  <2> QED
    BY <1>1, <1>7, <2>1, QuietStep DEF vars
<1> QED
  BY <1>4, <1>5, <1>6, <1>7, PutKeeps, SweepBeginKeeps, DeleteKeeps, NextPageKeeps
  DEF Next, Scans, Callers

-----------------------------------------------------------------------------

(* Every variable keeps its type, whatever sweeps, restores, captures and  *)
(* faults do.                                                              *)
THEOREM BackendTypeOK == Spec => []TypeOK
<1>1. BackendInv => TypeOK
  BY DEF BackendInv
<1> QED
  BY <1>1, BackendInvInit, BackendInvStep, PTL DEF Spec

(* What a restore reads is the configuration in force at its moment, for   *)
(* every page size: where a sweep tears a hole into its listing, the key   *)
(* it chooses can no longer be read.                                       *)
THEOREM BackendReadSound == Spec => []ReadSound
<1>1. BackendInv => ReadSound
  BY DEF BackendInv, ReadSound, ResultSound
<1> QED
  BY <1>1, BackendInvInit, BackendInvStep, PTL DEF Spec

(* Where the bucket may be created, every Put that returns an error is     *)
(* paid for by a failed request or a removal of the bucket: to find the    *)
(* bucket missing, or just created by another, is never an error.          *)
THEOREM BackendPutReliable == Spec => []PutReliable
<1>1. BackendInv => PutReliable
  BY DEF BackendInv, PutAccounted, PutReliable
<1> QED
  BY <1>1, BackendInvInit, BackendInvStep, PTL DEF Spec

(* Sweeps that plan from listings put together page by page forget only    *)
(* what is superseded, oldest first, and captures land inside the promise: *)
(* the bucket implements the abstract history.                             *)
THEOREM BackendImplementsHistory == Spec => HistoryImplemented
<1>1. Init => H!Init
  BY DEF Init, H!Init
<1>2. BackendInv /\ [Next]_vars => [H!Next]_H!history
  <2> SUFFICES ASSUME BackendInv, [Next]_vars, ~UNCHANGED <<archive, refs, horizon>>
               PROVE  H!Next
    BY DEF H!history
  <2>1. ASSUME put # None, refs' = refs \union {put.ref}, archive' = archive \union {put.ref},
               UNCHANGED horizon
        PROVE  H!Write
    <3>1. put.ref \in Refs /\ put.ref.at = Clock + 1 /\ Clock \in Nat /\ horizon \in Nat
          /\ horizon <= Clock /\ \A ref \in archive : ref.at <= Clock
      BY <2>1, ClockType DEF BackendInv, TypeOK, Numbered
    <3>2. put.ref \notin archive /\ put.ref.at >= horizon
      BY <3>1
    <3> QED
      BY <2>1, <3>2 DEF H!Write
  <2>2. CASE CreatedByOther \/ RemoveBucket \/ Puts
    BY <2>1, <2>2 DEF CreatedByOther, RemoveBucket, Puts, PutBegin, PutObject, CreateBucket,
       PutAgain, PutFails, Land, PutError, H!Next
  <2>3. ASSUME NEW c \in Sweepers, NEW cutoff \in 0 .. Clock, SweepBegin(c, cutoff)
        PROVE  H!Advance
    <3>1. horizon \in Nat /\ cutoff \in Nat /\ horizon' = Max({horizon, cutoff})
          /\ UNCHANGED <<refs, archive>>
      BY <2>3, ClockType DEF SweepBegin
    <3>2. horizon' \in Nat /\ horizon' >= horizon
      BY <3>1, MaxOfTwo
    <3> QED
      BY <3>1, <3>2 DEF H!Advance
  <2>4. ASSUME NEW c \in Sweepers, Delete(c) PROVE H!Forget
    <3>1. PICK ref \in scan[c].left :
             /\ \A other \in scan[c].left : ~KeyLess(other, ref)
             /\ refs' = refs \ {ref}
             /\ UNCHANGED <<archive, horizon>>
      BY <2>4 DEF Delete
    <3>2. ref \in refs
      BY <3>1
    <3>3. Superseded(ref) /\ \A held \in refs : KeyLess(held, ref) => held \in scan[c].left
      BY <2>4, <3>1 DEF Delete, Phase, BackendInv, ScanSound, PlanSound, Callers
    <3> QED
      BY <3>1, <3>2, <3>3 DEF Superseded, H!Forget, H!KeyLess, KeyLess
  <2> QED
    BY <2>2, <2>3, <2>4 DEF Next, Scans, RestoreBegin, Begin, NextPage, SweepEnds, Get, ScanFails,
       vars, H!Next
<1> QED
  BY <1>1, <1>2, BackendInvInit, BackendInvStep, PTL DEF Spec, HistoryImplemented, H!Spec

=============================================================================
