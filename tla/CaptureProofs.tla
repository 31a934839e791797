---------------------------- MODULE CaptureProofs ----------------------------
(***************************************************************************)
(* Theorems about Capture, for every set of stores, servers, destinations, *)
(* replicas and configurations and every bound.                            *)
(***************************************************************************)
EXTENDS Capture, SnapshotHistoryProofs

(* Every history is a finite set of snapshots.                             *)
Finite == \A h \in Histories : IsFiniteSet(objects[h])

(* The object of a job that is about to write the pointer exists.          *)
Backs(h, s) ==
    \E o \in objects[h] : SnapshotKey(o) = SnapshotKey(s) /\ o.content = s.content

JobBacked == job # None /\ job.phase = "pointer" => Backs(job.history, job.snap)

(* The store-side invariant: types, finiteness and pointer order.          *)
StoreInv == TypeOK /\ Finite /\ PointerBacked /\ JobBacked

-----------------------------------------------------------------------------

LEMMA KeyType ==
    ASSUME NEW s \in Snapshots
    PROVE  SnapshotKey(s) \in Refs
BY CaptureAssumption DEF SnapshotKey, Snapshots, Refs

LEMMA KeptType ==
    ASSUME NEW meta \in Metas \union {NoMeta}, NEW rules \in Rules
    PROVE  /\ Kept(meta, rules) \in Metas \union {NoMeta}
           /\ Fingerprint(meta, rules) \in Fingerprints
           /\ Kept(Kept(meta, rules), rules) = Kept(meta, rules)
BY DEF Kept, Fingerprint, Fingerprints

LEMMA ExtractType ==
    ASSUME TypeOK, SaveEnabled
    PROVE  /\ Extract \in Snapshots
           /\ LiveFingerprint \in Fingerprints
           /\ LiveHistory \in Histories
           /\ LiveRules \in Rules
<1>1. cluster.store \in Stores
  BY DEF TypeOK, SaveEnabled
<1>2. LiveRules \in Rules /\ LiveHistory \in Histories
  BY <1>1 DEF TypeOK, LiveRules, LiveHistory, Histories
<1>3. Kept(cluster.meta, LiveRules) \in Metas \union {NoMeta}
  BY <1>2, KeptType DEF TypeOK
<1>4. LiveFingerprint \in Fingerprints
  BY <1>2, KeptType DEF TypeOK, LiveFingerprint
<1> QED
  BY <1>2, <1>3, <1>4 DEF Extract, Snapshots, Content, TypeOK

(* Without a pointer, Latest answers an object of the history.             *)
LEMMA LatestIsHeld ==
    ASSUME TypeOK, Finite, NEW h \in Histories, Latest(h) # None
    PROVE  /\ Latest(h) \in Snapshots
           /\ \/ Latest(h) = latest[h] /\ latest[h] # None
              \/ Latest(h) \in objects[h]
<1>1. CASE latest[h] # None \/ objects[h] = {}
  BY <1>1 DEF Latest, TypeOK
<1>2. CASE latest[h] = None /\ objects[h] # {}
  <2> DEFINE keys == {SnapshotKey(o) : o \in objects[h]}
  <2>1. objects[h] \subseteq Snapshots /\ IsFiniteSet(objects[h])
    BY DEF TypeOK, Finite
  <2>2. keys \in SUBSET Refs
    BY <2>1, KeyType
  <2>3. IsFiniteSet(keys)
    <3> DEFINE keyOf == [o \in objects[h] |-> SnapshotKey(o)]
    <3>1. keyOf \in Surjection(objects[h], keys)
      BY DEF Surjection
    <3> HIDE DEF keyOf, keys
    <3> QED
      BY <2>1, <3>1, FS_Surjection
  <2>4. keys # {}
    BY <1>2
  <2>5. Newest(keys) \in keys
    <3> HIDE DEF keys
    <3> QED
      BY <2>2, <2>3, <2>4, NewestExists DEF IsNewest
  <2>6. PICK o \in objects[h] : SnapshotKey(o) = Newest(keys)
    BY <2>5
  <2>7. Latest(h) \in objects[h]
    BY <1>2, <2>6 DEF Latest
  <2> QED
    BY <2>1, <2>7
<1> QED
  BY <1>1, <1>2

(* Putting an object keeps every key and content the history held.         *)
LEMMA PutKeeps ==
    ASSUME NEW objs \in SUBSET Snapshots, IsFiniteSet(objs), NEW s \in Snapshots
    PROVE  /\ PutObject(objs, s) \in SUBSET Snapshots
           /\ IsFiniteSet(PutObject(objs, s))
           /\ s \in PutObject(objs, s)
           /\ \A o \in objs : \E n \in PutObject(objs, s) :
                  SnapshotKey(n) = SnapshotKey(o) /\ n.content = o.content
<1> DEFINE rest == {o \in objs : SnapshotKey(o) # SnapshotKey(s)}
<1>1. IsFiniteSet(rest)
  BY FS_Subset
<1>2. IsFiniteSet(rest \union {s})
  BY <1>1, FS_AddElement
<1>3. ASSUME NEW o \in objs, SnapshotKey(o) = SnapshotKey(s)
      PROVE  o.content = s.content
  BY <1>3, CaptureAssumption DEF SnapshotKey, Snapshots
<1> QED
  BY <1>2, <1>3 DEF PutObject

-----------------------------------------------------------------------------

LEMMA StoreInvInit == Init => StoreInv
<1> SUFFICES ASSUME Init PROVE StoreInv
  OBVIOUS
<1>1. cluster \in [gen : Nat, spec : Specs, meta : Metas,
                   store : Stores \union {None}, server : Servers]
  BY DEF Init
<1>2. SaveEnabled
  BY CaptureAssumption DEF Init, SaveEnabled
<1>3. LiveRules \in Rules
  BY DEF Init, LiveRules
<1>4. past \subseteq Fingerprints
  BY <1>1, <1>3, KeptType DEF Init, LiveFingerprint
<1>5. TypeOK
  BY <1>1, <1>4 DEF Init, TypeOK
<1>6. Finite
  BY FS_EmptySet DEF Init, Finite
<1> QED
  BY <1>5, <1>6 DEF Init, StoreInv, PointerBacked, JobBacked

(* A step that puts s into history h and leaves the pointers alone, or     *)
(* points to a snapshot that is already there, keeps the store in order.   *)
LEMMA PutStep ==
    ASSUME StoreInv, NEW h \in Histories, NEW s \in Snapshots,
           objects' = [objects EXCEPT ![h] = PutObject(@, s)],
           UNCHANGED latest
    PROVE  /\ objects' \in [Histories -> SUBSET Snapshots]
           /\ Finite'
           /\ PointerBacked'
           /\ Backs(h, s)'
<1>1. objects \in [Histories -> SUBSET Snapshots]
      /\ latest \in [Histories -> Snapshots \union {None}]
      /\ \A g \in Histories : IsFiniteSet(objects[g])
  BY DEF StoreInv, TypeOK, Finite
<1>2. objects'[h] = PutObject(objects[h], s)
      /\ \A g \in Histories : g # h => objects'[g] = objects[g]
  BY <1>1
<1>3. PutObject(objects[h], s) \in SUBSET Snapshots
      /\ IsFiniteSet(PutObject(objects[h], s))
      /\ s \in PutObject(objects[h], s)
      /\ \A o \in objects[h] : \E n \in PutObject(objects[h], s) :
             SnapshotKey(n) = SnapshotKey(o) /\ n.content = o.content
  BY <1>1, PutKeeps
<1>4. objects' \in [Histories -> SUBSET Snapshots]
  BY <1>1, <1>3
<1>5. Finite'
  BY <1>1, <1>2, <1>3 DEF Finite
<1>6. ASSUME NEW g \in Histories, latest[g] # None
      PROVE  \E o \in objects'[g] : /\ SnapshotKey(o) = SnapshotKey(latest[g])
                                    /\ o.content = latest[g].content
  <2>1. PICK o \in objects[g] : /\ SnapshotKey(o) = SnapshotKey(latest[g])
                                /\ o.content = latest[g].content
    BY <1>6 DEF StoreInv, PointerBacked
  <2> QED
    BY <1>2, <1>3, <2>1
<1>7. PointerBacked'
  BY <1>6 DEF PointerBacked, SnapshotKey
<1>8. Backs(h, s)'
  BY <1>2, <1>3 DEF Backs, SnapshotKey
<1> QED
  BY <1>4, <1>5, <1>7, <1>8

LEMMA StoreInvStep == StoreInv /\ [Next]_vars => StoreInv'
<1> SUFFICES ASSUME StoreInv, [Next]_vars PROVE StoreInv'
  OBVIOUS
<1> USE DEF StoreInv
<1>1. ASSUME NEW spec \in Specs, NEW meta \in Metas, NEW store \in Stores \union {None},
             NEW server \in Servers, EditSpec(spec, meta, store, server)
      PROVE  StoreInv'
  <2>1. past' \subseteq Fingerprints
    BY <1>1, KeptType DEF EditSpec, TypeOK
  <2>2. TypeOK'
    BY <1>1, <2>1 DEF EditSpec, TypeOK, envVars
  <2> QED
    BY <1>1, <2>2 DEF EditSpec, Finite, PointerBacked, JobBacked, Backs, SnapshotKey
<1>2. ASSUME NEW fp \in Fingerprints, QuietEdit(fp),
             cluster' \in [gen : Nat, spec : Specs, meta : Metas,
                           store : Stores \union {None}, server : Servers],
             stores' \in [Stores -> [present : BOOLEAN, dest : Dests, rules : Rules]]
      PROVE  StoreInv'
  <2>1. TypeOK'
    BY <1>2 DEF QuietEdit, TypeOK
  <2> QED
    BY <1>2, <2>1 DEF QuietEdit, Finite, PointerBacked, JobBacked, Backs, SnapshotKey
<1>3. ASSUME NEW meta \in Metas, EditMetadata(meta) PROVE StoreInv'
  <2>1. Fingerprint(meta, LiveRules) \in Fingerprints
    BY <1>3, KeptType, ExtractType DEF EditMetadata
  <2> QED
    BY <1>2, <1>3, <2>1 DEF EditMetadata, TypeOK
<1>4. ASSUME NEW s \in Stores, NEW rules \in Rules, EditRules(s, rules) PROVE StoreInv'
  <2>1. stores' \in [Stores -> [present : BOOLEAN, dest : Dests, rules : Rules]]
    BY <1>4 DEF EditRules, TypeOK
  <2>2. stores'[cluster.store].rules \in Rules
    BY <1>4, <2>1 DEF EditRules, SaveEnabled, TypeOK
  <2>3. Fingerprint(cluster.meta, stores'[cluster.store].rules) \in Fingerprints
    BY <2>2, KeptType DEF TypeOK
  <2> QED
    BY <1>2, <1>4, <2>1, <2>3 DEF EditRules, TypeOK
<1>5. ASSUME NEW s \in Stores, ToggleStore(s) PROVE StoreInv'
  BY <1>2, <1>5, ExtractType DEF ToggleStore, TypeOK
<1>6. ASSUME NEW s \in Stores, NEW dest \in Dests, RedirectStore(s, dest) PROVE StoreInv'
  BY <1>2, <1>6, ExtractType DEF RedirectStore, TypeOK
<1>7. ASSUME NEW p \in Replicas, PostBegin(p) PROVE StoreInv'
  <2>1. job' \in Jobs
    BY <1>7, ExtractType DEF PostBegin, StoreExists, Jobs
  <2>2. TypeOK'
    BY <1>7, <2>1 DEF PostBegin, TypeOK, envVars
  <2> QED
    BY <1>7, <2>2 DEF PostBegin, Finite, PointerBacked, JobBacked, SnapshotKey
<1>8. ASSUME NEW key \in Refs, job # None, Remember(key)
      PROVE  settled' \in [Replicas -> Entries \union {None}]
  BY <1>8 DEF Remember, TypeOK, Jobs, Snapshots, Entries
<1>9. CASE PostConfirm
  <2>1. job \in Jobs /\ Latest(job.history) # None
    BY <1>9 DEF PostConfirm, NothingNew, TypeOK
  <2>2. SnapshotKey(Latest(job.history)) \in Refs
    BY <2>1, LatestIsHeld, KeyType DEF Jobs
  <2>3. TypeOK'
    BY <1>8, <1>9, <2>2 DEF PostConfirm, TypeOK, envVars
  <2> QED
    BY <1>9, <2>3 DEF PostConfirm, Finite, PointerBacked, JobBacked, SnapshotKey
<1>10. CASE PostDiffers
  <2>1. TypeOK'
    BY <1>10 DEF PostDiffers, TypeOK, Jobs, envVars
  <2> QED
    BY <1>10, <2>1 DEF PostDiffers, TypeOK, Jobs, Finite, PointerBacked, JobBacked, SnapshotKey
<1>11. CASE PostPutObject
  <2>1. job \in Jobs /\ job.history \in Histories /\ job.snap \in Snapshots
    BY <1>11 DEF PostPutObject, TypeOK, Jobs
  <2>2. PICK h \in Histories, s \in Snapshots : h = job.history /\ s = job.snap
    BY <2>1
  <2>3. /\ objects' \in [Histories -> SUBSET Snapshots]
        /\ Finite' /\ PointerBacked' /\ Backs(h, s)'
    BY <1>11, <2>2, PutStep DEF PostPutObject
  <2>4. TypeOK'
    BY <1>11, <2>1, <2>3 DEF PostPutObject, TypeOK, Jobs, envVars
  <2>5. job'.history = h /\ job'.snap = s
    BY <1>11, <2>1, <2>2 DEF PostPutObject, Jobs
  <2> QED
    BY <2>3, <2>4, <2>5 DEF JobBacked, Backs, SnapshotKey
<1>12. CASE PostPutLatest
  <2>1. job \in Jobs /\ job.history \in Histories /\ job.snap \in Snapshots
    BY <1>12 DEF PostPutLatest, TypeOK, Jobs
  <2>2. TypeOK'
    BY <1>8, <1>12, <2>1, KeyType DEF PostPutLatest, TypeOK, envVars
  <2>3. PointerBacked'
    BY <1>12, <2>1 DEF PostPutLatest, TypeOK, PointerBacked, JobBacked, Backs, SnapshotKey
  <2> QED
    BY <1>12, <2>2, <2>3 DEF PostPutLatest, Finite, JobBacked
<1>13. ASSUME NEW landed \in BOOLEAN, PostFails(landed) PROVE StoreInv'
  <2>1. job \in Jobs /\ job.history \in Histories /\ job.snap \in Snapshots /\ job' = None
    BY <1>13 DEF PostFails, TypeOK, Jobs
  <2>2. CASE landed /\ job.phase = "object"
    <3>1. objects' = [objects EXCEPT ![job.history] = PutObject(@, job.snap)] /\ latest' = latest
      BY <1>13, <2>2 DEF PostFails
    <3>2. objects' \in [Histories -> SUBSET Snapshots] /\ Finite' /\ PointerBacked'
      BY <2>1, <3>1, PutStep
    <3>3. TypeOK'
      BY <1>13, <2>1, <3>1, <3>2 DEF PostFails, TypeOK
    <3> QED
      BY <2>1, <3>2, <3>3 DEF JobBacked
  <2>3. CASE landed /\ job.phase = "pointer"
    <3>1. objects' = objects /\ latest' = [latest EXCEPT ![job.history] = job.snap]
      BY <1>13, <2>3 DEF PostFails
    <3>2. TypeOK'
      BY <1>13, <2>1, <3>1 DEF PostFails, TypeOK
    <3>3. PointerBacked'
      BY <1>13, <2>1, <2>3, <3>1 DEF PostFails, TypeOK, PointerBacked, JobBacked, Backs, SnapshotKey
    <3> QED
      BY <2>1, <3>1, <3>2, <3>3 DEF Finite, JobBacked
  <2>4. CASE ~landed \/ job.phase \notin {"object", "pointer"}
    <3>1. objects' = objects /\ latest' = latest
      BY <1>13, <2>4 DEF PostFails
    <3>2. TypeOK'
      BY <1>13, <2>1, <3>1 DEF PostFails, TypeOK
    <3> QED
      BY <2>1, <3>1, <3>2 DEF Finite, PointerBacked, JobBacked, SnapshotKey
  <2> QED
    BY <2>2, <2>3, <2>4
<1>14. ASSUME NEW p \in Replicas, Restart(p) PROVE StoreInv'
  <2>1. TypeOK'
    BY <1>14 DEF Restart, TypeOK
  <2> QED
    BY <1>14, <2>1 DEF Restart, Finite, PointerBacked, JobBacked, Backs, SnapshotKey
<1>15. ASSUME NEW p \in Replicas, DropSettled(p) PROVE StoreInv'
  <2>1. TypeOK'
    BY <1>15 DEF DropSettled, TypeOK
  <2> QED
    BY <1>15, <2>1 DEF DropSettled, Finite, PointerBacked, JobBacked, Backs, SnapshotKey
<1>16. ASSUME NEW p \in Replicas, SetStatusInCluster(p) PROVE StoreInv'
  <2> DEFINE newest == Latest(LiveHistory)
  <2>1. SaveEnabled /\ LiveHistory \in Histories /\ newest # None
    BY <1>16, ExtractType DEF SetStatusInCluster, StoreExists
  <2>2. newest \in Snapshots
    BY <2>1, LatestIsHeld
  <2>3. newest.gen \in Nat /\ newest.content.meta \in Metas \union {NoMeta} /\ newest.rules \in Rules
    BY <2>2 DEF Snapshots, Content
  <2>4. SnapshotFingerprint(newest) \in Fingerprints /\ SnapshotKey(newest) \in Refs
    BY <2>2, <2>3, KeptType, KeyType DEF SnapshotFingerprint
  <2>5. cluster.store \in Stores /\ cluster.server \in Servers
    BY <2>1 DEF SaveEnabled, TypeOK
  <2>6. watermark' \in Marks
    BY <1>16, <2>3, <2>4, <2>5 DEF SetStatusInCluster, Marks
  <2>7. TypeOK'
    BY <1>16, <2>6 DEF SetStatusInCluster, TypeOK, envVars
  <2> QED
    BY <1>16, <2>7 DEF SetStatusInCluster, Finite, PointerBacked, JobBacked, SnapshotKey
<1>17. CASE Tick
  <2>1. TypeOK'
    BY <1>17 DEF Tick, TypeOK
  <2> QED
    BY <1>17, <2>1 DEF Tick, Finite, PointerBacked, JobBacked, Backs, SnapshotKey
<1>18. CASE UNCHANGED vars
  BY <1>18 DEF vars, envVars, TypeOK, Finite, PointerBacked, JobBacked, Backs, SnapshotKey
<1> QED
  BY <1>1, <1>3, <1>4, <1>5, <1>6, <1>7, <1>9, <1>10, <1>11, <1>12, <1>13, <1>14, <1>15,
     <1>16, <1>17, <1>18 DEF Next, Users, PostStep, Faults

(* Whatever users, faults and restarts do, every variable keeps its type.  *)
THEOREM CaptureTypeOK == Spec => []TypeOK
<1>1. StoreInv => TypeOK
  BY DEF StoreInv
<1> QED
  BY <1>1, StoreInvInit, StoreInvStep, PTL DEF Spec

(* latest.json never names a missing object: SnapshotStore.Write puts the  *)
(* object first, so no failure, crash or concurrent edit can separate the  *)
(* pointer from the object it copies.                                      *)
THEOREM CapturePointerBacked == Spec => []PointerBacked
<1>1. StoreInv => PointerBacked
  BY DEF StoreInv
<1> QED
  BY <1>1, StoreInvInit, StoreInvStep, PTL DEF Spec

-----------------------------------------------------------------------------
(***************************************************************************)
(* Why a fast path may be trusted.  It compares a generation and a         *)
(* fingerprint, so it is sound when that pair identifies one configuration *)
(* over the Cluster's whole life: when metadata and rules never return, in *)
(* one generation, to a value they had before, and the ConfigStore in use  *)
(* keeps its destination.                                                  *)
(***************************************************************************)

Steady == ~AllowRevert /\ ~AllowRedirect

(* The pair was the Cluster's own at some moment up to now.                *)
Recorded(gen, fp) == gen < cluster.gen \/ (gen = cluster.gen /\ fp \in past)

(* A snapshot of the present generation holds its spec.                    *)
Faithful(s) ==
    /\ s.content.meta = Kept(s.content.meta, s.rules)
    /\ Recorded(s.gen, SnapshotFingerprint(s))
    /\ s.gen = cluster.gen => s.content.spec = cluster.spec

LiveRecorded == SaveEnabled => LiveFingerprint \in past

AllFaithful ==
    \A h \in Histories : /\ \A o \in objects[h] : Faithful(o)
                         /\ latest[h] # None => Faithful(latest[h])

(* A call still in progress for the present generation writes where the    *)
(* next call would.                                                        *)
JobFaithful ==
    job # None => /\ Faithful(job.snap)
                  /\ job.fp = SnapshotFingerprint(job.snap)
                  /\ job.snap.gen = cluster.gen =>
                        SaveEnabled /\ job.history = LiveHistory

MarksRecorded ==
    /\ watermark # None => Recorded(watermark.gen, watermark.fp)
    /\ \A p \in Replicas :
          settled[p] # None => Recorded(settled[p].gen, settled[p].fp)

Hit == WatermarkHit \/ \E p \in Replicas : SettledHit(p)

HitSound == SaveEnabled /\ Hit => Archived

HitBacked ==
    SaveEnabled /\ WatermarkHit =>
        \E o \in objects[LiveHistory] : SnapshotKey(o) = watermark.key

(* While a fast path would answer for the live state, a call in progress   *)
(* was handed that same state and has not decided to write.                *)
HitJob ==
    SaveEnabled /\ Hit /\ job # None =>
        /\ job.phase = "latest"
        /\ job.snap.gen = cluster.gen
        /\ job.fp = LiveFingerprint

SoundInv ==
    /\ StoreInv /\ LiveRecorded /\ AllFaithful /\ JobFaithful
    /\ MarksRecorded /\ HitSound /\ HitBacked /\ HitJob

-----------------------------------------------------------------------------

(* A faithful snapshot with the live pair holds the live configuration.    *)
LEMMA PairIdentifies ==
    ASSUME TypeOK, SaveEnabled, NEW s \in Snapshots, Faithful(s),
           s.gen = cluster.gen, SnapshotFingerprint(s) = LiveFingerprint
    PROVE  s.content = Extract.content /\ s.rules = LiveRules
<1>1. s.rules = LiveRules /\ s.content.meta = Kept(cluster.meta, LiveRules)
  BY DEF Faithful, SnapshotFingerprint, LiveFingerprint, Fingerprint
<1>2. s.content.spec = cluster.spec
  BY DEF Faithful
<1> QED
  BY <1>1, <1>2 DEF Extract, Snapshots, Content

LEMMA LatestFaithful ==
    ASSUME TypeOK, Finite, AllFaithful, NEW h \in Histories, Latest(h) # None
    PROVE  Latest(h) \in Snapshots /\ Faithful(Latest(h))
BY LatestIsHeld DEF AllFaithful

LEMMA SoundInvInit == Init => SoundInv
<1> SUFFICES ASSUME Init PROVE SoundInv
  OBVIOUS
<1>1. StoreInv
  BY StoreInvInit
<1>2. LiveRecorded
  BY DEF Init, LiveRecorded
<1>3. AllFaithful /\ JobFaithful /\ MarksRecorded
  BY DEF Init, AllFaithful, JobFaithful, MarksRecorded
<1>4. ~Hit
  BY DEF Init, Hit, WatermarkHit, SettledHit
<1> QED
  BY <1>1, <1>2, <1>3, <1>4 DEF SoundInv, HitSound, HitBacked, HitJob, Hit

(* An edit that bumps the generation leaves every recorded pair behind.    *)
LEMMA EditSpecSound ==
    ASSUME SoundInv, StoreInv', NEW spec \in Specs, NEW meta \in Metas,
           NEW store \in Stores \union {None}, NEW server \in Servers,
           EditSpec(spec, meta, store, server)
    PROVE  SoundInv'
<1> USE DEF SoundInv, StoreInv
<1>1. /\ cluster'.gen = cluster.gen + 1 /\ cluster.gen \in Nat
      /\ cluster'.meta = meta /\ cluster'.store = store
      /\ past' = IF store = None THEN {} ELSE {Fingerprint(meta, stores[store].rules)}
      /\ UNCHANGED <<watermark, stores, objects, latest, settled, job>>
  BY DEF EditSpec, TypeOK
<1>2. ASSUME NEW gen \in Nat, NEW fp, Recorded(gen, fp)
      PROVE  Recorded(gen, fp)' /\ gen # cluster'.gen
  BY <1>1, <1>2 DEF Recorded
<1>3. ASSUME NEW s \in Snapshots, Faithful(s) PROVE Faithful(s)' /\ s.gen # cluster'.gen
  <2>1. s.gen \in Nat /\ Recorded(s.gen, SnapshotFingerprint(s))
    BY <1>3 DEF Faithful, Snapshots
  <2>2. Recorded(s.gen, SnapshotFingerprint(s))' /\ s.gen # cluster'.gen
    BY <1>2, <2>1 DEF SnapshotFingerprint, Fingerprint, Kept
  <2> QED
    BY <1>3, <2>2 DEF Faithful, Kept
<1>4. LiveRecorded'
  BY <1>1 DEF LiveRecorded, SaveEnabled, LiveFingerprint, LiveRules, Fingerprint, Kept
<1>5. AllFaithful'
  BY <1>1, <1>3 DEF AllFaithful, TypeOK
<1>6. job # None => job.snap \in Snapshots
  BY DEF TypeOK, Jobs
<1>7. JobFaithful'
  BY <1>1, <1>3, <1>6 DEF JobFaithful, SnapshotFingerprint, Fingerprint, Kept
<1>8. /\ watermark # None => watermark.gen \in Nat
      /\ \A p \in Replicas : settled[p] # None => settled[p].gen \in Nat
  BY DEF TypeOK, Marks, Entries
<1>9. MarksRecorded'
  BY <1>1, <1>2, <1>8 DEF MarksRecorded
<1>10. ~Hit'
  BY <1>1, <1>2, <1>8 DEF MarksRecorded, Hit, WatermarkHit, SettledHit
<1> QED
  BY <1>4, <1>5, <1>7, <1>9, <1>10 DEF HitSound, HitBacked, HitJob, Hit

(* An edit within a generation either leaves the pair alone or makes one   *)
(* that was never recorded.                                                *)
LEMMA QuietEditSound ==
    ASSUME Steady, SoundInv, StoreInv', SaveEnabled, NEW fp, QuietEdit(fp),
           cluster'.gen = cluster.gen, cluster'.spec = cluster.spec,
           cluster'.store = cluster.store, cluster'.server = cluster.server,
           stores'[cluster.store].dest = stores[cluster.store].dest,
           LiveFingerprint' = fp
    PROVE  SoundInv'
<1> USE DEF SoundInv, StoreInv
<1>1. /\ past' = past \union {fp}
      /\ fp = LiveFingerprint \/ fp \notin past
      /\ UNCHANGED <<watermark, objects, latest, settled, job>>
  BY DEF QuietEdit, Steady
<1>2. SaveEnabled' /\ LiveHistory' = LiveHistory
  BY DEF SaveEnabled, LiveHistory
<1>3. ASSUME NEW gen, NEW f, Recorded(gen, f) PROVE Recorded(gen, f)'
  BY <1>1, <1>3 DEF Recorded
<1>4. ASSUME NEW s, Faithful(s) PROVE Faithful(s)'
  BY <1>3, <1>4 DEF Faithful, SnapshotFingerprint, Fingerprint, Kept
<1>5. LiveRecorded'
  BY <1>1 DEF LiveRecorded
<1>6. AllFaithful'
  BY <1>1, <1>4 DEF AllFaithful
<1>7. JobFaithful'
  <2>1. job # None => Faithful(job.snap)'
    BY <1>1, <1>4 DEF JobFaithful, Faithful, Recorded, SnapshotFingerprint, Fingerprint, Kept
  <2> QED
    BY <1>1, <1>2, <2>1 DEF JobFaithful, SnapshotFingerprint, Fingerprint, Kept
<1>8. MarksRecorded'
  BY <1>1, <1>3 DEF MarksRecorded
<1>9. CASE fp = LiveFingerprint
  <2>1. Hit' = Hit /\ WatermarkHit' = WatermarkHit
    BY <1>1, <1>9 DEF Hit, WatermarkHit, SettledHit
  <2>2. Latest(LiveHistory)' = Latest(LiveHistory)
    BY <1>1, <1>2 DEF Latest, Newest, IsNewest, SnapshotKey, KeyLess
  <2>3. Extract'.content = Extract.content /\ LiveRules' = LiveRules
    BY <1>9 DEF Extract, LiveFingerprint, Fingerprint
  <2>4. HitSound'
    BY <1>2, <2>1, <2>2, <2>3 DEF HitSound, Archived
  <2>5. HitBacked'
    BY <1>1, <1>2, <2>1 DEF HitBacked, SnapshotKey
  <2>6. HitJob'
    BY <1>1, <1>9, <2>1 DEF HitJob
  <2> QED
    BY <1>5, <1>6, <1>7, <1>8, <2>4, <2>5, <2>6
<1>10. CASE fp \notin past
  <2>1. ~Hit'
    BY <1>1, <1>10 DEF Hit, WatermarkHit, SettledHit, MarksRecorded, Recorded, StoreInv, TypeOK
  <2> QED
    BY <1>5, <1>6, <1>7, <1>8, <2>1 DEF HitSound, HitBacked, HitJob, Hit
<1> QED
  BY <1>1, <1>9, <1>10

(* Steps of the hooks and of the clock leave what the pairs are compared   *)
(* with alone, so only what they write has to be looked at.                *)
LEMMA SameCluster ==
    ASSUME UNCHANGED <<cluster, stores, past>>
    PROVE  /\ \A gen, fp : Recorded(gen, fp)' <=> Recorded(gen, fp)
           /\ \A s : Faithful(s)' <=> Faithful(s)
           /\ SaveEnabled' <=> SaveEnabled
           /\ LiveFingerprint' = LiveFingerprint
           /\ LiveHistory' = LiveHistory
           /\ LiveRules' = LiveRules
           /\ Extract'.content = Extract.content
BY DEF Recorded, Faithful, SaveEnabled, LiveFingerprint, LiveHistory, LiveRules, Extract,
       SnapshotFingerprint, Fingerprint, Kept

(* A step that writes no object and no pointer keeps what Latest answers.  *)
LEMMA SameLatest ==
    ASSUME UNCHANGED <<objects, latest>>, NEW h
    PROVE  Latest(h)' = Latest(h)
BY DEF Latest, Newest, IsNewest, SnapshotKey, KeyLess

(* A step that records nothing new, and starts no call, cannot disturb the *)
(* pairs.                                                                  *)
LEMMA ForgetSound ==
    ASSUME SoundInv, StoreInv',
           UNCHANGED <<cluster, stores, past, watermark, objects, latest>>,
           job' = job \/ job' = None,
           \A p \in Replicas : settled'[p] = settled[p] \/ settled'[p] = None
    PROVE  SoundInv'
<1> USE DEF SoundInv, StoreInv
<1>1. LiveRecorded' /\ AllFaithful'
  BY SameCluster DEF LiveRecorded, AllFaithful
<1>2. JobFaithful'
  BY SameCluster DEF JobFaithful, Faithful, Recorded, SnapshotFingerprint, Fingerprint, Kept
<1>3. MarksRecorded'
  BY SameCluster DEF MarksRecorded, Recorded
<1>4. (Hit' => Hit) /\ (WatermarkHit' <=> WatermarkHit)
  BY SameCluster DEF Hit, WatermarkHit, SettledHit
<1>5. HitSound'
  BY <1>4, SameCluster, SameLatest DEF HitSound, Archived
<1>6. HitBacked' /\ HitJob'
  BY <1>4, SameCluster DEF HitBacked, HitJob, SnapshotKey
<1> QED
  BY <1>1, <1>2, <1>3, <1>5, <1>6

LEMMA PostBeginSound ==
    ASSUME SoundInv, StoreInv', NEW p \in Replicas, PostBegin(p)
    PROVE  SoundInv'
<1> USE DEF SoundInv, StoreInv
<1>1. /\ SaveEnabled
      /\ UNCHANGED <<cluster, stores, past, watermark, objects, latest, settled>>
      /\ job' = [phase |-> "latest", replica |-> p, history |-> LiveHistory,
                 fp |-> LiveFingerprint, snap |-> Extract]
  BY DEF PostBegin, StoreExists
<1>2. LiveRules \in Rules /\ cluster.meta \in Metas
  BY <1>1, ExtractType DEF TypeOK
<1>3. SnapshotFingerprint(Extract) = LiveFingerprint
  BY <1>2, KeptType DEF SnapshotFingerprint, Extract, LiveFingerprint, Fingerprint
<1>4. Faithful(Extract)
  <2>1. Recorded(Extract.gen, SnapshotFingerprint(Extract))
    BY <1>1, <1>3 DEF Recorded, LiveRecorded, Extract
  <2>2. Kept(Kept(cluster.meta, LiveRules), LiveRules) = Kept(cluster.meta, LiveRules)
    BY <1>2, KeptType
  <2>3. Extract.content.meta = Kept(Extract.content.meta, Extract.rules)
    BY <2>2 DEF Extract
  <2>4. Extract.content.spec = cluster.spec
    BY DEF Extract
  <2> QED
    BY <2>1, <2>3, <2>4 DEF Faithful
<1>5. PICK snap : snap = Extract
  OBVIOUS
<1>6. PICK history, fp : history = LiveHistory /\ fp = LiveFingerprint
  OBVIOUS
<1>7. /\ job'.snap = snap /\ job'.fp = fp /\ job'.history = history
      /\ job'.phase = "latest" /\ snap.gen = cluster.gen
  BY <1>1, <1>5, <1>6 DEF Extract
<1>8. Faithful(snap)' /\ fp = SnapshotFingerprint(snap)
  BY <1>1, <1>3, <1>4, <1>5, <1>6, SameCluster
<1>9. JobFaithful'
  <2>1. Faithful(job.snap)'
    BY <1>7, <1>8 DEF Faithful, Recorded, SnapshotFingerprint, Fingerprint, Kept
  <2>2. job'.fp = SnapshotFingerprint(job.snap)'
    BY <1>7, <1>8 DEF SnapshotFingerprint, Fingerprint, Kept
  <2> QED
    BY <1>1, <1>6, <1>7, <2>1, <2>2, SameCluster DEF JobFaithful
<1>10. (Hit' <=> Hit) /\ (WatermarkHit' <=> WatermarkHit)
  BY <1>1, SameCluster DEF Hit, WatermarkHit, SettledHit
<1>11. LiveRecorded' /\ AllFaithful' /\ MarksRecorded' /\ HitBacked'
  BY <1>1, <1>10, SameCluster DEF LiveRecorded, AllFaithful, MarksRecorded, HitBacked, SnapshotKey
<1>12. HitSound'
  BY <1>1, <1>10, SameCluster, SameLatest DEF HitSound, Archived
<1>13. HitJob'
  BY <1>1, <1>6, <1>7, SameCluster DEF HitJob
<1> QED
  BY <1>9, <1>11, <1>12, <1>13

(* Post found or put the state it was handed in the store and remembers it. *)
LEMMA RememberSound ==
    ASSUME SoundInv, StoreInv', job # None, NEW key, Remember(key), job' = None,
           UNCHANGED <<cluster, stores, past, watermark>>,
           AllFaithful', HitBacked', SaveEnabled /\ Hit => Archived',
           NEW h, h = job.history, Latest(h)' # None,
           Latest(h)'.content = job.snap.content, Latest(h)'.rules = job.snap.rules
    PROVE  SoundInv'
<1> USE DEF SoundInv, StoreInv
<1>1. job.snap \in Snapshots /\ job.replica \in Replicas
  BY DEF TypeOK, Jobs
<1>2. /\ settled'[job.replica] = [gen |-> job.snap.gen, fp |-> job.fp, key |-> key]
      /\ \A p \in Replicas \ {job.replica} : settled'[p] = settled[p]
  BY <1>1 DEF Remember, TypeOK
<1>3. Faithful(job.snap) /\ job.fp = SnapshotFingerprint(job.snap)
  BY DEF JobFaithful
<1>4. LiveRecorded' /\ JobFaithful'
  BY SameCluster DEF LiveRecorded, JobFaithful
<1>5. MarksRecorded'
  <2>1. Recorded(job.snap.gen, job.fp)
    BY <1>3 DEF Faithful
  <2>2. ASSUME NEW p \in Replicas, settled'[p] # None
        PROVE  Recorded(settled'[p].gen, settled'[p].fp)
    BY <1>2, <2>1, <2>2 DEF MarksRecorded
  <2> QED
    BY <2>2, SameCluster DEF MarksRecorded, Recorded
<1>6. ASSUME SaveEnabled, Hit' PROVE Archived'
  <2>1. CASE Hit
    BY <1>6, <2>1
  <2>2. CASE job.snap.gen = cluster.gen /\ job.fp = LiveFingerprint
    <3>1. job.snap.content = Extract.content /\ job.snap.rules = LiveRules
      BY <1>1, <1>3, <1>6, <2>2, PairIdentifies
    <3>2. LiveHistory' = h
      BY <2>2, SameCluster DEF JobFaithful
    <3> QED
      BY <3>1, <3>2, SameCluster DEF Archived
  <2>3. Hit \/ (job.snap.gen = cluster.gen /\ job.fp = LiveFingerprint)
    BY <1>2, <1>6, SameCluster DEF Hit, WatermarkHit, SettledHit
  <2> QED
    BY <2>1, <2>2, <2>3
<1>7. HitSound' /\ HitJob'
  BY <1>6, SameCluster DEF HitSound, HitJob
<1> QED
  BY <1>4, <1>5, <1>7

LEMMA PostConfirmSound ==
    ASSUME SoundInv, StoreInv', PostConfirm
    PROVE  SoundInv'
<1> USE DEF SoundInv, StoreInv
<1>1. /\ job # None /\ job' = None
      /\ UNCHANGED <<cluster, stores, past, watermark, objects, latest>>
  BY DEF PostConfirm
<1>2. PICK h : h = job.history
  OBVIOUS
<1>3. PICK key : key = SnapshotKey(Latest(job.history))
  OBVIOUS
<1>4. Remember(key)
  BY <1>3 DEF PostConfirm
<1>5. Latest(h)' # None /\ Latest(h)'.content = job.snap.content /\ Latest(h)'.rules = job.snap.rules
  BY <1>1, <1>2, SameLatest DEF PostConfirm, NothingNew, SameCapture
<1>6. AllFaithful' /\ HitBacked'
  BY <1>1, SameCluster DEF AllFaithful, HitBacked, WatermarkHit, SnapshotKey
<1>7. SaveEnabled /\ Hit => Archived'
  BY <1>1, SameCluster, SameLatest DEF HitSound, Archived
<1> QED
  BY <1>1, <1>2, <1>4, <1>5, <1>6, <1>7, RememberSound

(* The newest snapshot differs from what the call was handed, so no fast   *)
(* path answers for the live state.                                        *)
LEMMA PostDiffersSound ==
    ASSUME SoundInv, StoreInv', PostDiffers
    PROVE  SoundInv'
<1> USE DEF SoundInv, StoreInv
<1>1. /\ job # None /\ job \in Jobs
      /\ UNCHANGED <<cluster, stores, past, watermark, objects, latest, settled>>
      /\ job'.snap = job.snap /\ job'.fp = job.fp /\ job'.history = job.history
  BY DEF PostDiffers, TypeOK, Jobs
<1>2. ~(SaveEnabled /\ Hit)
  <2> SUFFICES ASSUME SaveEnabled, Hit PROVE FALSE
    OBVIOUS
  <2>1. job.snap.gen = cluster.gen /\ job.fp = LiveFingerprint
    BY <1>1 DEF HitJob
  <2>2. job.history = LiveHistory /\ Faithful(job.snap) /\ job.fp = SnapshotFingerprint(job.snap)
    BY <1>1, <2>1 DEF JobFaithful
  <2>3. job.snap.content = Extract.content /\ job.snap.rules = LiveRules
    BY <1>1, <2>1, <2>2, PairIdentifies DEF Jobs
  <2>4. Archived
    BY DEF HitSound
  <2> QED
    BY <2>2, <2>3, <2>4 DEF Archived, PostDiffers, NothingNew, SameCapture
<1>3. ~(SaveEnabled' /\ Hit')
  BY <1>1, <1>2, SameCluster DEF Hit, WatermarkHit, SettledHit
<1>4. LiveRecorded' /\ AllFaithful' /\ MarksRecorded'
  BY <1>1, SameCluster DEF LiveRecorded, AllFaithful, MarksRecorded
<1>5. JobFaithful'
  BY <1>1, SameCluster DEF JobFaithful, Faithful, Recorded, SnapshotFingerprint, Fingerprint, Kept
<1> QED
  BY <1>3, <1>4, <1>5 DEF HitSound, HitBacked, HitJob, Hit

(* While a call writes, no fast path answers for the live state.           *)
LEMMA NoHitWhileWriting ==
    ASSUME SoundInv, job # None, job.phase \in {"object", "pointer"}
    PROVE  ~(SaveEnabled /\ Hit)
BY DEF SoundInv, HitJob

LEMMA PutKeepsFaithful ==
    ASSUME SoundInv, job # None, UNCHANGED <<cluster, stores, past>>,
           \/ UNCHANGED objects
           \/ objects' = [objects EXCEPT ![job.history] = PutObject(@, job.snap)],
           \/ UNCHANGED latest
           \/ latest' = [latest EXCEPT ![job.history] = job.snap]
    PROVE  AllFaithful'
<1>1. /\ objects \in [Histories -> SUBSET Snapshots]
      /\ latest \in [Histories -> Snapshots \union {None}]
      /\ Faithful(job.snap) /\ AllFaithful
  BY DEF SoundInv, StoreInv, TypeOK, JobFaithful
<1>2. ASSUME NEW h \in Histories, NEW o \in objects'[h] PROVE Faithful(o)
  BY <1>1, <1>2 DEF AllFaithful, PutObject
<1>3. ASSUME NEW h \in Histories, latest'[h] # None PROVE Faithful(latest'[h])
  BY <1>1, <1>3 DEF AllFaithful
<1>4. ASSUME NEW h \in Histories, latest'[h] # None PROVE Faithful(latest[h])'
  BY <1>3, <1>4, SameCluster DEF Faithful, Recorded, SnapshotFingerprint, Fingerprint, Kept
<1> QED
  BY <1>2, <1>4, SameCluster DEF AllFaithful

LEMMA PostPutObjectSound ==
    ASSUME SoundInv, StoreInv', PostPutObject
    PROVE  SoundInv'
<1> USE DEF SoundInv, StoreInv
<1>1. /\ job # None /\ job \in Jobs /\ job.phase = "object"
      /\ UNCHANGED <<cluster, stores, past, watermark, latest, settled>>
      /\ job'.snap = job.snap /\ job'.fp = job.fp /\ job'.history = job.history
  BY DEF PostPutObject, TypeOK, Jobs
<1>2. ~(SaveEnabled' /\ Hit')
  BY <1>1, NoHitWhileWriting, SameCluster DEF Hit, WatermarkHit, SettledHit
<1>3. AllFaithful'
  BY <1>1, PutKeepsFaithful DEF PostPutObject
<1>4. LiveRecorded' /\ MarksRecorded'
  BY <1>1, SameCluster DEF LiveRecorded, MarksRecorded
<1>5. JobFaithful'
  BY <1>1, SameCluster DEF JobFaithful, Faithful, Recorded, SnapshotFingerprint, Fingerprint, Kept
<1> QED
  BY <1>2, <1>3, <1>4, <1>5 DEF HitSound, HitBacked, HitJob, Hit

LEMMA PostPutLatestSound ==
    ASSUME SoundInv, StoreInv', PostPutLatest
    PROVE  SoundInv'
<1> USE DEF SoundInv, StoreInv
<1>1. /\ job # None /\ job \in Jobs /\ job.phase = "pointer" /\ job' = None
      /\ UNCHANGED <<cluster, stores, past, watermark, objects>>
      /\ latest' = [latest EXCEPT ![job.history] = job.snap]
  BY DEF PostPutLatest, TypeOK
<1>2. PICK h : h = job.history
  OBVIOUS
<1>3. PICK key : key = SnapshotKey(job.snap)
  OBVIOUS
<1>4. Remember(key)
  BY <1>3 DEF PostPutLatest
<1>5. ~(SaveEnabled /\ Hit)
  BY <1>1, NoHitWhileWriting
<1>6. AllFaithful'
  BY <1>1, PutKeepsFaithful
<1>7. HitBacked'
  BY <1>1, <1>5, SameCluster DEF HitBacked, Hit, WatermarkHit
<1>8. PICK o \in objects[h] : o \in Snapshots
  BY <1>1, <1>2 DEF JobBacked, Backs, TypeOK, Jobs
<1>9. latest'[h] = job.snap /\ objects'[h] # {}
  BY <1>1, <1>2, <1>8 DEF TypeOK, Jobs
<1>10. CASE job.snap # None
  <2>1. Latest(h)' = job.snap
    BY <1>9, <1>10 DEF Latest
  <2> QED
    BY <1>1, <1>2, <1>4, <1>5, <1>6, <1>7, <1>10, <2>1, RememberSound
<1>11. job.snap # None
  BY <1>1, CaptureAssumption DEF Jobs
<1> QED
  BY <1>10, <1>11

(* A call that fails while writing leaves what it put, and no fast path     *)
(* answered for the live state then.                                       *)
LEMMA PostFailsSound ==
    ASSUME SoundInv, StoreInv', NEW landed \in BOOLEAN, PostFails(landed)
    PROVE  SoundInv'
<1> USE DEF SoundInv, StoreInv
<1>1. /\ job # None /\ job \in Jobs /\ job' = None
      /\ UNCHANGED <<cluster, stores, past, watermark, settled>>
  BY DEF PostFails, TypeOK
<1>2. CASE job.phase = "latest"
  <2>1. UNCHANGED <<objects, latest>>
    BY <1>2 DEF PostFails
  <2> QED
    BY <1>1, <2>1, ForgetSound
<1>3. CASE job.phase \in {"object", "pointer"}
  <2>1. ~(SaveEnabled' /\ Hit')
    BY <1>1, <1>3, NoHitWhileWriting, SameCluster DEF Hit, WatermarkHit, SettledHit
  <2>2. AllFaithful'
    BY <1>1, PutKeepsFaithful DEF PostFails
  <2>3. LiveRecorded' /\ MarksRecorded' /\ JobFaithful'
    BY <1>1, SameCluster DEF LiveRecorded, MarksRecorded, JobFaithful
  <2> QED
    BY <2>1, <2>2, <2>3 DEF HitSound, HitBacked, HitJob, Hit
<1> QED
  BY <1>1, <1>2, <1>3 DEF Jobs

(* The status is derived from the newest snapshot, which is faithful and   *)
(* backed by an object.                                                    *)
LEMMA SetStatusSound ==
    ASSUME SoundInv, StoreInv', NEW p \in Replicas, SetStatusInCluster(p)
    PROVE  SoundInv'
<1> USE DEF SoundInv, StoreInv
<1>1. /\ SaveEnabled /\ job = None /\ job' = None
      /\ UNCHANGED <<cluster, stores, past, objects, latest, settled>>
      /\ Latest(LiveHistory) # None /\ LiveHistory \in Histories
  BY ExtractType DEF SetStatusInCluster, StoreExists
<1>2. PICK newest : newest = Latest(LiveHistory)
  OBVIOUS
<1>3. PICK fp, key : fp = SnapshotFingerprint(newest) /\ key = SnapshotKey(newest)
  OBVIOUS
<1>4. newest \in Snapshots /\ Faithful(newest)
  BY <1>1, <1>2, LatestFaithful
<1>5. watermark'.gen = newest.gen /\ watermark'.fp = fp /\ watermark'.key = key
  BY <1>2, <1>3 DEF SetStatusInCluster
<1>6. LiveRecorded' /\ AllFaithful' /\ JobFaithful'
  BY <1>1, SameCluster DEF LiveRecorded, AllFaithful, JobFaithful
<1>7. MarksRecorded'
  <2>1. Recorded(newest.gen, fp)
    BY <1>3, <1>4 DEF Faithful
  <2> QED
    BY <1>1, <1>5, <2>1, SameCluster DEF MarksRecorded, Recorded
<1>8. HitBacked'
  <2>1. \E o \in objects[LiveHistory] : SnapshotKey(o) = key
    BY <1>1, <1>2, <1>3, LatestIsHeld DEF PointerBacked
  <2> QED
    BY <1>1, <1>5, <2>1, SameCluster DEF HitBacked, SnapshotKey
<1>9. ASSUME WatermarkHit' PROVE Archived'
  <2>1. newest.gen = cluster.gen /\ SnapshotFingerprint(newest) = LiveFingerprint
    BY <1>1, <1>3, <1>5, <1>9, SameCluster DEF WatermarkHit
  <2>2. Archived
    BY <1>1, <1>2, <1>4, <2>1, PairIdentifies DEF Archived
  <2> QED
    BY <1>1, <2>2, SameCluster, SameLatest DEF Archived
<1>10. ASSUME NEW q \in Replicas, SettledHit(q)' PROVE Archived'
  <2>1. Hit
    BY <1>1, <1>10, SameCluster DEF Hit, SettledHit
  <2> QED
    BY <1>1, <2>1, SameCluster, SameLatest DEF HitSound, Archived
<1>11. HitSound' /\ HitJob'
  BY <1>1, <1>9, <1>10 DEF HitSound, HitJob, Hit
<1> QED
  BY <1>6, <1>7, <1>8, <1>11

LEMMA SoundInvStep ==
    ASSUME Steady
    PROVE  SoundInv /\ [Next]_vars => SoundInv'
<1> SUFFICES ASSUME SoundInv, [Next]_vars PROVE SoundInv'
  OBVIOUS
<1>1. StoreInv /\ StoreInv' /\ TypeOK
  BY StoreInvStep DEF SoundInv, StoreInv
<1>2. ASSUME NEW meta \in Metas, EditMetadata(meta) PROVE SoundInv'
  <2>1. PICK fp : fp = Fingerprint(meta, LiveRules)
    OBVIOUS
  <2>2. LiveFingerprint' = fp
    BY <1>1, <1>2, <2>1
    DEF EditMetadata, TypeOK, LiveFingerprint, LiveRules, Fingerprint, Kept
  <2> QED
    BY <1>1, <1>2, <2>1, <2>2, QuietEditSound DEF EditMetadata, TypeOK
<1>3. ASSUME NEW s \in Stores, NEW rules \in Rules, EditRules(s, rules) PROVE SoundInv'
  <2>1. PICK fp : fp = Fingerprint(cluster.meta, stores'[cluster.store].rules)
    OBVIOUS
  <2>2. LiveFingerprint' = fp
    BY <1>1, <1>3, <2>1 DEF EditRules, TypeOK, LiveFingerprint, LiveRules, Fingerprint, Kept
  <2>3. stores'[cluster.store].dest = stores[cluster.store].dest
    BY <1>1, <1>3 DEF EditRules, SaveEnabled, TypeOK
  <2> QED
    BY <1>1, <1>3, <2>1, <2>2, <2>3, QuietEditSound DEF EditRules
<1>4. ASSUME NEW s \in Stores, ToggleStore(s) PROVE SoundInv'
  <2>1. PICK fp : fp = LiveFingerprint
    OBVIOUS
  <2>2. /\ stores'[cluster.store].dest = stores[cluster.store].dest
        /\ stores'[cluster.store].rules = stores[cluster.store].rules
    BY <1>1, <1>4 DEF ToggleStore, SaveEnabled, TypeOK
  <2>3. LiveFingerprint' = fp
    BY <1>4, <2>1, <2>2 DEF ToggleStore, LiveFingerprint, LiveRules, Fingerprint, Kept
  <2> QED
    BY <1>1, <1>4, <2>1, <2>2, <2>3, QuietEditSound DEF ToggleStore
<1>5. ASSUME NEW s \in Stores, NEW dest \in Dests, RedirectStore(s, dest) PROVE SoundInv'
  <2>1. PICK fp : fp = LiveFingerprint
    OBVIOUS
  <2>2. /\ stores'[cluster.store].dest = stores[cluster.store].dest
        /\ stores'[cluster.store].rules = stores[cluster.store].rules
    BY <1>1, <1>5 DEF RedirectStore, Steady, SaveEnabled, TypeOK
  <2>3. LiveFingerprint' = fp
    BY <1>5, <2>1, <2>2 DEF RedirectStore, LiveFingerprint, LiveRules, Fingerprint, Kept
  <2> QED
    BY <1>1, <1>5, <2>1, <2>2, <2>3, QuietEditSound DEF RedirectStore
<1>6. ASSUME NEW p \in Replicas, Restart(p) PROVE SoundInv'
  BY <1>1, <1>6, ForgetSound DEF Restart, TypeOK
<1>7. ASSUME NEW p \in Replicas, DropSettled(p) PROVE SoundInv'
  BY <1>1, <1>7, ForgetSound DEF DropSettled, TypeOK
<1>8. CASE Tick
  BY <1>1, <1>8, ForgetSound DEF Tick
<1>9. CASE UNCHANGED vars
  BY <1>1, <1>9, ForgetSound DEF vars, envVars
<1> QED
  BY <1>1, <1>2, <1>3, <1>4, <1>5, <1>6, <1>7, <1>8, <1>9, EditSpecSound, PostBeginSound,
     SetStatusSound, PostConfirmSound, PostDiffersSound, PostPutObjectSound,
     PostPutLatestSound, PostFailsSound DEF Next, Users, PostStep, Faults

(* When metadata and rules do not return to an earlier value within a      *)
(* generation and the store in use keeps its destination, Post never skips *)
(* on the watermark while the newest snapshot differs from the live state. *)
THEOREM CaptureWatermarkSkipSound == Steady /\ Spec => []WatermarkSkipSound
<1> SUFFICES ASSUME Steady PROVE Spec => []WatermarkSkipSound
  BY DEF Steady
<1>1. SoundInv => WatermarkSkipSound
  BY DEF SoundInv, HitSound, Hit, WatermarkSkipSound, StoreExists
<1> QED
  BY <1>1, SoundInvInit, SoundInvStep, PTL DEF Spec

(* Under the same conditions no replica's settled cache is wrong, whichever *)
(* replicas served the calls and whatever failed in between.               *)
THEOREM CaptureSettledSkipSound == Steady /\ Spec => []SettledSkipSound
<1> SUFFICES ASSUME Steady PROVE Spec => []SettledSkipSound
  BY DEF Steady
<1>1. SoundInv => SettledSkipSound
  BY DEF SoundInv, HitSound, Hit, SettledSkipSound, StoreExists
<1> QED
  BY <1>1, SoundInvInit, SoundInvStep, PTL DEF Spec

(* Under the same conditions the watermark that makes the capture hook skip *)
(* names an object of the history the hook would write to.                 *)
THEOREM CaptureWatermarkBacked == Steady /\ Spec => []WatermarkBacked
<1> SUFFICES ASSUME Steady PROVE Spec => []WatermarkBacked
  BY DEF Steady
<1>1. SoundInv => WatermarkBacked
  BY DEF SoundInv, HitBacked, WatermarkBacked, StoreExists
<1> QED
  BY <1>1, SoundInvInit, SoundInvStep, PTL DEF Spec

(* No step overwrites the content of a snapshot: a Put under a key that is *)
(* taken carries the content that is there, since the key hashes it.       *)
THEOREM CaptureHistoryImmutable == Spec => HistoryImmutable
<1>1. ASSUME StoreInv, [Next]_vars
      PROVE  \A h \in Histories : \A s \in objects[h] :
                 \E o \in objects'[h] : o.content = s.content /\ o.gen = s.gen /\ o.at = s.at
  <2>1. objects \in [Histories -> SUBSET Snapshots] /\ Finite
    BY <1>1 DEF StoreInv, TypeOK
  <2>2. CASE UNCHANGED objects
    BY <2>2
  <2>3. CASE /\ job # None
             /\ objects' = [objects EXCEPT ![job.history] = PutObject(@, job.snap)]
    <3>1. job.history \in Histories /\ job.snap \in Snapshots
      BY <1>1, <2>3 DEF StoreInv, TypeOK, Jobs
    <3> SUFFICES ASSUME NEW h \in Histories, NEW s \in objects[h]
                 PROVE  \E o \in objects'[h] :
                            o.content = s.content /\ o.gen = s.gen /\ o.at = s.at
      OBVIOUS
    <3>2. CASE h = job.history
      <4>1. PICK o \in PutObject(objects[h], job.snap) :
                SnapshotKey(o) = SnapshotKey(s) /\ o.content = s.content
        BY <2>1, <3>1, PutKeeps DEF Finite
      <4> QED
        BY <2>1, <2>3, <3>2, <4>1 DEF SnapshotKey
    <3>3. CASE h # job.history
      BY <2>1, <2>3, <3>3
    <3> QED
      BY <3>2, <3>3
  <2>4. UNCHANGED objects \/ /\ job # None
                             /\ objects' = [objects EXCEPT ![job.history] = PutObject(@, job.snap)]
    BY <1>1, SMTT(30) DEF Next, vars, Users, EditSpec, EditMetadata, EditRules, ToggleStore, RedirectStore,
        QuietEdit, PostBegin, SetStatusInCluster, PostStep, PostConfirm, PostDiffers,
        PostPutObject, PostPutLatest, Faults, PostFails, Restart, DropSettled, Tick
  <2> QED
    BY <2>2, <2>3, <2>4
<1> QED
  BY <1>1, StoreInvInit, StoreInvStep, PTL DEF Spec, HistoryImmutable

-----------------------------------------------------------------------------
(***************************************************************************)
(* How often a configuration is written.  Every copy after the first is    *)
(* paid for by a fault: without one the newest snapshot shows the next     *)
(* call that there is nothing to write.                                    *)
(***************************************************************************)

Alike(s, t) == s.gen = t.gen /\ s.content = t.content /\ s.rules = t.rules

Copies(objs, s) == {o \in objs : Alike(o, s)}

JobCopies == Cardinality(Copies(objects[job.history], job.snap))

LiveCopies == Copies(objects[LiveHistory], Extract)

(* What a call in progress may still write.                                *)
JobBounded ==
    job # None =>
        /\ job.phase = "latest" => JobCopies <= faults \/ NothingNew
        /\ job.phase = "object" => JobCopies <= faults
        /\ job.phase = "pointer" => JobCopies <= 1 + faults

(* What the next call may write.                                           *)
LiveBounded ==
    SaveEnabled =>
        \/ Cardinality(LiveCopies) <= faults
        \/ Latest(LiveHistory) # None /\ SameCapture(Latest(LiveHistory), Extract)
        \/ job # None /\ job.phase = "pointer" /\ Alike(job.snap, Extract)

(* A configuration that appeared while a call with another was in progress *)
(* has not been written.                                                   *)
LiveFresh ==
    SaveEnabled /\ job # None /\ ~Alike(job.snap, Extract) => LiveCopies = {}

BoundInv == WritesBounded /\ JobBounded /\ LiveBounded /\ LiveFresh

-----------------------------------------------------------------------------

(* A Put adds at most one copy, and none of another configuration.         *)
LEMMA CopiesPut ==
    ASSUME NEW objs, IsFiniteSet(objs), NEW s, NEW t
    PROVE  LET before == Copies(objs, t)
               after == Copies(PutObject(objs, s), t)
           IN  /\ Cardinality(before) \in Nat /\ Cardinality(after) \in Nat
               /\ Cardinality(after) <= Cardinality(before) + 1
               /\ ~Alike(s, t) => /\ Cardinality(after) <= Cardinality(before)
                                 /\ after \subseteq before
<1> DEFINE before == Copies(objs, t)
           after == Copies(PutObject(objs, s), t)
<1>1. IsFiniteSet(before)
  BY FS_Subset DEF Copies
<1>2. after \subseteq before \union {s} /\ (~Alike(s, t) => after \subseteq before)
  BY DEF Copies, PutObject
<1> HIDE DEF before, after
<1>3. /\ IsFiniteSet(before \union {s}) /\ Cardinality(before) \in Nat
      /\ Cardinality(before \union {s}) \in {Cardinality(before), Cardinality(before) + 1}
  BY <1>1, FS_AddElement, FS_CardinalityType
<1>4. /\ IsFiniteSet(after) /\ Cardinality(after) <= Cardinality(before \union {s})
      /\ Cardinality(after) \in Nat
  BY <1>2, <1>3, FS_Subset, FS_CardinalityType
<1>5. ~Alike(s, t) => Cardinality(after) <= Cardinality(before)
  BY <1>1, <1>2, FS_Subset
<1> QED
  BY <1>2, <1>3, <1>4, <1>5 DEF before, after

(* Copies of what is alike are the same ones.                              *)
LEMMA CopiesAlike ==
    ASSUME NEW objs, NEW s, NEW t, Alike(s, t)
    PROVE  Copies(objs, s) = Copies(objs, t)
BY DEF Copies, Alike

LEMMA CopiesCount ==
    ASSUME StoreInv, NEW h \in Histories, NEW s
    PROVE  Cardinality(Copies(objects[h], s)) \in Nat
<1>1. IsFiniteSet(Copies(objects[h], s))
  BY FS_Subset DEF StoreInv, Finite, Copies
<1> QED
  BY <1>1, FS_CardinalityType

LEMMA BoundInvInit == Init => BoundInv
<1> SUFFICES ASSUME Init PROVE BoundInv
  OBVIOUS
<1>1. SoundInv
  BY SoundInvInit
<1>2. SaveEnabled => objects[LiveHistory] = {}
  BY <1>1, ExtractType DEF SoundInv, StoreInv, Init
<1>3. SaveEnabled => LiveCopies = {}
  BY <1>2 DEF LiveCopies, Copies
<1>4. WritesBounded
  BY DEF Init, WritesBounded
<1>5. LiveBounded
  <2>1. Cardinality({}) <= faults
    BY FS_EmptySet DEF Init
  <2> QED
    BY <1>3, <2>1 DEF LiveBounded
<1> QED
  BY <1>4, <1>5 DEF Init, BoundInv, JobBounded, LiveFresh

(* A configuration the Cluster did not have before has no copies.          *)
LEMMA FreshUnwritten ==
    ASSUME SoundInv, SoundInv', SaveEnabled', UNCHANGED objects,
           \/ cluster'.gen > cluster.gen
           \/ cluster'.gen = cluster.gen /\ LiveFingerprint' \notin past
    PROVE  LiveCopies' = {}
<1> SUFFICES ASSUME NEW o \in objects[LiveHistory'], Alike(o, Extract') PROVE FALSE
  BY DEF LiveCopies, Copies, Alike
<1>1. TypeOK /\ TypeOK' /\ cluster'.store \in Stores
  BY DEF SoundInv, StoreInv, SaveEnabled, TypeOK
<1>2. LiveHistory' \in Histories /\ LiveRules' \in Rules /\ cluster'.meta \in Metas
  BY <1>1 DEF TypeOK, LiveHistory, LiveRules, Histories
<1>3. o.gen = cluster'.gen /\ SnapshotFingerprint(o) = LiveFingerprint'
  <2>1. /\ o.gen = cluster'.gen /\ o.rules = LiveRules'
        /\ o.content.meta = Kept(cluster'.meta, LiveRules')
    BY DEF Alike, Extract, Kept
  <2>2. LiveFingerprint' = Fingerprint(cluster'.meta, LiveRules')
    BY DEF LiveFingerprint, Fingerprint, Kept
  <2> QED
    BY <1>2, <2>1, <2>2, KeptType DEF SnapshotFingerprint, Fingerprint
<1>4. Faithful(o) /\ o.gen \in Nat /\ cluster.gen \in Nat
  BY <1>1, <1>2 DEF SoundInv, AllFaithful, TypeOK, Snapshots
<1> QED
  BY <1>3, <1>4 DEF Faithful, Recorded

(* A bound that grows keeps holding.                                       *)
LEMMA Loosen ==
    ASSUME NEW f \in Nat, NEW g \in Nat, g >= f, NEW n \in Nat
    PROVE  /\ n <= f => n <= g
           /\ n <= 1 + f => n <= 1 + g
OBVIOUS

(* A step that leaves the bucket and the call alone, and the configuration *)
(* as well unless it makes a fresh one.                                    *)
LEMMA QuietBound ==
    ASSUME SoundInv, SoundInv', BoundInv, UNCHANGED <<objects, latest, job>>, faults' >= faults,
           SaveEnabled' => \/ LiveCopies' = {}
                           \/ /\ SaveEnabled /\ LiveHistory' = LiveHistory
                              /\ Extract'.gen = Extract.gen
                              /\ Extract'.content = Extract.content
                              /\ Extract'.rules = Extract.rules
    PROVE  BoundInv'
<1>1. faults \in Nat /\ faults' \in Nat /\ StoreInv /\ StoreInv' /\ TypeOK
  BY DEF SoundInv, StoreInv, TypeOK
<1>2. \A h \in Histories : \A s : Cardinality(Copies(objects[h], s)) \in Nat
  BY <1>1, CopiesCount
<1>3. WritesBounded'
  <2> SUFFICES ASSUME NEW h \in Histories, NEW s \in objects[h]
               PROVE  Cardinality(Copies(objects[h], s)) <= 1 + faults'
    BY DEF WritesBounded, Copies, Alike
  <2>1. Cardinality(Copies(objects[h], s)) <= 1 + faults
    BY DEF BoundInv, WritesBounded, Copies, Alike
  <2> QED
    BY <1>1, <1>2, <2>1
<1>4. JobBounded'
  <2> SUFFICES ASSUME job # None PROVE JobBounded'
    BY DEF JobBounded
  <2>1. PICK h \in Histories : h = job.history
    BY <1>1 DEF TypeOK, Jobs
  <2>2. JobCopies' = JobCopies /\ JobCopies \in Nat
    BY <1>2, <2>1 DEF JobCopies, Copies, Alike
  <2>3. NothingNew' <=> NothingNew
    BY SameLatest DEF NothingNew, SameCapture
  <2>4. /\ JobCopies <= faults => JobCopies' <= faults'
        /\ JobCopies <= 1 + faults => JobCopies' <= 1 + faults'
    BY <1>1, <2>2, Loosen, Zenon
  <2>5. /\ job.phase = "latest" => JobCopies <= faults \/ NothingNew
        /\ job.phase = "object" => JobCopies <= faults
        /\ job.phase = "pointer" => JobCopies <= 1 + faults
    BY DEF BoundInv, JobBounded
  <2>6. job' = job
    OBVIOUS
  <2> QED
    BY <2>3, <2>4, <2>5, <2>6, Zenon DEF JobBounded
<1>5. ASSUME SaveEnabled', LiveCopies' # {}
      PROVE  /\ SaveEnabled /\ LiveHistory' = LiveHistory
             /\ LiveCopies' = LiveCopies /\ Cardinality(LiveCopies) \in Nat
             /\ job # None => (Alike(job.snap, Extract)' <=> Alike(job.snap, Extract))
             /\ Latest(LiveHistory)' = Latest(LiveHistory)
             /\ SameCapture(Latest(LiveHistory), Extract)' <=> SameCapture(Latest(LiveHistory), Extract)
  <2>1. /\ SaveEnabled /\ LiveHistory' = LiveHistory /\ LiveHistory \in Histories
        /\ Extract'.gen = Extract.gen /\ Extract'.content = Extract.content
        /\ Extract'.rules = Extract.rules
    BY <1>1, <1>5, ExtractType
  <2>2. LiveCopies' = LiveCopies /\ Cardinality(LiveCopies) \in Nat
    BY <1>2, <2>1 DEF LiveCopies, Copies, Alike
  <2>3. Latest(LiveHistory)' = Latest(LiveHistory)
    BY <2>1, SameLatest
  <2> QED
    BY <2>1, <2>2, <2>3 DEF Alike, SameCapture
<1>6. LiveBounded'
  <2> SUFFICES ASSUME SaveEnabled' PROVE LiveBounded'
    BY DEF LiveBounded
  <2>1. CASE LiveCopies' = {}
    <3>1. Cardinality(LiveCopies') = 0
      BY <2>1, FS_EmptySet
    <3> QED
      BY <1>1, <3>1 DEF LiveBounded
  <2>2. CASE LiveCopies' # {}
    BY <1>1, <1>5, <2>2 DEF BoundInv, LiveBounded
  <2> QED
    BY <2>1, <2>2
<1>7. LiveFresh'
  BY <1>5 DEF BoundInv, LiveFresh
<1> QED
  BY <1>3, <1>4, <1>6, <1>7 DEF BoundInv

(* A step of the call, which leaves Cluster and stores alone.              *)
LEMMA SameLive ==
    ASSUME UNCHANGED <<cluster, stores>>
    PROVE  /\ SaveEnabled' <=> SaveEnabled
           /\ LiveHistory' = LiveHistory
           /\ Extract'.gen = Extract.gen
           /\ Extract'.content = Extract.content
           /\ Extract'.rules = Extract.rules
BY DEF SaveEnabled, LiveHistory, Extract, LiveRules, Kept

(* A call begins.                                                          *)
LEMMA PostBeginBound ==
    ASSUME SoundInv, SoundInv', BoundInv, NEW p \in Replicas, PostBegin(p)
    PROVE  BoundInv'
<1>1. /\ job = None /\ SaveEnabled
      /\ UNCHANGED <<cluster, stores, objects, latest, faults>>
      /\ job' = [phase |-> "latest", replica |-> p, history |-> LiveHistory,
                 fp |-> LiveFingerprint, snap |-> Extract]
  BY DEF PostBegin, StoreExists, envVars
<1>2. PICK h, snap : h = LiveHistory /\ snap = Extract
  OBVIOUS
<1>3. job'.phase = "latest" /\ job'.history = h /\ job'.snap = snap
  BY <1>1, <1>2
<1>4. WritesBounded'
  BY <1>1 DEF BoundInv, WritesBounded
<1>5. \/ Cardinality(LiveCopies) <= faults
      \/ Latest(h) # None /\ SameCapture(Latest(h), snap)
  BY <1>1, <1>2 DEF BoundInv, LiveBounded
<1>6. JobBounded'
  <2>1. JobCopies' = Cardinality(LiveCopies)
    BY <1>1, <1>2, <1>3 DEF JobCopies, LiveCopies, Copies, Alike
  <2>2. NothingNew' <=> Latest(h) # None /\ SameCapture(Latest(h), snap)
    BY <1>1, <1>3, SameLatest DEF NothingNew, SameCapture
  <2> QED
    BY <1>1, <1>3, <1>5, <2>1, <2>2 DEF JobBounded
<1>7. /\ LiveHistory' = h /\ Extract'.gen = snap.gen /\ Extract'.content = snap.content
      /\ Extract'.rules = snap.rules /\ LiveCopies' = LiveCopies
  BY <1>1, <1>2, SameLive DEF LiveCopies, Copies, Alike
<1>8. LiveBounded'
  <2>1. CASE Cardinality(LiveCopies) <= faults
    BY <1>1, <1>7, <2>1 DEF LiveBounded
  <2>2. CASE Latest(h) # None /\ SameCapture(Latest(h), snap)
    BY <1>1, <1>7, <2>2, SameLatest DEF LiveBounded, SameCapture
  <2> QED
    BY <1>5, <2>1, <2>2
<1>9. LiveFresh'
  BY <1>3, <1>7 DEF LiveFresh, Alike
<1> QED
  BY <1>4, <1>6, <1>8, <1>9 DEF BoundInv

PutsJob ==
    /\ job # None /\ job.phase = "object"
    /\ objects' = [objects EXCEPT ![job.history] = PutObject(@, job.snap)]

(* The Put of a call makes one copy more of what it was allowed to write.  *)
LEMMA WritesStep ==
    ASSUME SoundInv, BoundInv, faults' \in Nat, faults' >= faults,
           UNCHANGED objects \/ PutsJob
    PROVE  /\ WritesBounded'
           /\ PutsJob => Cardinality(Copies(objects'[job.history], job.snap)) <= 1 + faults
<1>1. faults \in Nat /\ TypeOK /\ StoreInv /\ objects \in [Histories -> SUBSET Snapshots]
  BY DEF SoundInv, StoreInv, TypeOK
<1>2. \A h \in Histories : \A s : Cardinality(Copies(objects[h], s)) \in Nat
  BY <1>1, CopiesCount
<1>3. ASSUME NEW h \in Histories, NEW s \in objects[h]
      PROVE  Cardinality(Copies(objects[h], s)) <= 1 + faults
  BY DEF BoundInv, WritesBounded, Copies, Alike
<1>4. CASE UNCHANGED objects /\ ~PutsJob
  <2> SUFFICES ASSUME NEW h \in Histories, NEW s \in objects[h]
               PROVE  Cardinality(Copies(objects[h], s)) <= 1 + faults'
    BY <1>4 DEF WritesBounded, Copies, Alike
  <2> QED
    BY <1>1, <1>2, <1>3, Loosen, Zenon
<1>5. CASE PutsJob
  <2>1. PICK g \in Histories, snap \in Snapshots : g = job.history /\ snap = job.snap
    BY <1>1, <1>5 DEF PutsJob, TypeOK, Jobs
  <2>2. /\ objects'[g] = PutObject(objects[g], snap)
        /\ \A h \in Histories : h # g => objects'[h] = objects[h]
    BY <1>1, <1>5, <2>1 DEF PutsJob
  <2>3. Cardinality(Copies(objects[g], snap)) <= faults
    BY <1>5, <2>1 DEF PutsJob, BoundInv, JobBounded, JobCopies
  <2>4. IsFiniteSet(objects[g])
    BY <1>1 DEF StoreInv, Finite
  <2>5. ASSUME NEW t
        PROVE  LET before == Copies(objects[g], t)
                   after == Copies(objects'[g], t)
               IN  /\ Cardinality(before) \in Nat /\ Cardinality(after) \in Nat
                   /\ Cardinality(after) <= Cardinality(before) + 1
                   /\ ~Alike(snap, t) => Cardinality(after) <= Cardinality(before)
    BY <2>2, <2>4, CopiesPut
  <2>6. Cardinality(Copies(objects'[g], snap)) <= 1 + faults
    BY <1>1, <2>3, <2>5
  <2>7. ASSUME NEW h \in Histories, NEW s \in objects'[h]
        PROVE  Cardinality(Copies(objects'[h], s)) \in Nat
               /\ Cardinality(Copies(objects'[h], s)) <= 1 + faults
    <3>1. CASE h # g
      BY <1>2, <1>3, <2>2, <2>7, <3>1
    <3>2. CASE h = g /\ Alike(snap, s)
      BY <2>5, <2>6, <3>2, CopiesAlike
    <3>3. CASE h = g /\ ~Alike(snap, s)
      <4>1. s \in objects[g]
        BY <2>2, <2>7, <3>3 DEF PutObject, Alike
      <4>2. Cardinality(Copies(objects[g], s)) <= 1 + faults
        BY <1>3, <4>1
      <4> QED
        BY <1>1, <2>5, <3>3, <4>2
    <3> QED
      BY <3>1, <3>2, <3>3
  <2>8. WritesBounded'
    <3> SUFFICES ASSUME NEW h \in Histories, NEW s \in objects'[h]
                 PROVE  Cardinality(Copies(objects'[h], s)) <= 1 + faults'
      BY DEF WritesBounded, Copies, Alike
    <3> QED
      BY <1>1, <2>7, Loosen, Zenon
  <2> QED
    BY <2>1, <2>6, <2>8
<1> QED
  BY <1>4, <1>5

(* A call with another configuration leaves the live one unwritten.        *)
LEMMA StaysUnwritten ==
    ASSUME SoundInv, BoundInv, UNCHANGED <<cluster, stores>>, UNCHANGED objects \/ PutsJob,
           SaveEnabled, job # None, ~Alike(job.snap, Extract)
    PROVE  LiveCopies' = {}
<1>1. /\ LiveHistory \in Histories /\ objects \in [Histories -> SUBSET Snapshots]
      /\ job.history \in Histories
  BY ExtractType DEF SoundInv, StoreInv, TypeOK, Jobs
<1>2. LiveCopies = {}
  BY DEF BoundInv, LiveFresh
<1>3. PICK g, t : g = LiveHistory /\ t = Extract
  OBVIOUS
<1>4. LiveCopies' = Copies(objects'[g], t)
  BY <1>3, SameLive DEF LiveCopies, Copies, Alike
<1>5. Copies(objects[g], t) = {}
  BY <1>2, <1>3 DEF LiveCopies
<1>6. objects'[g] = objects[g] \/ objects'[g] = PutObject(objects[g], job.snap)
  BY <1>1, <1>3 DEF PutsJob
<1> QED
  BY <1>3, <1>4, <1>5, <1>6 DEF Copies, PutObject

(* A call with the live configuration writes where the next one would.     *)
LEMMA JobIsLive ==
    ASSUME SoundInv, job # None, Alike(job.snap, Extract)
    PROVE  /\ SaveEnabled /\ job.history = LiveHistory /\ job.history \in Histories
           /\ job.snap \in Snapshots
           /\ LiveCopies = Copies(objects[job.history], job.snap)
<1>1. job.snap.gen = cluster.gen
  BY DEF Alike, Extract
<1>2. SaveEnabled /\ job.history = LiveHistory
  BY <1>1 DEF SoundInv, JobFaithful
<1>3. LiveCopies = Copies(objects[job.history], job.snap)
  BY <1>2 DEF LiveCopies, Copies, Alike
<1>4. job.history \in Histories /\ job.snap \in Snapshots
  BY DEF SoundInv, StoreInv, TypeOK, Jobs
<1> QED
  BY <1>2, <1>3, <1>4

(* A step of a call has to be looked at only for the call's own bound, and *)
(* for the next call's when that would be handed the same configuration.   *)
LEMMA CallBound ==
    ASSUME SoundInv, SoundInv', BoundInv, UNCHANGED <<cluster, stores>>,
           UNCHANGED objects \/ PutsJob, faults' >= faults, job # None,
           job' = None \/ job'.snap = job.snap,
           JobBounded', Alike(job.snap, Extract) => LiveBounded'
    PROVE  BoundInv'
<1>1. faults \in Nat /\ faults' \in Nat
  BY DEF SoundInv, StoreInv, TypeOK
<1>2. WritesBounded'
  BY <1>1, WritesStep
<1>3. SaveEnabled /\ ~Alike(job.snap, Extract) => LiveCopies' = {}
  BY StaysUnwritten
<1>4. SaveEnabled' <=> SaveEnabled
  BY SameLive
<1>5. LiveBounded'
  <2>1. CASE SaveEnabled /\ ~Alike(job.snap, Extract)
    <3>1. Cardinality(LiveCopies') = 0
      BY <1>3, <2>1, FS_EmptySet
    <3> QED
      BY <1>1, <3>1 DEF LiveBounded
  <2>2. CASE ~SaveEnabled
    BY <1>4, <2>2 DEF LiveBounded
  <2> QED
    BY <2>1, <2>2
<1>6. LiveFresh'
  <2>1. PICK snap : snap = job.snap
    OBVIOUS
  <2>2. Alike(snap, Extract)' <=> Alike(snap, Extract)
    BY SameLive DEF Alike
  <2>3. job' # None => (Alike(job.snap, Extract)' <=> Alike(snap, Extract))
    BY <2>1, <2>2 DEF Alike
  <2> QED
    BY <1>3, <1>4, <2>1, <2>3 DEF LiveFresh
<1> QED
  BY <1>2, <1>5, <1>6 DEF BoundInv

LEMMA PostConfirmBound ==
    ASSUME SoundInv, SoundInv', BoundInv, PostConfirm
    PROVE  BoundInv'
<1>1. /\ job # None /\ job' = None /\ NothingNew
      /\ UNCHANGED <<cluster, stores, objects, latest, faults>>
  BY DEF PostConfirm, envVars
<1>2. ASSUME Alike(job.snap, Extract) PROVE LiveBounded'
  <2>1. PICK h : h = LiveHistory
    OBVIOUS
  <2>2. Latest(h) # None /\ SameCapture(Latest(h), Extract)
    BY <1>1, <1>2, <2>1, JobIsLive DEF NothingNew, SameCapture, Alike
  <2>3. LiveHistory' = h /\ Latest(h)' = Latest(h)
    BY <1>1, <2>1, SameLive, SameLatest
  <2>4. Latest(LiveHistory)' # None /\ SameCapture(Latest(LiveHistory), Extract)'
    BY <1>1, <2>2, <2>3, SameLive DEF SameCapture
  <2> QED
    BY <2>4 DEF LiveBounded
<1>3. JobBounded'
  BY <1>1 DEF JobBounded
<1>4. faults' >= faults
  BY <1>1 DEF SoundInv, StoreInv, TypeOK
<1> QED
  BY <1>1, <1>2, <1>3, <1>4, CallBound

LEMMA PostDiffersBound ==
    ASSUME SoundInv, SoundInv', BoundInv, PostDiffers
    PROVE  BoundInv'
<1>1. /\ job # None /\ job.phase = "latest" /\ ~NothingNew
      /\ UNCHANGED <<cluster, stores, objects, latest, faults>>
      /\ faults \in Nat /\ TypeOK /\ job \in Jobs
  BY DEF PostDiffers, envVars, SoundInv, StoreInv, TypeOK
<1>2. job'.phase = "object" /\ job'.snap = job.snap /\ job'.history = job.history
  <2>1. job' = [job EXCEPT !.phase = "object"]
    BY DEF PostDiffers
  <2> QED
    BY <1>1, <2>1 DEF Jobs
<1>3. JobCopies <= faults
  BY <1>1 DEF BoundInv, JobBounded
<1>4. JobCopies' = JobCopies
  BY <1>1, <1>2 DEF JobCopies, Copies, Alike
<1>5. JobBounded'
  BY <1>1, <1>2, <1>3, <1>4 DEF JobBounded
<1>6. ASSUME Alike(job.snap, Extract) PROVE LiveBounded'
  <2>1. LiveCopies' = LiveCopies /\ Cardinality(LiveCopies) = JobCopies
    BY <1>1, <1>6, JobIsLive, SameLive DEF LiveCopies, JobCopies, Copies, Alike
  <2> QED
    BY <1>1, <1>3, <2>1 DEF LiveBounded
<1> QED
  BY <1>1, <1>2, <1>5, <1>6, CallBound

LEMMA PostPutObjectBound ==
    ASSUME SoundInv, SoundInv', BoundInv, PostPutObject
    PROVE  BoundInv'
<1>1. /\ job # None /\ PutsJob
      /\ UNCHANGED <<cluster, stores, latest, faults>>
      /\ faults \in Nat /\ TypeOK /\ job \in Jobs
  BY DEF PostPutObject, PutsJob, envVars, SoundInv, StoreInv, TypeOK
<1>2. /\ job'.phase = "pointer" /\ job'.snap = job.snap /\ job'.history = job.history
      /\ job' # None
  <2>1. job' = [job EXCEPT !.phase = "pointer"]
    BY DEF PostPutObject
  <2>2. job' \in Jobs
    BY <1>1, <2>1 DEF Jobs
  <2> QED
    BY <1>1, <2>1, <2>2, NoJobAssumption DEF Jobs
<1>3. JobCopies' <= 1 + faults
  <2>1. PICK h, snap : h = job.history /\ snap = job.snap
    OBVIOUS
  <2>2. Cardinality(Copies(objects'[h], snap)) <= 1 + faults
    BY <1>1, <2>1, WritesStep
  <2>3. JobCopies' = Cardinality(Copies(objects'[h], snap))
    BY <1>2, <2>1 DEF JobCopies, Copies, Alike
  <2> QED
    BY <2>2, <2>3
<1>4. JobBounded'
  BY <1>1, <1>2, <1>3 DEF JobBounded
<1>5. ASSUME Alike(job.snap, Extract) PROVE LiveBounded'
  <2>1. Alike(job.snap, Extract)'
    BY <1>1, <1>2, <1>5, SameLive DEF Alike
  <2> QED
    BY <1>2, <2>1 DEF LiveBounded
<1> QED
  BY <1>1, <1>2, <1>4, <1>5, CallBound

LEMMA PostPutLatestBound ==
    ASSUME SoundInv, SoundInv', BoundInv, PostPutLatest
    PROVE  BoundInv'
<1>1. /\ job # None /\ job' = None
      /\ UNCHANGED <<cluster, stores, objects, faults>>
      /\ latest' = [latest EXCEPT ![job.history] = job.snap]
      /\ faults \in Nat /\ latest \in [Histories -> Snapshots \union {None}]
  BY DEF PostPutLatest, envVars, SoundInv, StoreInv, TypeOK
<1>2. ASSUME Alike(job.snap, Extract) PROVE LiveBounded'
  <2>1. PICK h \in Histories, snap \in Snapshots : h = job.history /\ snap = job.snap
    BY <1>1, <1>2, JobIsLive
  <2>2. latest'[h] = snap /\ snap # None
    BY <1>1, <2>1, CaptureAssumption
  <2>3. LiveHistory' = h
    BY <1>1, <1>2, <2>1, JobIsLive, SameLive
  <2>4. Latest(LiveHistory)' = snap
    BY <2>2, <2>3 DEF Latest
  <2>5. SameCapture(Latest(LiveHistory), Extract)'
    BY <1>1, <1>2, <2>1, <2>4, SameLive DEF SameCapture, Alike
  <2> QED
    BY <2>2, <2>4, <2>5 DEF LiveBounded
<1>3. JobBounded'
  BY <1>1 DEF JobBounded
<1> QED
  BY <1>1, <1>2, <1>3, CallBound

(* A call that ends early has been paid for by the fault that ended it.    *)
LEMMA AbortBound ==
    ASSUME SoundInv, SoundInv', BoundInv, UNCHANGED <<cluster, stores>>, job # None, job' = None,
           faults' = faults + 1, UNCHANGED objects \/ PutsJob,
           UNCHANGED latest \/ job.phase # "latest"
    PROVE  BoundInv'
<1>1. faults \in Nat /\ faults' \in Nat /\ StoreInv /\ job \in Jobs
  BY DEF SoundInv, StoreInv, TypeOK
<1>2. JobBounded'
  BY DEF JobBounded
<1>3. ASSUME Alike(job.snap, Extract) PROVE LiveBounded'
  <2>1. PICK h \in Histories, snap \in Snapshots : h = job.history /\ snap = job.snap
    BY <1>1 DEF Jobs
  <2>2. LiveHistory' = h /\ LiveHistory = h /\ LiveCopies' = Copies(objects'[h], snap)
    BY <1>3, <2>1, JobIsLive, SameLive DEF LiveCopies, Copies, Alike
  <2>3. Cardinality(Copies(objects[h], snap)) \in Nat
        /\ Cardinality(Copies(objects[h], snap)) = JobCopies
    BY <1>1, <2>1, CopiesCount DEF JobCopies
  <2>4. CASE PutsJob
    <3>1. Cardinality(Copies(objects'[h], snap)) <= 1 + faults
      BY <1>1, <2>1, <2>4, WritesStep
    <3> QED
      BY <1>1, <2>2, <3>1 DEF LiveBounded
  <2>5. CASE UNCHANGED objects /\ JobCopies <= 1 + faults
    BY <1>1, <2>2, <2>3, <2>5 DEF LiveBounded
  <2>6. CASE UNCHANGED objects /\ ~(JobCopies <= 1 + faults)
    <3>1. job.phase = "latest" /\ NothingNew
      BY <1>1, <2>3, <2>6 DEF BoundInv, JobBounded, Jobs
    <3>2. UNCHANGED latest
      BY <3>1
    <3>3. Latest(h)' = Latest(h) /\ Latest(h) # None /\ SameCapture(Latest(h), snap)
      BY <2>1, <2>6, <3>1, <3>2, SameLatest DEF NothingNew
    <3>4. Latest(LiveHistory)' # None /\ SameCapture(Latest(LiveHistory), Extract)'
      BY <1>3, <2>1, <2>2, <3>3, SameLive DEF SameCapture, Alike
    <3> QED
      BY <3>4 DEF LiveBounded
  <2> QED
    BY <2>4, <2>5, <2>6
<1> QED
  BY <1>1, <1>2, <1>3, CallBound

(* A step that leaves the live configuration alone as well.                *)
LEMMA IdleBound ==
    ASSUME SoundInv, SoundInv', BoundInv, UNCHANGED <<cluster, stores, objects, latest, job>>,
           faults' \in {faults, faults + 1}
    PROVE  BoundInv'
<1>1. faults' >= faults
  BY DEF SoundInv, StoreInv, TypeOK
<1> QED
  BY <1>1, SameLive, QuietBound

(* An edit within a generation keeps the configuration or makes a fresh    *)
(* one.                                                                    *)
LEMMA QuietEditBound ==
    ASSUME Steady, SoundInv, SoundInv', BoundInv, SaveEnabled, NEW fp, QuietEdit(fp),
           cluster'.gen = cluster.gen, cluster'.spec = cluster.spec,
           cluster'.store = cluster.store, cluster'.server = cluster.server,
           stores'[cluster.store].dest = stores[cluster.store].dest,
           LiveFingerprint' = fp
    PROVE  BoundInv'
<1>1. /\ UNCHANGED <<objects, latest, job, faults>>
      /\ fp = LiveFingerprint \/ fp \notin past
      /\ faults \in Nat
  BY DEF QuietEdit, Steady, SoundInv, StoreInv, TypeOK
<1>2. CASE fp = LiveFingerprint
  <2>1. /\ LiveHistory' = LiveHistory /\ Extract'.gen = Extract.gen
        /\ Extract'.content = Extract.content /\ Extract'.rules = Extract.rules
    BY <1>2 DEF LiveHistory, Extract, LiveFingerprint, Fingerprint
  <2> QED
    BY <1>1, <2>1, QuietBound
<1>3. CASE fp \notin past
  <2>1. SaveEnabled' /\ LiveFingerprint' \notin past
    BY <1>3 DEF SaveEnabled
  <2>2. LiveCopies' = {}
    BY <1>1, <2>1, FreshUnwritten
  <2> QED
    BY <1>1, <2>2, QuietBound
<1> QED
  BY <1>1, <1>2, <1>3

(* An edit that bumps the generation makes a configuration not yet written. *)
LEMMA EditSpecBound ==
    ASSUME SoundInv, SoundInv', BoundInv, NEW spec \in Specs, NEW meta \in Metas,
           NEW store \in Stores \union {None}, NEW server \in Servers,
           EditSpec(spec, meta, store, server)
    PROVE  BoundInv'
<1>1. /\ cluster'.gen > cluster.gen /\ faults' >= faults
      /\ UNCHANGED <<objects, latest, job>>
  BY DEF EditSpec, envVars, SoundInv, StoreInv, TypeOK
<1>2. SaveEnabled' => LiveCopies' = {}
  BY <1>1, FreshUnwritten
<1> QED
  BY <1>1, <1>2, QuietBound

LEMMA BoundInvStep ==
    ASSUME Steady
    PROVE  SoundInv /\ SoundInv' /\ BoundInv /\ [Next]_vars => BoundInv'
<1> SUFFICES ASSUME SoundInv, SoundInv', BoundInv, [Next]_vars PROVE BoundInv'
  OBVIOUS
<1>1. StoreInv /\ TypeOK
  BY DEF SoundInv, StoreInv
<1>2. ASSUME NEW meta \in Metas, EditMetadata(meta) PROVE BoundInv'
  <2>1. PICK fp : fp = Fingerprint(meta, LiveRules)
    OBVIOUS
  <2>2. LiveFingerprint' = fp
    BY <1>1, <1>2, <2>1
    DEF EditMetadata, TypeOK, LiveFingerprint, LiveRules, Fingerprint, Kept
  <2> QED
    BY <1>1, <1>2, <2>1, <2>2, QuietEditBound DEF EditMetadata, TypeOK
<1>3. ASSUME NEW s \in Stores, NEW rules \in Rules, EditRules(s, rules) PROVE BoundInv'
  <2>1. PICK fp : fp = Fingerprint(cluster.meta, stores'[cluster.store].rules)
    OBVIOUS
  <2>2. LiveFingerprint' = fp
    BY <1>1, <1>3, <2>1 DEF EditRules, TypeOK, LiveFingerprint, LiveRules, Fingerprint, Kept
  <2>3. stores'[cluster.store].dest = stores[cluster.store].dest
    BY <1>1, <1>3 DEF EditRules, SaveEnabled, TypeOK
  <2> QED
    BY <1>1, <1>3, <2>1, <2>2, <2>3, QuietEditBound DEF EditRules
<1>4. ASSUME NEW s \in Stores, ToggleStore(s) PROVE BoundInv'
  <2>1. PICK fp : fp = LiveFingerprint
    OBVIOUS
  <2>2. /\ stores'[cluster.store].dest = stores[cluster.store].dest
        /\ stores'[cluster.store].rules = stores[cluster.store].rules
    BY <1>1, <1>4 DEF ToggleStore, SaveEnabled, TypeOK
  <2>3. LiveFingerprint' = fp
    BY <1>4, <2>1, <2>2 DEF ToggleStore, LiveFingerprint, LiveRules, Fingerprint, Kept
  <2> QED
    BY <1>1, <1>4, <2>1, <2>2, <2>3, QuietEditBound DEF ToggleStore
<1>5. ASSUME NEW s \in Stores, NEW dest \in Dests, RedirectStore(s, dest) PROVE BoundInv'
  <2>1. PICK fp : fp = LiveFingerprint
    OBVIOUS
  <2>2. /\ stores'[cluster.store].dest = stores[cluster.store].dest
        /\ stores'[cluster.store].rules = stores[cluster.store].rules
    BY <1>1, <1>5 DEF RedirectStore, Steady, SaveEnabled, TypeOK
  <2>3. LiveFingerprint' = fp
    BY <1>5, <2>1, <2>2 DEF RedirectStore, LiveFingerprint, LiveRules, Fingerprint, Kept
  <2> QED
    BY <1>1, <1>5, <2>1, <2>2, <2>3, QuietEditBound DEF RedirectStore
<1>6. ASSUME NEW landed \in BOOLEAN, PostFails(landed) PROVE BoundInv'
  <2>1. /\ job # None /\ job' = None /\ faults' = faults + 1 /\ UNCHANGED <<cluster, stores>>
        /\ UNCHANGED objects \/ PutsJob
        /\ UNCHANGED latest \/ job.phase # "latest"
    BY <1>6 DEF PostFails, PutsJob
  <2> QED
    BY <2>1, AbortBound
<1>7. ASSUME NEW p \in Replicas, Restart(p) PROVE BoundInv'
  <2>1. /\ faults' = faults + 1 /\ UNCHANGED <<cluster, stores, objects, latest>>
        /\ job' = job \/ (job # None /\ job' = None)
    BY <1>7 DEF Restart
  <2> QED
    BY <2>1, AbortBound, IdleBound
<1>8. ASSUME NEW p \in Replicas, DropSettled(p) PROVE BoundInv'
  BY <1>8, IdleBound DEF DropSettled
<1>9. ASSUME NEW p \in Replicas, SetStatusInCluster(p) PROVE BoundInv'
  BY <1>9, IdleBound DEF SetStatusInCluster, envVars
<1>10. CASE Tick
  BY <1>10, IdleBound DEF Tick
<1>11. CASE UNCHANGED vars
  BY <1>11, IdleBound DEF vars, envVars
<1> QED
  BY <1>2, <1>3, <1>4, <1>5, <1>6, <1>7, <1>8, <1>9, <1>10, <1>11, EditSpecBound,
     PostBeginBound, PostConfirmBound, PostDiffersBound, PostPutObjectBound,
     PostPutLatestBound DEF Next, Users, PostStep, Faults

(* Under the same conditions one configuration of one generation is        *)
(* written once, and once more for each failed request, restart or dropped *)
(* cache entry: the hooks do not fill the bucket with copies.              *)
THEOREM CaptureWritesBounded == Steady /\ Spec => []WritesBounded
<1> SUFFICES ASSUME Steady PROVE Spec => []WritesBounded
  BY DEF Steady
<1>1. BoundInv => WritesBounded
  BY DEF BoundInv
<1> QED
  BY <1>1, SoundInvInit, SoundInvStep, BoundInvInit, BoundInvStep, PTL DEF Spec

-----------------------------------------------------------------------------
(***************************************************************************)
(* Where the listing ends.  A restore selects by key, the hooks decide by  *)
(* the pointer.  The two agree when no request fails and no two captures   *)
(* of one generation with different content share a second: keys are then  *)
(* in the order of the captures, and the pointer names the last.           *)
(***************************************************************************)

Calm == Steady /\ MaxFaults = 0

SecondsApart ==
    \A h \in Histories : \A o, s \in objects[h] :
        o.at = s.at /\ o.gen = s.gen => o.content = s.content

NoFuture == \A h \in Histories : \A o \in objects[h] : o.at <= now

(* A call holds nothing older than what is there.                          *)
JobLast ==
    job # None =>
        /\ job.snap.at <= now
        /\ \A h \in Histories : \A o \in objects[h] :
              o.at <= job.snap.at /\ o.gen <= job.snap.gen

(* The pointer names the last key, but for the one being written.          *)
PointerLast ==
    \A h \in Histories :
        objects[h] # {} =>
            \/ job # None /\ job.phase = "pointer" /\ job.history = h
            \/ /\ latest[h] # None
               /\ \A o \in objects[h] : ~KeyLess(SnapshotKey(latest[h]), SnapshotKey(o))

OrderInv == NoFuture /\ JobLast /\ PointerLast

LEMMA OrderInvInit == Init => OrderInv
BY DEF Init, OrderInv, NoFuture, JobLast, PointerLast

(* Edits, the status hook and the clock touch neither bucket nor call.     *)
LEMMA IdleOrder ==
    ASSUME SoundInv, OrderInv, UNCHANGED <<objects, latest, job>>, now' \in {now, now + 1}
    PROVE  OrderInv'
<1>1. /\ now \in Nat /\ now' \in Nat /\ now <= now'
      /\ \A h \in Histories : \A o \in objects[h] : o.at \in Nat
      /\ job # None => job.snap.at \in Nat
  BY DEF SoundInv, StoreInv, TypeOK, Snapshots, Jobs
<1>2. NoFuture'
  BY <1>1 DEF OrderInv, NoFuture
<1>3. JobLast'
  BY <1>1 DEF OrderInv, JobLast
<1>4. PointerLast'
  BY DEF OrderInv, PointerLast, SnapshotKey, KeyLess
<1> QED
  BY <1>2, <1>3, <1>4 DEF OrderInv

(* A call is handed the present moment and generation.                     *)
LEMMA PostBeginOrder ==
    ASSUME SoundInv, OrderInv, NEW p \in Replicas, PostBegin(p)
    PROVE  OrderInv'
<1>1. /\ job = None /\ UNCHANGED <<cluster, objects, latest, now>>
      /\ job' = [phase |-> "latest", replica |-> p, history |-> LiveHistory,
                 fp |-> LiveFingerprint, snap |-> Extract]
  BY DEF PostBegin, envVars
<1>2. job'.snap.at = now /\ job'.snap.gen = cluster.gen
  BY <1>1 DEF Extract
<1>3. ASSUME NEW h \in Histories, NEW o \in objects[h]
      PROVE  o.at <= now /\ o.gen <= cluster.gen
  <2>1. Faithful(o) /\ o.gen \in Nat /\ cluster.gen \in Nat
    BY DEF SoundInv, StoreInv, AllFaithful, TypeOK, Snapshots
  <2> QED
    BY <2>1 DEF Faithful, Recorded, OrderInv, NoFuture
<1>4. JobLast'
  BY <1>1, <1>2, <1>3 DEF JobLast, SoundInv, StoreInv, TypeOK
<1>5. NoFuture' /\ PointerLast'
  BY <1>1 DEF OrderInv, NoFuture, PointerLast, SnapshotKey, KeyLess
<1> QED
  BY <1>4, <1>5 DEF OrderInv

(* A call that has not put its object leaves the pointers as they are.     *)
LEMMA BeforePutOrder ==
    ASSUME SoundInv, OrderInv, job # None, job.phase # "pointer",
           UNCHANGED <<objects, latest, now>>, job' = None \/ job'.snap = job.snap
    PROVE  OrderInv'
<1>1. NoFuture' /\ JobLast'
  BY DEF OrderInv, NoFuture, JobLast
<1>2. PointerLast'
  BY DEF OrderInv, PointerLast, SnapshotKey, KeyLess
<1> QED
  BY <1>1, <1>2 DEF OrderInv

LEMMA PostPutObjectOrder ==
    ASSUME SoundInv, OrderInv, PostPutObject
    PROVE  OrderInv'
<1>1. /\ job # None /\ job.phase = "object" /\ UNCHANGED <<latest, now>>
      /\ objects' = [objects EXCEPT ![job.history] = PutObject(@, job.snap)]
      /\ job \in Jobs /\ objects \in [Histories -> SUBSET Snapshots]
  BY DEF PostPutObject, envVars, SoundInv, StoreInv, TypeOK
<1>2. PICK g \in Histories, snap \in Snapshots : g = job.history /\ snap = job.snap
  BY <1>1 DEF Jobs
<1>3. /\ job'.phase = "pointer" /\ job'.snap = snap /\ job'.history = g /\ job' # None
  <2>1. job' = [job EXCEPT !.phase = "pointer"]
    BY DEF PostPutObject
  <2>2. job' \in Jobs
    BY <1>1, <2>1 DEF Jobs
  <2> QED
    BY <1>1, <1>2, <2>1, <2>2, NoJobAssumption DEF Jobs
<1>4. ASSUME NEW h \in Histories, NEW o \in objects'[h]
      PROVE  o \in objects[h] \/ o = snap
  BY <1>1, <1>2, <1>4 DEF PutObject
<1>5. /\ snap.at <= now /\ snap.at \in Nat /\ snap.gen \in Nat
      /\ \A h \in Histories : \A o \in objects[h] : o.at <= snap.at /\ o.gen <= snap.gen
  BY <1>1, <1>2 DEF OrderInv, JobLast, Snapshots
<1>6. NoFuture' /\ JobLast'
  BY <1>1, <1>3, <1>4, <1>5 DEF OrderInv, NoFuture, JobLast
<1>7. PointerLast'
  <2> SUFFICES ASSUME NEW h \in Histories, objects'[h] # {}, h # g
               PROVE  /\ latest[h] # None
                      /\ \A o \in objects[h] : ~KeyLess(SnapshotKey(latest[h]), SnapshotKey(o))
                      /\ objects'[h] = objects[h]
    BY <1>1, <1>3 DEF PointerLast, SnapshotKey, KeyLess
  <2>1. objects'[h] = objects[h]
    BY <1>1, <1>2
  <2> QED
    BY <1>1, <2>1 DEF OrderInv, PointerLast
<1> QED
  BY <1>6, <1>7 DEF OrderInv

LEMMA PostPutLatestOrder ==
    ASSUME SoundInv, OrderInv, SecondsApart, PostPutLatest
    PROVE  OrderInv'
<1>1. /\ job # None /\ job.phase = "pointer" /\ job' = None /\ UNCHANGED <<objects, now>>
      /\ latest' = [latest EXCEPT ![job.history] = job.snap]
      /\ job \in Jobs /\ objects \in [Histories -> SUBSET Snapshots]
      /\ latest \in [Histories -> Snapshots \union {None}]
  BY DEF PostPutLatest, envVars, SoundInv, StoreInv, TypeOK
<1>2. PICK g \in Histories, snap \in Snapshots : g = job.history /\ snap = job.snap
  BY <1>1 DEF Jobs
<1>3. NoFuture' /\ JobLast'
  BY <1>1 DEF OrderInv, NoFuture, JobLast
<1>4. PICK s \in objects[g] : SnapshotKey(s) = SnapshotKey(snap) /\ s.content = snap.content
  BY <1>1, <1>2 DEF SoundInv, StoreInv, JobBacked, Backs
<1>5. ASSUME NEW o \in objects[g] PROVE ~KeyLess(SnapshotKey(snap), SnapshotKey(o))
  <2>1. o \in Snapshots /\ s \in Snapshots /\ s.at = snap.at /\ s.gen = snap.gen
    BY <1>1, <1>4 DEF SnapshotKey
  <2>2. o.at <= snap.at /\ o.gen <= snap.gen
    BY <1>1, <1>2 DEF OrderInv, JobLast
  <2>3. o.at = snap.at /\ o.gen = snap.gen => o.content = snap.content
    BY <1>4, <2>1 DEF SecondsApart
  <2>4. SnapshotKey(o) \in Refs /\ SnapshotKey(snap) \in Refs
    BY <2>1, KeyType
  <2> QED
    BY <2>2, <2>3, <2>4 DEF KeyLess, SnapshotKey, Refs
<1>6. PointerLast'
  <2> SUFFICES ASSUME NEW h \in Histories, objects[h] # {}
               PROVE  /\ latest'[h] # None
                      /\ \A o \in objects[h] : ~KeyLess(SnapshotKey(latest'[h]), SnapshotKey(o))
    BY <1>1 DEF PointerLast, SnapshotKey, KeyLess
  <2>1. CASE h = g
    <3>1. latest'[h] = snap /\ snap # None
      BY <1>1, <1>2, <2>1, CaptureAssumption
    <3> QED
      BY <1>5, <2>1, <3>1
  <2>2. CASE h # g
    <3>1. latest'[h] = latest[h]
      BY <1>1, <1>2, <2>2
    <3> QED
      BY <1>1, <1>2, <2>2, <3>1 DEF OrderInv, PointerLast
  <2> QED
    BY <2>1, <2>2
<1> QED
  BY <1>3, <1>6 DEF OrderInv

LEMMA OrderInvStep ==
    ASSUME Calm
    PROVE  SoundInv /\ OrderInv /\ SecondsApart /\ [Next]_vars => OrderInv'
<1> SUFFICES ASSUME SoundInv, OrderInv, SecondsApart, [Next]_vars PROVE OrderInv'
  OBVIOUS
<1>1. TypeOK /\ now \in Nat
  BY DEF SoundInv, StoreInv, TypeOK
<1>2. CASE Users
  BY <1>2, IdleOrder
  DEF Users, EditSpec, EditMetadata, EditRules, ToggleStore, RedirectStore, QuietEdit, envVars
<1>3. ASSUME NEW p \in Replicas, SetStatusInCluster(p) PROVE OrderInv'
  BY <1>3, IdleOrder DEF SetStatusInCluster, envVars
<1>4. CASE PostConfirm
  BY <1>4, BeforePutOrder DEF PostConfirm, envVars
<1>5. CASE PostDiffers
  <2>1. job'.snap = job.snap
    BY <1>1, <1>5 DEF PostDiffers, TypeOK, Jobs
  <2> QED
    BY <1>5, <2>1, BeforePutOrder DEF PostDiffers, envVars
<1>6. ~Faults
  BY <1>1 DEF Calm, Faults, PostFails, Restart, DropSettled, TypeOK
<1>7. CASE Tick
  BY <1>7, IdleOrder DEF Tick
<1>8. CASE UNCHANGED vars
  BY <1>8, IdleOrder DEF vars, envVars
<1> QED
  BY <1>2, <1>3, <1>4, <1>5, <1>6, <1>7, <1>8, PostBeginOrder, PostPutObjectOrder,
     PostPutLatestOrder DEF Next, PostStep

LEMMA SelectionFollowsPointer ==
    ASSUME SoundInv, OrderInv
    PROVE  SelectionInForce
<1> SUFFICES ASSUME StoreExists, job = None, Hit PROVE
        \E o \in objects[LiveHistory] :
            /\ Selects({SnapshotKey(s) : s \in objects[LiveHistory]}, now, SnapshotKey(o))
            /\ o.content = Extract.content
  BY DEF SelectionInForce, Hit
<1>1. StoreInv /\ TypeOK /\ SaveEnabled
  BY DEF SoundInv, StoreInv, StoreExists
<1>2. PICK h \in Histories : h = LiveHistory
  BY <1>1, ExtractType
<1>3. Latest(h) # None /\ Latest(h).content = Extract.content
  BY <1>1, <1>2 DEF SoundInv, HitSound, Archived
<1>4. /\ latest[h] # None /\ objects[h] # {} /\ Latest(h) = latest[h]
      /\ \A o \in objects[h] : ~KeyLess(SnapshotKey(latest[h]), SnapshotKey(o))
  <2>1. objects[h] # {}
    BY <1>1, <1>3, LatestIsHeld DEF StoreInv, PointerBacked
  <2> QED
    BY <2>1 DEF OrderInv, PointerLast, Latest
<1>5. PICK o \in objects[h] : SnapshotKey(o) = SnapshotKey(latest[h]) /\ o.content = latest[h].content
  BY <1>1, <1>4 DEF StoreInv, PointerBacked
<1>6. \A s \in objects[h] : SnapshotKey(s).at <= now /\ ~KeyLess(SnapshotKey(o), SnapshotKey(s))
  BY <1>4, <1>5 DEF OrderInv, NoFuture, SnapshotKey
<1>7. Selects({SnapshotKey(s) : s \in objects[h]}, now, SnapshotKey(o))
  BY <1>6 DEF Selects, IsNewest, AtOrBefore
<1> QED
  BY <1>2, <1>3, <1>4, <1>5, <1>7

(* When moreover no request fails and captures of one generation with      *)
(* different content lie at least a second apart, a restore to the present *)
(* moment selects the live configuration whenever a fast path considers it *)
(* captured.                                                               *)
THEOREM CaptureSelectionInForce == Calm /\ Spec /\ []SecondsApart => []SelectionInForce
<1> SUFFICES ASSUME Calm PROVE Spec /\ []SecondsApart => []SelectionInForce
  BY DEF Calm, Steady
<1>1. SoundInv /\ OrderInv => SelectionInForce
  BY SelectionFollowsPointer
<1>2. SoundInv /\ [Next]_vars => SoundInv'
  BY SoundInvStep DEF Calm
<1> QED
  BY <1>1, <1>2, SoundInvInit, OrderInvInit, OrderInvStep, PTL DEF Spec
=============================================================================
