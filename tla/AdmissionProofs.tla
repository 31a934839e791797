--------------------------- MODULE AdmissionProofs ---------------------------
(***************************************************************************)
(* What a restored Cluster consists of and which snapshot it was restored  *)
(* from, for every history, every manifest and every policy.               *)
(***************************************************************************)
EXTENDS Admission, SnapshotHistoryProofs, SequenceTheorems

Hashes == {c.hash : c \in Captures}

(* What is in the bucket is an end segment of what was written, and what   *)
(* was written was captured, and not in the future.                        *)
HistorySound ==
    /\ refs \subseteq archive /\ IsFiniteSet(archive)
    /\ latest # None => latest \in archive
    /\ \A ref \in archive : ref.at <= now /\ ref.hash \in Hashes
    /\ \A ref \in archive, held \in refs : KeyLess(held, ref) => ref \in refs

(* The checks of Handle.                                                   *)
Cleared(m) == IsRestoreRequested(m) /\ Validate(m) /\ ~SourceIsAlsoDestination(m)

(* A select stanza without a mode was stored with Latest, and names none.  *)
Moment(m, p) == IF p # None /\ p.stanza = "bare" THEN None ELSE NamedMoment(m, p)

(* The snapshot is the one the moment resolves to that the Cluster's data  *)
(* or its policy names, if that had passed when the call began.            *)
InForce(m, p, begun, ref) ==
    LET moment == Moment(m, p)
    IN  moment # None /\ moment < begun => Selects(archive, moment, ref)

(* The rules compiled.                                                     *)
Usable(p) == CompileRules(SkipsOf(p), TransformsOf(p))

(* A tree with a record is the manifest's with one plan applied to it that *)
(* succeeded, and one without is the manifest's own.                       *)
TreeSound(m, tree, record) ==
    IF record = None THEN tree = m.tree
    ELSE LET captured == Tree[record.key.hash]
             skips == SkipsOf(record.policy)
             transforms == TransformsOf(record.policy)
             changes == Changes(captured, skips, transforms)
         IN  /\ PlanSucceeds(captured, skips, transforms)
             /\ DOMAIN changes # {} /\ tree = Apply(m.tree, changes)

RecordSound(m, record) ==
    record # None => /\ record \in Records /\ record.begun <= now
                     /\ Cleared(m) /\ Usable(record.policy) /\ record.key \in archive
                     /\ InForce(m, record.policy, record.begun, record.key)

Calling == {"load", "policy", "select", "latest", "list", "read", "apply"}

RequestSound(r) ==
    /\ r \in [phase : Calling \union {"handle", "admitted"}, manifest : Manifests,
              tree : {r.tree}, record : Records \union {None},
              policy : Policies \union {None}, chosen : Refs \union {None},
              moment : Nat, begun : Nat]
    /\ r.begun <= now /\ Usable(r.policy)
    /\ TreeSound(r.manifest, r.tree, r.record) /\ RecordSound(r.manifest, r.record)
    /\ r.phase \in Calling => Cleared(r.manifest) /\ r.record = None
    /\ r.phase = "list" =>
          LET moment == Moment(r.manifest, r.policy)
          IN  moment # None /\ moment < r.begun => moment = r.moment
    /\ r.phase = "latest" =>
          LET moment == Moment(r.manifest, r.policy) IN moment = None \/ ~(moment < r.begun)
    /\ r.phase \in {"read", "apply"} =>
          r.chosen \in archive /\ InForce(r.manifest, r.policy, r.begun, r.chosen)

ClusterSound(c) ==
    /\ c \in [manifest : Manifests, tree : {c.tree}, record : Records \union {None},
              running : BOOLEAN]
    /\ TreeSound(c.manifest, c.tree, c.record) /\ RecordSound(c.manifest, c.record)
    /\ c.running /\ IsRestoreRequested(c.manifest) => c.record # None

ReadsTyped ==
    /\ refs \in SUBSET Refs /\ archive \in SUBSET Refs /\ latest \in Refs \union {None}
    /\ store \in BOOLEAN /\ registered \in BOOLEAN
    /\ policy \in Policies \union {None}
    /\ backup \in Nat \union {None, Unfinished}
    /\ now \in Nat /\ edits \in Nat /\ calls \in Nat

AdmissionInv ==
    /\ ReadsTyped /\ HistorySound
    /\ request # None => RequestSound(request)
    /\ cluster # None => ClusterSound(cluster)

-----------------------------------------------------------------------------
(* Facts.                                                                  *)

LEMMA AdmissionInvInit == Init => AdmissionInv
<1> SUFFICES ASSUME Init PROVE AdmissionInv
  OBVIOUS
<1>1. store \in BOOLEAN /\ registered \in BOOLEAN
  BY Zenon DEF Init
<1>2. ReadsTyped
  BY <1>1 DEF Init, ReadsTyped
<1>3. HistorySound
  BY FS_EmptySet DEF Init, HistorySound
<1> QED
  BY <1>2, <1>3 DEF Init, AdmissionInv

(* The moment a Cluster's data or its policy names is a moment.            *)
LEMMA MomentType ==
    ASSUME NEW m \in Manifests, NEW p \in Policies \union {None}
    PROVE  Moment(m, p) \in Nat \union {None}
BY AdmissionAssumption DEF Moment, NamedMoment

(* A restored tree has something of the snapshot, and the rest of it is    *)
(* the manifest's.                                                         *)
LEMMA AppliedTree ==
    ASSUME NEW own, NEW captured, NEW skips, NEW transforms,
           DOMAIN Changes(captured, skips, transforms) # {}
    PROVE  LET tree == Apply(own, Changes(captured, skips, transforms))
           IN  /\ \E leaf \in DOMAIN tree : leaf \in DOMAIN captured /\ ~IsDenied(leaf)
               /\ \A leaf \in DOMAIN tree :
                     \/ leaf \in DOMAIN captured /\ ~IsDenied(leaf)
                     \/ leaf \in DOMAIN own /\ tree[leaf] = own[leaf]
<1> DEFINE changes == Changes(captured, skips, transforms)
           tree == Apply(own, changes)
<1>1. DOMAIN changes = Restorable(captured, skips)
  BY DEF Changes
<1>2. \A leaf \in DOMAIN changes : leaf \in DOMAIN captured /\ ~IsDenied(leaf)
  BY <1>1 DEF Restorable
<1> HIDE DEF changes
<1>3. DOMAIN tree = DOMAIN changes \union Survivors(own, changes)
  BY DEF Apply
<1>4. \A leaf \in DOMAIN tree : leaf \notin DOMAIN changes =>
          leaf \in DOMAIN own /\ tree[leaf] = own[leaf]
  BY DEF Apply, Survivors
<1>5. DOMAIN changes # {}
  BY DEF changes
<1> QED
  BY <1>2, <1>3, <1>4, <1>5 DEF changes

(* The newest of the keys of the bucket up to a moment, if it can still be *)
(* read, is the newest up to it of all that were ever written.             *)
LEMMA ChoiceInForce ==
    ASSUME ReadsTyped, HistorySound, NEW moment \in Nat, AtOrBefore(refs, moment) # {}
    PROVE  /\ Newest(AtOrBefore(refs, moment)) \in Refs
           /\ Selects(archive, moment, Newest(AtOrBefore(refs, moment)))
<1> DEFINE wanted == AtOrBefore(refs, moment)
           chosen == Newest(wanted)
<1>1. wanted \in SUBSET Refs /\ IsFiniteSet(wanted) /\ wanted # {}
  BY FS_Subset DEF ReadsTyped, HistorySound, AtOrBefore
<1>2. IsNewest(chosen, wanted)
  BY <1>1, NewestExists
<1>3. chosen \in refs /\ chosen.at <= moment /\ chosen \in archive
  BY <1>2 DEF IsNewest, AtOrBefore, HistorySound
<1>4. ASSUME NEW o \in archive, o.at <= moment, KeyLess(chosen, o) PROVE FALSE
  BY <1>2, <1>3, <1>4 DEF HistorySound, IsNewest, AtOrBefore
<1> QED
  BY <1>1, <1>2, <1>3, <1>4 DEF Selects, IsNewest, AtOrBefore

(* The newest of any keys of the bucket was captured.                      *)
LEMMA NewestIsRef ==
    ASSUME ReadsTyped, HistorySound, NEW wanted \in SUBSET refs, wanted # {}
    PROVE  Newest(wanted) \in archive
<1>1. wanted \in SUBSET Refs /\ IsFiniteSet(wanted)
  BY FS_Subset DEF ReadsTyped, HistorySound
<1> QED
  BY <1>1, NewestExists DEF IsNewest, HistorySound
-----------------------------------------------------------------------------
(* The environment.                                                        *)

(* What was in force stays in force: later captures are later than the     *)
(* moment, and a Backup that completes only now names a moment no call     *)
(* that has begun could have used.                                         *)
LEMMA InForceStable ==
    ASSUME ReadsTyped, Environment,
           NEW m \in Manifests, NEW p \in Policies \union {None},
           NEW begun \in Nat, begun <= now
    PROVE  /\ \A ref : InForce(m, p, begun, ref) => InForce(m, p, begun, ref)'
           /\ \/ Moment(m, p)' = Moment(m, p)
              \/ Moment(m, p)' # None /\ ~(Moment(m, p)' < begun)
<1>1. /\ Moment(m, p) \in Nat \union {None} /\ now \in Nat
      /\ None \notin Nat
  BY MomentType, AdmissionAssumption DEF ReadsTyped
<1>2. CASE BackupProceeds
  <2>1. backup \notin Nat /\ backup' \in {Unfinished, now} /\ archive' = archive
    BY <1>2 DEF BackupProceeds, ReadsTyped
  <2>2. Moment(m, p)' = Moment(m, p) \/ Moment(m, p)' = now
    BY <2>1, AdmissionAssumption DEF Moment, NamedMoment, UseLatest
  <2>3. CASE Moment(m, p)' = Moment(m, p)
    BY <2>1, <2>3 DEF InForce, Selects, IsNewest, AtOrBefore, KeyLess
  <2>4. CASE Moment(m, p)' = now
    <3>1. Moment(m, p)' # None /\ ~(Moment(m, p)' < begun)
      BY <1>1, <2>4
    <3> QED
      BY <3>1 DEF InForce
  <2> QED
    BY <2>2, <2>3, <2>4
<1>3. ASSUME NEW c \in Captures, Capture(c)
      PROVE  /\ \A ref : InForce(m, p, begun, ref) => InForce(m, p, begun, ref)'
             /\ Moment(m, p)' = Moment(m, p)
  <2> DEFINE new == [at |-> now, gen |-> c.gen, hash |-> c.hash]
             moment == Moment(m, p)
  <2>1. archive' = archive \union {new} /\ backup' = backup /\ new.at = now
    BY <1>3 DEF Capture
  <2>2. Moment(m, p)' = moment
    BY <2>1 DEF Moment, NamedMoment, UseLatest
  <2> HIDE DEF new, moment
  <2>3. ASSUME moment # None, moment < begun
        PROVE  AtOrBefore(archive', moment) = AtOrBefore(archive, moment)
    <3>1. ~(new.at <= moment)
      BY <1>1, <2>1, <2>3 DEF moment
    <3> QED
      BY <2>1, <3>1 DEF AtOrBefore
  <2>4. ASSUME NEW ref, InForce(m, p, begun, ref), moment # None, moment < begun
        PROVE  Selects(archive', moment, ref)
    BY <2>3, <2>4 DEF InForce, Selects, moment
  <2> QED
    BY <2>2, <2>4 DEF InForce, Selects, IsNewest, AtOrBefore, KeyLess, moment
<1>4. CASE UNCHANGED <<archive, backup>>
  <2>1. Moment(m, p)' = Moment(m, p)
    BY <1>4 DEF Moment, NamedMoment, UseLatest
  <2> QED
    BY <1>4, <2>1 DEF InForce, Selects, IsNewest, AtOrBefore, KeyLess
<1> QED
  BY <1>2, <1>3, <1>4
  DEF Environment, Prune, ToggleStore, ApplyPolicy, ToggleWebhook, Tick, Edit, reads

(* The bucket and what else the webhook reads.                             *)
LEMMA ReadsKept ==
    ASSUME AdmissionInv, Environment
    PROVE  ReadsTyped' /\ HistorySound' /\ now' >= now
<1>1. ReadsTyped /\ HistorySound /\ now \in Nat /\ edits \in Nat
  BY DEF AdmissionInv, ReadsTyped
<1>2. ASSUME NEW c \in Captures, Capture(c)
      PROVE  ReadsTyped' /\ HistorySound' /\ now' >= now
  <2> DEFINE new == [at |-> now, gen |-> c.gen, hash |-> c.hash]
  <2>1. /\ refs' = refs \union {new} /\ archive' = archive \union {new} /\ latest' = new
        /\ UNCHANGED <<store, policy, backup, registered, request, cluster, now, edits, calls>>
        /\ \A ref \in archive : ref.at < now
    BY <1>2 DEF Capture
  <2>2. new \in Refs /\ new.at = now
    BY <1>1, AdmissionAssumption DEF Refs
  <2> HIDE DEF new
  <2>3. ReadsTyped'
    BY <1>1, <2>1, <2>2 DEF ReadsTyped
  <2>4. \A ref \in archive : ~KeyLess(new, ref)
    BY <1>1, <2>1, <2>2 DEF KeyLess, ReadsTyped, Refs
  <2>5. IsFiniteSet(archive')
    BY <1>1, <2>1, FS_AddElement DEF HistorySound
  <2>6. /\ \A ref \in archive' : ref.at <= now' /\ ref.hash \in Hashes
        /\ latest' \in archive'
    <3>1. new.hash \in Hashes
      BY DEF new, Hashes
    <3> QED
      BY <1>1, <2>1, <2>2, <3>1 DEF HistorySound
  <2>7. ASSUME NEW ref \in archive', NEW held \in refs', KeyLess(held, ref) PROVE ref \in refs'
    <3>1. CASE ref = new
      BY <2>1, <3>1
    <3>2. CASE ref # new
      BY <1>1, <2>1, <2>4, <2>7, <3>2 DEF HistorySound
    <3> QED
      BY <3>1, <3>2
  <2>8. HistorySound'
    BY <1>1, <2>1, <2>5, <2>6, <2>7 DEF HistorySound, KeyLess
  <2> QED
    BY <1>1, <2>1, <2>3, <2>8
<1>3. ASSUME NEW ref \in refs, Prune(ref)
      PROVE  ReadsTyped' /\ HistorySound' /\ now' >= now
  <2>1. /\ \A other \in refs : ~KeyLess(other, ref)
        /\ refs' = refs \ {ref} /\ edits' = edits + 1
        /\ UNCHANGED <<store, policy, backup, registered, latest, archive, now, calls>>
    BY <1>3 DEF Prune, Edit
  <2>2. ReadsTyped'
    BY <1>1, <2>1 DEF ReadsTyped
  <2>3. HistorySound'
    BY <1>1, <2>1 DEF HistorySound, KeyLess
  <2> QED
    BY <1>1, <2>1, <2>2, <2>3
<1>4. ASSUME UNCHANGED <<refs, archive, latest>>, now' \in Nat, now' >= now PROVE HistorySound'
  <2>1. \A ref \in archive : ref.at \in Nat /\ ref.at <= now
    BY <1>1 DEF HistorySound, ReadsTyped, Refs
  <2>2. \A ref \in archive' : ref.at <= now'
    BY <1>1, <1>4, <2>1
  <2> QED
    BY <1>1, <1>4, <2>2 DEF HistorySound, KeyLess
<1>5. CASE ToggleStore
  <2>1. store' \in BOOLEAN /\ edits' \in Nat
    BY <1>1, <1>5 DEF ToggleStore, Edit
  <2> QED
    BY <1>1, <1>4, <1>5, <2>1 DEF ToggleStore, Edit, ReadsTyped
<1>6. CASE ToggleWebhook
  <2>1. registered' \in BOOLEAN /\ edits' \in Nat
    BY <1>1, <1>6 DEF ToggleWebhook, Edit
  <2> QED
    BY <1>1, <1>4, <1>6, <2>1 DEF ToggleWebhook, Edit, ReadsTyped
<1>7. ASSUME NEW p \in Policies \union {None}, ApplyPolicy(p)
      PROVE  ReadsTyped' /\ HistorySound' /\ now' >= now
  BY <1>1, <1>4, <1>7 DEF ApplyPolicy, Edit, ReadsTyped
<1>8. CASE BackupProceeds
  <2>1. backup' \in {Unfinished, now}
    BY <1>1, <1>8 DEF BackupProceeds, ReadsTyped
  <2> QED
    BY <1>1, <1>4, <1>8, <2>1 DEF BackupProceeds, ReadsTyped
<1>9. CASE Tick
  BY <1>1, <1>4, <1>9 DEF Tick, reads, ReadsTyped
<1> QED
  BY <1>2, <1>3, <1>5, <1>6, <1>7, <1>8, <1>9 DEF Environment

LEMMA EnvironmentKeeps ==
    ASSUME AdmissionInv, Environment
    PROVE  AdmissionInv'
<1>1. /\ ReadsTyped /\ ReadsTyped' /\ HistorySound' /\ now' >= now /\ now \in Nat /\ now' \in Nat
      /\ UNCHANGED <<request, cluster>> /\ archive \subseteq archive'
  <2>1. UNCHANGED <<request, cluster>> /\ archive \subseteq archive'
    BY DEF Environment, Capture, Prune, ToggleStore, ApplyPolicy, BackupProceeds, ToggleWebhook,
       Tick, Edit, reads
  <2> QED
    BY <2>1, ReadsKept DEF AdmissionInv, ReadsTyped
<1>2. ASSUME NEW m \in Manifests, NEW record, RecordSound(m, record) PROVE RecordSound(m, record)'
  <2> SUFFICES ASSUME record # None
               PROVE  /\ record.begun <= now' /\ record.key \in archive'
                      /\ InForce(m, record.policy, record.begun, record.key)'
    BY <1>2 DEF RecordSound, Cleared, IsRestoreRequested, Validate, SourceIsAlsoDestination,
       SaveServer
  <2>1. /\ record.policy \in Policies \union {None} /\ record.begun \in Nat
        /\ record.begun <= now /\ record.key \in archive
        /\ InForce(m, record.policy, record.begun, record.key)
    BY <1>2 DEF RecordSound, Records
  <2>2. InForce(m, record.policy, record.begun, record.key)'
    BY <1>1, <2>1, InForceStable
  <2> QED
    BY <1>1, <2>1, <2>2
<1>3. ASSUME NEW r, RequestSound(r) PROVE RequestSound(r)'
  <2>1. /\ r.manifest \in Manifests /\ r.policy \in Policies \union {None}
        /\ r.begun \in Nat /\ r.begun <= now
    BY <1>3 DEF RequestSound
  <2>2. /\ \A ref : InForce(r.manifest, r.policy, r.begun, ref) =>
                       InForce(r.manifest, r.policy, r.begun, ref)'
        /\ \/ Moment(r.manifest, r.policy)' = Moment(r.manifest, r.policy)
           \/ /\ Moment(r.manifest, r.policy)' # None
              /\ ~(Moment(r.manifest, r.policy)' < r.begun)
    BY <1>1, <2>1, InForceStable
  <2>3. RecordSound(r.manifest, r.record)'
    BY <1>2, <1>3, <2>1 DEF RequestSound
  <2>4. r.begun <= now'
    BY <1>1, <2>1
  <2>5. TreeSound(r.manifest, r.tree, r.record)' <=> TreeSound(r.manifest, r.tree, r.record)
    BY DEF TreeSound
  <2>6. Cleared(r.manifest)' <=> Cleared(r.manifest)
    BY DEF Cleared
  <2> QED
    BY <1>1, <1>3, <2>2, <2>3, <2>4, <2>5, <2>6 DEF RequestSound
<1>4. ASSUME NEW c, ClusterSound(c) PROVE ClusterSound(c)'
  <2>1. RecordSound(c.manifest, c.record)'
    BY <1>2, <1>4 DEF ClusterSound
  <2>2. TreeSound(c.manifest, c.tree, c.record)' <=> TreeSound(c.manifest, c.tree, c.record)
    BY DEF TreeSound
  <2> QED
    BY <1>4, <2>1, <2>2 DEF ClusterSound
<1>5. request' # None => RequestSound(request)'
  BY <1>1, <1>3 DEF AdmissionInv
<1>6. cluster' # None => ClusterSound(cluster)'
  BY <1>1, <1>4 DEF AdmissionInv
<1> QED
  BY <1>1, <1>5, <1>6 DEF AdmissionInv

-----------------------------------------------------------------------------
(* The create request.                                                     *)

(* What is sound stays so while nothing that the webhook reads changes.    *)
LEMMA QuietKeeps ==
    ASSUME UNCHANGED <<reads, now>>
    PROVE  /\ \A r : RequestSound(r) => RequestSound(r)'
           /\ \A c : ClusterSound(c) => ClusterSound(c)'
<1>1. UNCHANGED <<archive, backup, now>>
  BY DEF reads
<1>2. \A m, p : Moment(m, p)' = Moment(m, p)
  BY <1>1 DEF Moment, NamedMoment, UseLatest
<1>3. \A m, p, begun, ref : InForce(m, p, begun, ref)' <=> InForce(m, p, begun, ref)
  BY <1>1, <1>2 DEF InForce, Selects, IsNewest, AtOrBefore, KeyLess
<1>4. \A m, record : RecordSound(m, record)' <=> RecordSound(m, record)
  BY <1>1, <1>3 DEF RecordSound, Cleared
<1>5. \A m, tree, record : TreeSound(m, tree, record)' <=> TreeSound(m, tree, record)
  BY DEF TreeSound
<1>6. \A r : RequestSound(r) => RequestSound(r)'
  BY <1>1, <1>2, <1>3, <1>4, <1>5 DEF RequestSound, Cleared
<1> QED
  BY <1>4, <1>5, <1>6 DEF ClusterSound

(* A step of the request alone.                                            *)
LEMMA RequestStep ==
    ASSUME AdmissionInv, UNCHANGED <<reads, cluster, now, edits>>, calls' \in Nat,
           request' # None => RequestSound(request')
    PROVE  AdmissionInv'
<1>1. ReadsTyped' /\ HistorySound'
  BY DEF AdmissionInv, ReadsTyped, HistorySound, reads, KeyLess
<1>2. request' # None => RequestSound(request)'
  <2> SUFFICES ASSUME request' # None PROVE RequestSound(request)'
    OBVIOUS
  <2>1. PICK r : r = request'
    OBVIOUS
  <2>2. RequestSound(r)
    BY <2>1
  <2>3. RequestSound(r)'
    BY <2>2, QuietKeeps
  <2> QED
    BY <2>1, <2>3
<1>3. cluster' # None => ClusterSound(cluster)'
  BY QuietKeeps DEF AdmissionInv
<1> QED
  BY <1>1, <1>2, <1>3 DEF AdmissionInv

LEMMA NoRulesUsable == Usable(None)
BY DEF Usable, SkipsOf, TransformsOf, CompileRules, TransformsUsable

(* A request enters the webhook.                                           *)
LEMMA EntersWebhook ==
    ASSUME AdmissionInv,
           (\E m \in Manifests : Create(m)) \/ Reinvoke
    PROVE  AdmissionInv'
<1>1. now \in Nat /\ now <= now /\ calls \in Nat
  BY DEF AdmissionInv, ReadsTyped
<1>2. ASSUME NEW m \in Manifests, Create(m) PROVE AdmissionInv'
  <2>1. PICK phase \in {"handle", "admitted"} :
           request' = [phase |-> phase, manifest |-> m, tree |-> m.tree, record |-> None,
                       policy |-> None, chosen |-> None, moment |-> 0, begun |-> now]
    BY <1>2 DEF Create
  <2>2. RequestSound(request')
    BY <1>1, <2>1, NoRulesUsable DEF RequestSound, TreeSound, RecordSound, Calling
  <2> QED
    BY <1>1, <1>2, <2>2, RequestStep DEF Create
<1>3. CASE Reinvoke
  <2>1. RequestSound(request) /\ request # None
    BY <1>3 DEF Reinvoke, Phase, AdmissionInv
  <2>2. request' = [request EXCEPT !.phase = "handle", !.policy = None, !.chosen = None,
                                   !.begun = now]
    BY <1>3 DEF Reinvoke
  <2>3. RequestSound(request')
    BY <1>1, <2>1, <2>2, NoRulesUsable DEF RequestSound, Calling
  <2> QED
    BY <1>1, <1>3, <2>3, RequestStep DEF Reinvoke
<1> QED
  BY <1>2, <1>3

(* The steps of the call up to the choice of a snapshot.                   *)
LEMMA LoadKeeps ==
    ASSUME AdmissionInv, Handle \/ LoadStore \/ LoadPolicy
    PROVE  AdmissionInv'
<1>1. RequestSound(request) /\ request # None /\ calls' \in Nat
  BY DEF Handle, LoadStore, LoadPolicy, Phase, AdmissionInv, ReadsTyped
<1>2. CASE Handle
  <2>1. ASSUME request' # None PROVE RequestSound(request')
    <3>1. Validate(request.manifest) /\ ~SourceIsAlsoDestination(request.manifest)
      BY <1>2, <2>1 DEF Handle, Deny
    <3>2. PICK phase \in {"load", "admitted"} :
             /\ request' = [request EXCEPT !.phase = phase]
             /\ phase = "load" => IsRestoreRequested(request.manifest) /\ request.record = None
      BY <1>2, <3>1 DEF Handle, Goto
    <3>3. request'.phase = phase /\ request'.manifest = request.manifest
          /\ request'.record = request.record /\ request'.tree = request.tree
          /\ request'.policy = request.policy /\ request'.chosen = request.chosen
          /\ request'.moment = request.moment /\ request'.begun = request.begun
      BY <1>1, <3>2 DEF RequestSound
    <3> QED
      BY <1>1, <3>1, <3>2, <3>3 DEF RequestSound, Cleared, Calling
  <2> QED
    BY <1>1, <1>2, <2>1, RequestStep DEF Handle
<1>3. CASE LoadStore
  <2>1. ASSUME request' # None PROVE RequestSound(request')
    <3>1. PICK phase \in {"select", "policy"} : request' = [request EXCEPT !.phase = phase]
      BY <1>3, <2>1 DEF LoadStore, Goto, Deny
    <3> QED
      BY <1>1, <1>3, <3>1 DEF RequestSound, Calling, LoadStore, Phase
  <2> QED
    BY <1>1, <1>3, <2>1, RequestStep DEF LoadStore
<1>4. CASE LoadPolicy
  <2>1. ASSUME request' # None PROVE RequestSound(request')
    <3>1. request' = [request EXCEPT !.phase = "select", !.policy = policy]
      BY <1>4, <2>1 DEF LoadPolicy, Deny
    <3>2. policy \in Policies \union {None}
      BY DEF AdmissionInv, ReadsTyped
    <3>3. Usable(policy)
      BY <1>4, <2>1 DEF LoadPolicy, Deny, Usable, SkipsOf, TransformsOf
    <3> QED
      BY <1>1, <1>4, <3>1, <3>2, <3>3 DEF RequestSound, Calling, LoadPolicy, Phase
  <2> QED
    BY <1>1, <1>4, <2>1, RequestStep DEF LoadPolicy
<1> QED
  BY <1>2, <1>3, <1>4

(* A step that chooses a snapshot in force.                                *)
LEMMA ChosenKeeps ==
    ASSUME RequestSound(request), request.phase \in Calling, NEW phase \in {"read", "apply"},
           NEW ref \in archive, ref \in Refs,
           InForce(request.manifest, request.policy, request.begun, ref),
           request' = [request EXCEPT !.phase = phase, !.chosen = ref]
    PROVE  RequestSound(request')
BY DEF RequestSound, Calling

(* ReadLatest, where no moment is named that had passed.                   *)
LEMMA LatestKeeps ==
    ASSUME AdmissionInv, request # None, request.phase \in Calling, ReadLatest, request' # None,
           LET named == Moment(request.manifest, request.policy)
           IN  named = None \/ ~(named < request.begun)
    PROVE  RequestSound(request')
<1>1. RequestSound(request)
  BY DEF AdmissionInv
<1>2. /\ latest \in archive /\ latest \in Refs
      /\ request' = [request EXCEPT !.phase = "apply", !.chosen = latest]
  BY DEF ReadLatest, Deny, AdmissionInv, ReadsTyped, HistorySound
<1>3. InForce(request.manifest, request.policy, request.begun, latest)
  BY DEF InForce
<1> QED
  BY <1>1, <1>2, <1>3, ChosenKeeps

(* ListAndChoose, where no moment is named or the one asked for.           *)
LEMMA ListKeeps ==
    ASSUME AdmissionInv, request # None, request.phase \in Calling, request' # None,
           NEW wanted \in SUBSET refs, ListAndChoose(wanted), NEW moment \in Nat,
           LET named == Moment(request.manifest, request.policy)
           IN  named # None /\ named < request.begun =>
                   named = moment /\ wanted = AtOrBefore(refs, moment)
    PROVE  RequestSound(request')
<1>1. RequestSound(request) /\ ReadsTyped /\ HistorySound
  BY DEF AdmissionInv
<1>2. wanted # {} /\ request' = [request EXCEPT !.phase = "read", !.chosen = Newest(wanted)]
  BY DEF ListAndChoose, Deny
<1>3. Newest(wanted) \in archive /\ Newest(wanted) \in Refs
  BY <1>1, <1>2, NewestIsRef DEF ReadsTyped
<1>4. InForce(request.manifest, request.policy, request.begun, Newest(wanted))
  BY <1>1, <1>2, ChoiceInForce DEF InForce
<1> QED
  BY <1>1, <1>2, <1>3, <1>4, ChosenKeeps

(* The target the webhook resolves is the moment the Cluster names, and    *)
(* where it takes the newest snapshot instead there is no such moment.     *)
LEMMA TargetIsNamed ==
    ASSUME ReadsTyped, NEW m \in Manifests, NEW p \in Policies \union {None}, NEW found \in BOOLEAN,
           ResolveMode(p, m.recovery # None) = "AlignWithRecoveryTarget"
    PROVE  LET target == ResolveRecoveryTarget(m.recovery, found)
               named == Moment(m, p)
           IN  /\ target.kind \in {"moment", "none", "unresolvable", "error"}
               /\ target.kind = "moment" => target.moment \in Nat /\ named \in {target.moment, None}
               /\ target.kind = "none" => named = None
               /\ target.kind = "unresolvable" /\ UseLatest(p) => named = None
<1> DEFINE target == ResolveRecoveryTarget(m.recovery, found)
           named == Moment(m, p)
<1>1. p # None /\ p.stanza # "absent" => p.stanza = "stated" \/ named = None
  BY AdmissionAssumption DEF Moment, NamedMoment
<1>2. CASE m.recovery = None
  <2>1. target.kind = "none"
    BY <1>2 DEF ResolveRecoveryTarget
  <2>2. p # None /\ p.stanza = "stated"
    BY <1>2, AdmissionAssumption DEF ResolveMode, StoredMode
  <2>3. p.mode = "AlignWithRecoveryTarget"
    BY <1>2, <2>2 DEF ResolveMode, StoredMode
  <2>4. named = None
    BY <1>2, <2>2, <2>3 DEF Moment, NamedMoment
  <2> QED
    BY <2>1, <2>4
<1>3. CASE m.recovery # None /\ p # None /\ p.stanza = "stated" /\ p.mode = "Timestamp"
  BY <1>3, AdmissionAssumption DEF ResolveMode, StoredMode
<1>4. ASSUME m.recovery # None, ~(p # None /\ p.stanza = "stated" /\ p.mode = "Timestamp")
      PROVE  \/ named = None
             \/ named = IF m.recovery.time \in Nat THEN m.recovery.time
                        ELSE IF m.recovery.backupID \/ (m.recovery.backup /\ ~m.recovery.opaque)
                             THEN IF backup \in Nat /\ ~UseLatest(p) THEN backup ELSE None
                        ELSE None
  BY <1>4 DEF Moment, NamedMoment
<1>5. CASE m.recovery # None /\ m.recovery.time \in Nat
  <2>1. target = [kind |-> "moment", moment |-> m.recovery.time]
    BY <1>5, AdmissionAssumption DEF ResolveRecoveryTarget
  <2> QED
    BY <1>3, <1>4, <1>5, <2>1
<1>6. CASE m.recovery # None /\ m.recovery.time = Garbled
  BY <1>6, AdmissionAssumption DEF ResolveRecoveryTarget
<1>7. CASE m.recovery # None /\ m.recovery.time = None
  <2>1. FromBackup(found).kind \in {"moment", "unresolvable"}
    BY DEF FromBackup
  <2>2. FromBackup(found).kind = "moment" => FromBackup(found).moment = backup /\ backup \in Nat
    BY AdmissionAssumption DEF FromBackup, Lookup
  <2>3. m.recovery.time \notin Nat /\ m.recovery.time # Garbled
    BY <1>7, AdmissionAssumption
  <2>4. target = IF m.recovery.backupID THEN FromBackup(found)
                 ELSE IF m.recovery.opaque THEN [kind |-> "unresolvable", moment |-> 0]
                 ELSE IF m.recovery.backup THEN FromBackup(found)
                 ELSE [kind |-> "none", moment |-> 0]
    BY <1>7, <2>3 DEF ResolveRecoveryTarget
  <2> HIDE DEF target, named
  <2> QED
    BY <1>3, <1>4, <1>7, <2>1, <2>2, <2>3, <2>4 DEF target, named
<1> QED
  BY <1>2, <1>5, <1>6, <1>7, AdmissionAssumption

LEMMA SelectKeeps ==
    ASSUME AdmissionInv, NEW found \in BOOLEAN, Select(found)
    PROVE  AdmissionInv'
<1> DEFINE m == request.manifest
           p == request.policy
           mode == ResolveMode(p, m.recovery # None)
           named == Moment(m, p)
           target == ResolveRecoveryTarget(m.recovery, found)
<1>1. /\ RequestSound(request) /\ ReadsTyped /\ Phase("select") /\ request # None
      /\ request.phase = "select" /\ request.phase \in Calling
      /\ m \in Manifests /\ p \in Policies \union {None}
  BY DEF Select, Phase, AdmissionInv, RequestSound, Calling
<1>2. mode \in {"Latest", "Generation", "Timestamp", "AlignWithRecoveryTarget"}
  BY <1>1, AdmissionAssumption DEF ResolveMode, StoredMode
<1>3. ASSUME request' # None PROVE RequestSound(request')
  <2>1. CASE mode = "Latest"
    <3>1. ReadLatest
      BY <2>1 DEF Select
    <3>2. named = None
      BY <1>1, <2>1, AdmissionAssumption DEF Moment, NamedMoment, ResolveMode, StoredMode
    <3> QED
      BY <1>1, <1>3, <3>1, <3>2, LatestKeeps
  <2>2. CASE mode = "Generation"
    <3>1. ListAndChoose({ref \in refs : ref.gen = p.coordinate})
      BY <2>2 DEF Select
    <3>2. named = None
      BY <1>1, <2>2, AdmissionAssumption DEF Moment, NamedMoment, ResolveMode, StoredMode
    <3> QED
      BY <1>1, <1>3, <3>1, <3>2, ListKeeps
  <2>3. CASE mode = "Timestamp"
    <3>1. ListAndChoose(AtOrBefore(refs, p.coordinate))
      BY <2>3 DEF Select
    <3>2. p \in Policies /\ named \in {p.coordinate, None} /\ p.coordinate \in Nat
      BY <1>1, <2>3, AdmissionAssumption DEF Moment, NamedMoment, ResolveMode, StoredMode
    <3>3. AtOrBefore(refs, p.coordinate) \in SUBSET refs
      BY DEF AtOrBefore
    <3> QED
      BY <1>1, <1>3, <3>1, <3>2, <3>3, ListKeeps
  <2>4. CASE mode = "AlignWithRecoveryTarget"
    <3>1. SelectAligned(target)
      BY <2>4 DEF Select
    <3>2. /\ target.kind \in {"moment", "none", "unresolvable", "error"}
          /\ target.kind = "moment" => target.moment \in Nat /\ named \in {target.moment, None}
          /\ target.kind = "none" => named = None
          /\ target.kind = "unresolvable" /\ UseLatest(p) => named = None
      BY <1>1, <2>4, TargetIsNamed
    <3> HIDE DEF target, named, m, p, mode
    <3>3. CASE target.kind = "moment"
      <4>1. request' = [request EXCEPT !.phase = "list", !.moment = target.moment]
        BY <3>1, <3>3 DEF SelectAligned
      <4> QED
        BY <1>1, <3>2, <3>3, <4>1 DEF RequestSound, Calling, named, m, p
    <3>4. CASE target.kind = "none"
      <4>1. ReadLatest /\ named = None
        BY <3>1, <3>2, <3>4 DEF SelectAligned
      <4> QED
        BY <1>1, <1>3, <4>1, LatestKeeps DEF named, m, p
    <3>4a. CASE target.kind = "unresolvable"
      <4>1. request' = [request EXCEPT !.phase = "latest"] /\ named = None
        BY <1>3, <3>1, <3>2, <3>4a DEF SelectAligned, Goto, Deny, p
      <4> QED
        BY <1>1, <4>1 DEF RequestSound, Calling, named, m, p
    <3>5. CASE target.kind = "error"
      BY <1>3, <3>1, <3>5 DEF SelectAligned, Deny
    <3> QED
      BY <3>2, <3>3, <3>4, <3>4a, <3>5
  <2> QED
    BY <1>2, <2>1, <2>2, <2>3, <2>4
<1> QED
  BY <1>1, <1>3, RequestStep DEF Select, ReadsTyped

LEMMA FinishKeeps ==
    ASSUME AdmissionInv, FallBack \/ ListAligned \/ ReadSnapshot \/ ApplyPlan \/ CallFails
    PROVE  AdmissionInv'
<1>1. /\ RequestSound(request) /\ request # None /\ ReadsTyped /\ calls' \in Nat
  BY DEF FallBack, ListAligned, ReadSnapshot, ApplyPlan, CallFails, Phase, AdmissionInv, ReadsTyped
<1>1a. CASE FallBack
  <2>1. ASSUME request' # None PROVE RequestSound(request')
    <3>1. request.phase = "latest" /\ request.phase \in Calling /\ ReadLatest
      BY <1>1a DEF FallBack, Phase, Calling
    <3>2. LET named == Moment(request.manifest, request.policy)
          IN  named = None \/ ~(named < request.begun)
      BY <1>1, <3>1 DEF RequestSound
    <3> QED
      BY <1>1, <2>1, <3>1, <3>2, LatestKeeps
  <2> QED
    BY <1>1, <1>1a, <2>1, RequestStep DEF FallBack
<1>2. CASE ListAligned
  <2>1. ASSUME request' # None PROVE RequestSound(request')
    <3>1. /\ request.phase = "list" /\ request.phase \in Calling /\ request.moment \in Nat
          /\ ListAndChoose(AtOrBefore(refs, request.moment))
          /\ AtOrBefore(refs, request.moment) \in SUBSET refs
      BY <1>1, <1>2 DEF ListAligned, Phase, RequestSound, Calling, AtOrBefore
    <3>2. LET named == Moment(request.manifest, request.policy)
          IN  named # None /\ named < request.begun => named = request.moment
      BY <1>1, <3>1 DEF RequestSound
    <3> QED
      BY <1>1, <2>1, <3>1, <3>2, ListKeeps
  <2> QED
    BY <1>1, <1>2, <2>1, RequestStep DEF ListAligned
<1>3. CASE ReadSnapshot
  <2>1. ASSUME request' # None PROVE RequestSound(request')
    <3>1. request' = [request EXCEPT !.phase = "apply"] /\ request.phase = "read"
      BY <1>3, <2>1 DEF ReadSnapshot, Goto, Deny, Phase
    <3> QED
      BY <1>1, <3>1 DEF RequestSound, Calling
  <2> QED
    BY <1>1, <1>3, <2>1, RequestStep DEF ReadSnapshot
<1>4. CASE ApplyPlan
  <2>1. ASSUME request' # None PROVE RequestSound(request')
    <3> DEFINE r == request
               changes == Changes(Tree[r.chosen.hash], SkipsOf(r.policy), TransformsOf(r.policy))
    <3>1. /\ request' = [request EXCEPT !.phase = "admitted", !.tree = Apply(@, changes),
                                        !.record = RestoreRecord]
          /\ DOMAIN changes # {} /\ r.phase = "apply"
          /\ PlanSucceeds(Tree[r.chosen.hash], SkipsOf(r.policy), TransformsOf(r.policy))
      BY <1>4, <2>1 DEF ApplyPlan, Deny, Phase
    <3> HIDE DEF changes
    <3>2. /\ r.record = None /\ Cleared(r.manifest) /\ r.tree = r.manifest.tree
          /\ r.chosen \in archive /\ InForce(r.manifest, r.policy, r.begun, r.chosen)
          /\ r.policy \in Policies \union {None} /\ r.begun \in Nat /\ r.begun <= now
          /\ Usable(r.policy)
      BY <1>1, <3>1 DEF RequestSound, TreeSound, Calling
    <3>3. r.chosen \in Refs
      BY <1>1, <3>2 DEF ReadsTyped
    <3>4. PICK record : record = RestoreRecord
      OBVIOUS
    <3>5. /\ record \in Records /\ record # None /\ record.key = r.chosen
          /\ record.policy = r.policy /\ record.begun = r.begun
      BY <3>2, <3>4, <3>3, AdmissionAssumption DEF RestoreRecord, Records
    <3>6. RecordSound(r.manifest, record)
      BY <3>2, <3>5 DEF RecordSound
    <3>7. TreeSound(r.manifest, Apply(r.manifest.tree, changes), record)
      BY <3>1, <3>5 DEF TreeSound, changes
    <3>8. /\ request'.phase = "admitted" /\ request'.manifest = r.manifest
          /\ request'.tree = Apply(r.manifest.tree, changes) /\ request'.record = record
          /\ request'.begun = r.begun /\ request'.policy = r.policy
      BY <1>1, <3>1, <3>2, <3>4 DEF RequestSound
    <3>9. request' \in [phase : Calling \union {"handle", "admitted"}, manifest : Manifests,
                        tree : {request'.tree}, record : Records \union {None},
                        policy : Policies \union {None}, chosen : Refs \union {None},
                        moment : Nat, begun : Nat]
      BY <1>1, <3>1, <3>2, <3>4, <3>5 DEF RequestSound
    <3> QED
      BY <3>2, <3>6, <3>7, <3>8, <3>9 DEF RequestSound, Calling
  <2> QED
    BY <1>1, <1>4, <2>1, RequestStep DEF ApplyPlan
<1>5. CASE CallFails
  BY <1>1, <1>5, RequestStep DEF CallFails, Deny
<1> QED
  BY <1>1a, <1>2, <1>3, <1>4, <1>5

(* A step of the Cluster.                                                  *)
LEMMA ClusterKeeps ==
    ASSUME AdmissionInv, Persist \/ PreContinues
    PROVE  AdmissionInv'
<1>1. UNCHANGED <<reads, now, edits, calls>>
  BY DEF Persist, PreContinues
<1>2. ReadsTyped' /\ HistorySound'
  BY <1>1 DEF AdmissionInv, ReadsTyped, HistorySound, reads, KeyLess
<1>3. request' # None => RequestSound(request)'
  BY <1>1, QuietKeeps DEF Persist, PreContinues, AdmissionInv
<1>4. ClusterSound(cluster')
  <2>1. CASE Persist
    <3>1. RequestSound(request)
      BY <2>1 DEF Persist, Phase, AdmissionInv
    <3>2. PICK running \in BOOLEAN : running = FALSE
      BY Zenon
    <3>3. cluster' = [manifest |-> request.manifest, tree |-> request.tree,
                      record |-> request.record, running |-> running]
      BY <2>1, <3>2 DEF Persist
    <3>4. ~cluster'.running
      BY <3>2, <3>3
    <3> QED
      BY <3>1, <3>3, <3>4 DEF RequestSound, ClusterSound
  <2>2. CASE PreContinues
    <3>1. ClusterSound(cluster) /\ (IsRestoreRequested(cluster.manifest) => cluster.record # None)
      BY <2>2 DEF PreContinues, AdmissionInv
    <3>2. PICK running \in BOOLEAN : running = TRUE
      BY Zenon
    <3>3. cluster' = [cluster EXCEPT !.running = running]
      BY <2>2, <3>2 DEF PreContinues
    <3> QED
      BY <3>1, <3>3 DEF ClusterSound
  <2> QED
    BY <2>1, <2>2
<1>5. ClusterSound(cluster)'
  <2>1. PICK c : c = cluster'
    OBVIOUS
  <2>2. ClusterSound(c)'
    BY <1>1, <1>4, <2>1, QuietKeeps
  <2> QED
    BY <2>1, <2>2
<1> QED
  BY <1>2, <1>3, <1>5 DEF AdmissionInv

LEMMA AdmissionInvStep == AdmissionInv /\ [Next]_vars => AdmissionInv'
<1> SUFFICES ASSUME AdmissionInv, [Next]_vars PROVE AdmissionInv'
  OBVIOUS
<1>1. CASE UNCHANGED vars
  BY <1>1, RequestStep DEF vars, AdmissionInv, ReadsTyped
<1> QED
  BY <1>1, EnvironmentKeeps, EntersWebhook, LoadKeeps, SelectKeeps, FinishKeeps, ClusterKeeps
  DEF Next, Call

LEMMA AdmissionInvariant == Spec => []AdmissionInv
BY AdmissionInvInit, AdmissionInvStep, PTL DEF Spec

-----------------------------------------------------------------------------
(* Results.                                                                *)

(* The webhook's request and the Cluster keep their shapes: a request that *)
(* applies a plan has read a snapshot, and a record is a full one.         *)
THEOREM AdmissionTypeOK == Spec => []TypeOK
<1>1. AdmissionInv => TypeOK
  BY DEF AdmissionInv, HistorySound, ReadsTyped, RequestSound, ClusterSound, TypeOK, Calling
<1> QED
  BY <1>1, AdmissionInvariant, PTL

(* A Cluster that asked for a restore runs only with one, and consists of  *)
(* its manifest and one snapshot: Pre refuses it otherwise, and a webhook  *)
(* called again does not restore a second time.                            *)
THEOREM AdmissionRunsRestored == Spec => []RunsRestored
<1>1. AdmissionInv => RunsRestored
  <2> SUFFICES ASSUME AdmissionInv, Running, IsRestoreRequested(cluster.manifest)
               PROVE  RunsRestored
    BY DEF RunsRestored
  <2>1. /\ cluster # None /\ cluster.running /\ cluster.record # None
        /\ TreeSound(cluster.manifest, cluster.tree, cluster.record)
    BY DEF AdmissionInv, Running, ClusterSound
  <2> DEFINE record == cluster.record
             changes == Changes(RestoredTree, SkipsOf(record.policy), TransformsOf(record.policy))
  <2>2. DOMAIN changes # {} /\ cluster.tree = Apply(cluster.manifest.tree, changes)
    BY <2>1 DEF TreeSound, RestoredTree
  <2>3. /\ \E leaf \in DOMAIN cluster.tree : leaf \in DOMAIN RestoredTree /\ ~IsDenied(leaf)
        /\ \A leaf \in DOMAIN cluster.tree :
              \/ leaf \in DOMAIN RestoredTree /\ ~IsDenied(leaf)
              \/ leaf \in DOMAIN cluster.manifest.tree
                 /\ cluster.tree[leaf] = cluster.manifest.tree[leaf]
    BY <2>2, AppliedTree
  <2> QED
    BY <2>1, <2>3 DEF RunsRestored, Restored
<1> QED
  BY <1>1, AdmissionInvariant, PTL

(* A recovering Cluster was restored with a policy whose select stanza has *)
(* no mode: the stored default Latest took the place of the alignment.     *)
AlignmentLost ==
    /\ Restored /\ cluster.manifest.recovery # None
    /\ cluster.record.policy # None /\ cluster.record.policy.stanza = "bare"

(* Recovered data is paired with the configuration in force at the moment  *)
(* it corresponds to, however captures, sweeps, Backups and edits of the   *)
(* policy interleave with the webhook's reads, with one exception: a       *)
(* recovering Cluster whose policy has a select stanza without a mode.     *)
THEOREM AdmissionConfigurationMatchesData ==
    Spec => [](AlignmentLost \/ ConfigurationMatchesData)
<1>1. AdmissionInv => AlignmentLost \/ ConfigurationMatchesData
  <2> SUFFICES ASSUME AdmissionInv, Restored, ~AlignmentLost PROVE ConfigurationMatchesData
    BY DEF ConfigurationMatchesData
  <2>1. Moment(cluster.manifest, cluster.record.policy)
        = NamedMoment(cluster.manifest, cluster.record.policy)
    BY DEF AlignmentLost, Moment, NamedMoment
  <2> QED
    BY <2>1 DEF AdmissionInv, ClusterSound, RecordSound, InForce, ConfigurationMatchesData, Restored
<1> QED
  BY <1>1, AdmissionInvariant, PTL

(* No Cluster runs that archives into the history it restored from: Handle *)
(* refuses it in every call, and Pre whatever was created without a call.  *)
THEOREM AdmissionSourceSpared == Spec => []SourceSpared
<1>1. AdmissionInv => SourceSpared
  <2> SUFFICES ASSUME AdmissionInv, Running, IsRestoreRequested(cluster.manifest)
               PROVE  SourceSpared
    BY DEF SourceSpared
  <2>1. Cleared(cluster.manifest)
    BY DEF AdmissionInv, Running, ClusterSound, RecordSound
  <2> QED
    BY <2>1 DEF Cleared, Validate, SourceIsAlsoDestination, SaveServer, IsRestoreRequested,
       SourceSpared
<1> QED
  BY <1>1, AdmissionInvariant, PTL

(* A field that is an object in one of a manifest and a snapshot is no     *)
(* other value, an empty object included, in the other.                    *)
Aligned ==
    \A m \in Manifests, hash \in Hashes :
        \A own \in DOMAIN m.tree, captured \in DOMAIN Tree[hash] :
            IsPrefix(own, captured) \/ IsPrefix(captured, own) => own = captured

(* Where manifests and snapshots agree on what is an object, the merge     *)
(* never deletes: SetSegments replaces only the leaves the snapshot holds. *)
THEOREM AdmissionManifestSurvives ==
    ASSUME Aligned
    PROVE  Spec => []ManifestSurvives
<1>1. AdmissionInv => ManifestSurvives
  <2> SUFFICES ASSUME AdmissionInv, Restored,
                      NEW leaf \in DOMAIN cluster.manifest.tree, leaf \notin DOMAIN RestoredTree
               PROVE  leaf \in DOMAIN cluster.tree
    BY DEF ManifestSurvives
  <2>1. /\ cluster.record # None /\ cluster.manifest \in Manifests
        /\ cluster.record.key \in archive
        /\ TreeSound(cluster.manifest, cluster.tree, cluster.record)
    BY DEF AdmissionInv, Restored, ClusterSound, RecordSound
  <2>2. cluster.record.key.hash \in Hashes
    BY <2>1 DEF AdmissionInv, HistorySound
  <2> DEFINE record == cluster.record
             changes == Changes(RestoredTree, SkipsOf(record.policy), TransformsOf(record.policy))
  <2>3. cluster.tree = Apply(cluster.manifest.tree, changes)
    BY <2>1 DEF TreeSound, RestoredTree
  <2>4. \A captured \in DOMAIN changes : captured \in DOMAIN RestoredTree
    BY DEF Changes, Restorable
  <2> HIDE DEF changes
  <2>5. leaf \in Survivors(cluster.manifest.tree, changes)
    BY <2>1, <2>2, <2>4 DEF Aligned, Survivors, RestoredTree
  <2> QED
    BY <2>3, <2>5 DEF Apply
<1> QED
  BY <1>1, AdmissionInvariant, PTL

-----------------------------------------------------------------------------
(* Rules are matched as dotted paths, and read by fields and whole keys.   *)

(* No captured map is empty: such a leaf names no key.                     *)
NoEmptyMaps ==
    \A hash \in Hashes : \A leaf \in DOMAIN Tree[hash] : ~NamesMap(Dotted(leaf))

(* Rules that tolerate absence have no wildcard: CheckAllFired takes one   *)
(* literally, and finds nothing.                                           *)
IgnoreIsPlain ==
    \A p \in Policies : \A t \in p.transforms : t.ignoreMissing => Last(t.path) # "*"

LEMMA PrefixMeaning ==
    ASSUME NEW S, NEW s \in Seq(S), NEW t \in Seq(S)
    PROVE  IsPrefix(s, t) <=> Len(s) <= Len(t) /\ \A i \in 1 .. Len(s) : s[i] = t[i]
<1>1. SubSeq(s, 1, Len(s)) = s
  BY SubSeqFull
<1>2. Len(s) \in Nat /\ Len(t) \in Nat
  BY LenProperties
<1>3. ASSUME Len(s) <= Len(t)
      PROVE  (SubSeq(t, 1, Len(s)) = s) <=> \A i \in 1 .. Len(s) : s[i] = t[i]
  <2>1. \A i \in 1 .. Len(s) : t[i] \in S
    BY <1>2, <1>3, ElementOfSeq
  <2>2. /\ SubSeq(t, 1, Len(s)) \in Seq(S)
        /\ Len(SubSeq(t, 1, Len(s))) = Len(s)
        /\ \A i \in 1 .. Len(s) : SubSeq(t, 1, Len(s))[i] = t[i]
    BY <1>2, <2>1, SubSeqProperties
  <2> HIDE DEF IsPrefix
  <2>3. ASSUME \A i \in 1 .. Len(s) : s[i] = t[i] PROVE SubSeq(t, 1, Len(s)) = s
    BY <2>2, <2>3, SeqEqual
  <2> QED
    BY <2>2, <2>3
<1> QED
  BY <1>1, <1>3 DEF IsPrefix

(* What remains of a path after its first words.                           *)
LEMMA RestOfPath ==
    ASSUME NEW path \in Paths, NEW n \in Nat, n <= Len(path)
    PROVE  LET rest == SubSeq(path, n + 1, Len(path))
           IN  /\ rest \in Paths /\ Len(rest) = Len(path) - n
               /\ \A i \in 1 .. Len(path) - n : rest[i] = path[n + i]
<1>1. Len(path) \in Nat
  BY LenProperties DEF Paths
<1>2. \A i \in n + 1 .. Len(path) : path[i] \in STRING
  BY <1>1, ElementOfSeq DEF Paths
<1> DEFINE rest == SubSeq(path, n + 1, Len(path))
<1>3. /\ rest \in Seq(STRING)
      /\ Len(rest) = IF n + 1 <= Len(path) THEN Len(path) - (n + 1) + 1 ELSE 0
      /\ \A i \in 1 .. Len(path) - (n + 1) + 1 : rest[i] = path[(n + 1) + i - 1]
  BY <1>1, <1>2, SubSeqProperties
<1> HIDE DEF rest
<1>4. Len(rest) = Len(path) - n /\ Len(path) - (n + 1) + 1 = Len(path) - n
  BY <1>1, <1>3
<1>5. \A i \in 1 .. Len(path) - n : rest[i] = path[n + i]
  <2> TAKE i \in 1 .. Len(path) - n
  <2>1. (n + 1) + i - 1 = n + i /\ i \in Int
    BY <1>1
  <2> QED
    BY <1>3, <1>4, <2>1
<1> QED
  BY <1>3, <1>4, <1>5 DEF rest, Paths

(* A path that reaches into a map: the map is the only one, and the key is *)
(* the last segment.                                                       *)
KeyReading(map, path) ==
    [i \in 1 .. Len(map) + 1 |->
        IF i <= Len(map) THEN <<map[i]>> ELSE SubSeq(path, Len(map) + 1, Len(path))]

LEMMA MapPrefix ==
    ASSUME NEW path \in Paths, NEW map \in Maps, IsStrictPrefix(map, path)
    PROVE  /\ map \in Paths /\ Len(map) \in Nat /\ Len(path) \in Nat /\ Len(map) < Len(path)
           /\ \A i \in 1 .. Len(map) : map[i] = path[i]
           /\ \A other \in Maps : IsPrefix(other, path) => other = map
<1>1. map \in Paths /\ Len(map) \in Nat /\ Len(path) \in Nat
  BY LenProperties, PathAssumption DEF Paths
<1>2. Len(map) <= Len(path) /\ \A i \in 1 .. Len(map) : map[i] = path[i]
  BY <1>1, PrefixMeaning DEF IsStrictPrefix, Paths
<1>3. Len(map) # Len(path)
  BY <1>1, <1>2, SeqEqual DEF IsStrictPrefix, Paths
<1>4. ASSUME NEW other \in Maps, IsPrefix(other, path) PROVE other = map
  <2>1. other \in Paths /\ Len(other) \in Nat
    BY LenProperties, PathAssumption DEF Paths
  <2>2. Len(other) <= Len(path) /\ \A i \in 1 .. Len(other) : other[i] = path[i]
    BY <1>4, <2>1, PrefixMeaning DEF Paths
  <2>3. CASE Len(other) <= Len(map)
    <3>1. \A i \in 1 .. Len(other) : other[i] = map[i]
      BY <1>1, <1>2, <2>1, <2>2, <2>3
    <3>2. IsPrefix(other, map)
      BY <1>1, <2>1, <2>3, <3>1, PrefixMeaning DEF Paths
    <3> QED
      BY <3>2, PathAssumption DEF IsStrictPrefix
  <2>4. CASE Len(map) <= Len(other)
    <3>1. \A i \in 1 .. Len(map) : map[i] = other[i]
      BY <1>1, <1>2, <2>1, <2>2, <2>4
    <3>2. IsPrefix(map, other)
      BY <1>1, <2>1, <2>4, <3>1, PrefixMeaning DEF Paths
    <3> QED
      BY <3>2, PathAssumption DEF IsStrictPrefix
  <2> QED
    BY <1>1, <2>1, <2>3, <2>4
<1> QED
  BY <1>1, <1>2, <1>3, <1>4

LEMMA ReadingOfKey ==
    ASSUME NEW path \in Paths, NEW map \in Maps, IsStrictPrefix(map, path)
    PROVE  Reading(path) = KeyReading(map, path)
<1> DEFINE m == CHOOSE m \in Maps : IsStrictPrefix(m, path)
<1>1. m \in Maps /\ IsStrictPrefix(m, path)
  OBVIOUS
<1> HIDE DEF m
<1>2. m = map
  BY <1>1, MapPrefix DEF IsStrictPrefix
<1>3. NamesKey(path)
  BY DEF NamesKey
<1>4. Reading(path) = KeyReading(m, path)
  BY <1>3 DEF Reading, KeyReading, m
<1> QED
  BY <1>2, <1>4

LEMMA KeyReadingShape ==
    ASSUME NEW path \in Paths, NEW map \in Maps, IsStrictPrefix(map, path)
    PROVE  /\ KeyReading(map, path) \in Seq(Paths)
           /\ Len(KeyReading(map, path)) = Len(map) + 1
           /\ \A i \in 1 .. Len(map) : KeyReading(map, path)[i] = <<path[i]>>
           /\ KeyReading(map, path)[Len(map) + 1] = SubSeq(path, Len(map) + 1, Len(path))
<1>1. /\ map \in Paths /\ Len(map) \in Nat /\ Len(path) \in Nat /\ Len(map) < Len(path)
      /\ \A i \in 1 .. Len(map) : map[i] = path[i]
  BY MapPrefix
<1>2. SubSeq(path, Len(map) + 1, Len(path)) \in Paths
  BY <1>1, RestOfPath
<1>3. \A i \in 1 .. Len(map) : <<map[i]>> \in Paths
  BY <1>1, ElementOfSeq DEF Paths
<1> DEFINE segment(i) == IF i <= Len(map) THEN <<map[i]>> ELSE SubSeq(path, Len(map) + 1, Len(path))
<1>4. \A i \in 1 .. Len(map) + 1 : segment(i) \in Paths
  <2>1. \A i \in 1 .. Len(map) + 1 : i <= Len(map) => i \in 1 .. Len(map)
    BY <1>1
  <2> QED
    BY <1>2, <1>3, <2>1
<1>5. /\ KeyReading(map, path) = [i \in 1 .. Len(map) + 1 |-> segment(i)]
      /\ Len(map) + 1 \in Nat
  BY <1>1 DEF KeyReading
<1> HIDE DEF segment
<1>6. KeyReading(map, path) \in [1 .. Len(map) + 1 -> Paths]
  BY <1>4, <1>5
<1>7. KeyReading(map, path) \in Seq(Paths) /\ Len(KeyReading(map, path)) = Len(map) + 1
  BY <1>5, <1>6
<1>8. \A i \in 1 .. Len(map) : KeyReading(map, path)[i] = <<path[i]>>
  BY <1>1, <1>5 DEF segment
<1>9. KeyReading(map, path)[Len(map) + 1] = SubSeq(path, Len(map) + 1, Len(path))
  BY <1>1, <1>5 DEF segment
<1> QED
  BY <1>7, <1>8, <1>9

LEMMA FieldReadingShape ==
    ASSUME NEW path \in Paths, ~NamesKey(path)
    PROVE  /\ Reading(path) \in Seq(Paths) /\ Len(Reading(path)) = Len(path)
           /\ \A i \in 1 .. Len(path) : Reading(path)[i] = <<path[i]>>
<1>1. Len(path) \in Nat /\ \A i \in 1 .. Len(path) : path[i] \in STRING
  BY LenProperties, ElementOfSeq DEF Paths
<1>2. Reading(path) = [i \in 1 .. Len(path) |-> <<path[i]>>]
  BY DEF Reading
<1>3. Reading(path) \in [1 .. Len(path) -> Paths]
  BY <1>1, <1>2 DEF Paths
<1> QED
  BY <1>1, <1>2, <1>3

LEMMA OneWord == \A v, w : (<<v>> = <<w>>) <=> (v = w)
OBVIOUS

(* A path of fields covers what continues it word by word, and one that    *)
(* reaches into a map only the very key it names.                          *)
LEMMA ReadingPrefix ==
    ASSUME NEW path \in Paths, NEW d \in Paths
    PROVE  IsPrefix(Reading(path), Reading(d))
           <=> IF NamesKey(path) THEN d = path ELSE IsPrefix(path, d)
<1>0. Len(path) \in Nat /\ Len(d) \in Nat
  BY LenProperties DEF Paths
<1>1. CASE ~NamesKey(path) /\ ~NamesKey(d)
  <2>1. /\ Reading(path) \in Seq(Paths) /\ Len(Reading(path)) = Len(path)
        /\ \A i \in 1 .. Len(path) : Reading(path)[i] = <<path[i]>>
        /\ Reading(d) \in Seq(Paths) /\ Len(Reading(d)) = Len(d)
        /\ \A i \in 1 .. Len(d) : Reading(d)[i] = <<d[i]>>
    BY <1>1, FieldReadingShape
  <2>2. IsPrefix(Reading(path), Reading(d))
        <=> Len(path) <= Len(d) /\ \A i \in 1 .. Len(path) : Reading(path)[i] = Reading(d)[i]
    BY <2>1, PrefixMeaning
  <2>3. IsPrefix(path, d) <=> Len(path) <= Len(d) /\ \A i \in 1 .. Len(path) : path[i] = d[i]
    BY PrefixMeaning DEF Paths
  <2>4. Len(path) <= Len(d) => \A i \in 1 .. Len(path) :
           (Reading(path)[i] = Reading(d)[i]) <=> (path[i] = d[i])
    <3> SUFFICES ASSUME Len(path) <= Len(d), NEW i \in 1 .. Len(path)
                 PROVE  (Reading(path)[i] = Reading(d)[i]) <=> (path[i] = d[i])
      OBVIOUS
    <3>1. i \in 1 .. Len(d)
      BY <1>0
    <3> QED
      BY <2>1, <3>1, OneWord
  <2> QED
    BY <1>1, <2>2, <2>3, <2>4
<1>2. ASSUME ~NamesKey(path), NEW map \in Maps, IsStrictPrefix(map, d)
      PROVE  IsPrefix(Reading(path), Reading(d)) <=> IsPrefix(path, d)
  <2>1. /\ Len(map) \in Nat /\ Len(map) < Len(d) /\ map \in Paths
        /\ \A i \in 1 .. Len(map) : map[i] = d[i]
    BY <1>2, MapPrefix
  <2>2. /\ Reading(path) \in Seq(Paths) /\ Len(Reading(path)) = Len(path)
        /\ \A i \in 1 .. Len(path) : Reading(path)[i] = <<path[i]>>
    BY <1>2, FieldReadingShape
  <2>3. /\ Reading(d) \in Seq(Paths) /\ Len(Reading(d)) = Len(map) + 1
        /\ \A i \in 1 .. Len(map) : Reading(d)[i] = <<d[i]>>
    BY <1>2, ReadingOfKey, KeyReadingShape
  <2>4. IsPrefix(Reading(path), Reading(d))
        <=> /\ Len(path) <= Len(map) + 1
            /\ \A i \in 1 .. Len(path) : Reading(path)[i] = Reading(d)[i]
    BY <2>2, <2>3, PrefixMeaning
  <2>5. IsPrefix(path, d) <=> Len(path) <= Len(d) /\ \A i \in 1 .. Len(path) : path[i] = d[i]
    BY PrefixMeaning DEF Paths
  <2>6. ASSUME Len(map) < Len(path), \A i \in 1 .. Len(map) : path[i] = d[i] PROVE FALSE
    <3>1. IsPrefix(map, path)
      BY <1>0, <2>1, <2>6, PrefixMeaning DEF Paths
    <3>2. map # path
      BY <1>0, <2>1, <2>6
    <3> QED
      BY <1>2, <3>1, <3>2 DEF NamesKey, IsStrictPrefix
  <2>7. \A i \in 1 .. Len(path) : i \in 1 .. Len(map) =>
           ((Reading(path)[i] = Reading(d)[i]) <=> (path[i] = d[i]))
    BY <2>2, <2>3, OneWord
  <2>8. ASSUME \A i \in 1 .. Len(path) : i \in 1 .. Len(map) => path[i] = d[i]
        PROVE  Len(path) <= Len(map)
    BY <1>0, <2>1, <2>6, <2>8
  <2>9. Len(path) <= Len(map) => \A i \in 1 .. Len(path) : i \in 1 .. Len(map)
    BY <1>0, <2>1
  <2>10. ASSUME IsPrefix(Reading(path), Reading(d)) PROVE IsPrefix(path, d)
    <3>1. Len(path) <= Len(map)
      BY <2>4, <2>7, <2>8, <2>10
    <3> QED
      BY <1>0, <2>1, <2>4, <2>5, <2>7, <2>9, <2>10, <3>1
  <2>11. ASSUME IsPrefix(path, d) PROVE IsPrefix(Reading(path), Reading(d))
    <3>1. Len(path) <= Len(map)
      BY <2>5, <2>8, <2>11
    <3>2. Len(path) <= Len(map) + 1
      BY <1>0, <2>1, <3>1
    <3> QED
      BY <2>4, <2>5, <2>7, <2>9, <2>11, <3>1, <3>2
  <2> QED
    BY <2>10, <2>11
<1>3. ASSUME NEW map \in Maps, IsStrictPrefix(map, path)
      PROVE  IsPrefix(Reading(path), Reading(d)) <=> d = path
  <2>1. /\ Len(map) \in Nat /\ Len(map) < Len(path) /\ map \in Paths
        /\ \A i \in 1 .. Len(map) : map[i] = path[i]
    BY <1>3, MapPrefix
  <2>2. /\ Reading(path) \in Seq(Paths) /\ Len(Reading(path)) = Len(map) + 1
        /\ \A i \in 1 .. Len(map) : Reading(path)[i] = <<path[i]>>
        /\ Reading(path)[Len(map) + 1] = SubSeq(path, Len(map) + 1, Len(path))
    BY <1>3, ReadingOfKey, KeyReadingShape
  <2>3. d = path => IsPrefix(Reading(path), Reading(d))
    BY <2>1, <2>2, PrefixMeaning
  <2>4. ASSUME IsPrefix(Reading(path), Reading(d)), ~NamesKey(d) PROVE FALSE
    <3>1. /\ Reading(d) \in Seq(Paths) /\ Len(Reading(d)) = Len(d)
          /\ \A i \in 1 .. Len(d) : Reading(d)[i] = <<d[i]>>
      BY <2>4, FieldReadingShape
    <3>2. Len(map) + 1 <= Len(d) /\ \A i \in 1 .. Len(map) + 1 : Reading(path)[i] = Reading(d)[i]
      BY <2>2, <2>4, <3>1, PrefixMeaning
    <3>3. \A i \in 1 .. Len(map) : map[i] = d[i]
      BY <1>0, <2>1, <2>2, <3>1, <3>2
    <3>4. IsPrefix(map, d) /\ map # d
      BY <1>0, <2>1, <3>2, <3>3, PrefixMeaning DEF Paths
    <3> QED
      BY <2>4, <3>4 DEF NamesKey, IsStrictPrefix
  <2>5. ASSUME IsPrefix(Reading(path), Reading(d)), NEW other \in Maps, IsStrictPrefix(other, d)
        PROVE  d = path
    <3>1. /\ Len(other) \in Nat /\ Len(other) < Len(d) /\ other \in Paths
          /\ \A i \in 1 .. Len(other) : other[i] = d[i]
      BY <2>5, MapPrefix
    <3>2. /\ Reading(d) \in Seq(Paths) /\ Len(Reading(d)) = Len(other) + 1
          /\ \A i \in 1 .. Len(other) : Reading(d)[i] = <<d[i]>>
          /\ Reading(d)[Len(other) + 1] = SubSeq(d, Len(other) + 1, Len(d))
      BY <2>5, ReadingOfKey, KeyReadingShape
    <3>3. /\ Len(map) + 1 <= Len(other) + 1
          /\ \A i \in 1 .. Len(map) + 1 : Reading(path)[i] = Reading(d)[i]
      BY <2>2, <2>5, <3>2, PrefixMeaning
    <3>4. Len(map) <= Len(other) /\ \A i \in 1 .. Len(map) : path[i] = d[i]
      <4>1. Len(map) <= Len(other)
        BY <2>1, <3>1, <3>3
      <4>2. ASSUME NEW i \in 1 .. Len(map) PROVE path[i] = d[i]
        <5>1. i \in 1 .. Len(map) + 1 /\ i \in 1 .. Len(other)
          BY <2>1, <3>1, <4>1
        <5> QED
          BY <2>2, <3>2, <3>3, <5>1, OneWord
      <4> QED
        BY <4>1, <4>2
    <3>5. IsPrefix(map, d)
      <4>1. Len(map) <= Len(d) /\ \A i \in 1 .. Len(map) : map[i] = d[i]
        BY <1>0, <2>1, <3>1, <3>4
      <4> QED
        BY <2>1, <4>1, PrefixMeaning DEF Paths
    <3>6. map = other
      BY <2>5, <3>5, MapPrefix
    <3> DEFINE n == Len(map)
               k == SubSeq(path, n + 1, Len(path))
               l == SubSeq(d, n + 1, Len(d))
    <3>7. k = l
      <4>1. Len(map) + 1 \in 1 .. Len(map) + 1
        BY <2>1
      <4>2. Reading(path)[Len(map) + 1] = Reading(d)[Len(map) + 1]
        BY <3>3, <4>1
      <4> QED
        BY <2>2, <3>2, <3>6, <4>2
    <3>8. /\ Len(k) = Len(path) - n /\ \A i \in 1 .. Len(path) - n : k[i] = path[n + i]
          /\ Len(l) = Len(d) - n /\ \A i \in 1 .. Len(d) - n : l[i] = d[n + i]
      BY <1>0, <2>1, <3>1, <3>6, RestOfPath
    <3>9. n \in Nat
      BY <2>1
    <3> HIDE DEF n, k, l
    <3>10. Len(path) = Len(d)
      BY <1>0, <3>7, <3>8, <3>9
    <3>11. ASSUME NEW i \in 1 .. Len(path) PROVE d[i] = path[i]
      <4>1. CASE i <= n
        BY <1>0, <3>4, <3>9, <4>1 DEF n
      <4>2. CASE n < i
        <5>1. i - n \in 1 .. Len(path) - n /\ n + (i - n) = i
          BY <1>0, <3>9, <4>2
        <5> QED
          BY <3>7, <3>8, <3>10, <5>1
      <4> QED
        BY <1>0, <3>9, <4>1, <4>2
    <3> QED
      BY <3>10, <3>11, SeqEqual DEF Paths
  <2> QED
    BY <2>3, <2>4, <2>5 DEF NamesKey
<1> QED
  BY <1>1, <1>2, <1>3 DEF NamesKey

LEMMA TrimmedPath ==
    ASSUME NEW path \in Paths, path # <<>> PROVE TrimWildcard(path) \in Paths
<1>1. Len(path) \in Nat \ {0}
  BY EmptySeq DEF Paths
<1>2. \A i \in 1 .. Len(path) - 1 : path[i] \in STRING
  BY <1>1, ElementOfSeq DEF Paths
<1>3. Front(path) \in Paths
  BY <1>1, <1>2, SubSeqProperties DEF Front, Paths
<1> QED
  BY <1>3 DEF TrimWildcard

(* A leaf as captures have them.                                           *)
LeafShaped(leaf) ==
    /\ Dotted(leaf) \in Paths /\ Dotted(leaf) # <<>> /\ Last(Dotted(leaf)) # "*"
    /\ leaf = Reading(Dotted(leaf))

LEMMA CoversMeaning ==
    ASSUME NEW path \in Paths, path # <<>>, NEW leaf, LeafShaped(leaf)
    PROVE  Covers(path, leaf) <=> IF NamesKey(TrimWildcard(path)) THEN Dotted(leaf) = TrimWildcard(path)
                                  ELSE IsPrefix(TrimWildcard(path), Dotted(leaf))
<1>1. PICK top \in Paths : top = TrimWildcard(path)
  BY TrimmedPath
<1>2. PICK d \in Paths : d = Dotted(leaf) /\ leaf = Reading(d)
  BY DEF LeafShaped
<1>3. Covers(path, leaf) <=> IsPrefix(Reading(top), Reading(d))
  BY <1>1, <1>2 DEF Covers
<1> QED
  BY <1>1, <1>2, <1>3, ReadingPrefix

(* Whether a rule is matched by dotted paths or read by whole keys makes   *)
(* no difference.                                                          *)
LEMMA MatchesAsRead ==
    ASSUME NEW rule, SkipRuleUsable(rule),
           rule.path # None => rule.path \in Paths /\ rule.path # <<>>,
           NEW leaf, LeafShaped(leaf), ~NamesMap(Dotted(leaf))
    PROVE  Matches(rule, Dotted(leaf)) <=> RuleCovers(rule, leaf)
<1>1. PICK d \in Paths : d = Dotted(leaf) /\ leaf = Reading(d) /\ ~NamesMap(d)
  BY DEF LeafShaped
<1>2. CASE rule.group # None
  <2>1. rule.path = None /\ rule.group \in DOMAIN Groups
    BY <1>2 DEF SkipRuleUsable
  <2>2. ASSUME NEW top \in GroupPaths(rule.group) PROVE Covers(top, leaf) <=> IsPrefix(top, d)
    <3>1. top \in Paths /\ top # <<>> /\ TrimWildcard(top) = top /\ ~NamesKey(top)
      BY <2>1, PathAssumption DEF TrimWildcard
    <3> QED
      BY <1>1, <3>1, CoversMeaning
  <2> QED
    BY <1>1, <1>2, <2>1, <2>2 DEF Matches, RuleCovers, Within
<1>3. CASE rule.group = None
  <2>1. /\ rule.path # None /\ rule.path \in Paths /\ rule.path # <<>>
        /\ rule.keys # None => NamesMap(TrimWildcard(rule.path))
    BY <1>3 DEF SkipRuleUsable
  <2>2. PICK top \in Paths : top = TrimWildcard(rule.path)
    BY <2>1, TrimmedPath
  <2>3. Covers(rule.path, leaf) <=> IF NamesKey(top) THEN d = top ELSE IsPrefix(top, d)
    BY <1>1, <2>1, <2>2, CoversMeaning
  <2>4. CASE rule.keys = None
    BY <1>1, <1>3, <2>1, <2>2, <2>3, <2>4 DEF Matches, RuleCovers, Within
  <2>5. CASE rule.keys # None
    <3>1. top \in Maps
      BY <2>1, <2>2, <2>5 DEF NamesMap
    <3>2. ~NamesKey(top)
      BY <3>1, PathAssumption DEF NamesKey
    <3>3. ASSUME IsPrefix(top, d) PROVE Last(leaf) = SubSeq(d, Len(top) + 1, Len(d))
      <4>1. IsStrictPrefix(top, d)
        BY <1>1, <3>1, <3>3 DEF NamesMap, IsStrictPrefix
      <4> QED
        BY <1>1, <3>1, <4>1, ReadingOfKey, KeyReadingShape DEF Last
    <3> QED
      BY <1>1, <1>3, <2>1, <2>2, <2>3, <2>5, <3>2, <3>3 DEF Matches, RuleCovers, Within
  <2> QED
    BY <2>4, <2>5
<1> QED
  BY <1>2, <1>3

-----------------------------------------------------------------------------

(* What is known of a restored Cluster.                                    *)
LEMMA RestoredFacts ==
    ASSUME AdmissionInv, Restored
    PROVE  LET p == cluster.record.policy
               changes == Changes(RestoredTree, SkipsOf(p), TransformsOf(p))
           IN  /\ p \in Policies \union {None} /\ cluster.record.key.hash \in Hashes
               /\ CompileRules(SkipsOf(p), TransformsOf(p))
               /\ PlanSucceeds(RestoredTree, SkipsOf(p), TransformsOf(p))
               /\ cluster.tree = Apply(cluster.manifest.tree, changes)
               /\ \A rule \in SkipsOf(p) :
                     rule.path # None => rule.path \in Paths /\ rule.path # <<>>
               /\ \A t \in TransformsOf(p) : t.path \in Paths /\ t.path # <<>>
               /\ \A leaf \in DOMAIN RestoredTree :
                     /\ LeafShaped(leaf)
                     /\ \A other \in DOMAIN RestoredTree : ~IsStrictPrefix(other, leaf)
<1>1. /\ cluster.record # None /\ cluster.record \in Records
      /\ cluster.record.key \in archive /\ Usable(cluster.record.policy)
      /\ TreeSound(cluster.manifest, cluster.tree, cluster.record)
  BY DEF AdmissionInv, Restored, ClusterSound, RecordSound
<1>2. cluster.record.key.hash \in Hashes
  BY <1>1 DEF AdmissionInv, HistorySound
<1>3. PICK p : p = cluster.record.policy
  OBVIOUS
<1>4. p \in Policies \union {None}
  BY <1>1, <1>3 DEF Records
<1>5. /\ CompileRules(SkipsOf(p), TransformsOf(p))
      /\ PlanSucceeds(RestoredTree, SkipsOf(p), TransformsOf(p))
      /\ cluster.tree = Apply(cluster.manifest.tree,
                              Changes(RestoredTree, SkipsOf(p), TransformsOf(p)))
  BY <1>1, <1>3 DEF Usable, TreeSound, RestoredTree
<1>6. /\ \A rule \in SkipsOf(p) : rule.path # None => rule.path \in Paths /\ rule.path # <<>>
      /\ \A t \in TransformsOf(p) : t.path \in Paths /\ t.path # <<>>
  BY <1>4, CapturedAssumption DEF SkipsOf, TransformsOf
<1>7. \A leaf \in DOMAIN RestoredTree :
         /\ LeafShaped(leaf)
         /\ \A other \in DOMAIN RestoredTree : ~IsStrictPrefix(other, leaf)
  BY <1>2, CapturedAssumption DEF Hashes, LeafShaped, RestoredTree
<1> QED
  BY <1>2, <1>3, <1>4, <1>5, <1>6, <1>7

(* Skip rules, although matched as dotted strings, keep exactly the        *)
(* captured values out that they cover by fields and whole keys: the       *)
(* exact match of a rule that names a key makes up for the dots in keys.   *)
THEOREM AdmissionSkipsAsWritten ==
    ASSUME NoEmptyMaps PROVE Spec => []SkipsAsWritten
<1>1. AdmissionInv => SkipsAsWritten
  <2> SUFFICES ASSUME AdmissionInv, Restored, NEW leaf \in DOMAIN RestoredTree
               PROVE  IF \E rule \in SkipsOf(cluster.record.policy) : RuleCovers(rule, leaf)
                      THEN \/ leaf \notin DOMAIN cluster.tree
                           \/ leaf \in DOMAIN cluster.manifest.tree
                              /\ cluster.tree[leaf] = cluster.manifest.tree[leaf]
                      ELSE IsDenied(leaf) \/ leaf \in DOMAIN cluster.tree
    BY DEF SkipsAsWritten
  <2> DEFINE p == cluster.record.policy
             changes == Changes(RestoredTree, SkipsOf(p), TransformsOf(p))
  <2>1. /\ CompileRules(SkipsOf(p), TransformsOf(p)) /\ LeafShaped(leaf)
        /\ cluster.tree = Apply(cluster.manifest.tree, changes)
        /\ \A rule \in SkipsOf(p) : rule.path # None => rule.path \in Paths /\ rule.path # <<>>
        /\ ~NamesMap(Dotted(leaf))
    BY RestoredFacts DEF NoEmptyMaps, RestoredTree
  <2>2. \A rule \in SkipsOf(p) : Matches(rule, Dotted(leaf)) <=> RuleCovers(rule, leaf)
    BY <2>1, MatchesAsRead DEF CompileRules
  <2>3. leaf \in DOMAIN changes
        <=> ~IsDenied(leaf) /\ ~\E rule \in SkipsOf(p) : RuleCovers(rule, leaf)
    BY <2>2 DEF Changes, Restorable, Skips
  <2> HIDE DEF changes, p
  <2>4. /\ leaf \in DOMAIN changes => leaf \in DOMAIN cluster.tree
        /\ leaf \in DOMAIN cluster.tree /\ leaf \notin DOMAIN changes
           => /\ leaf \in DOMAIN cluster.manifest.tree
              /\ cluster.tree[leaf] = cluster.manifest.tree[leaf]
    BY <2>1 DEF Apply, Survivors
  <2> QED
    BY <2>3, <2>4 DEF p
<1> QED
  BY <1>1, AdmissionInvariant, PTL

(* A transform is never lost: a value at or beneath its path is the result *)
(* of the expression, since CheckAllFired refuses a path that only         *)
(* contains captured values, whether or not the rule tolerates absence.    *)
THEOREM AdmissionTransformsBind ==
    ASSUME IgnoreIsPlain PROVE Spec => []TransformsBind
<1>1. AdmissionInv => TransformsBind
  <2> SUFFICES ASSUME AdmissionInv, Restored,
                      NEW t \in TransformsOf(cluster.record.policy),
                      NEW leaf \in DOMAIN cluster.tree, Covers(t.path, leaf),
                      leaf \in Restorable(RestoredTree, SkipsOf(cluster.record.policy))
               PROVE  cluster.tree[leaf] = Evaluate(t.expression, leaf, RestoredTree[leaf])
    BY DEF TransformsBind
  <2> DEFINE p == cluster.record.policy
             changes == Changes(RestoredTree, SkipsOf(p), TransformsOf(p))
  <2>1. /\ p \in Policies \union {None}
        /\ TransformsUsable(TransformsOf(p))
        /\ CheckAllFired(RestoredTree, SkipsOf(p), TransformsOf(p))
        /\ cluster.tree = Apply(cluster.manifest.tree, changes)
        /\ t.path \in Paths /\ t.path # <<>>
    BY RestoredFacts DEF CompileRules, PlanSucceeds
  <2>2. ASSUME NEW other \in DOMAIN RestoredTree
        PROVE  LeafShaped(other) /\ ~IsStrictPrefix(other, leaf)
    BY RestoredFacts DEF Restorable
  <2>3. leaf \in DOMAIN RestoredTree /\ LeafShaped(leaf)
    BY <2>2 DEF Restorable
  <2>4. IF NamesKey(TrimWildcard(t.path)) THEN Dotted(leaf) = TrimWildcard(t.path)
        ELSE IsPrefix(TrimWildcard(t.path), Dotted(leaf))
    BY <2>1, <2>3, CoversMeaning
  <2>5. \/ \E other \in DOMAIN RestoredTree : Dotted(other) = t.path
        \/ t.ignoreMissing /\ ~IsStrictPrefix(t.path, Dotted(leaf))
    BY <2>1, <2>3 DEF CheckAllFired, Fired, Restorable
  <2>6. Last(t.path) # "*"
    <3>1. ASSUME NEW other \in DOMAIN RestoredTree, Dotted(other) = t.path
          PROVE  Last(t.path) # "*"
      BY <2>2, <3>1 DEF LeafShaped
    <3>2. t.ignoreMissing => Last(t.path) # "*"
      BY <2>1 DEF IgnoreIsPlain, TransformsOf
    <3> QED
      BY <2>5, <3>1, <3>2
  <2>7. TrimWildcard(t.path) = t.path
    BY <2>6 DEF TrimWildcard
  <2>8. Dotted(leaf) = t.path
    <3> SUFFICES ASSUME Dotted(leaf) # t.path PROVE FALSE
      OBVIOUS
    <3>1. ~NamesKey(t.path) /\ IsPrefix(t.path, Dotted(leaf))
      BY <2>4, <2>7
    <3>2. PICK other \in DOMAIN RestoredTree : Dotted(other) = t.path
      BY <2>5, <3>1 DEF IsStrictPrefix
    <3>3. other = Reading(t.path) /\ leaf = Reading(Dotted(leaf)) /\ Dotted(leaf) \in Paths
      BY <2>2, <2>3, <3>2 DEF LeafShaped
    <3>4. IsPrefix(other, leaf)
      BY <2>1, <3>1, <3>3, ReadingPrefix
    <3>5. other # leaf
      BY <3>2
    <3> QED
      BY <2>2, <3>4, <3>5 DEF IsStrictPrefix
  <2>9. (CHOOSE u \in TransformsOf(p) : u.path = Dotted(leaf)) = t
    BY <2>1, <2>8 DEF TransformsUsable
  <2>10. leaf \in DOMAIN changes /\ changes[leaf] = Transformed(RestoredTree, leaf, TransformsOf(p))
    BY DEF Changes
  <2>11. Transformed(RestoredTree, leaf, TransformsOf(p))
         = Evaluate(t.expression, leaf, RestoredTree[leaf])
    BY <2>8, <2>9 DEF Transformed
  <2> HIDE DEF changes, p
  <2>12. cluster.tree[leaf] = changes[leaf]
    BY <2>1, <2>10 DEF Apply
  <2> QED
    BY <2>10, <2>11, <2>12
<1> QED
  BY <1>1, AdmissionInvariant, PTL
=============================================================================
