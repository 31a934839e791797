------------------------------- MODULE Capture -------------------------------
(***************************************************************************)
(* Capture of one Cluster's configuration.                                 *)
(*                                                                         *)
(* CloudNativePG calls the plugin's Post hook at the end of every          *)
(* reconcile and SetStatusInCluster on its own schedule                    *)
(* (internal/cnpgi/operator/reconciler.go, status.go).  Post decides from  *)
(* the watermark on the Cluster and from an in-memory cache whether the    *)
(* state it was handed is already archived, and otherwise writes an        *)
(* immutable snapshot object and then the latest.json pointer              *)
(* (internal/store/snapshots.go).  Users edit the Cluster and the          *)
(* ConfigStore meanwhile, requests fail with or without effect, and        *)
(* plugin pods restart.                                                    *)
(*                                                                         *)
(* A hook is handed one copy of the Cluster, so everything Post decides    *)
(* before its first request to the object store is one step.  A hook that  *)
(* returns early changes nothing, so it is no step at all: PostBegin's     *)
(* guard is the conjunction of the early returns' negations.  The hooks    *)
(* have one caller, the leader-elected operator, which reconciles one      *)
(* Cluster at a time: a hook starts when no other is running.              *)
(***************************************************************************)
EXTENDS SnapshotHistory

CONSTANTS
    Stores,         \* names of ConfigStores in the namespace
    Servers,        \* values of saveToServer
    Dests,          \* object store destinations (bucket, path and prefix)
    Replicas,       \* plugin pods; two coexist during a rolling update
    Specs,          \* captured parts of a Cluster spec
    Metas,          \* captured labels and annotations
    Rules,          \* capture groups with the digest of their rules
    MetadataRules,  \* the rules that include the Metadata group
    Hash,           \* the short content hash in a key
    NoMeta,         \* metadata of a snapshot captured without that group
    None            \* no store, no watermark, no entry, no snapshot

CONSTANTS
    MaxGeneration,  \* bound on metadata.generation
    MaxTime,        \* bound on the clock
    MaxEdits,       \* bound on the edits that leave the generation alone
    MaxFaults,      \* bound on failed requests, restarts and cache drops
    AllowRevert,    \* may metadata or rules return to a value they had
                    \* earlier in the same generation?
    AllowRedirect   \* may the destination of the ConfigStore in use be edited?

Content == [spec : Specs, meta : Metas \union {NoMeta}]

Snapshots == [at : Nat, gen : Nat, content : Content, rules : Rules]

ASSUME CaptureAssumption ==
    /\ MetadataRules \subseteq Rules
    /\ NoMeta \notin Metas
    /\ None \notin Stores /\ None \notin Snapshots
    /\ Hash \in [Content -> Nat]
    /\ \A c, d \in Content : Hash[c] = Hash[d] => c = d
    /\ MaxGeneration \in Nat \ {0} /\ MaxTime \in Nat
    /\ MaxEdits \in Nat /\ MaxFaults \in Nat
    /\ AllowRevert \in BOOLEAN /\ AllowRedirect \in BOOLEAN

VARIABLES
    cluster,    \* the Cluster as stored in the API server
    watermark,  \* this plugin's entry in its status.pluginStatus
    stores,     \* the ConfigStores
    objects,    \* snapshot objects, by history
    latest,     \* latest.json, by history
    settled,    \* the settledCache of every replica: its entry for this UID
    job,        \* the Post call in progress, if any
    now,        \* wall clock, in seconds
    edits,      \* edits made so far that left the generation alone
    faults,     \* faults so far
    past        \* fingerprints this generation has had

envVars == <<now, edits, faults>>
vars == <<cluster, watermark, stores, objects, latest, settled, job, past, envVars>>

-----------------------------------------------------------------------------
(* Values.                                                                 *)

Histories == Dests \X Servers

Kept(meta, rules) == IF rules \in MetadataRules THEN meta ELSE NoMeta

(* Mutant: a fingerprint that leaves the capture rules out.                *)
FingerprintWithoutRules(meta, rules) ==
    [meta |-> Kept(meta, rules), rules |-> CHOOSE r \in Rules : TRUE]

(* MetadataFingerprint: metadata counts only when its group is captured.   *)
Fingerprint(meta, rules) == [meta |-> Kept(meta, rules), rules |-> rules]

Fingerprints == [meta : Metas \union {NoMeta}, rules : Rules]

(* Mutant: a key without the content hash.                                 *)
KeyWithoutHash(s) == [at |-> s.at, gen |-> s.gen, hash |-> 0]

(* Layout.SnapshotKey: a function of the snapshot's own fields.            *)
SnapshotKey(s) == [at |-> s.at, gen |-> s.gen, hash |-> Hash[s.content]]

(* The fingerprint SetStatusInCluster recomputes from a snapshot.          *)
SnapshotFingerprint(s) == Fingerprint(s.content.meta, s.rules)

SameCapture(s, t) == s.content = t.content /\ s.rules = t.rules

(* Backend.Put of a snapshot object: an object under the same key goes.    *)
PutObject(objs, s) == {o \in objs : SnapshotKey(o) # SnapshotKey(s)} \union {s}

(* SnapshotStore.Latest: the pointer, or the last key listed without one.  *)
Latest(h) ==
    IF latest[h] # None \/ objects[h] = {}
    THEN latest[h]
    ELSE LET newest == Newest({SnapshotKey(o) : o \in objects[h]})
         IN  CHOOSE o \in objects[h] : SnapshotKey(o) = newest

-----------------------------------------------------------------------------
(* The Cluster a hook would be handed now.                                 *)

SaveEnabled == cluster.store # None

StoreExists == SaveEnabled /\ stores[cluster.store].present

LiveRules == stores[cluster.store].rules

LiveFingerprint == Fingerprint(cluster.meta, LiveRules)

LiveHistory == <<stores[cluster.store].dest, cluster.server>>

(* snapshot.Extract                                                        *)
Extract ==
    [at      |-> now,
     gen     |-> cluster.gen,
     content |-> [spec |-> cluster.spec, meta |-> Kept(cluster.meta, LiveRules)],
     rules   |-> LiveRules]

(* Mutant: generation alone decides, so label edits are missed.            *)
HitByGeneration == watermark # None /\ watermark.gen = cluster.gen

(* Mutant: metadata alone decides, so spec and parameter edits are missed. *)
HitByFingerprint == watermark # None /\ watermark.fp = LiveFingerprint

(* Post's fast path: the watermark shows this generation and metadata.     *)
WatermarkHit ==
    /\ watermark # None
    /\ watermark.gen = cluster.gen
    /\ watermark.fp = LiveFingerprint

(* Mutant: a cache entry that ignores the generation.                      *)
SettledByFingerprint(p) == settled[p] # None /\ settled[p].fp = LiveFingerprint

(* Mutant: a cache entry that ignores the metadata.                        *)
SettledByGeneration(p) == settled[p] # None /\ settled[p].gen = cluster.gen

(* settledCache.settled                                                    *)
SettledHit(p) ==
    /\ settled[p] # None
    /\ settled[p].gen = cluster.gen
    /\ settled[p].fp = LiveFingerprint

(* settledCache.remember, for the Cluster the job was handed.              *)
Remember(key) ==
    settled' = [settled EXCEPT ![job.replica] =
                    [gen |-> job.snap.gen, fp |-> job.fp, key |-> key]]

-----------------------------------------------------------------------------

Init ==
    /\ cluster \in [gen : {1}, spec : Specs, meta : Metas,
                    store : Stores, server : Servers]
    /\ watermark = None
    /\ stores \in [Stores -> [present : BOOLEAN, dest : Dests, rules : Rules]]
    /\ objects = [h \in Histories |-> {}]
    /\ latest = [h \in Histories |-> None]
    /\ settled = [p \in Replicas |-> None]
    /\ job = None
    /\ now = 0 /\ edits = 0 /\ faults = 0
    /\ past = {LiveFingerprint}

-----------------------------------------------------------------------------
(* Users.                                                                  *)

(* An update that touches the spec bumps the generation.  It may change    *)
(* what is captured, or nothing that is captured, or the plugin's own      *)
(* parameters, and metadata along with them.                               *)
EditSpec(spec, meta, store, server) ==
    /\ cluster.gen < MaxGeneration
    /\ cluster' = [gen |-> cluster.gen + 1, spec |-> spec, meta |-> meta,
                   store |-> store, server |-> server]
    /\ past' = IF store = None THEN {}
               ELSE {Fingerprint(meta, stores[store].rules)}
    /\ UNCHANGED <<watermark, stores, objects, latest, settled, job, envVars>>

(* An edit that leaves the generation alone, after which the Cluster's     *)
(* fingerprint is fp.                                                      *)
QuietEdit(fp) ==
    /\ edits < MaxEdits
    /\ edits' = edits + 1
    /\ AllowRevert \/ fp = LiveFingerprint \/ fp \notin past
    /\ past' = past \union {fp}
    /\ UNCHANGED <<watermark, objects, latest, settled, job, now, faults>>

EditMetadata(meta) ==
    /\ SaveEnabled /\ meta # cluster.meta
    /\ cluster' = [cluster EXCEPT !.meta = meta]
    /\ QuietEdit(Fingerprint(meta, LiveRules))
    /\ UNCHANGED stores

(* Editing the capture groups of a ConfigStore, or upgrading the plugin.   *)
EditRules(s, rules) ==
    /\ SaveEnabled /\ rules # stores[s].rules
    /\ stores' = [stores EXCEPT ![s].rules = rules]
    /\ QuietEdit(Fingerprint(cluster.meta, stores'[cluster.store].rules))
    /\ UNCHANGED cluster

(* Creating or deleting a ConfigStore.                                     *)
ToggleStore(s) ==
    /\ SaveEnabled
    /\ stores' = [stores EXCEPT ![s].present = ~@]
    /\ QuietEdit(LiveFingerprint)
    /\ UNCHANGED cluster

(* Editing the destination, or the ObjectStore it is derived from.         *)
RedirectStore(s, dest) ==
    /\ AllowRedirect \/ s # cluster.store
    /\ SaveEnabled /\ dest # stores[s].dest
    /\ stores' = [stores EXCEPT ![s].dest = dest]
    /\ QuietEdit(LiveFingerprint)
    /\ UNCHANGED cluster

-----------------------------------------------------------------------------
(* The capture hook.                                                       *)

(* Up to the first request: save is enabled, the ConfigStore exists and    *)
(* neither fast path answers, so the state is extracted.                   *)
PostBegin(p) ==
    /\ job = None
    /\ StoreExists
    /\ ~WatermarkHit
    /\ ~SettledHit(p)
    /\ job' = [phase |-> "latest", replica |-> p, history |-> LiveHistory,
               fp |-> LiveFingerprint, snap |-> Extract]
    /\ UNCHANGED <<cluster, watermark, stores, objects, latest, settled, past, envVars>>

(* Mutant: the store is not asked whether it already holds the content.    *)
AlwaysNew == FALSE

(* The newest snapshot already holds this content under these rules.       *)
NothingNew ==
    /\ Latest(job.history) # None
    /\ SameCapture(Latest(job.history), job.snap)

PostConfirm ==
    /\ job # None /\ job.phase = "latest"
    /\ NothingNew
    /\ Remember(SnapshotKey(Latest(job.history)))
    /\ job' = None
    /\ UNCHANGED <<cluster, watermark, stores, objects, latest, past, envVars>>

PostDiffers ==
    /\ job # None /\ job.phase = "latest"
    /\ ~NothingNew
    /\ job' = [job EXCEPT !.phase = "object"]
    /\ UNCHANGED <<cluster, watermark, stores, objects, latest, settled, past, envVars>>

(* Mutant: the pointer is written before the object.                       *)
PutPointerFirst ==
    /\ job # None /\ job.phase = "object"
    /\ latest' = [latest EXCEPT ![job.history] = job.snap]
    /\ job' = [job EXCEPT !.phase = "pointer"]
    /\ UNCHANGED <<cluster, watermark, stores, objects, settled, past, envVars>>

(* Write, first half.                                                      *)
PostPutObject ==
    /\ job # None /\ job.phase = "object"
    /\ objects' = [objects EXCEPT ![job.history] = PutObject(@, job.snap)]
    /\ job' = [job EXCEPT !.phase = "pointer"]
    /\ UNCHANGED <<cluster, watermark, stores, latest, settled, past, envVars>>

(* Mutant: the pointer holds the key rather than a copy of the snapshot.   *)
PutKeyAsLatest ==
    /\ job # None /\ job.phase = "pointer"
    /\ latest' = [latest EXCEPT ![job.history] = SnapshotKey(job.snap)]
    /\ Remember(SnapshotKey(job.snap))
    /\ job' = None
    /\ UNCHANGED <<cluster, watermark, stores, objects, past, envVars>>

(* Write, second half, and remember.                                       *)
PostPutLatest ==
    /\ job # None /\ job.phase = "pointer"
    /\ latest' = [latest EXCEPT ![job.history] = job.snap]
    /\ Remember(SnapshotKey(job.snap))
    /\ job' = None
    /\ UNCHANGED <<cluster, watermark, stores, objects, past, envVars>>

(* The request of the current phase returns an error, and so does Post.    *)
(* A failed Put may have been applied all the same.                        *)
PostFails(landed) ==
    /\ job # None
    /\ faults < MaxFaults
    /\ faults' = faults + 1
    /\ objects' = IF landed /\ job.phase = "object"
                  THEN [objects EXCEPT ![job.history] = PutObject(@, job.snap)]
                  ELSE objects
    /\ latest' = IF landed /\ job.phase = "pointer"
                 THEN [latest EXCEPT ![job.history] = job.snap]
                 ELSE latest
    /\ job' = None
    /\ UNCHANGED <<cluster, watermark, stores, settled, past, now, edits>>

(* A plugin pod dies: its cache is gone, and so is the call it served.     *)
Restart(p) ==
    /\ faults < MaxFaults
    /\ faults' = faults + 1
    /\ settled' = [settled EXCEPT ![p] = None]
    /\ job' = IF job # None /\ job.replica = p THEN None ELSE job
    /\ UNCHANGED <<cluster, watermark, stores, objects, latest, past, now, edits>>

(* remember, called for another cluster with the map at maxSettledEntries. *)
DropSettled(p) ==
    /\ settled[p] # None
    /\ faults < MaxFaults
    /\ faults' = faults + 1
    /\ settled' = [settled EXCEPT ![p] = None]
    /\ UNCHANGED <<cluster, watermark, stores, objects, latest, job, past, now, edits>>

-----------------------------------------------------------------------------
(* The status hook.                                                        *)

(* Mutant: a settled state counts whichever snapshot the status names.     *)
StatusCurrentAnyKey(p) ==
    /\ watermark # None
    /\ watermark.store = cluster.store
    /\ watermark.server = cluster.server
    /\ WatermarkHit \/ SettledHit(p)

(* The two answers SetStatusInCluster reuses instead of reading the store. *)
StatusCurrent(p) ==
    /\ watermark # None
    /\ watermark.store = cluster.store
    /\ watermark.server = cluster.server
    /\ \/ WatermarkHit
       \/ SettledHit(p) /\ settled[p].key = watermark.key

(* SetStatusInCluster, answered by p, and the operator's status patch.     *)
SetStatusInCluster(p) ==
    /\ job = None
    /\ StoreExists
    /\ ~StatusCurrent(p)
    /\ Latest(LiveHistory) # None
    /\ LET newest == Latest(LiveHistory)
       IN  watermark' = [gen    |-> newest.gen,
                         key    |-> SnapshotKey(newest),
                         fp     |-> SnapshotFingerprint(newest),
                         store  |-> cluster.store,
                         server |-> cluster.server]
    /\ UNCHANGED <<cluster, stores, objects, latest, settled, job, past, envVars>>

Tick ==
    /\ now < MaxTime
    /\ now' = now + 1
    /\ UNCHANGED <<cluster, watermark, stores, objects, latest, settled, job, past,
                   edits, faults>>

-----------------------------------------------------------------------------

Users ==
    \/ \E spec \in Specs, meta \in Metas, store \in Stores \union {None},
          server \in Servers : EditSpec(spec, meta, store, server)
    \/ \E meta \in Metas : EditMetadata(meta)
    \/ \E s \in Stores : \/ \E rules \in Rules : EditRules(s, rules)
                         \/ ToggleStore(s)
                         \/ \E dest \in Dests : RedirectStore(s, dest)

PostStep == PostConfirm \/ PostDiffers \/ PostPutObject \/ PostPutLatest

Faults ==
    \/ \E landed \in BOOLEAN : PostFails(landed)
    \/ \E p \in Replicas : Restart(p) \/ DropSettled(p)

Next ==
    \/ Users
    \/ \E p \in Replicas : PostBegin(p) \/ SetStatusInCluster(p)
    \/ PostStep
    \/ Faults
    \/ Tick

Spec == Init /\ [][Next]_vars

(* CloudNativePG reconciles for as long as the Cluster exists and calls    *)
(* the status hook every few seconds; a running hook makes progress.       *)
Fairness ==
    /\ WF_vars(\E p \in Replicas : PostBegin(p))
    /\ WF_vars(PostStep)
    /\ WF_vars(\E p \in Replicas : SetStatusInCluster(p))

FairSpec == Spec /\ Fairness

-----------------------------------------------------------------------------
(* Properties.                                                             *)

Marks == [gen : Nat, key : Refs, fp : Fingerprints, store : Stores, server : Servers]

Entries == [gen : Nat, fp : Fingerprints, key : Refs]

Jobs == [phase : {"latest", "object", "pointer"}, replica : Replicas,
         history : Histories, fp : Fingerprints, snap : Snapshots]

ASSUME NoJobAssumption == None \notin Jobs

TypeOK ==
    /\ cluster \in [gen : Nat, spec : Specs, meta : Metas,
                    store : Stores \union {None}, server : Servers]
    /\ watermark \in Marks \union {None}
    /\ stores \in [Stores -> [present : BOOLEAN, dest : Dests, rules : Rules]]
    /\ objects \in [Histories -> SUBSET Snapshots]
    /\ latest \in [Histories -> Snapshots \union {None}]
    /\ settled \in [Replicas -> Entries \union {None}]
    /\ job \in Jobs \union {None}
    /\ now \in Nat /\ edits \in Nat /\ faults \in Nat
    /\ past \subseteq Fingerprints

(* The newest snapshot, as Latest answers it, holds the configuration the  *)
(* Cluster has now, captured under the rules in force now.                 *)
Archived ==
    /\ Latest(LiveHistory) # None
    /\ Latest(LiveHistory).content = Extract.content
    /\ Latest(LiveHistory).rules = LiveRules

(* latest.json never names an object that does not exist.                  *)
PointerBacked ==
    \A h \in Histories :
        latest[h] # None => \E o \in objects[h] : /\ SnapshotKey(o) = SnapshotKey(latest[h])
                                                 /\ o.content = latest[h].content

(* When the watermark makes Post skip, the history Post would write to     *)
(* holds the snapshot the watermark names: the status never over-reports.  *)
WatermarkBacked ==
    StoreExists /\ WatermarkHit =>
        \E o \in objects[LiveHistory] : SnapshotKey(o) = watermark.key

(* When the watermark makes Post skip, there is nothing to capture.        *)
WatermarkSkipSound == StoreExists /\ WatermarkHit => Archived

(* When a replica's settled cache makes Post skip, there is nothing to     *)
(* capture.                                                                *)
SettledSkipSound ==
    StoreExists => \A p \in Replicas : SettledHit(p) => Archived

(* One configuration of one generation is written once, and once more for  *)
(* each fault, however often both hooks run on however many replicas.      *)
WritesBounded ==
    \A h \in Histories : \A s \in objects[h] :
        Cardinality({o \in objects[h] : /\ o.gen = s.gen
                                        /\ o.content = s.content
                                        /\ o.rules = s.rules}) <= 1 + faults

(* Content-addressed keys: a capture never overwrites the content of an    *)
(* earlier one.                                                            *)
HistoryImmutable ==
    [][\A h \in Histories : \A s \in objects[h] :
          \E o \in objects'[h] : o.content = s.content /\ o.gen = s.gen /\ o.at = s.at]_vars

(* Once the hooks consider the Cluster captured, a restore aligned with    *)
(* the present moment selects its present configuration from the listing.  *)
SelectionInForce ==
    (StoreExists /\ job = None /\ (WatermarkHit \/ \E p \in Replicas : SettledHit(p)))
    => \E o \in objects[LiveHistory] :
          /\ Selects({SnapshotKey(s) : s \in objects[LiveHistory]}, now, SnapshotKey(o))
          /\ o.content = Extract.content

(* However edits, faults and hook calls interleave, once edits and faults  *)
(* stop the newest snapshot holds the live configuration for good ...      *)
CaptureConverges == <>[](StoreExists => Archived)

(* ... and the watermark names that snapshot for good.                     *)
StatusConverges ==
    <>[](StoreExists => /\ watermark # None
                        /\ Latest(LiveHistory) # None
                        /\ watermark.key = SnapshotKey(Latest(LiveHistory)))
=============================================================================
