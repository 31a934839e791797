------------------------------ MODULE Admission ------------------------------
(***************************************************************************)
(* Creation of a Cluster that restores its configuration.                  *)
(*                                                                         *)
(* The API server hands a Cluster being created to the plugin's mutating   *)
(* webhook (internal/webhook/cluster_mutate.go), which reads the           *)
(* ConfigStore, the RestorePolicy and possibly a Backup, selects a         *)
(* snapshot (internal/restore/select.go, recoverytarget.go), applies the   *)
(* plan and records the restore in an annotation.  Once the Cluster        *)
(* exists, the operator asks the Pre hook (reconciler.go) before it        *)
(* reconciles.  Meanwhile the source is captured and pruned, users apply   *)
(* and delete what the webhook reads, requests fail, the API server calls  *)
(* the webhook again, or has no registration of it at all.                 *)
(*                                                                         *)
(* There is one ConfigStore with one history, that of server Source.  The  *)
(* hash of a key stands for the content it was computed from.              *)
(***************************************************************************)
EXTENDS SnapshotHistory, RestorePlan

CONSTANTS
    Store, Source,  \* the ConfigStore, the server whose history it holds
    Manifests,      \* Clusters that users create
    Policies,       \* RestorePolicies that users apply
    Captures,       \* generations and content hashes of the source
    Tree,           \* the tree of the snapshot with a given hash
    Garbled,        \* a targetTime that does not parse
    Unfinished      \* a Backup without stoppedAt

CONSTANTS
    MaxTime,        \* bound on the clock
    MaxSnapshots,   \* bound on the captures
    MaxEdits,       \* bound on the edits of what the webhook reads
    MaxCalls        \* bound on the calls that repeat an earlier one

ASSUME AdmissionAssumption ==
    /\ Captures \subseteq [gen : Nat, hash : Nat]
    /\ \A m \in Manifests :
          m.recovery # None => m.recovery.time \in Nat \union {None, Garbled}
    /\ \A p \in Policies :
          /\ p.stanza \in {"absent", "bare", "stated"}
          /\ p.mode \in {"Latest", "Generation", "Timestamp", "AlignWithRecoveryTarget", None}
          /\ p.coordinate \in Nat
    /\ None \notin {"Latest", "Generation", "Timestamp", "AlignWithRecoveryTarget"}
    /\ None # Garbled /\ {None, Garbled, Unfinished} \intersect Nat = {}
    /\ None \notin [key : Refs, policy : Policies \union {None}, begun : Nat]
    /\ MaxTime \in Nat /\ MaxSnapshots \in Nat /\ MaxEdits \in Nat /\ MaxCalls \in Nat

(* A captured leaf has fields up to a map and then one whole key; no leaf  *)
(* is within another, and Kubernetes allows none of them the name "*".     *)
ASSUME CapturedAssumption ==
    /\ \A p \in Policies :
          /\ \A rule \in p.skips : rule.path # None => rule.path \in Paths \ {<<>>}
          /\ \A t \in p.transforms : t.path \in Paths \ {<<>>}
    /\ \A c \in Captures : \A leaf \in DOMAIN Tree[c.hash] :
          /\ Dotted(leaf) \in Paths \ {<<>>} /\ Last(Dotted(leaf)) # "*"
          /\ leaf = Reading(Dotted(leaf))
          /\ \A other \in DOMAIN Tree[c.hash] : ~IsStrictPrefix(other, leaf)

VARIABLES
    refs,           \* keys in the bucket
    latest,         \* latest.json
    archive,        \* every key ever written
    store,          \* does the ConfigStore exist?
    policy,         \* the RestorePolicy, as its author wrote it
    backup,         \* the Backup: absent, unfinished, or the time it stopped
    registered,     \* is the webhook registered?
    request,        \* the create request being served
    cluster,        \* the Cluster, once it exists
    now, edits,
    calls           \* repeated calls of the webhook

reads == <<refs, latest, archive, store, policy, backup, registered>>
vars == <<reads, request, cluster, now, edits, calls>>

-----------------------------------------------------------------------------
(* Plugin parameters.                                                      *)

(* Mutant: the server name is taken as written, without its default.       *)
RawSaveServer(m) == m.saveServer

(* NewFromParameters: the server name defaults to the Cluster's.           *)
SaveServer(m) == IF m.saveServer = None THEN m.name ELSE m.saveServer

IsRestoreRequested(m) == m.enabled /\ m.restoreStore # None

(* The expression the API server evaluates before it calls the webhook.    *)
MatchConditions(m) ==
    m.enabled /\ (m.restoreStore # None \/ m.restoreServer # None \/ m.policy # None)

Validate(m) ==
    /\ m.restoreStore # None <=> m.restoreServer # None
    /\ m.policy # None => m.restoreStore # None

SourceIsAlsoDestination(m) ==
    /\ m.saveStore # None /\ m.restoreStore # None
    /\ m.saveStore = m.restoreStore
    /\ SaveServer(m) = m.restoreServer

-----------------------------------------------------------------------------
(* Selection.                                                              *)

(* The API server fills in the default of a field of an object that is     *)
(* there: a select stanza without a mode is stored with mode Latest.       *)
StoredMode(p) ==
    CASE p.stanza = "absent" -> None
      [] p.stanza = "bare"   -> "Latest"
      [] p.stanza = "stated" -> p.mode

(* Mutant: restores are from the newest snapshot unless a policy says so.  *)
LatestByDefault(p, recovers) ==
    IF p # None /\ StoredMode(p) # None THEN StoredMode(p) ELSE "Latest"

ResolveMode(p, recovers) ==
    IF p # None /\ StoredMode(p) # None THEN StoredMode(p)
    ELSE IF recovers THEN "AlignWithRecoveryTarget" ELSE "Latest"

UseLatest(p) == p # None /\ p.stanza # "absent" /\ p.useLatest

(* ByName and ByBackupID; a lookup that fails is a Backup not found.       *)
Lookup(found) == IF found THEN backup ELSE None

(* resolutionFromBackup                                                    *)
FromBackup(found) ==
    IF Lookup(found) \in Nat THEN [kind |-> "moment", moment |-> Lookup(found)]
    ELSE [kind |-> "unresolvable", moment |-> 0]

(* ResolveRecoveryTarget                                                   *)
ResolveRecoveryTarget(r, found) ==
    CASE r = None -> [kind |-> "none", moment |-> 0]
      [] r # None /\ r.time = Garbled -> [kind |-> "error", moment |-> 0]
      [] r # None /\ r.time \in Nat   -> [kind |-> "moment", moment |-> r.time]
      [] r # None /\ r.time = None ->
            IF r.backupID THEN FromBackup(found)
            ELSE IF r.opaque THEN [kind |-> "unresolvable", moment |-> 0]
            ELSE IF r.backup THEN FromBackup(found)
            ELSE [kind |-> "none", moment |-> 0]

Init ==
    /\ refs = {} /\ archive = {} /\ latest = None
    /\ store = TRUE /\ registered = TRUE
    /\ policy \in Policies \union {None}
    /\ backup = None
    /\ request = None /\ cluster = None
    /\ now = 0 /\ edits = 0 /\ calls = 0

-----------------------------------------------------------------------------
(* What goes on meanwhile.                                                 *)

(* SnapshotStore.Write for the source, at most once a second.              *)
Capture(c) ==
    /\ Cardinality(archive) < MaxSnapshots
    /\ \A ref \in archive : ref.at < now /\ ref.gen <= c.gen
    /\ LET ref == [at |-> now, gen |-> c.gen, hash |-> c.hash]
       IN  /\ refs' = refs \union {ref}
           /\ archive' = archive \union {ref}
           /\ latest' = ref
    /\ UNCHANGED <<store, policy, backup, registered, request, cluster, now, edits, calls>>

Edit ==
    /\ edits < MaxEdits
    /\ edits' = edits + 1
    /\ UNCHANGED <<latest, archive, request, cluster, now, calls>>

(* One Delete of a sweep: oldest first, never the newest.                  *)
Prune(ref) ==
    /\ ref # Newest(refs)
    /\ \A other \in refs : ~KeyLess(other, ref)
    /\ refs' = refs \ {ref}
    /\ UNCHANGED <<store, policy, backup, registered>>
    /\ Edit

ToggleStore ==
    /\ store' = ~store
    /\ UNCHANGED <<refs, policy, backup, registered>>
    /\ Edit

ApplyPolicy(p) ==
    /\ p # policy
    /\ policy' = p
    /\ UNCHANGED <<refs, store, backup, registered>>
    /\ Edit

(* A Backup is created and, later, completes.                              *)
BackupProceeds ==
    /\ backup \notin Nat
    /\ backup' = CASE backup = None -> Unfinished
                   [] backup = Unfinished -> now
    /\ UNCHANGED <<refs, latest, archive, store, policy, registered, request, cluster,
                   now, edits, calls>>

ToggleWebhook ==
    /\ registered' = ~registered
    /\ UNCHANGED <<refs, store, policy, backup>>
    /\ Edit

Tick ==
    /\ now < MaxTime
    /\ now' = now + 1
    /\ UNCHANGED <<reads, request, cluster, edits, calls>>

-----------------------------------------------------------------------------
(* The create request.  A step may deny it: then there is no request.      *)

Phase(phase) == request # None /\ request.phase = phase

Goto(phase) == request' = [request EXCEPT !.phase = phase]

Deny == request' = None

(* A client creates the Cluster, or tries again.                           *)
Create(m) ==
    /\ request = None /\ cluster = None
    /\ request' = [phase |-> IF registered /\ MatchConditions(m) THEN "handle" ELSE "admitted",
                   manifest |-> m, tree |-> m.tree, record |-> None,
                   policy |-> None, chosen |-> None, moment |-> 0, begun |-> now]
    /\ UNCHANGED <<reads, cluster, now, edits, calls>>

(* The API server calls the webhook again, after another one's change.     *)
Reinvoke ==
    /\ Phase("admitted")
    /\ registered /\ MatchConditions(request.manifest)
    /\ calls < MaxCalls
    /\ calls' = calls + 1
    /\ request' = [request EXCEPT !.phase = "handle", !.policy = None, !.chosen = None,
                                  !.begun = now]
    /\ UNCHANGED <<reads, cluster, now, edits>>

(* Mutant: every call restores, the second one onto the first.             *)
HandleAlways ==
    /\ Phase("handle")
    /\ IF ~Validate(request.manifest) \/ SourceIsAlsoDestination(request.manifest) THEN Deny
       ELSE Goto(IF IsRestoreRequested(request.manifest) THEN "load" ELSE "admitted")
    /\ UNCHANGED <<reads, cluster, now, edits, calls>>

(* Handle up to its first read.                                            *)
Handle ==
    /\ Phase("handle")
    /\ IF ~Validate(request.manifest) \/ SourceIsAlsoDestination(request.manifest) THEN Deny
       ELSE Goto(IF IsRestoreRequested(request.manifest) /\ request.record = None
                 THEN "load" ELSE "admitted")
    /\ UNCHANGED <<reads, cluster, now, edits, calls>>

(* load: the ConfigStore.                                                  *)
LoadStore ==
    /\ Phase("load")
    /\ IF ~store \/ request.manifest.restoreStore # Store THEN Deny
       ELSE Goto(IF request.manifest.policy = None THEN "select" ELSE "policy")
    /\ UNCHANGED <<reads, cluster, now, edits, calls>>

(* load: the RestorePolicy, and CompileRules.                              *)
LoadPolicy ==
    /\ Phase("policy")
    /\ IF policy = None THEN Deny
       ELSE IF ~CompileRules(policy.skips, policy.transforms) THEN Deny
       ELSE request' = [request EXCEPT !.phase = "select", !.policy = policy]
    /\ UNCHANGED <<reads, cluster, now, edits, calls>>

(* Mutant: an empty history is no error.                                   *)
ReadLatestUnchecked == request' = [request EXCEPT !.phase = "apply", !.chosen = latest]

(* Read of latest.json; without a snapshot of this server there is none.   *)
ReadLatest ==
    IF latest = None \/ request.manifest.restoreServer # Source THEN Deny
    ELSE request' = [request EXCEPT !.phase = "apply", !.chosen = latest]

(* A listing, and the choice of the newest of the wanted keys.             *)
ListAndChoose(wanted) ==
    IF wanted = {} \/ request.manifest.restoreServer # Source THEN Deny
    ELSE request' = [request EXCEPT !.phase = "read", !.chosen = Newest(wanted)]

(* selectAligned, with the target the Backup lookup leads to.              *)
SelectAligned(target) ==
    CASE target.kind = "moment" ->
            request' = [request EXCEPT !.phase = "list", !.moment = target.moment]
      [] target.kind = "none" -> ReadLatest
      [] target.kind = "unresolvable" -> IF UseLatest(request.policy) THEN Goto("latest") ELSE Deny
      [] target.kind = "error" -> Deny

(* Select                                                                  *)
Select(found) ==
    /\ Phase("select")
    /\ LET recovery == request.manifest.recovery
           mode == ResolveMode(request.policy, recovery # None)
       IN  CASE mode = "Latest" -> ReadLatest
             [] mode = "Generation" ->
                   ListAndChoose({ref \in refs : ref.gen = request.policy.coordinate})
             [] mode = "Timestamp" ->
                   ListAndChoose(AtOrBefore(refs, request.policy.coordinate))
             [] mode = "AlignWithRecoveryTarget" ->
                   SelectAligned(ResolveRecoveryTarget(recovery, found))
    /\ UNCHANGED <<reads, cluster, now, edits, calls>>

(* The read of latest.json after the Backup was looked up in vain.         *)
FallBack ==
    /\ Phase("latest")
    /\ ReadLatest
    /\ UNCHANGED <<reads, cluster, now, edits, calls>>

(* SelectAtOrBefore for the moment of the recovery target.                 *)
ListAligned ==
    /\ Phase("list")
    /\ ListAndChoose(AtOrBefore(refs, request.moment))
    /\ UNCHANGED <<reads, cluster, now, edits, calls>>

(* The Read of the chosen key.                                             *)
ReadSnapshot ==
    /\ Phase("read")
    /\ IF request.chosen \in refs THEN Goto("apply") ELSE Deny
    /\ UNCHANGED <<reads, cluster, now, edits, calls>>

SkipsOf(p) == IF p = None THEN {} ELSE p.skips

TransformsOf(p) == IF p = None THEN {} ELSE p.transforms

(* annotateWithRecord; policy and begun are kept for the properties.       *)
RestoreRecord ==
    [key |-> request.chosen, policy |-> request.policy, begun |-> request.begun]

(* BuildPlan, Apply and the annotation.                                    *)
ApplyPlan ==
    /\ Phase("apply")
    /\ LET tree == Tree[request.chosen.hash]
           skips == SkipsOf(request.policy)
           transforms == TransformsOf(request.policy)
           changes == Changes(tree, skips, transforms)
       IN  IF \/ ~PlanSucceeds(tree, skips, transforms)
              \/ DOMAIN changes = {}
              \/ Blocked(request.tree, changes)
           THEN Deny
           ELSE request' = [request EXCEPT
                    !.phase = "admitted",
                    !.tree = Apply(@, changes),
                    !.record = RestoreRecord]
    /\ UNCHANGED <<reads, cluster, now, edits, calls>>

(* A read fails or resolveTimeout passes; the failurePolicy is Fail.       *)
CallFails ==
    /\ request # None /\ request.phase # "admitted"
    /\ Deny
    /\ UNCHANGED <<reads, cluster, now, edits, calls>>

Persist ==
    /\ Phase("admitted")
    /\ cluster' = [manifest |-> request.manifest, tree |-> request.tree,
                   record |-> request.record, running |-> FALSE]
    /\ request' = None
    /\ UNCHANGED <<reads, now, edits, calls>>

-----------------------------------------------------------------------------
(* The operator.                                                           *)

(* Pre lets the reconcile continue; when it refuses nothing happens.       *)
PreContinues ==
    /\ cluster # None /\ ~cluster.running
    /\ IsRestoreRequested(cluster.manifest) => cluster.record # None
    /\ cluster' = [cluster EXCEPT !.running = TRUE]
    /\ UNCHANGED <<reads, request, now, edits, calls>>

-----------------------------------------------------------------------------

Environment ==
    \/ \E c \in Captures : Capture(c)
    \/ \E ref \in refs : Prune(ref)
    \/ ToggleStore
    \/ \E p \in Policies \union {None} : ApplyPolicy(p)
    \/ BackupProceeds
    \/ ToggleWebhook
    \/ Tick

Call ==
    \/ Handle \/ LoadStore \/ LoadPolicy
    \/ \E found \in BOOLEAN : Select(found)
    \/ FallBack \/ ListAligned \/ ReadSnapshot \/ ApplyPlan

Next ==
    \/ Environment
    \/ \E m \in Manifests : Create(m)
    \/ Reinvoke \/ Call \/ CallFails \/ Persist
    \/ PreContinues

Spec == Init /\ [][Next]_vars

-----------------------------------------------------------------------------
(* Properties.                                                             *)

Records == [key : Refs, policy : Policies \union {None}, begun : Nat]

TypeOK ==
    /\ refs \in SUBSET Refs /\ archive \in SUBSET Refs /\ latest \in Refs \union {None}
    /\ store \in BOOLEAN /\ registered \in BOOLEAN
    /\ policy \in Policies \union {None}
    /\ backup \in Nat \union {None, Unfinished}
    /\ request # None =>
          /\ request.phase \in {"handle", "load", "policy", "select", "latest", "list",
                                "read", "apply", "admitted"}
          /\ request.manifest \in Manifests
          /\ request.record \in Records \union {None}
          /\ request.phase = "apply" => request.chosen \in Refs
    /\ cluster # None =>
          /\ cluster.manifest \in Manifests /\ cluster.running \in BOOLEAN
          /\ cluster.record \in Records \union {None}
    /\ now \in Nat /\ edits \in Nat /\ calls \in Nat

Running == cluster # None /\ cluster.running

Restored == cluster # None /\ cluster.record # None

RestoredTree == Tree[cluster.record.key.hash]

(* A Cluster that asked for a restore runs only with one: whatever was     *)
(* missing when it was created and however often the webhook was called,   *)
(* all its values are the manifest's own or those of the one snapshot that *)
(* the record names, and some of the latter.                               *)
RunsRestored ==
    Running /\ IsRestoreRequested(cluster.manifest) =>
        /\ Restored
        /\ \E leaf \in DOMAIN cluster.tree : leaf \in DOMAIN RestoredTree /\ ~IsDenied(leaf)
        /\ \A leaf \in DOMAIN cluster.tree :
              \/ leaf \in DOMAIN RestoredTree /\ ~IsDenied(leaf)
              \/ leaf \in DOMAIN cluster.manifest.tree
                 /\ cluster.tree[leaf] = cluster.manifest.tree[leaf]

(* The moment the Cluster's data or its policy names, if one does.  As the *)
(* documentation has it, a policy that states no mode follows the Cluster. *)
NamedMoment(m, p) ==
    IF p # None /\ p.stanza = "stated" /\ p.mode = "Timestamp" THEN p.coordinate
    ELSE IF p # None /\ p.stanza = "stated" /\ p.mode # "AlignWithRecoveryTarget" THEN None
    ELSE IF m.recovery = None THEN None
    ELSE IF m.recovery.time \in Nat THEN m.recovery.time
    ELSE IF m.recovery.backupID \/ (m.recovery.backup /\ ~m.recovery.opaque)
         THEN IF backup \in Nat /\ ~UseLatest(p) THEN backup ELSE None
    ELSE None

(* Recovered data is paired with the configuration in force at the moment  *)
(* it corresponds to, unless the policy states another selection: however  *)
(* captures, sweeps and Backups interleave with the call, the snapshot is  *)
(* the one a complete history resolves that moment to.                     *)
ConfigurationMatchesData ==
    Restored =>
        LET moment == NamedMoment(cluster.manifest, cluster.record.policy)
        IN  moment # None /\ moment < cluster.record.begun =>
                Selects(archive, moment, cluster.record.key)

(* No Cluster runs that archives into the history it restored from.        *)
SourceSpared ==
    Running /\ IsRestoreRequested(cluster.manifest) =>
        LET m == cluster.manifest
        IN  ~(/\ m.saveStore = m.restoreStore
              /\ m.restoreServer = IF m.saveServer = None THEN m.name ELSE m.saveServer)

(* A transform is never lost: every value at or beneath its path that the  *)
(* restore wrote is the result of the expression.                          *)
TransformsBind ==
    Restored =>
        \A t \in TransformsOf(cluster.record.policy) : \A leaf \in DOMAIN cluster.tree :
            Covers(t.path, leaf)
            /\ leaf \in Restorable(RestoredTree, SkipsOf(cluster.record.policy))
            => cluster.tree[leaf] = Evaluate(t.expression, leaf, RestoredTree[leaf])

(* Skip rules mean what their documentation says, although they are        *)
(* matched as dotted strings: exactly the captured values they cover by    *)
(* fields and whole keys keep what the manifest says, and a path naming    *)
(* one key of a map leaves the keys that continue it alone.                *)
SkipsAsWritten ==
    Restored =>
        \A leaf \in DOMAIN RestoredTree :
            IF \E rule \in SkipsOf(cluster.record.policy) : RuleCovers(rule, leaf)
            THEN \/ leaf \notin DOMAIN cluster.tree
                 \/ leaf \in DOMAIN cluster.manifest.tree
                    /\ cluster.tree[leaf] = cluster.manifest.tree[leaf]
            ELSE IsDenied(leaf) \/ leaf \in DOMAIN cluster.tree

(* The merge never deletes: a value the manifest sets and the snapshot     *)
(* does not hold survives, next to restored values in the same object.     *)
ManifestSurvives ==
    Restored =>
        \A leaf \in DOMAIN cluster.manifest.tree :
            leaf \notin DOMAIN RestoredTree => leaf \in DOMAIN cluster.tree
=============================================================================
