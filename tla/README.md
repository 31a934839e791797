# Verification of cnpg-i-chronicle

cnpg-i-chronicle is a CloudNativePG plugin that keeps a history of a Cluster's
configuration in an object store and restores a snapshot from that history onto
a Cluster being created.  This directory holds TLA+ models of it, the instances
TLC checks and the theorems TLAPS proves.  Paths are relative to the
repository's root.

## The system

| Part | State it keeps | Operations |
| --- | --- | --- |
| Capture hook `Post` (`internal/cnpgi/operator/reconciler.go`, `settled.go`) | the settled cache of each pod | skip by watermark, skip by cache, compare with the newest snapshot, write |
| Status hook `SetStatusInCluster` (`status.go`) | the watermark in `status.pluginStatus` | keep the published status, or publish the newest snapshot |
| Guard hook `Pre` (`reconciler.go`) | none | continue or refuse, from the restore annotation |
| Snapshot store (`internal/store/snapshots.go`, `layout.go`) | snapshot objects and `latest.json`, per destination and server name | Write (object, then pointer), Latest, List, Read |
| S3 backend (`internal/store/s3.go`) | the bucket | Put (creating a missing bucket), Get, List in pages, Delete |
| Store resolution (`internal/store/resolver.go`, `barman.go`) | a cache of ObjectStores, per pod | from a ConfigStore to a client, through the ObjectStore and the Secret |
| Retention (`internal/store/retention.go`) | none | PlanRetention: what a cutoff supersedes |
| ConfigStore controller (`internal/controller/configstore_controller.go`) | status of the ConfigStore; an informer cache per pod | check, sweep, patch the status, requeue |
| Restore webhook (`internal/webhook/cluster_mutate.go`, `kubernetes/webhook.yaml`) | the annotation on the new Cluster | read store, policy and Backup, select, plan, patch |
| Selection and recovery targets (`internal/restore/select.go`, `recoverytarget.go`, `backuplookup.go`) | none | one snapshot for a mode and a moment |
| Plan, skips, transforms (`internal/restore/plan.go`, `skip.go`, `transform.go`, `internal/pathutil`, `internal/snapshot/pathcheck.go`, `denylist.go`, `groups.go`) | none | compile rules, compute changes, merge them |
| Capture groups and filters (`internal/snapshot/extract.go`, `groups.go`, `denylist.go`) | none | what of a Cluster is captured |
| CEL environment (`internal/restore/celenv`) | none | bind a captured value, evaluate, convert the result |
| RestorePolicy controller (`internal/controller/restorepolicy_controller.go`) | status of the policy | check the rules, patch the verdict |
| Start-up, identity, TLS, command line | none | not modelled, see below |

The operator calls `Pre`, `Post` and the status hook, one at a time, on copies
of the Cluster; the pods behind the service take turns.  The hooks, the
controllers of all pods and the webhook share nothing but the API server and the
bucket.  What is hard here follows from that:

- fast paths answer from the Cluster's status and from memory instead of the
  bucket, while users edit and other pods write (stale state);
- a capture is two requests, either of which may fail with or without effect;
- every pod sweeps, without a leader, from its own listing, while captures land
  late and restores are between a listing and a read;
- statuses are patched without a lock from a cache that lags;
- admission reads four things one after the other, may be repeated, may time
  out, or may not be registered at all;
- rules are matched as dotted strings although keys contain dots;
- a listing is put together from pages while others write and delete;
- a store is resolved through a cache that goroutines fill without holding its
  lock, and from a Secret that is read once per field;
- a policy's verdict is computed when its generation changes and never again;
- values pass through JSON, Kubernetes quantities, PostgreSQL's units and int64,
  and from Cluster to Cluster.

`PROJECT.json` lists these hazards at their lines with the properties that would
catch them.

## Modules

| Module | Models | Extends |
| --- | --- | --- |
| `SnapshotHistory` | what is computed from a listing: key order, selection by time, PlanRetention | |
| `Capture` | `Post`, `SetStatusInCluster`, the store's writes, users, faults | `SnapshotHistory` |
| `StoreController` | controller passes on several pods, sweeps, captures, a restore in flight | `SnapshotHistory` |
| `ConfigHistory` | what a history promises: the abstract specification of pruning | `SnapshotHistory` |
| `S3Backend` | Put and bucket creation (which may be denied), listings page by page, sweeps and restores over them | `SnapshotHistory` |
| `StoreResolution` | Resolve with the ObjectStore cache, Backend with its Secret reads, edits in between | |
| `PolicyController` | the RestorePolicy controller on several pods, with their watches | |
| `RestorePlan` | path rules, compilation, the plan and the merge, as pure operators | |
| `CelEnv` | values, quantities, memory settings and evaluation, as pure operators | |
| `CloneChain` | capture, restore and edits over several generations of Clusters | `RestorePlan`, `CelEnv` |
| `Admission` | the webhook call step by step, `Pre`, and all that changes meanwhile | `SnapshotHistory`, `RestorePlan` |
| `MCCapture`, `MCStoreController`, `MCAdmission`, `MCCloneChain` | instances for TLC; the other modules are their own | |
| `SnapshotHistoryProofs`, `CaptureProofs`, `StoreControllerProofs`, `S3BackendProofs`, `StoreResolutionProofs`, `PolicyControllerProofs`, `AdmissionProofs`, `CloneChainProofs` | theorems about the module of that name | that module |

An operator whose comment begins with "Mutant:" is no part of a model: it is a
plausible bug, kept next to what it would replace, that makes a property fail.
`PROJECT.json` maps every other definition to its lines.

### SnapshotHistory

A key is a record of timestamp in seconds, generation and content hash.  Keys
have fields of fixed width, so comparing strings compares the fields in order
(`KeyLess`).  `Selects` is what `SelectAtOrBefore` answers; `PlanRetention` is
everything before the anchor, the last snapshot before the cutoff.

### Capture

`cluster`, `watermark` and `stores` are API objects; `objects` and `latest` the
bucket, per history (destination and server name); `settled` the cache entry of
each pod; `job` the `Post` call in progress.  A hook is handed one copy of the
Cluster, so all that `Post` decides before its first request is one step
(`PostBegin`, whose guard is the negation of every early return; it also reads
the ConfigStore, see Abstractions); then there is one step per request:
`PostConfirm` and `PostDiffers` (read of the newest snapshot), `PostPutObject`,
`PostPutLatest`, and `PostFails` at any of them, with or without effect.
`Restart` and `DropSettled` lose a cache.  Users edit spec, metadata, capture
rules and the store.  `past` and `AllowRevert` say whether metadata or rules may
return to a value they had in the same generation, `AllowRedirect` whether the
store in use may be given another destination.  The properties about fast paths
need both to be false; see Disagreements.

### StoreController

One ConfigStore, several pods.  A pass reads the informer cache (`seen`),
checks, lists, deletes one superseded key at a time, oldest first, and patches
the status with the fields that differ from what it read (`MergePatch`).
`Delay` bounds the time between reading a clock and the effect: a capture's
stamp, a restore's listing.  A window is zero or at least twice that.
`Duration` is the product of int64s that a window is parsed into; it wraps at
`DurationLimit`, and `Representable` says that no window does.  `archive` and
`horizon` are history variables: every key ever written, and the latest moment
that a window in force has left behind.

### ConfigHistory

`written`, `kept` and `promise`: a capture lands at or after the promise, and
only the oldest snapshot is forgotten, when a later one before the promise
supersedes it.  `StoreController` and `S3Backend` implement it with `archive`,
`refs` and `horizon` (`HistoryImplemented`): whatever pods sweep, from whichever
listings, the history behaves like one list that is appended to and shortened
from its old end.

### S3Backend

The other modules take a Put and a List for one request.  Here `put` goes from
the first attempt over the creation of the bucket to the only retry, while
others create or remove the bucket; `scan` is a listing in progress, with the
position it has reached and the keys it has found, then the plan or the choice
made from them.  Pages are in key order, as S3 lists.  `errors` and `removals`
count for `PutReliable`.

### StoreResolution

Callers of one pod resolve one ConfigStore.  Lookup, read and store of a cache
entry are three steps, since the lock is not held between them, and the Secret
is read twice (two fields stand for up to five).  Time is kept as what is left
of an entry and as the age of a call; `gone` is a history variable, how long ago
the ObjectStore had each configuration.

### PolicyController

`versions` is the policy with all its past versions, so that a watch can deliver
them one by one: `seen` is how far each pod has come, and the predicate compares
neighbours.  A watch that breaks off lists again (`Relist`) with its cache kept,
and the predicate compares what it had with what there is now; `AllowLapse` says
whether the policy may have been deleted and created anew in between.  A deleted
policy may be created anew at generation 1.  A pass holds
its verdict between the cached read and the patch.  `overtaken` remembers
whether the last patch that changed the status was about other rules than those
there when it landed.

### RestorePlan

A dotted path is a sequence of words; a leaf is a sequence of segments, each a
sequence of words, so that the key `team.io/owner` is one segment of two words
and its dotted form cannot be told from a path beneath the key `team`.  Skips
and transforms are matched on the dotted form and values are written by
segments, as in the code.  `Reading`, `Covers` and `RuleCovers` are the
reference: what the documentation of the rules says a path covers.  `Evaluate`
is a parameter: a table in `Admission`, `CelEnv` in `CloneChain`.

### CelEnv and CloneChain

A string that begins with a number is the number in thousandths and what follows
it.  `ToCEL` binds it by path and shape, `Call` applies one of the plugin's
functions, `FromCEL` writes the result back; `Scale`, `ParsePgMemory` and
`FormatPgMemory` have the range checks, truncations and wraps of the code, with
`IntLimit` for 2^63.

In `CloneChain` a Cluster is edited and captured, a clone is created from the
snapshot by a manifest and a policy, and becomes the Cluster that is edited and
captured next.  `Extract` is the allowlist, the denylist and the three filters;
`Upgrade` exchanges the list of GUCs CloudNativePG owns.  `own` and `origin` are
history variables: what the manifest and users have set, and what the Cluster
was created from.

### Admission

`request` is the create request with the phase of the webhook call: `handle`,
`load`, `policy`, `select`, `list` or `latest`, `read`, `apply`, `admitted`.
Every read of the API server or the bucket is a step of its own and any of them
may fail (`CallFails`); a denial ends the request and the client may try again.
`Reinvoke` is the API server calling again after another webhook's change.
`ToggleWebhook` removes the registration, and a Cluster is then stored as it was
written and meets only `Pre`.  Captures, sweeps, Backups, and edits of the
policy and the ConfigStore happen at any point.  A policy is kept as its author
wrote it; `StoredMode` is the default that the schema puts in.

## Runs

| Run | Bounds | Shows |
| --- | --- | --- |
| `capture_faults` | 2 pods, 2 specs, 2 metadata values, 2 rules, 2 generations, 1 quiet edit, 1 fault, 2 ticks, fairness | the fast paths never skip a needed capture; one configuration is written once plus once per fault; the pointer is backed by an object; no content is overwritten; once edits and faults stop, the live configuration is archived and published for good |
| `capture_rules` | 2 pods, 2 stores and destinations, 2 rules, 3 generations, 1 quiet edit | with saveToStore repointed away and back, the watermark is trusted only for the history that holds its snapshot; selection by the present time gives the live configuration |
| `retention_sweeps` | 2 pods, window 2, delay 1, 3 snapshots, 5 ticks | concurrent sweeps keep every target of the window and never misresolve an older one; no restore in flight loses its snapshot; the abstract history is implemented |
| `retention_live` | 1 pod, windows 0 and 2, 2 edits, 1 fault, fairness | the status and the history converge although patches come from a cache |
| `paged_bucket` | 2 sweeps, 1 restore, pages of 2 keys, 4 snapshots, 2 bucket edits, 1 fault | a restore reads what its moment resolves to, or fails; sweeps implement the abstract history; replicas do not fail each other's first Put |
| `resolution` | 2 callers, 2 good and 1 unusable ObjectStore, 2 Secrets, TTL 2, delay 1, 2 edits, 1 fault, fairness | a configuration is at most a TTL and a call old; every resolution becomes current |
| `policy_settles` | 2 pods, 1 valid and 1 invalid set of rules, 2 edits, 2 faults, fairness | every pass ends, with the right verdict unless an edit overtook the last patch |
| `admission` | 11 manifests, 6 policies, 2 snapshots, 1 edit, 1 repeated call | see below |
| `clones` | 3 clones, 1 edit, 2 releases, 2 manifests, 5 policies, 13 fields | types, meaning and ownership of values survive captures, restores and transforms |
| `watermark_revert`, `retention_width`, `bare_select` | a label that returns; a window beyond int64; a policy without a mode | violations, see Disagreements |

Two replicas suffice because a rolling update has two pods, and any cache
disagreement takes one that knows and one that does not.  Two specs, two
metadata values and two rules, with an edit of the spec and one of the others in
any order, give every "changed, then changed again" that differs for the code,
and the theorems have no such bound; three generations allow a store to be left
and returned to.  Two ticks are three timestamps: a configuration can then be
written three times, once more than `WritesBounded` allows after one fault.
Three snapshots are an anchor, one it supersedes and one in the window; the
clock reaches past window and delay.  Two snapshots and a moment between them
separate every selection mode in `admission`; its manifests and policies cover
each stated mode, each kind of target, each refusal of the parameters and each
kind of rule.  Four snapshots are two pages, so that a sweep can delete from a
page already listed and from one yet to come.  A TTL of two delays lets an entry
outlive the call that stored it and the next.  Two edits are an edit and its
reversal, or a deletion and a new policy; two faults a failure and its retry.
Three clones let a value be scaled down until it would vanish, and a clone of a
clone carry what its parent restored.

`admission` checks that a Cluster that asked for a restore runs only with the
values of one snapshot on top of its own (`RunsRestored`), that recovered data
gets the configuration of its moment if the policy states no other selection
(`ConfigurationMatchesData`), that no Cluster runs that archives into its
source's history (`SourceSpared`), that transforms and skips do what they say
(`TransformsBind`, `SkipsAsWritten`), and that nothing the manifest sets is
deleted (`ManifestSurvives`).

`clones` checks that every field keeps the JSON type CloudNativePG gives it
(`TypeOK`), that a Cluster created from a capture is captured as its source was
(`RoundTrip`), that denied paths and GUCs CloudNativePG owns never come from
another Cluster (`OwnedStaysHome`), and that a scaled memory setting means for
PostgreSQL what the factor says, and is not turned off (`MemoryScales`).

`paged_bucket` shows why the order of deletions matters to readers: a listing
made while a sweep deletes may have a hole, and the choice from it may be wrong;
but the chosen snapshot was older than one already deleted, so its read fails
(`ReadSound`).

`CHECK_DEADLOCK FALSE` appears where the model really may stop: in `Capture`
when everything is archived and published, in `Admission` when the Cluster runs
or `Pre` refuses it, in `PolicyController` when there is nothing left to do, and
in `CloneChain` at its bounds.  The ConfigStore controller, resolutions and
listings never stop, so their runs check for deadlock.

### Fairness

`Capture`: weak fairness of `Post`, of the steps of a running call and of the
status hook; the operator reconciles for as long as the Cluster exists and
refreshes its status every few seconds.  Nothing is assumed of edits, faults or
which pod answers.  `StoreController`: weak fairness of starting a pass (each
ends with a requeue after ten minutes, or one when not ready), of its steps and
of the informer.  `PolicyController`: weak fairness of watches (whether they
deliver or break off and list), of serving the queue and of answering a patch;
none of starting a pass, since nothing requeues one that succeeded.
`StoreResolution`: weak fairness of the callers' steps (the hooks and the resync
come back) and of time.  All bound edits and faults, so "once they stop" is
reached.

## Disagreements found

Three runs expect a violation.

- `watermark_revert`: a label edited and reverted within one generation, the
  edit captured but not yet published: the stale watermark matches and the
  reverted state is not captured, where a stale watermark is said to cost one
  extra check.
- `retention_width`: the pattern of `spec.retention` allows any count, and a
  window above 106751 days (such as `5000m`) wraps to a negative duration.  The
  cutoff then lies in the future, and all but the newest snapshot is deleted, in
  spite of the guarantee the field documents.
- `bare_select`: a `select` stanza without a mode is stored with `Latest`
  (`restorepolicy_types.go:80`), so a Cluster that recovers to a moment gets the
  newest configuration, where an unset mode is documented to align with the
  recovery target (`README.md:184-185`).

The following are reached by changing an instance as said, and have no run of
their own.

- `AllowRedirect = TRUE` in `capture_rules` breaks `WatermarkBacked`: a
  ConfigStore with a new destination is said to fail the comparisons of the fast
  path (`status.go:183-185`); it passes them, and the new history stays empty.
- `MaxFaults = 1` in `capture_rules` breaks `SelectionInForce`: the object of a
  capture lands, its pointer does not, the change is reverted.  The pointer
  confirms the reverted state, and a restore by time selects the abandoned one,
  although listing is said to repair a lagging pointer (`snapshots.go:74-75`).
- `AllowLapse = TRUE` in `policy_settles` breaks `VerdictSettles`: a policy
  deleted and created anew while a watch is broken is reported as an update from
  generation 1 to generation 1, which the predicate drops
  (`restorepolicy_controller.go:104`).  The new policy has no verdict and nothing
  will give it one, where "nothing can change the verdict that this controller is
  not already watching" (lines 91-92).
- Without `overtaken` in `VerdictSettles`, `policy_settles` fails: a pass reads
  the policy, the rules are edited, another pod's verdict on the new rules lands,
  then the first one's on the old rules.  "Two replicas racing here write the
  same bytes" (`restorepolicy_controller.go:85-87`) holds for equal rules only,
  and nothing recomputes the verdict.
- A snapshot with an object without fields (a leaf with `EmptyMap` in `MCTree`)
  breaks `ManifestSurvives`: it replaces the object in the manifest, although the
  merge is said never to delete (`plan.go:171-172`).
- A transform on `spec.storage.*` with `onMissing: Ignore` in `MCPolicies` breaks
  `TransformsBind`: validation drops the wildcard, nothing matches, and the
  values beneath are restored as they were, which is said to fail
  (`restorepolicy_types.go:205-207`).
- `BufferUnit = "B"` in `clones` breaks `MemoryScales`: `4096B` doubled is
  written as `8192`, which PostgreSQL reads in the setting's own unit, while
  `README.md:314-315` says the unit is kept.
- A `pgScale` by 1/8192 in `MCPolicies` breaks `MemoryScales`: the product is
  truncated to whole bytes (`env.go:217`) before the check for zero, so `4kB`
  becomes `0kB`, although an amount that would round to zero is said to be an
  error (`pgmem.go:92-94`).
- `OwnedStaysHome` is about the release that made the capture.  After `Upgrade`
  a restore may write a GUC that the new release owns, since only captures
  filter them.

Observed while reading, without a run:

- `api/v1/configstore_types.go:105-106` says that targets older than the window
  still resolve, to the oldest retained configuration;
  `internal/restore/select.go:161` refuses a target before the oldest snapshot.
- The settled cache has the weakness of the watermark when one pod captures an
  edit, another its revert (`settled.go:43`).
- Captures of one second and one generation are ordered by hash
  (`snapshots.go:103-104`).
- `countBeneath` takes the annotation `example.com/owner` to be beneath a
  transform of the annotation `example`, and refuses despite `onMissing: Ignore`.
- A Cluster with `restoreFromServer` alone passes `Pre` when the webhook was
  missing, since only the store makes a restore requested.
- Two ConfigStores with one destination escape the comparison of source and
  destination, which is by name.

## Proofs

TLAPS checks the following for all values of the constants that satisfy the
modules' `ASSUME`s.

`SnapshotHistoryProofs`: `KeyLess` orders keys, finite nonempty sets have a
newest one.  Deleting any part of the plan leaves the selection for every moment
at or after the cutoff as it was (`RetentionPreservesSelection`), and the plan
never has the newest key (`RetentionKeepsNewest`).

`CaptureProofs`: `StoreInv` (types, finitely many objects, a backed pointer, and
that a call about to write the pointer has written its object) is inductive and
gives `CaptureTypeOK` and `CapturePointerBacked`; `CaptureHistoryImmutable` uses
that hashes do not collide.  Under `Steady` (no reverts, no redirection)
`SoundInv` is inductive and gives `CaptureWatermarkSkipSound`,
`CaptureSettledSkipSound` and `CaptureWatermarkBacked`.  It says what the fast
paths rely on: every snapshot, watermark and cache entry carries a pair of
generation and fingerprint that the Cluster really had, with `past` as memory
for the present generation; a snapshot of the present generation holds its spec,
so that the pair determines the content; a match of the live pair means the
newest snapshot holds it (`HitSound`); and while there is such a match, a call
in progress has the same state in hand and has not decided to write (`HitJob`).
The skip properties are not inductive by themselves, because they say nothing of
entries that do not match yet.

`CaptureWritesBounded` is proved from `BoundInv`, on top of `SoundInv` and under
`Steady`.  Counting the copies that are there is not inductive: one has to know
what is yet to be written.  `JobBounded` says that a call which may still write
finds no more copies than there were faults, unless the newest snapshot will
show it that there is nothing to write; `LiveBounded` says the same of the next
call, and `LiveFresh` that a configuration which appeared while a call with
another was running has no copy at all.  A call cut short leaves a copy without
a pointer, and the fault that cut it short pays for that.

`CaptureSelectionInForce` is proved from `OrderInv`: the objects in the bucket
are not from the future, a call in progress holds nothing older than they are,
and the pointer names the last key unless it is about to be written.  It has the
hypotheses that the property needs (see Disagreements): `Calm`, which is
`Steady` without faults, and `[]SecondsApart`, that no two snapshots of one
generation and one second differ in content.  The instance of `capture_rules`
has both.

`StoreControllerProofs`: as long as windows are `Representable`, `SweepInv` is
inductive and gives `ControllerTypeOK`, `SweepsKeepWindow`,
`SweepsNeverMisresolve` and `SweepsSpareRestores`, for any number of pods and
any interleaving of sweeps.  Its core is that whatever is gone, or is on the
list of some pass, is superseded by a kept key that is older than the horizon,
and that the keys left of the archive are closed upwards: a key later than a
kept one is kept.  Late captures need that a window is at least twice the delay.
`ControllerImplementsHistory` is the refinement: Init maps to Init, a capture to
`Write`, the start of a sweep to `Advance` or a stutter, a deletion to `Forget`
or, when another pod was faster, to a stutter; every other step leaves the
history alone.  That a deletion takes the oldest key left needs that the keys
are closed upwards, for a planned key may be gone already.

`S3BackendProofs`: `BackendInv` is inductive for every page size and any number
of sweeps and restores, and gives `BackendTypeOK`, `BackendReadSound` and
`BackendPutReliable`.  A listing in progress has every key up to its cursor that
is still there, and perhaps some that are not (`PagesSound`); so a plan made
from it has superseded keys only, and with a key everything older (`PlanSound`),
and a choice made from it is right or can no longer be read (`ChoiceSound`).
The bucket is an end segment of what was written.  An error of a second attempt
is paid for in advance, when the bucket is missing again (`PutAccounted`).
`BackendImplementsHistory` is the refinement of `ConfigHistory`; it needs
`PlanSound` for a deletion to take the oldest key left.

`StoreResolutionProofs`: `ResolutionInv` gives `ResolutionTypeOK` and
`ResolutionStalenessBounded`.  The age of what an entry holds and what is left
of its life are together at most the TTL and one call (`EntryFresh`); a read
that is not stored yet is as old as its call (`CallFresh`).

`PolicyControllerProofs`: `PolicyInv` gives `PolicyTypeOK` and
`PolicyVerdictSettles`.  As long as the last change is one that the watch
predicate lets through, a pod that has seen it and is not about to look has the
right verdict or is patching it (`AnnouncedHandled`); after a change it does not
let through, which is a patch, only `overtaken` can stand for a wrong verdict
(`PatchedRight`).  `PolicyVerdictSettles` has the hypothesis `~AllowLapse`
(see Disagreements): without a deletion in between, generations do not
decrease (`Increasing`), so a list that finds the generation unchanged has
missed no change that the predicate would have let through.

`AdmissionProofs`: `AdmissionInv` gives `AdmissionTypeOK`,
`AdmissionRunsRestored`, `AdmissionConfigurationMatchesData` and
`AdmissionSourceSpared`.  It follows the call: from `load` on the parameters
have passed the checks of `Handle`, from `read` on the chosen key is the one
that was in force at the moment named when the call began (`InForce`), and a
tree with a record is the manifest's with exactly one plan applied
(`TreeSound`), which is why a repeated call changes nothing.  `Moment` is the
moment named as the code has it: none, for a stanza without a mode.  So
`AdmissionConfigurationMatchesData` has one exception, `AlignmentLost`, a
recovering Cluster restored with such a policy; `bare_select` is the run for it.
That a later capture or sweep does not change what was in force needs that the
bucket is an end segment of the archive (`HistorySound`).
`AdmissionManifestSurvives` needs `Aligned`: where one of manifest and snapshot
has a value, the other has no object with fields, and the other way round.  Both
are Clusters of one schema; the exception is an object without fields, see
Disagreements.

`AdmissionSkipsAsWritten` and `AdmissionTransformsBind` are about paths: the
code matches rules on dotted forms, the reference reads a rule as fields and,
beneath a map, one whole key.  A captured leaf is the reading of its own dotted
form (`CapturedAssumption`), so nothing has to be said of what concatenating
segments yields, and no induction is needed.  `ReadingPrefix` is the heart of
it: the reading of one path is a prefix of another's exactly when the path is
one, word by word, or, if the path names a key, when the two are equal; from it
`MatchesAsRead` has that the code's `Matches` and the reference `RuleCovers`
agree on captured leaves.  For this `AdmissionInv` also keeps that the policy in
hand and the one in the record are usable, and that the plan applied was one
that succeeds.  `NoEmptyMaps` is a hypothesis of the first: a captured map
without keys would itself be a leaf, of which a rule about keys says nothing.
`IgnoreIsPlain` is one of the second: with a wildcard and `onMissing: Ignore`
the property fails, see Disagreements.  The instance of `admission` satisfies
both.

`CloneChainProofs`: `ChainInv` gives `ChainOwnedStaysHome` and `ChainRoundTrip`.
A capture has no leaf that its release owned (`CaptureClean`), a restore writes
only what a capture holds and the denylist allows.

`ChainTypes` and `ChainMemoryScales` have the hypothesis `Bound`, that the
expressions of `RestorePlan` are evaluated by `CelEnv`, as `clones.cfg` has it.
`TypeOK` is not inductive, for a field's type says nothing of what is in a
quantity or behind a number: `TypeInv` adds that a quantity is a number with a
unit and that a number has none (`Readable`), and it holds for the captures as
well as for the Cluster.  The step is what `CelEnv` gives back: `CallQuantity`
and `StringType` have the types of each function, `EvaluateSound` that a result
which `FromCEL` accepts suits the field it is written to.

`MemoryScales` follows from `OriginInv`, that what was restored and not set
since is what the plan made of the capture, and from `PgScaleExact`: reading a
setting, multiplying, truncating and choosing the unit to write loses less than
a unit.  The products wrap, so it is stated under `[]MemoryInRange`: amounts stay
within `IntLimit`, are not in bytes and the factor is at least 1/1024.  The last
two are the disagreements above; the instance of `clones` keeps to all three.

Assumptions on constants, evaluated by TLC in the runs: hashes do not collide;
`None` and the other markers are none of the values they stand beside
(`NoJobAssumption` and parts of the others); sweeps and restores are different
callers; a configuration that is both derived and inline is an unsupported one;
`LeafAssumption`, that the groups lie in the spec and the metadata maps outside
every denied path, as the tables in `groups.go` and `denylist.go` do;
`PathAssumption`, that no map lies in another and no group reaches into one, as
the walk in `pathcheck.go:141-166` stops at a map; `CapturedAssumption`, that
captured leaves are fields up to a map and then a key, none within another;
`ValueAssumption`, that users set fields to values of their types, which the API
server enforces.

Every invariant and action property that a passing run checks is also proved.
Checked by TLC only:

- `CaptureConverges`, `StatusConverges`, `PruneConverges`, `VerdictConverges` and
  `ResolutionConverges`: liveness under fairness is out of the prover's reach.

## Abstractions

- Content hashes do not collide, clocks do not go backwards; the differences
  between clocks are in `Delay`.
- `PostBegin` reads the ConfigStore, and the ObjectStore its destination comes
  from, in the step in which the hook gets its copy of the Cluster: an edit
  between these reads counts as one before or after all of them.
  `StoreResolution` has the reads one by one.
- Hooks for one Cluster are serial, as the comment in `start.go:66-68` relies on.
- One Cluster writes a history; one ConfigStore in `Admission`, whose captures
  are at least a second apart and write object and pointer together.
- Documents that the plugin did not write (`decodeSnapshot`'s refusals) are left
  out, and so are JSON encoding, logging and messages.
- An expression is one call with constant operands, or does not compile.
  Factors are fractions a float64 holds exactly; a float64 too large for an
  int64 becomes what amd64 makes of it (`OutOfRange`).  Units stop at mega, with
  `IntLimit` small enough that they overflow.
- The tables of groups, denied paths and fixed GUCs are small ones of the same
  shape.
- In `S3Backend` captures are at least a second apart, and listings are in key
  order and see every finished write, as S3's are.
- Manifests do not carry the restore annotation themselves.  The webhook sees
  creations only, so updates are not in `Admission`.

## Plan

Done, in this order: `SnapshotHistory`, `Capture` with its proofs,
`StoreController` with its proofs, `RestorePlan` and `Admission`,
`ConfigHistory` with the refinement and its proof, `PolicyController`,
`StoreResolution`, `S3Backend`, `CelEnv` and `CloneChain`; then the proofs for
`S3Backend`, `StoreResolution`, `PolicyController`, `Admission` and
`CloneChain`, of `WritesBounded` and `SelectionInForce`, and of what rules on
paths and expressions on values do.  Next: two Clusters with one `saveToServer`,
which write one history and one pointer.

## Not modelled

Start-up, TLS, certificates and the command line are wiring; of them `Capture`
has only that caches start empty.  CEL is a library: its parser, its operators
on several values and its cost limit.  The construction of the S3 client, IAM
roles and the texts of errors decide nothing the properties tell apart.  The
schemes azure and gs are refused by the code, and so in `StoreResolution`.
