----------------------------- MODULE CloneChain ------------------------------
(***************************************************************************)
(* Configuration that travels from Cluster to Cluster.                     *)
(*                                                                         *)
(* A Cluster is edited and captured; another is created from the capture,  *)
(* through skips and transforms; it is edited and captured in turn.  The   *)
(* module composes capture (internal/snapshot/extract.go, groups.go and    *)
(* denylist.go), the restore plan (RestorePlan) and transforms (CelEnv),   *)
(* and asks what has become of a value after several generations of        *)
(* clones.  When captures and restores happen is left to Capture and       *)
(* Admission: here each is one step.                                       *)
(***************************************************************************)
EXTENDS RestorePlan, Integers

CONSTANTS   \* of CelEnv
    IntLimit, OutOfRange

CONSTANTS
    Parameters,         \* the path of the map of GUCs
    Libraries,          \* the leaf spec.postgresql.shared_preload_libraries
    FixedParameters,    \* GUCs CloudNativePG sets itself, by release
    ManagedLibraries,   \* libraries it adds itself
    QuantityPaths,      \* leaves typed as quantities, or as storage sizes
    Selections,         \* sets of capture groups a store may be given
    First,              \* the tree of the first Cluster
    Manifests,          \* trees a clone may be created with
    Policies,           \* skips and transforms
    Edits               \* leaves and values users may set

CONSTANTS
    MaxClones, MaxEdits

INSTANCE CelEnv

(* The value of RestorePlan's Evaluate; IsQuantityPath decides by the path.*)
EvaluateAt(expression, leaf, value) ==
    EvaluateProgram(expression, value, leaf \in QuantityPaths)

Releases == DOMAIN FixedParameters

(* No group names a denied path: Extract would refuse to capture.          *)
ASSUME ChainAssumption ==
    /\ Releases = 1 .. Len(FixedParameters) /\ 1 \in Releases
    /\ \A groups \in Selections : groups \subseteq DOMAIN Groups
    /\ \A group \in DOMAIN Groups : \A path \in Groups[group] : ~IsDeniedPath(path)
    /\ MaxClones \in Nat /\ MaxEdits \in Nat

VARIABLES
    cluster,        \* the tree of the Cluster that was created last
    release,        \* of the plugin and the lists it was built with
    snapshot,       \* what was captured of the Cluster last, and by which release
    own,            \* what its manifest and its users have set
    origin,         \* the snapshot and the transforms it was created from
    clones, edits

vars == <<cluster, release, snapshot, own, origin, clones, edits>>

Init ==
    /\ cluster = First /\ own = First
    /\ release = 1
    /\ snapshot = None /\ origin = None
    /\ clones = 0 /\ edits = 0

-----------------------------------------------------------------------------
(* Capture.                                                                *)

Segments(path) == [i \in DOMAIN path |-> <<path[i]>>]

Beneath(leaf, path) == IsPrefix(Segments(path), leaf)

IsFixed(leaf, fixed) ==
    \E key \in fixed : leaf = Append(Segments(Parameters), key)

(* FilterGUCs: an empty map is dropped like one of fixed parameters only.  *)
FilterGUCs(leaves, fixed) ==
    {leaf \in leaves : ~IsFixed(leaf, fixed) /\ leaf # Segments(Parameters)}

FilterLibraries(list) == List(list.items \ ManagedLibraries)

FilterMetadata(tree) ==
    {leaf \in DOMAIN tree : /\ \E map \in MetadataMaps : Beneath(leaf, map)
                            /\ ~IsDeniedMetadataLeaf(leaf)}

(* The allowlist, and then the denylist all the same.                      *)
Allowed(tree, groups) ==
    {leaf \in DOMAIN tree :
        /\ \E group \in groups : \E path \in Groups[group] : Beneath(leaf, path)
        /\ ~IsDeniedPath(Dotted(leaf))}

(* Mutant: the settings CloudNativePG owns are captured with the others.   *)
ExtractUnsanitized(tree, groups, fixed) ==
    LET metadata == IF MetadataGroup \in groups THEN FilterMetadata(tree) ELSE {}
    IN  [leaf \in Allowed(tree, groups) \union metadata |-> tree[leaf]]

Extract(tree, groups, fixed) ==
    LET spec == FilterGUCs(Allowed(tree, groups), fixed)
        metadata == IF MetadataGroup \in groups THEN FilterMetadata(tree) ELSE {}
        kept == {leaf \in spec \union metadata :
                    leaf = Libraries => FilterLibraries(tree[leaf]) # List({})}
    IN  [leaf \in kept |->
            IF leaf = Libraries THEN FilterLibraries(tree[leaf]) ELSE tree[leaf]]

(* What a user or a manifest may set.                                      *)
Leaves ==
    (UNION {DOMAIN tree : tree \in Manifests \union {First}}) \union {edit.leaf : edit \in Edits}

(* Groups and GUCs lie under spec, labels and annotations under metadata,  *)
(* where no path is denied.                                                *)
ASSUME LeafAssumption ==
    \A leaf \in Leaves :
        /\ (\E group \in DOMAIN Groups : \E path \in Groups[group] : Beneath(leaf, path))
           => ~IsDeniedMetadataLeaf(leaf)
        /\ (\E map \in MetadataMaps : Beneath(leaf, map))
           => /\ ~IsDeniedPath(Dotted(leaf))
              /\ \A r \in Releases : ~IsFixed(leaf, FixedParameters[r])

-----------------------------------------------------------------------------
(* Steps.                                                                  *)

(* What a user sets is no longer what the restore wrote.                   *)
EditCluster(leaf, value) ==
    /\ edits < MaxEdits
    /\ edits' = edits + 1
    /\ LET with(tree) == [l \in DOMAIN tree \union {leaf} |->
                             IF l = leaf THEN value ELSE tree[l]]
       IN  cluster' = with(cluster) /\ own' = with(own)
    /\ origin' = IF origin = None THEN None
                 ELSE [origin EXCEPT !.restored = @ \ {leaf}]
    /\ UNCHANGED <<release, snapshot, clones>>

(* A plugin built against the next release of CloudNativePG.               *)
Upgrade ==
    /\ release + 1 \in Releases
    /\ release' = release + 1
    /\ UNCHANGED <<cluster, snapshot, own, origin, clones, edits>>

CaptureCluster(groups) ==
    /\ snapshot' = [tree |-> Extract(cluster, groups, FixedParameters[release]),
                    release |-> release]
    /\ UNCHANGED <<cluster, release, own, origin, clones, edits>>

(* A restore that fails leaves no Cluster.                                 *)
CloneCluster(manifest, policy) ==
    /\ snapshot # None
    /\ clones < MaxClones
    /\ CompileRules(policy.skips, policy.transforms)
    /\ PlanSucceeds(snapshot.tree, policy.skips, policy.transforms)
    /\ LET changes == Changes(snapshot.tree, policy.skips, policy.transforms)
       IN  /\ ~Blocked(manifest, changes)
           /\ cluster' = Apply(manifest, changes)
           /\ origin' = [snapshot |-> snapshot, transforms |-> policy.transforms,
                         restored |-> DOMAIN changes]
    /\ own' = manifest
    /\ snapshot' = None
    /\ clones' = clones + 1
    /\ UNCHANGED <<release, edits>>

Next ==
    \/ \E edit \in Edits : EditCluster(edit.leaf, edit.value)
    \/ Upgrade
    \/ \E groups \in Selections : CaptureCluster(groups)
    \/ \E manifest \in Manifests, policy \in Policies : CloneCluster(manifest, policy)

Spec == Init /\ [][Next]_vars

-----------------------------------------------------------------------------
(* Properties.                                                             *)

(* The type of a field: quantities and GUCs are strings.                   *)
FieldTyped(leaf, value) ==
    CASE leaf \in QuantityPaths -> value.json = "string" /\ ParseQuantity(value) # Fails
      [] leaf = Libraries -> value.json = "list"
      [] Beneath(leaf, Parameters) -> value.json = "string"
      [] OTHER -> value.json = First[leaf].json

(* What a quantity counts is a number, and a number has no unit.           *)
Readable(leaf, value) ==
    /\ leaf \in QuantityPaths => value.milli \in Int
    /\ value.json = "number" => value.suffix = NoUnit

(* Libraries and quantities are no GUCs; what users set has its field's    *)
(* type, a number has no unit, and operands of expressions are numbers.    *)
ASSUME ValueAssumption ==
    /\ Libraries \notin QuantityPaths /\ ~Beneath(Libraries, Parameters)
    /\ \A leaf \in QuantityPaths : ~Beneath(leaf, Parameters)
    /\ \A tree \in Manifests \union {First} : \A leaf \in DOMAIN tree :
          FieldTyped(leaf, tree[leaf]) /\ Readable(leaf, tree[leaf])
    /\ \A edit \in Edits : FieldTyped(edit.leaf, edit.value) /\ Readable(edit.leaf, edit.value)
    /\ \A policy \in Policies : \A t \in policy.transforms :
          \/ t.expression = Invalid
          \/ t.expression \in [fn : STRING, num : Int, den : Nat, binary : BOOLEAN]
    /\ IntLimit \in Nat \ {0} /\ OutOfRange \in Int
    /\ Fails \notin [cel : {"quantity"}, n : Int, binary : BOOLEAN]

(* After any number of clones and transforms every field has a value of    *)
(* the type CloudNativePG gives it, so that the API server accepts it and  *)
(* the next capture and transform can read it.                             *)
TypeOK ==
    /\ \A leaf \in DOMAIN cluster : FieldTyped(leaf, cluster[leaf])
    /\ release \in Releases
    /\ snapshot # None => /\ snapshot.release \in 1 .. release
                          /\ \A leaf \in DOMAIN snapshot.tree :
                                FieldTyped(leaf, snapshot.tree[leaf])
    /\ clones \in 0 .. MaxClones /\ edits \in 0 .. MaxEdits

(* A Cluster created from a capture without rules, by a manifest that sets *)
(* nothing, is captured as its source was.                                 *)
RoundTrip ==
    \A groups \in Selections :
        LET captured == Extract(cluster, groups, FixedParameters[release])
            clone == Apply([leaf \in {} |-> None], Changes(captured, {}, {}))
        IN  Extract(clone, groups, FixedParameters[release]) = captured

(* However many Clusters a configuration comes through, what belongs to    *)
(* one of them stays with it: denied paths and keys, and the GUCs that     *)
(* CloudNativePG owned when the source was captured, are as the Cluster's  *)
(* own manifest and users have them.                                       *)
OwnedStaysHome ==
    origin # None =>
        \A leaf \in DOMAIN cluster :
            IsDenied(leaf) \/ IsFixed(leaf, FixedParameters[origin.snapshot.release])
            => leaf \in DOMAIN own /\ cluster[leaf] = own[leaf]

(* What PostgreSQL makes of a memory setting; Base is what one is counted  *)
(* in when it has no unit.                                                 *)
Base == 8192

PgBytes(text) ==
    (text.milli \div 1000) * IF text.suffix = NoUnit THEN Base ELSE PgMemoryUnits[text.suffix]

(* A memory setting that was scaled means what the factor says, rounded    *)
(* down to a whole unit, and is not turned off.                            *)
MemoryScales ==
    origin # None =>
        \A t \in origin.transforms : \A leaf \in origin.restored :
            t.path = Dotted(leaf) /\ t.expression.fn = "pgScale" =>
                LET old == origin.snapshot.tree[leaf]
                    exact == PgBytes(old) * t.expression.num
                    now == PgBytes(cluster[leaf]) * t.expression.den
                IN  /\ now <= exact
                    /\ exact - now < t.expression.den * PgMemoryUnits[old.suffix]
                    /\ exact # 0 => now # 0
=============================================================================
