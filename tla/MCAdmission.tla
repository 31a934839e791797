----------------------------- MODULE MCAdmission -----------------------------
(***************************************************************************)
(* Instances of Admission for TLC: a corner of ClusterSpec, two snapshots, *)
(* and the manifests and policies that take the webhook through its modes. *)
(***************************************************************************)
EXTENDS Admission

CONSTANT Scaled     \* an expression, and what it gives for any value

Labels == <<"metadata", "labels">>
Annotations == <<"metadata", "annotations">>
Storage == <<"spec", "storage">>
Resources == <<"spec", "resources">>
Size == <<"spec", "storage", "size">>
Plugins == <<"spec", "plugins">>

MCGroups ==
    [g \in {"Storage", "Resources", "Metadata"} |->
        CASE g = "Storage"   -> {Storage}
          [] g = "Resources" -> {Resources}
          [] g = "Metadata"  -> {<<"spec", "inheritedMetadata">>}]

Limits == <<"spec", "resources", "limits">>
MCMetadataMaps == {Labels, Annotations}
MCMaps == {Labels, Annotations, Limits}
MCFields == {<<"spec">>, Storage, Size, Resources}
MCDeniedPaths == {Plugins, <<"status">>}

(* The annotation keys team, team.io/owner and cnpg.io/hash.               *)
Team == <<"team">>
Owner == <<"team", "io/owner">>
Bookkeeping == <<"cnpg", "io/hash">>
MCDeniedKeys == {Bookkeeping}

Plain(path) == [i \in 1 .. Len(path) |-> <<path[i]>>]
Key(map, key) == Append(Plain(map), key)

Memory == Key(Limits, <<"memory">>)
Cpu == Key(Limits, <<"cpu">>)

MCTree ==
    [hash \in {1, 2} |->
        CASE hash = 1 -> [leaf \in {Plain(Size), Key(Annotations, Team),
                                    Key(Annotations, Owner), Plain(Plugins)} |-> 1]
          [] hash = 2 -> [leaf \in {Plain(Size), Memory,
                                    Key(Annotations, Bookkeeping)} |-> 2]]

History == {[gen |-> 1, hash |-> 1], [gen |-> 2, hash |-> 2]}

Written == [leaf \in {Plain(Size), Memory, Cpu, Plain(Plugins)} |-> 9]

NoRecovery ==
    [name |-> "new", enabled |-> TRUE, saveStore |-> Store, saveServer |-> None,
     restoreStore |-> Store, restoreServer |-> Source, policy |-> None,
     recovery |-> None, tree |-> Written]

Recovery(time, backupID, opaque, byName) ==
    [time |-> time, backupID |-> backupID, opaque |-> opaque, backup |-> byName]

Recovering(recovery) == [NoRecovery EXCEPT !.recovery = recovery]
WithPolicy(m) == [m EXCEPT !.policy = "policy"]

MCManifests ==
    {WithPolicy(NoRecovery),
     Recovering(Recovery(1, FALSE, FALSE, FALSE)),
     Recovering(Recovery(None, FALSE, FALSE, FALSE)),
     WithPolicy(Recovering(Recovery(None, TRUE, TRUE, FALSE))),
     Recovering(Recovery(None, FALSE, FALSE, TRUE)),
     WithPolicy(Recovering(Recovery(None, FALSE, TRUE, TRUE))),
     Recovering(Recovery(Garbled, FALSE, FALSE, FALSE)),
     [NoRecovery EXCEPT !.name = Source],
     [NoRecovery EXCEPT !.restoreServer = None],
     [NoRecovery EXCEPT !.enabled = FALSE, !.restoreServer = "other"],
     WithPolicy([NoRecovery EXCEPT !.restoreServer = "other"])}

Skip(path, keys) == [group |-> None, path |-> path, keys |-> keys]
SkipGroup(group) == [group |-> group, path |-> None, keys |-> None]
Transform(path, ignore) == [path |-> path, expression |-> Scaled, ignoreMissing |-> ignore]
MCEvaluate(expression, leaf, value) == expression

Policy(stanza, mode, coordinate, useLatest, skips, transforms) ==
    [stanza |-> stanza, mode |-> mode, coordinate |-> coordinate,
     useLatest |-> useLatest, skips |-> skips, transforms |-> transforms]

MCPolicies ==
    {Policy("absent", None, 0, FALSE,
            {Skip(Annotations \o Team, None)}, {Transform(Size, FALSE)}),
     Policy("stated", "Timestamp", 1, FALSE, {SkipGroup("Storage")},
            {Transform(Limits \o <<"memory">>, TRUE)}),
     Policy("stated", "Generation", 2, FALSE, {}, {Transform(Resources, TRUE)}),
     Policy("stated", "AlignWithRecoveryTarget", 0, TRUE,
            {Skip(Annotations, {Team}), Skip(Append(Resources, "*"), None)}, {}),
     Policy("stated", "Latest", 0, FALSE, {Skip(Storage, None)}, {Transform(Size, FALSE)}),
     Policy("stated", "Latest", 0, FALSE,
            {SkipGroup("Storage"), SkipGroup("Metadata"), SkipGroup("Resources")}, {})}

(* A select stanza that states no mode.                                    *)
BarePolicies == {Policy("bare", None, 0, FALSE, {}, {})}
=============================================================================
