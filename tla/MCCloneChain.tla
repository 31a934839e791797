---------------------------- MODULE MCCloneChain -----------------------------
(***************************************************************************)
(* An instance of CloneChain for TLC: a Cluster with a field of every kind *)
(* that is captured, bound or filtered in a way of its own.                *)
(***************************************************************************)
EXTENDS CloneChain

CONSTANT BufferUnit     \* how shared_buffers is written

MCParameters == <<"spec", "postgresql", "parameters">>
Annotations == <<"metadata", "annotations">>
Limits == <<"spec", "resources", "limits">>
Size == <<"spec", "storage", "size">>

MCGroups ==
    [g \in {"Gucs", "Resources", "Storage", "Instances", "Metadata"} |->
        CASE g = "Gucs"      -> {<<"spec", "postgresql">>}
          [] g = "Resources" -> {<<"spec", "resources">>}
          [] g = "Storage"   -> {<<"spec", "storage">>}
          [] g = "Instances" -> {<<"spec", "instances">>}
          [] g = "Metadata"  -> {<<"spec", "inheritedMetadata">>}]

MCMetadataMaps == {Annotations}
MCMaps == {Annotations, Limits, MCParameters}
MCFields == {<<"spec", "storage">>, Size, <<"spec", "resources">>,
             <<"spec", "postgresql">>, <<"spec", "instances">>}
MCDeniedPaths == {<<"spec", "plugins">>}
MCDeniedKeys == {<<"cnpg", "io/hash">>}

Guc(key) == Append(Segments(MCParameters), key)
Buffers == Guc(<<"shared_buffers">>)
Connections == Guc(<<"max_connections">>)
Cost == Guc(<<"random_page_cost">>)
Audit == Guc(<<"pgaudit", "log">>)
WalLevel == Guc(<<"wal_level">>)
ArchiveMode == Guc(<<"archive_mode">>)
MCLibraries == Segments(<<"spec", "postgresql", "shared_preload_libraries">>)
Cpu == Append(Segments(Limits), <<"cpu">>)
Owner == Append(Segments(Annotations), <<"team", "io/owner">>)
Bookkeeping == Append(Segments(Annotations), <<"cnpg", "io/hash">>)
Plugins == Segments(<<"spec", "plugins">>)
Instances == Segments(<<"spec", "instances">>)

MCFixed == <<{<<"archive_mode">>}, {<<"archive_mode">>, <<"wal_level">>}>>
MCManaged == {"pgaudit"}
MCQuantityPaths == {Segments(Size), Cpu}

Word(w) == Text(0, w)

MCFirst ==
    [leaf \in {Buffers, Connections, Cost, Audit, WalLevel, ArchiveMode, MCLibraries,
               Segments(Size), Cpu, Owner, Bookkeeping, Plugins, Instances} |->
        CASE leaf = Buffers -> Text(4000, BufferUnit)
          [] leaf = Connections -> Text(200000, NoUnit)
          [] leaf = Cost -> Text(1100, NoUnit)
          [] leaf = MCLibraries -> List({"pgaudit", "custom"})
          [] leaf = Segments(Size) -> Text(10000, "Ki")
          [] leaf = Cpu -> Text(500000, "m")
          [] leaf = Instances -> Number(3000)
          [] OTHER -> Word("first")]

MCManifests ==
    {[leaf \in {Plugins} |-> Word("second")],
     [leaf \in {Plugins, ArchiveMode, Buffers, MCLibraries} |->
         CASE leaf = Buffers -> Text(1000, "MB")
           [] leaf = MCLibraries -> List({"pgaudit"})
           [] OTHER -> Word("second")]}

Fraction(fn, num, den) == [fn |-> fn, num |-> num, den |-> den, binary |-> FALSE]
OneKi == [fn |-> "add", num |-> -1024000, den |-> 1, binary |-> TRUE]

Rule(leaf, expression) ==
    [path |-> Dotted(leaf), expression |-> expression, ignoreMissing |-> TRUE]

Policy(skips, transforms) == [skips |-> skips, transforms |-> transforms]

MCPolicies ==
    {Policy({}, {}),
     Policy({}, {Rule(Buffers, Fraction("pgScale", 1, 2)), Rule(Cpu, Fraction("scale", 1, 8)),
                 Rule(Segments(Size), Fraction("scale", 1, 4))}),
     Policy({}, {Rule(Buffers, Fraction("pgScale", 5, 4)), Rule(Connections, Fraction("times", 2, 1)),
                 Rule(Segments(Size), OneKi)}),
     Policy({[group |-> None, path |-> MCParameters \o <<"random_page_cost">>, keys |-> None]},
            {Rule(Instances, Fraction("times", 2, 1)), Rule(Buffers, Fraction("pgMem", 1, 1))}),
     Policy({[group |-> "Metadata", path |-> None, keys |-> None]},
            {Rule(Segments(Size), Fraction("bytes", 1, 1)),
             Rule(Cpu, Fraction("scale", 64, 1))})}

MCEdits ==
    {[leaf |-> Buffers, value |-> Text(3000, BufferUnit)],
     [leaf |-> WalLevel, value |-> Word("edited")],
     [leaf |-> MCLibraries, value |-> List({"pgaudit"})],
     [leaf |-> Cpu, value |-> Text(2000, NoUnit)]}

(* What an amd64 makes of a float64 that is too large.                     *)
MinInt == -IntLimit

Everything == {DOMAIN MCGroups, {"Gucs", "Storage"}}
=============================================================================
