SPECIFICATION Spec
CONSTANTS
    None = None
    NoMeta = NoMeta
    NoMetaRank = 0
    Hash <- MCHash
    Stores = {s1, s2}
    Servers = {v1}
    Dests = {d1, d2}
    Replicas = {p1, p2}
    Specs = {1, 2}
    Metas = {1}
    Rules = {r1, r2}
    MetadataRules = {r1, r2}
    MaxGeneration = 3
    MaxTime = 1
    MaxEdits = 1
    MaxFaults = 0
    AllowRevert = FALSE
    AllowRedirect = FALSE
INVARIANTS WatermarkBacked WatermarkSkipSound SettledSkipSound SelectionInForce
CHECK_DEADLOCK FALSE
SYMMETRY ReplicaSymmetry
