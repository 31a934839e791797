SPECIFICATION Spec
CONSTANTS
    None = None
    NoMeta = NoMeta
    NoMetaRank = 0
    Hash <- MCHash
    Stores = {s1}
    Servers = {v1}
    Dests = {d1}
    Replicas = {p1}
    Specs = {1}
    Metas = {1, 2}
    Rules = {r1}
    MetadataRules = {r1}
    MaxGeneration = 1
    MaxTime = 1
    MaxEdits = 2
    MaxFaults = 0
    AllowRevert = TRUE
    AllowRedirect = FALSE
INVARIANT WatermarkSkipSound
CHECK_DEADLOCK FALSE
