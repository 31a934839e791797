SPECIFICATION FairSpec
CONSTANTS
    None = None
    NoMeta = NoMeta
    NoMetaRank = 0
    Hash <- MCHash
    Stores = {s1}
    Servers = {v1}
    Dests = {d1}
    Replicas = {p1, p2}
    Specs = {1, 2}
    Metas = {1, 2}
    Rules = {r1, r2}
    MetadataRules = {r1}
    MaxGeneration = 2
    MaxTime = 2
    MaxEdits = 1
    MaxFaults = 1
    AllowRevert = FALSE
    AllowRedirect = FALSE
INVARIANTS TypeOK WatermarkSkipSound SettledSkipSound WritesBounded PointerBacked
PROPERTIES HistoryImmutable CaptureConverges StatusConverges
CHECK_DEADLOCK FALSE
