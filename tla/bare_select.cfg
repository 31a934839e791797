SPECIFICATION Spec
CONSTANTS
    None = None
    EmptyMap = EmptyMap
    Invalid = Invalid
    Fails = Fails
    Garbled = Garbled
    Unfinished = Unfinished
    Scaled = Scaled
    Store = "store"
    Source = "source"
    MetadataGroup = "Metadata"
    Evaluate <- MCEvaluate
    Groups <- MCGroups
    Maps <- MCMaps
    MetadataMaps <- MCMetadataMaps
    Fields <- MCFields
    DeniedPaths <- MCDeniedPaths
    DeniedKeys <- MCDeniedKeys
    Tree <- MCTree
    Manifests <- MCManifests
    Policies <- BarePolicies
    Captures <- History
    MaxTime = 2
    MaxSnapshots = 2
    MaxEdits = 0
    MaxCalls = 0
INVARIANT ConfigurationMatchesData
CHECK_DEADLOCK FALSE
