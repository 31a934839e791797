SPECIFICATION Spec
CONSTANTS
    None = None
    EmptyMap = EmptyMap
    Invalid = Invalid
    Fails = Fails
    MetadataGroup = "Metadata"
    BufferUnit = "kB"
    IntLimit = 200000000
    OutOfRange <- MinInt
    Evaluate <- EvaluateAt
    Groups <- MCGroups
    Maps <- MCMaps
    MetadataMaps <- MCMetadataMaps
    Fields <- MCFields
    DeniedPaths <- MCDeniedPaths
    DeniedKeys <- MCDeniedKeys
    Parameters <- MCParameters
    Libraries <- MCLibraries
    FixedParameters <- MCFixed
    ManagedLibraries <- MCManaged
    QuantityPaths <- MCQuantityPaths
    Selections <- Everything
    First <- MCFirst
    Manifests <- MCManifests
    Policies <- MCPolicies
    Edits <- MCEdits
    MaxClones = 3
    MaxEdits = 1
INVARIANTS TypeOK RoundTrip OwnedStaysHome MemoryScales
CHECK_DEADLOCK FALSE
