SPECIFICATION Spec
CONSTANTS
    None = None
    Replicas = {p1, p2}
    Windows = {2}
    Gens = {1}
    Hashes = {1}
    Delay = 1
    DurationLimit = 100
    MaxTime = 5
    MaxSnapshots = 3
    MaxEdits = 0
    MaxFaults = 0
INVARIANTS TypeOK WindowResolves NeverMisresolves RestoreReadable
PROPERTY HistoryImplemented
SYMMETRY ReplicaSymmetry
