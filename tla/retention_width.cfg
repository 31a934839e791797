SPECIFICATION Spec
CONSTANTS
    None = None
    Replicas = {p1}
    Windows = {6}
    Gens = {1}
    Hashes = {1}
    Delay = 0
    DurationLimit = 4
    MaxTime = 4
    MaxSnapshots = 3
    MaxEdits = 0
    MaxFaults = 0
INVARIANT WindowResolves
