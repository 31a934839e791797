SPECIFICATION FairSpec
CONSTANTS
    None = None
    Replicas = {p1}
    Windows = {0, 2}
    Gens = {1}
    Hashes = {1}
    Delay = 0
    DurationLimit = 100
    MaxTime = 4
    MaxSnapshots = 3
    MaxEdits = 2
    MaxFaults = 1
PROPERTIES StatusConverges PruneConverges
