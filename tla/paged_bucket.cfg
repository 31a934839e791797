SPECIFICATION Spec
CONSTANTS
    None = None
    Sweepers = {s1, s2}
    Readers = {r1}
    PageSize = 2
    MayCreate = TRUE
    MaxSnapshots = 4
    MaxEdits = 2
    MaxFaults = 1
INVARIANTS TypeOK ReadSound PutReliable
PROPERTY HistoryImplemented
