SPECIFICATION FairSpec
CONSTANTS
    None = None
    Replicas = {p1, p2}
    Rules = {r1, r2}
    Invalid = {r2}
    MaxEdits = 2
    MaxFaults = 2
    AllowLapse = FALSE
INVARIANTS TypeOK VerdictSettles
PROPERTY VerdictConverges
CHECK_DEADLOCK FALSE
