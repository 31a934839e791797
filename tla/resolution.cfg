SPECIFICATION FairSpec
CONSTANTS
    None = None
    Failed = Failed
    Callers = {c1, c2}
    Derived = {d1, d2, u1}
    Unsupported = {u1}
    Inline = {i1, u1}
    Broken = {b1}
    Credentials = {k1, k2}
    TTL = 2
    Delay = 1
    MaxEdits = 2
    MaxFaults = 1
INVARIANTS TypeOK StalenessBounded
PROPERTY ResolutionConverges
