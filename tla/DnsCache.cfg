CONSTANTS
    Names = {n1, n2, n3, n4}
    NoName = NoName
    Addrs = {a1}
    Ttls = {1}
    MaxDomains = 3
    MaxSeen = 2
    MaxTime = 1
    MaxDropped = 1
    MaxFaults = 1
SYMMETRY Symmetry
SPECIFICATION Spec
INVARIANTS ReverseIndexExact CapacityExact LookupExact AliasesExact
PROPERTY CleanupInvisible
CHECK_DEADLOCK FALSE
