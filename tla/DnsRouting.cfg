CONSTANTS
    x = x
    y = y
    h = h
    a = a
    b = b
    net = net
    Names = {x, y, h}
    NoName = NoName
    Addrs = {a, b}
    Nets = {net}
    Ttls = {0, 1}
    MaxDomains = 3
    MaxSeen = 4
    MaxTime = 2
    MaxDropped = 0
    MaxFaults = 0
    Groups = {g1}
    RuleSets <- MCRuleSets
    ARecords <- MCARecords
    CnameRecords <- MCCnameRecords
    AdditionalTtl = 1
    TtlMod = 8
    MaxEdits = 1
SPECIFICATION RSpec
INVARIANT ResolvedIsRouted
PROPERTIES SyncSound RebuildExact
CHECK_DEADLOCK FALSE
