CONSTANTS
    Groups = {g1, g2}
    Foreign = {2}
    MaxIndex = 5
    Gateways = {w1, w2}
    NoGw = NoGw
    MaxLinks = 2
    MaxEvents = 2
    MaxFaults = 2
    MaxCrashes = 1
SYMMETRY Symmetry
SPECIFICATION Spec
INVARIANTS MarksDistinct NeverFallsThrough NothingLeftBehind LinkUpSeen
CHECK_DEADLOCK FALSE
