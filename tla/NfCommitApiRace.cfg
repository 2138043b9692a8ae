CONSTANTS
    Remap = remap
    Owners = {g1, remap}
    Tables = {filter, nat}
    NatTable = nat
    DelayMs = 1
    MaxDelayMs = 2
    MaxWipes = 1
    MaxEdits = 1
    MaxFaults = 0
SPECIFICATION ApiSpec
INVARIANT OutcomeDependsOnGroupSet
