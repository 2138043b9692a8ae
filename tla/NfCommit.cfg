CONSTANTS
    Remap = remap
    Owners = {g1, remap}
    Tables = {nat}
    NatTable = nat
    DelayMs = 1
    MaxDelayMs = 3
    MaxWipes = 2
    MaxEdits = 2
    MaxFaults = 2
SPECIFICATION Spec
INVARIANTS Converged TeardownLeavesNothing
PROPERTIES  HookServed ComesToRest StopTerminates
