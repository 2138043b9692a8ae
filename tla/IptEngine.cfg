SPECIFICATION Spec
CONSTANTS
    OwnerSeq <- OwnerOrder
    Remap = "MT_DNSOR"
    Firmware <- FirmwareRules
    FirmwareSeq <- FirmwareOrder
    Blackhole = {"MT_b1"}
    Leftovers <- KilledRuns
    Versions = {1, 2}
    MaxOps = 2
    MaxWipes = 1
    MaxFaults = 1
INVARIANT FirmwareUntouched
PROPERTIES CommitExact RestoreAccepted  Refines
CHECK_DEADLOCK FALSE
