SPECIFICATION FairSpec
CONSTANTS
    Readers = {p1}
    MaxRows = 3
    Cap = 1
    MaxFaults = 2
INVARIANTS
    TypeOK
    RestoreAlone
    ReadyHasArchive
PROPERTIES
    SafetyCopyKept
    OperationsResolve
CHECK_DEADLOCK FALSE
