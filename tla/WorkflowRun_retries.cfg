SPECIFICATION FairSpec
CONSTANTS
    Steps = 1
    MaxAttempts = 2
    Controllers = {c1}
    Endings = {"result", "attention", "retry"}
    MaxFaults = 1
INVARIANTS
    TypeOK
    OnlyCurrentAttemptLive
    SettledMeansFinished
    AttemptBudget
PROPERTIES
    NoProgressOnceHeld
    RunImplementsLedger
    RunSettlesOrParks
    CancellationCompletes
CHECK_DEADLOCK FALSE
