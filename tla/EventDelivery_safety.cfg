SPECIFICATION Spec
CONSTANTS
    Events = {e1}
    Handlers = {h1}
    Workers = {w1, w2}
    Verdicts = {"UNKNOWN_HANDLER"}
    MaxRetries = 1
    BatchSize = 1
    MaxCopies = 2
    AttemptCap = 1
    MaxFaults = 2
SYMMETRY WorkerSymmetry
INVARIANTS
    TypeOK
    RowConsistent
    SucceededMeansHandled
    ClaimExclusive
PROPERTIES
    SuccessNotReprocessed
CHECK_DEADLOCK FALSE
