SPECIFICATION Spec
CONSTANTS
    Events = {e1}
    Handlers = {h1}
    Workers = {w1, w2}
    Verdicts = {}
    MaxRetries = 1
    BatchSize = 1
    MaxCopies = 2
    AttemptCap = 1
    MaxFaults = 3
SYMMETRY WorkerSymmetry
PROPERTIES
    TerminalIsFinal
CHECK_DEADLOCK FALSE
