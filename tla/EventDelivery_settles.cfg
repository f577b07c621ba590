SPECIFICATION FairSpec
CONSTANTS
    Events = {e1}
    Handlers = {h1}
    Workers = {w1}
    Verdicts = {}
    MaxRetries = 1
    BatchSize = 1
    MaxCopies = 1
    AttemptCap = 1
    MaxFaults = 3
PROPERTIES
    EveryDeliverySettles
CHECK_DEADLOCK FALSE
