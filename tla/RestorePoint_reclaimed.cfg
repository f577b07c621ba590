SPECIFICATION Spec
CONSTANTS
    Readers = {p1}
    MaxRows = 2
    Cap = 1
    MaxFaults = 0
PROPERTY CompleteCopyKept
CHECK_DEADLOCK FALSE
