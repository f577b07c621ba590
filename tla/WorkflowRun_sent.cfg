SPECIFICATION Spec
CONSTANTS
    Steps = 1
    MaxAttempts = 1
    Controllers = {c1, c2}
    Endings = {"result"}
    MaxFaults = 0
PROPERTY
    AttemptStartedOnce
CHECK_DEADLOCK FALSE
