SPECIFICATION Spec
CONSTANTS
    Steps = 2
    MaxAttempts = 1
    Controllers = {c1, c2}
    Endings = {"result", "unmet"}
    MaxFaults = 0
SYMMETRY ControllerSymmetry
INVARIANT
    CheckpointsMatchProgress
PROPERTY
    RevisionTracksProgress
CHECK_DEADLOCK FALSE
