SPECIFICATION Spec
CONSTANTS
    Clients = {c1, c2}
    Requests = {r1, r2}
    MaxVersions = 3
    MaxRuns = 2
INVARIANTS
    TypeOK
    OneRunPerRequest
    SavesSeeLatest
PROPERTIES
    ArchivedIsClosed
    RetentionHonoured
CHECK_DEADLOCK FALSE
