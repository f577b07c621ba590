SPECIFICATION FairSpec
CONSTANTS
    Keys = {k1, k2, k3}
    Processors = {p1, p2}
    MaxAttempts = 2
    MaxFaults = 3
INVARIANTS
    TypeOK
    SucceededWasShown
PROPERTIES
    RepliesInOrder
    DeliveredStaysDelivered
    RepliesSettle
CHECK_DEADLOCK FALSE
