SPECIFICATION FairSpec
CONSTANTS
    MaxMessages = 2
    Kinds = {"hermes", "openclaw"}
    Verbose = FALSE
    MaxAttempts = 2
    MaxEvents = 2
    MaxFaults = 1
INVARIANTS
    TypeOK
PROPERTIES
    AnswerQueued
    CancelWins
    SettledStaysSettled
    MessagesSettle
CHECK_DEADLOCK FALSE
