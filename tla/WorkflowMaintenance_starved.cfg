SPECIFICATION FairSpec
CONSTANTS
    Runs = {r1, r2}
    Limit = 1
PROPERTY
    MissedWakeupsRecovered
CHECK_DEADLOCK FALSE
