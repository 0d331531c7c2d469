SPECIFICATION FairSpec
CONSTANTS
    Timeouts <- MCTimeouts
    RecoverCrashes = TRUE
    MaxClock = 4
    MaxLoads = 2
INVARIANTS ReplacementIsOwed
PROPERTIES ClaimIsOwed StuckLoadRestarts
CHECK_DEADLOCK FALSE
