SPECIFICATION FairSpec
CONSTANTS
    Cost <- Prices
    Grosz = 4
    BlockLen = 2
    Balance = 16
    Pool = 8
    MaxTime = 3
    MaxScales = 3
    MaxErrors = 1
INVARIANTS
    CarryIsKept
    ClaimIsCharged
    RowOnce
PROPERTIES
    CatchesUp
CHECK_DEADLOCK FALSE
