SPECIFICATION Spec
CONSTANTS
    Callers = {c1, c2}
    Operations = {"renew", "pay", "cancel", "uncancel", "end"}
    FullPrice = 2
    IntroPrice = 1
    IntroPeriods = 1
    MaxPeriod = 3
    MaxClock = 5
    MaxRefunds = 1
    MaxWallet = 3
SYMMETRY CallerSymmetry
INVARIANTS
    ChargedOnce
    PeriodsArePaid
    DiscountUsedOncePerPeriod
PROPERTIES
    FallsBehindOnlyUnpaid
