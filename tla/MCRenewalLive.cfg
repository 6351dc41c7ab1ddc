SPECIFICATION FairSpec
CONSTANTS
    Callers = {c1, c2}
    Operations = {"renew", "restore", "grace", "expire", "suspend", "unsuspend", "cancel", "finalize"}
    FullPrice = 2
    IntroPrice = 1
    IntroPeriods = 0
    MaxPeriod = 2
    MaxClock = 4
    MaxRefunds = 0
    MaxWallet = 2
PROPERTIES
    PaidServiceComesBack
    ChargedPeriodIsGiven
