SPECIFICATION FairSpec
CONSTANTS
    own = own
    repeat = repeat
    h1 = h1
    h2 = h2
    Own = own
    Repeats = {repeat}
    NoPayment = NoPayment
    Handlers = {h1, h2}
    Amount = 1
    MaxFalls = 2
INVARIANTS
    BookedWasPaid
    EffectsOnce
PROPERTIES
    PaidIsBookedOrTold
    PaidOrderIsAnswered
CHECK_DEADLOCK FALSE
