SPECIFICATION Spec
CONSTANTS
    p1 = p1
    p2 = p2
    Payments = {p1, p2}
    Checkout = Checkout
    Price = 1
    MaxAttempts = 3
    MaxWallet = 2
    MaxDeaths = 1
SYMMETRY PaymentSymmetry
INVARIANTS
    ChargeIsAnswered
    PaidOrTold
    RefundLeavesNoHosting
CHECK_DEADLOCK FALSE
