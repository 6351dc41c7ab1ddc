SPECIFICATION ReversalSpec
CONSTANTS
    refund = refund
    dispute = dispute
    w1 = w1
    w2 = w2
    Amount <- MCAmount
    PaidMinor = 4
    Reversals = {refund, dispute}
    TopUp = 3
    Reversers = {w1, w2}
    Nobody = Nobody
    NoReversal = NoReversal
    MaxWallet = 4
SYMMETRY WorkerSymmetry
INVARIANTS
    ReversedWithinReturned
    ReversedOrTold
    MarkIsWhole
