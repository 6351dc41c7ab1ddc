SPECIFICATION RefundSpec
CONSTANTS
    o1 = o1
    o2 = o2
    Operators = {o1, o2}
    Paid = 3
    MaxRequests = 4
SYMMETRY OperatorSymmetry
INVARIANTS
    WithinPayment
    RecordedWasReturned
    RefundIsRecordedOrTold
    RecordedIsTakenOrTold
CHECK_DEADLOCK FALSE
