SPECIFICATION Spec
CONSTANTS
    Callers = {c1, c2}
    MaxOrders = 2
    MaxDeaths = 0
SYMMETRY CallerSymmetry
INVARIANT
    ServedIsNotRefunded
CHECK_DEADLOCK FALSE
