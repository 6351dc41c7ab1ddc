SPECIFICATION FairSpec
CONSTANTS
    e1 = e1
    e2 = e2
    e3 = e3
    s1 = s1
    s2 = s2
    u1 = u1
    NoEvent = NoEvent
    NoKey = NoKey
    Events = {e1, e2}
    Sessions = {s1}
    Users = {u1}
    Session <- MCSession
    Payer <- MCPayer
    Paid <- MCPaid
    Workers = {w1, w2}
    MaxClaims = 3
INVARIANTS
    DoneMeansBooked
    CreditedOnce
    AloneUnlessOverrun
PROPERTIES
    ReceivedIsBooked
