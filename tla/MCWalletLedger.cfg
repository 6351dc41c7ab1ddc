SPECIFICATION FairSpec
CONSTANTS
    u1 = u1
    u2 = u2
    sub = sub
    k1 = k1
    k2 = k2
    k3 = k3
    NoKey = NoKey
    NoRequest = NoRequest
    NoCaller = NoCaller
    Users = {u1, u2, sub}
    Subaccounts = {sub}
    Keys = {k1, k2, k3}
    Requests <- MCRequests
    Callers = {c1, c2, c3}
    MaxEntries = 3
INVARIANTS
    LedgerMatchesBalance
PROPERTIES
    KeepsPromise
    EveryCallEnds
