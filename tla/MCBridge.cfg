SPECIFICATION Spec
CONSTANTS
    n1 = n1
    n2 = n2
    a1 = a1
    a2 = a2
    a3 = a3
    a4 = a4
    d1 = d1
    d2 = d2
    Nodes = {n1, n2}
    Authorities = {a1, a2, a3, a4}
    Deposits = {d1, d2}
    Home <- HomeOf
    Executors = {n1, n2}
    Amount <- Locked
    Required = 2
    Timelock = 1
    Window = 2
    DailyLimit = 2
    MaxTime = 3
    FirstNonce <- Numbered
    MaxNonces = 3
INVARIANTS
    DailyLimitHolds
    HeldIsListed
PROPERTIES
    MintsOnce
SYMMETRY Neighbours
CHECK_DEADLOCK FALSE
