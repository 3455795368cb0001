SPECIFICATION Spec
CONSTANTS
    x1 = x1
    x2 = x2
    x3 = x3
    r1 = r1
    r2 = r2
    Requests = {r1, r2}
    Amounts = {1, 2}
    HalfCent = 2
    MaxSum = 3
    Exceptions = {x1, x2, x3}
    UserStatuses = {"ACKNOWLEDGED", "RESOLVED"}
    Scale = 10000
INVARIANT ClosedIsDated
PROPERTY SyncRestoresFlag
SYMMETRY MCSymmetry
CHECK_DEADLOCK FALSE
