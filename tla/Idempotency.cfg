SPECIFICATION FairKeySpec
CONSTANTS
    r1 = r1
    r2 = r2
    r3 = r3
    Posts = {r1, r2, r3}
    Bodies = {"order", "other"}
    Body <- MCBody
    MaxInFlight = 3
    MaxExpiries = 1
    MaxOutages = 1
INVARIANTS
    ResultMeansDone
    OncePerKey
PROPERTY EveryRequestAnswered
CHECK_DEADLOCK FALSE
