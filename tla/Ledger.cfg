SPECIFICATION LedgerSpec
CONSTANTS
    r1 = r1
    r2 = r2
    Originals <- MCOriginals
    Corrections <- MCAmounts
    MaxEntries = 8
    Correctors = {r1, r2}
INVARIANTS
    TrailIsComplete
    ReversedIsCancelled
    BalanceIsInForce
PROPERTIES
    Implements
SYMMETRY MCSymmetry
CHECK_DEADLOCK FALSE
