SPECIFICATION Spec
CONSTANTS
    b1 = b1
    b2 = b2
    c1 = c1
    c2 = c2
    r1 = r1
    r2 = r2
    Bills = {b1, b2}
    CostLines = {c1, c2}
    Requests = {r1, r2}
    Codes = {"FRT", "BAF"}
    Estimates <- MCEstimates
    BillInputs <- MCBillInputs
    PayAmounts = {1, 2}
    MaterialAmount = 1
    MaterialPercent = 40
    MaxExceptions = 1
INVARIANTS
    
    
    RecognisedBeforePaid
    
    
    CostLedgerFollows
SYMMETRY MCSymmetry
CHECK_DEADLOCK FALSE
