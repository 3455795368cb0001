SPECIFICATION Spec
CONSTANTS
    l1 = l1
    l2 = l2
    r1 = r1
    r2 = r2
    RevLines = {l1, l2}
    Charges <- MCCharges
    FirstStatus <- MCFirstStatus
    MaxInvoices = 2
    Bodies <- MCBodies
    Rates <- MCRates
    NoteAmounts = {5}
    Threshold = 5
    MaxNotes = 2
    MaxSends = 1
    Requests = {r1, r2}
INVARIANTS
    SentWasSignedOff
    
    NumbersAndLinesAgree
    
    BilledOnce
SYMMETRY MCSymmetry
CHECK_DEADLOCK FALSE
