SPECIFICATION Spec
CONSTANTS
    q1 = q1
    q2 = q2
    a1 = a1
    a2 = a2
    r1 = r1
    r2 = r2
    Quotes = {q1, q2}
    RateIds = {a1, a2}
    Category <- MCCategory
    Cost <- MCCost
    Markups = {0, 10}
    Validity = 0
    CreditLimit = 22
    LastDay = 1
    Requests = {r1, r2}
INVARIANTS
    AcceptedIffJob
    JobNumbersAreDense
PROPERTY AcceptedAsChecked
CHECK_DEADLOCK FALSE
