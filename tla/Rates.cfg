SPECIFICATION FairSpec
CONSTANTS
    a1 = a1
    a2 = a2
    r1 = r1
    r2 = r2
    RateIds = {a1, a2}
    ExpiryDate <- MCExpiryDate
    LastDay = 2
    MaxVersions = 2
    MaxCrashes = 1
    Requests = {r1, r2}
INVARIANTS
    VersionsNeverCollide
PROPERTIES
    ChangesFollowMap
    OverdueRatesExpire
CHECK_DEADLOCK FALSE
