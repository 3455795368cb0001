SPECIFICATION EtaSpec
CONSTANTS
    r1 = r1
    r2 = r2
    Updaters = {r1, r2}
    LastLeg = 3
    CreatedAt <- MCCreatedAt
    Plans <- MCPlans
    Updates <- MCUpdates
    Connection = 1
    DefaultTransit = 4
    SlipLimit = 28
    MaxVersion = 2
INVARIANTS
    EstimatesAreVersioned
    DeadlockNeedsTie
    SlipIsNotified
PROPERTY CascadeKeepsConnections
SYMMETRY MCSymmetry
