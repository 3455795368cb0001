SPECIFICATION OutboxSpec
CONSTANTS
    e1 = e1
    e2 = e2
    e3 = e3
    e4 = e4
    o1 = o1
    o2 = o2
    o3 = o3
    w1 = w1
    w2 = w2
    w3 = w3
    Events = {e1, e2, e3, e4}
    Operations = {o1, o2, o3}
    EventsOf <- MCEventsOf
    Workers = {w1, w2, w3}
    BatchLimit = 2
    MaxCrashes = 1
INVARIANT EventsFollowCommits
PROPERTY Implements
CHECK_DEADLOCK FALSE
