SPECIFICATION Spec
CONSTANTS
    s1 = s1
    s2 = s2
    r1 = r1
    r2 = r2
    ShipmentIds = {s1, s2}
    Requests = {r1, r2}
    Users = {{"shipment:transition"}, {"shipment:create"}, {"shipment:create", "shipment:transition"}}
    MaxHistory = 4
INVARIANTS
    HistoryExplainsState
    HistoryIsPath
PROPERTY TransitionSyncsStatus
SYMMETRY MCSymmetry
CHECK_DEADLOCK FALSE
