SPECIFICATION Spec
CONSTANTS
    d1 = d1
    d2 = d2
    i1 = i1
    f1 = f1
    f2 = f2
    r1 = r1
    r2 = r2
    Requests = {r1, r2}
    DocumentIds = {d1, d2}
    ItemIds = {i1}
    Files = {f1, f2}
    Approvers = {{"OPERATIONS"}, {"SALES"}}
    Gate = {"OPERATIONS", "PRICING", "SUPER_ADMIN"}
    MaxVersion = 3
INVARIANTS
    TrailIsSound
    GateMeansApproved
SYMMETRY MCSymmetry
