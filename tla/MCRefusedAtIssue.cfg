SPECIFICATION Spec
CONSTANTS
    Controls = {GV05}
    Bands = {A, B}
    Principals = {operator, agent}
    Operators = {operator}
    Fold <- SameFold
    WaiverIds = {w1, w2, w3, w4}
    IdRank <- AnyRank
    NoWaiver = NoWaiver
    NonCompensable = {}
    MaxTtl = 1
    MaxActive = 2
    MaxRenewals = 1
    Processes = {p, q}
    Torn = Torn
    Glued = Glued
    MaxLog = 4
    MaxTime = 1
SYMMETRY Symmetry
INVARIANT
    RefusedAtIssue
CHECK_DEADLOCK FALSE
