SPECIFICATION Spec
CONSTANTS
    ann = ann
    ANN = ANN
    bob = bob
    blank = blank
    v1 = v1
    v2 = v2
    trace = trace
    e1 = e1
    Principals = {ann, ANN, bob, blank}
    AuditFold <- MCAuditFold
    NoName = blank
    VerdictIds = {v1, v2}
    OtherIds = {x}
    Obligations = {trace}
    Envelopes = {e1}
    NoEnvelope = NoEnvelope
    Window = 0
    Threshold = 2
    Grace = 1
    Processes = {p, q}
    Outcomes <- MCOutcomes
    OtherOutcomes <- MCOtherOutcomes
    NoLine = NoLine
    MaxLines = 3
    MaxTime = 1
INVARIANTS
    PaidIsOwed
SYMMETRY Symmetry
CHECK_DEADLOCK FALSE
