SPECIFICATION FairSpec
CONSTANTS
    A = A
    B = B
    C = C
    Bands = {A, B, C}
    Lists <- MCLists
    Nobody = Nobody
INVARIANTS
    TypeOK
    DependencyOrder
    ClosureExact
    GrantCoversClosure
    BlockerIsRootCause
    CycleErrorExact
PROPERTY
    Answers
CHECK_DEADLOCK FALSE
