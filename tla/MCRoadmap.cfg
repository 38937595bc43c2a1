SPECIFICATION FairSpec
CONSTANTS
    A = A
    B = B
    C = C
    Items = {A, B, C}
    Externals = {"open", "declared", "verified"}
    Bands = {"attained", "waived", "missing", "foreign"}
    Controls = {"holds", "missing", "foreign"}
    Commands = {"test"}
    Documents <- MCDocuments
    BandStatus <- MCBandStatus
    ControlStatus <- MCControlStatus
    NoId = NoId
INVARIANTS
    TypeOK
    ReadyIsGrounded
    ChecksOnlySettle
    CleanExitMeansDone

    
CHECK_DEADLOCK FALSE
