SPECIFICATION Spec
CONSTANTS
    Controls = {GV01}
    Processes = {p1, p2}
    MaxAge <- MCMaxAge
    NoRecord = NoRecord
    Torn = Torn
    Glued = Glued
    MaxLog = 3
    MaxTime = 2
SYMMETRY MCSymmetry
INVARIANTS
    TypeOK
    NewestWins
    AckedIsHeard
    AckedFailStands
PROPERTY
    AnswersOnlyRise
