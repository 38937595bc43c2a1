SPECIFICATION Spec
CONSTANTS
    c = c
    Alias = Alias
    Agent = Agent
    Ci = Ci
    id = id
    scope = scope
    tokens = tokens
    disk = disk
    Names = {Agent, Alias, Ci}
    Person <- MCPerson
    Leases = {id}
    Scopes = {scope}
    Metrics = {tokens}
    Resources = {disk}
    DrillAge = 1
    None = None
    Malformed = Malformed
    Unreadable = Unreadable
    Controls = {c}
    Control = c
    MaxAge <- MCMaxAge
    NoRecord = NoRecord
    Processes = {p, q}
    Writes <- MCWrites
    NoFile = NoFile
    Nothing = Nothing
    MaxTime = 2
    MaxChanges = 3
    MaxRuns = 2
SYMMETRY Symmetry
INVARIANTS
    TypeOK
    HoldsRestsOnLook
    BreachIsNotOutlived
    EmptyPassNeedsRotation
    OrderDoesNotMatter
CHECK_DEADLOCK FALSE
