SPECIFICATION Spec
CONSTANTS
    A = A
    B = B
    GV03 = GV03
    GV04 = GV04
    read = read
    merge = merge
    tune = tune
    agent = agent
    guest = guest
    ann = ann
    Ann = Ann
    bob = bob
    w1 = w1
    w2 = w2
    e1 = e1
    e2 = e2
    lessons = lessons
    inside = inside
    elsewhere = elsewhere
    garbled = garbled
    small = small
    large = large
    MaxEnvelopeTtl = 2
    Controls = {GV03, GV04}
    MaxAge <- MCMaxAge
    NoRecord = NoRecord
    Bands = {A, B}
    DependsOn <- MCDependsOn
    Requires <- MCRequires
    Owed <- MCOwed
    Capabilities = {read, merge, tune}
    BandOf <- MCBandOf
    EnvelopeBounded = {tune}
    NonDelegable = {merge}
    Roles = {agent, guest}
    Grants <- MCGrants
    Principals = {ann, Ann, bob}
    Fold <- MCFold
    Strict <- MCStrict
    Nobody = Nobody
    EscalateAt = 1
    WaiverIds = {w1, w2}
    IdRank <- MCRank
    NoWaiver = NoWaiver
    NonCompensable = {GV03}
    MaxTtl = 1
    MaxActive = 1
    MaxRenewals = 1
    EnvelopeIds = {e1, e2}
    NoEnvelope = NoEnvelope
    Targets = {lessons}
    Scopes = {inside, elsewhere, garbled}
    Unparsable = {garbled}
    Under <- MCUnder
    Adjustments = {small, large}
    RegistryPolicy <- MCRegistryPolicy
    RegisterPolicy <- MCRegisterPolicy
    Processes = {p}
    Asked <- MCAsked
    Requests <- MCRequests
    NoVerdict = NoVerdict
    Torn = Torn
    Glued = Glued
    WaiverPool <- MCWaiverPool
    EnvelopePool <- MCEnvelopePool
    MaxChanges = 4
    MaxVerdicts = 1
    MaxTime = 1
INVARIANT
    PolicyRecheckedAtUse
CHECK_DEADLOCK FALSE
