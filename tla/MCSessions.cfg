SPECIFICATION FairSpec
CONSTANTS
    Addresses = {a1, a2}
    Requests = {r1, r2}
    None = None
    MaxAttempts = 2
    MaxEntries = 1
    Window = 1
    MaxSessions = 2
    MaxChanges = 2
INVARIANTS
    TypeOK
    StaleOnlyFromOverlap
    AttemptsBound
PROPERTIES
    LockoutEnds
