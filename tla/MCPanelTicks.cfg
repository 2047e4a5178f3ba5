SPECIFICATION FairSpec
CONSTANTS
    MaxDatabases = 2
    Schedules <- Both
    Ticks = {t1, t2}
    Requests = {q1}
    None = None
    Deleted = Deleted
    Edits = {"connection"}
    MaxTime = 3
    MaxFaults = 1
INVARIANTS
    TypeOK
    ActiveHasRow
    SlotMovesOn
PROPERTIES
    RecoveryCatchesUp
    DueIsServed
