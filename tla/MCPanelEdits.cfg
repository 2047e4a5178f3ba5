SPECIFICATION Spec
CONSTANTS
    MaxDatabases = 1
    Schedules <- Both
    Ticks = {t1, t2}
    Requests = {q1, q2}
    None = None
    Deleted = Deleted
    Edits = {"connection", "schedule", "toggle"}
    MaxTime = 3
    MaxFaults = 1
SYMMETRY Symmetry
INVARIANT
    EnabledHasSlot
PROPERTY
    TickFiresDueRow
