SPECIFICATION Spec
CONSTANTS
    MaxDatabases = 1
    Schedules <- OnlyClock
    Ticks = {t1, t2}
    Requests = {q1, q2}
    None = None
    Deleted = Deleted
    Edits = {"connection", "toggle"}
    MaxTime = 3
    MaxFaults = 0
PROPERTY
    TickNotUndone
