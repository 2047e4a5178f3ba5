SPECIFICATION FairSpec
CONSTANTS
    Databases = {d1, d2}
    Destinations = {x1}
    None = None
    Deleted = Deleted
    MaxRuns = 3
    MaxRetain = 1
    MaxFaults = 2
    Faults = {"kill", "power", "stop", "io", "unmount"}
    FolderDurable = TRUE
INVARIANTS
    IdleNoPartial
    ExpiredGone
PROPERTY
    QueuedSettles
