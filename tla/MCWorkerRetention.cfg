SPECIFICATION Spec
CONSTANTS
    Databases = {d1}
    Destinations = {x1, x2}
    None = None
    Deleted = Deleted
    MaxRuns = 4
    MaxRetain = 2
    MaxFaults = 1
    Faults = {"kill", "power", "stop", "io", "db", "unmount"}
    FolderDurable = TRUE
SYMMETRY Symmetry
INVARIANT
    RetentionBound
PROPERTIES
    RemovalJustified
    RefinesLedger
