SPECIFICATION Spec
CONSTANTS
    Databases = {d1}
    Destinations = {x1}
    None = None
    Deleted = Deleted
    MaxRuns = 2
    MaxRetain = 1
    MaxFaults = 1
    Faults = {"stop"}
    FolderDurable = TRUE
PROPERTY
    StopKeepsQueue
