SPECIFICATION Spec
CONSTANTS
    Databases = {d1}
    Destinations = {x1}
    None = None
    Deleted = Deleted
    MaxRuns = 1
    MaxRetain = 1
    MaxFaults = 1
    Faults = {"power"}
    FolderDurable = FALSE
INVARIANT
    AcknowledgedIsThere
