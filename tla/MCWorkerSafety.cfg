SPECIFICATION Spec
CONSTANTS
    Databases = {d1, d2}
    Destinations = {x1, x2}
    None = None
    Deleted = Deleted
    MaxRuns = 3
    MaxRetain = 1
    MaxFaults = 2
    Faults = {"kill", "power", "stop", "io", "db", "unmount"}
    FolderDurable = TRUE
SYMMETRY Symmetry
INVARIANTS
    TypeOK
    OneActivePerDatabase
    BackupInv
    NewestBackupSafe
    DownloadsComplete
    NoAbandonedRun
