SPECIFICATION Spec
CONSTANTS
    Calls = {c1, c2}
    Servers <- MCServers
    Forms <- MCForms
    Images <- MCImages
    None = None
    MaxChanges = 1
SYMMETRY CallSymmetry
INVARIANTS
    TypeOK
    FilesOfRunning
    RefusesExactly
    RecordedIsUsed
