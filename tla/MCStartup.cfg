SPECIFICATION FairSpec
CONSTANTS
    Instances = {i1, i2}
    Installed = {0, 1, 3}
    None = None
    Empty = Empty
    Named = Named
    Given = Given
    Ways = {"direct", "init"}
    MaxFaults = 2
    Faults = {"kill", "power", "volumes"}
INVARIANTS
    TypeOK
    KeyOpensCredentials
    MigrationRepeatable
PROPERTIES
    NoReplacementKey
    MarksOnlyFresh
    AccountKept
    SpoiltOnlyBy
    StartsAgain
