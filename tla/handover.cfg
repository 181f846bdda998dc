SPECIFICATION FairSpec
CONSTANTS
    MaxWorkers = 4
    MaxReloads = 2
    MaxFaults = 1
    Schemas = {1, 2}
INVARIANTS
    AlwaysAccepting
    OnlyOneServes
    OutageTrue
PROPERTIES
    NoMigrationUnderServing
    StopsEnd
