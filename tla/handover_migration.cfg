SPECIFICATION Spec
CONSTANTS
    MaxWorkers = 4
    MaxReloads = 2
    MaxFaults = 0
    Schemas = {1, 2}
PROPERTIES
    MigratesAlone
