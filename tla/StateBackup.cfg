SPECIFICATION BackupSpec
CONSTANTS
    StateFiles = {catalog, settings}
    Catalog = catalog
    MaxVersion = 2
    MaxBackups = 3
    NoVersion = NoVersion
INVARIANT BackupIsConsistent
CHECK_DEADLOCK FALSE
