\* lokomotive.cs2 absent at startup and written later.
CONSTANTS
    Catalogs <- MCCatalogs
    Speeds = {5}
    InitFile <- MCInitFile
    FileAtStart = FALSE
    AtomicWrites = TRUE
    StartupWrites = FALSE
    DistinctMtimes = TRUE
    MaxWrites = 2
    MaxTime = 3
    MaxSets = 2
SPECIFICATION Spec
PROPERTY CatalogEventuallyLoaded
CHECK_DEADLOCK FALSE
