\* A writer that truncates lokomotive.cs2 before writing it, racing set_* calls and the watcher.
CONSTANTS
    Catalogs <- MCCatalogs
    Speeds = {5}
    InitFile <- MCInitFile
    FileAtStart = TRUE
    AtomicWrites = FALSE
    StartupWrites = FALSE
    DistinctMtimes = TRUE
    MaxWrites = 2
    MaxTime = 3
    MaxSets = 2
SPECIFICATION Spec
INVARIANTS TypeOK RetainedStateSurvives ListedLocosHaveState
PROPERTY CatalogEventuallyLoaded
CHECK_DEADLOCK FALSE
