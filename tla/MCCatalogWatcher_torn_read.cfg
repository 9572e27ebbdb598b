\* A truncating writer whose partly written file the watcher reads, the last line cut anywhere.
CONSTANTS
    Catalogs <- MCCatalogs
    Speeds = {5}
    InitFile <- MCInitFile
    FileAtStart = TRUE
    AtomicWrites = FALSE
    StartupWrites = FALSE
    DistinctMtimes = TRUE
    MaxWrites = 2
    MaxTime = 3
    MaxSets = 2
SPECIFICATION Spec
INVARIANT ListedLocosWereWritten
CHECK_DEADLOCK FALSE
