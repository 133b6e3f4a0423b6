SPECIFICATION Spec
CONSTANTS
    MAX_FILE_HANDLE = 2
    PerSector = 2
    cluster_sectors = 2
    RootLba = 3
    RootSectors = 2
    LastCluster = 6
    Table <- DiskTable
    Entries <- DiskEntries
    Paths <- DiskPaths
    MaxRead = 3
INVARIANT NotFoundIsAbsent
CHECK_DEADLOCK FALSE
