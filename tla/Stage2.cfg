SPECIFICATION BSpec
CONSTANTS
    MAX_FILE_HANDLE = 2
    PerSector = 3
    cluster_sectors = 2
    RootLba = 3
    RootSectors = 2
    LastCluster = 5
    Table <- DiskTable
    Entries <- DiskEntries
    Paths <- DiskPaths
    MaxRead = 4
    Kernel = "kernel"
    BufferRecords = 4
    DriverSectors = 1
    FatSectors = 2
INVARIANTS TypeOK HandlesAreHeld OpensTheNamed FindsFromFirstSector KernelIsFile
PROPERTY ImplementsReader
CHECK_DEADLOCK FALSE
