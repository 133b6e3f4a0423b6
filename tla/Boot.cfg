SPECIFICATION BootSpec
CONSTANTS
    LastCluster = 2848
    Table <- DiskTable
    bdb_track_sectors = 18
    bdb_heads = 2
    Directory <- DiskDirectory
    StageTwo = "stage2"
    Machines <- Qemu
    KernelSize = 4096
    LowMemory <- Low
    Layers = 4
    ReservedLayer = 3
INVARIANTS StageTwoIsFile PoolIsClear SearchIsAlloc WalkIsFree
PROPERTY CallsReturn
CHECK_DEADLOCK FALSE
