SPECIFICATION SSpec
CONSTANTS
    Blocks = 1
    BlockWords = 13
    FirstFitMax = 4
    Sizes = {1, 2, 4, 11, 12}
    MaxLive = 4
    StackSize = 2
    FileSize = 4
INVARIANTS TypeOK NoOverlap ListIsLive Sorted Coalesced StackIsLive
CHECK_DEADLOCK FALSE
