SPECIFICATION Spec
CONSTANTS
    Blocks = 2
    BlockWords = 8
    FirstFitMax = 4
    Sizes = {1, 2, 3, 4}
    MaxLive = 4
INVARIANT Sorted
CHECK_DEADLOCK FALSE
