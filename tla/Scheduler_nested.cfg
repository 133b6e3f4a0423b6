SPECIFICATION Spec
CONSTANTS
    MAX_THREADS = 3
    Steps = 1
    TickInTail = TRUE
INVARIANT ExitedNeverSaved
