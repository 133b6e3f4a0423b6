SPECIFICATION FairSpec
CONSTANTS
    MAX_THREADS = 3
    Steps = 2
    TickInTail = FALSE
INVARIANTS TypeOK OwnContext ExitedNeverSaved
PROPERTIES ImplementsTimeSharing EveryProcessRuns KernelRuns
