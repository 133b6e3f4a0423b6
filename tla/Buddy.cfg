SPECIFICATION Spec
CONSTANTS
    Layers = 4
    LeavesPerPage = 1
    ReservedLayer = 3
    TlbEntries = 1
INVARIANTS TypeOK BitmapIsHeld NoOverlap RootStaysSplit LiveMapped FreeUnmapped
PROPERTY ImplementsPool
