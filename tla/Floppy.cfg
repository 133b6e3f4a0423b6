SPECIFICATION FairSpec
CONSTANTS
    Lba = {a, b}
    a = a
    b = b
    None = None
    Retries = 2
    WaitTicks = 2
    Users = TRUE
    Late = FALSE
INVARIANTS TypeOK SuccessIsData HandlerRestored
PROPERTY ReadReturns
