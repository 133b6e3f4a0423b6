SPECIFICATION DeadSpec
CONSTANTS
    Lba = {a, b}
    a = a
    b = b
    None = None
    Retries = 2
    WaitTicks = 2
    Users = FALSE
    Late = TRUE
PROPERTY ReadReturns
