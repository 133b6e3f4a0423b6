SPECIFICATION FairSpec
CONSTANTS
    Key = {Enter, Other}
    Enter = Enter
    Other = Other
    Users = FALSE
    MaxEvents = 2
PROPERTY EnterEnds
