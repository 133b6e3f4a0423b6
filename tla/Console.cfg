SPECIFICATION CSpec
CONSTANTS
    Key = {"enter", "letter", "backspace", "left", "right", "up", "tab", "lshift", "caps"}
    Enter = "enter"
    Other = "letter"
    Users = FALSE
    MaxEvents = 3
    SCREEN_WIDTH = 3
    SCREEN_HEIGHT = 3
    Texts <- Answers
    MaxPrints = 1
    Elsewhere = "space"
INVARIANTS TypeOK OnScreen LineIsTyped
PROPERTIES FreshInput PrintedStays
