SPECIFICATION Spec
CONSTANTS
    Ids = {a, b}
    NoId = none
    MaxQty = 2
    MaxHeld = 2
    CancelMax = 1
    MaxCrashes = 0
    MaxStop = 1
    Dust = 1
    Losses = FALSE
PROPERTY CooldownHolds
CHECK_DEADLOCK FALSE
