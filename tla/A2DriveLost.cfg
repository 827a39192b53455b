SPECIFICATION LiveSpec
CONSTANTS
    Ids = {a, b}
    NoId = none
    MaxQty = 1
    MaxHeld = 1
    CancelMax = 1
    MaxCrashes = 0
    MaxStop = 1
    Dust = 0
    MaxTrouble = 1
    Losses = TRUE
PROPERTY RecoveryExit
CHECK_DEADLOCK FALSE
