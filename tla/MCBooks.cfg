SPECIFICATION MCSpec
CONSTANTS
    MaxOrders = 3
    MaxSize = 2
    MaxInventory = 2
    Price <- MCPrice
    Fee = 1
    Capital = 20
    Unit = 2
    FullBudget = 4
    MaxOutside = 1
    MaxLate = 1
    MaxCuts = 1
    Engines = {g1, g2}
    Free = Free
    Orphan = Orphan
    Caps = {1, 2}
    Risk = 1
    Limit = 2
    MaxGain = 1
SYMMETRY EngineSymmetry
INVARIANTS
    CashBasis InventoryOnce HistoryExplainsPnl DayKept CampaignKept
    CampaignsWithinCap LossesWithinLimit
CHECK_DEADLOCK FALSE
