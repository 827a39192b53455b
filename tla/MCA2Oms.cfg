SPECIFICATION MCSpec
CONSTANTS
    Ids = {a, b}
    NoId = none
    MaxQty = 2
    MaxHeld = 2
    CancelMax = 1
    MaxCrashes = 1
    Sizes <- OrderSizes
SYMMETRY AnyOrder
INVARIANTS SaleWithinBooks BooksMatchVenue CampaignOwnsInventory RemainderNotReordered
PROPERTY KeepsPromise
CHECK_DEADLOCK FALSE
