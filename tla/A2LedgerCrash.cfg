SPECIFICATION BooksSpec
CONSTANTS
    MaxOrders = 3
    MaxSize = 2
    MaxInventory = 2
    Price <- MCPrice
    Fee = 1
    Capital = 20
    Unit = 2
    FullBudget = 4
    MaxOutside = 0
    MaxLate = 1
    MaxCuts = 1
INVARIANT AppliedOnce
CHECK_DEADLOCK FALSE
