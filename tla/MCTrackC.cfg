CONSTANTS
  MaxOrders = 3  EntryQty = 2  Bids = {1, 3}  Stop = 2  StopLimit = 1  Minimum = 2
  a = a  b = b
  Coins = {a, b}  Quantities = {1, 2}  Prices = {1, 3}  Limits = {1, 2}
  CashLevels = {6}  MaxCash = 7  MaxKept = 1  MaxDay = 2  MinimumValue = 2
  Den = 4  CashPart = 4  DailyPart = 3  RiskPart = 2
  Universe = {a, b}  Nobody = Nobody  BasketSize = 2  MaxBooks = 2
  Allocation = 2  Percent = 100  MaxEntry = 2  MaxBook = 2  MaxFunds = 3
  Orders = {"p", "q"}  MaxRows = 4  MaxTries = 2
  MaxUnits = 2  MaxEntries = 3  MaxHands = 1  MaxPlans = 2
SYMMETRY Pair
SPECIFICATION MCSpec
INVARIANTS
  SalesWithinCampaign BooksCoverInventory NothingLeftBehind RecoveryTellsTruth
  PortfolioKept BasketKept
  NoticesTellFills ClosesClassified
PROPERTIES KeepsPromise
CHECK_DEADLOCK FALSE
