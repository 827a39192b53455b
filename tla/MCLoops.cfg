CONSTANTS
  c1 = c1  c2 = c2  c3 = c3
  Ids = {c1, c2}  NoId = none  MaxQty = 2  MaxHeld = 2  CancelMax = 1  MaxCrashes = 1
  MaxStop = 2  Dust = 1  Losses = TRUE
  Coins = {c1, c2}  BookLimit = 1  Confirm = 2  ExitConfirm = 1  Runs = 2  MaxDeaths = 1
  Symbols = {c1, c2, c3}  ClusterOf <- Clusters  PerCluster = 1  SlotCounts = {1, 3}
  Wallet = 14  ProbePart = 3  LeadPart = 8  Proofs = 2  PerDay = 1  MaxEdits = 1  MaxLosses = 1
SYMMETRY Pair
SPECIFICATION MCSpec
INVARIANTS StoppedIsProtected CoolingStaysOut BasketShared
PROPERTIES AddsAreCovered ExitSticks NeverEmpty
CHECK_DEADLOCK FALSE
