CONSTANTS
  e1 = e1  r1 = r1  r2 = r2  NoCall = NoCall
  Entries = {e1}
  Reductions = {r1, r2}
  Quantity <- EngineQuantity
  LastDay = 3  DaysPerWeek = 2  StartEquity = 3  MaxEquity = 4  MaxFlow = 1
  DailyLossCap = 1  WeeklyLossCap = 2  CampaignLossCap = 2  DrawdownCap = 3
  LossStreakLimit = 2  CooldownAfterLoss = 2
  Requests <- SizingRequests
  Bills <- LedgerBills
  EventIds = {"x", "y"}  OrderEvent = "o"  Margins = {2}
  Part = 4  ProbeSize = 8  BuildSize = 4  MaxStage = 3  MaxStop = 2
  E0 = 20  Prices = {20, 40}  Depths = {1, 4}  LastTime = 5  Period = 2  MaxFills = 2
  Ids = {r1, r2}  Sides = {"BUY", "SELL"}  MaxQty = 2
  Unit = 2  Rungs = 1  EntryLasts = 1  TakerAfter = 2  ExitAfter = 2
SPECIFICATION MCSpec
INVARIANTS
  SentAtMostOnce TerminalIsTrue ReductionsWithinPosition
  NoApprovalWhileTripped ApprovalIsLargestSafe AllocationsAreEarned
  HalfRides PaperBooks Promise EntriesWithinLadder
PROPERTY LateExitIsTaken
CHECK_DEADLOCK FALSE
