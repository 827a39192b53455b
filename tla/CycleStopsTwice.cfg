CONSTANTS
  MaxUnits = 2  MaxEntries = 2  MaxHands = 0  MaxPlans = 1
SPECIFICATION StopsSpec
INVARIANT ClosesLeaveOnce
CHECK_DEADLOCK FALSE
