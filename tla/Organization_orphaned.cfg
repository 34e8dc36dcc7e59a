\* A claimed subscription that ends during the sign-up, one call of which fails.
CONSTANTS
  Call = {c1}
  NoCall = NoCall
  MaxRedemptions = 1
  PlanLimit = 1
  RateMax = 1
  Window = 1
  Attempts = 1
  MaxFaults = 1
  Barber = {ana}
  DayLength = 1
  Offset = 0
  SlotLength = 1
  Granularity = 1
  Price = {150}
  Percent = {50}
  Date = {"d1"}
  Code = {"anna"}
  MaxOpenings = 1
  MaxMade = 1
  MaxWaiting = 1
  MaxSent = 1
  MaxAstray = 1
SPECIFICATION Spec
CHECK_DEADLOCK FALSE
INVARIANT EndIsNeverOrphaned
