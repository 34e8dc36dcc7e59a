\* Every standing of shop, member and visitor; one call, no failure.
CONSTANTS
  Call = {c1}
  NoCall = NoCall
  MaxRedemptions = 1
  PlanLimit = 1
  RateMax = 1
  Window = 1
  Attempts = 1
  MaxFaults = 0
  Barber = {ana}
  DayLength = 1
  Offset = 0
  SlotLength = 1
  Granularity = 1
  Price = {150}
  Percent = {50}
  Date = {"d1"}
  Code = {"anna"}
  MaxOpenings = 1
  MaxMade = 1
  MaxWaiting = 1
  MaxSent = 1
  MaxAstray = 1
SPECIFICATION Spec
CHECK_DEADLOCK FALSE
INVARIANT OfferedAsDocumented
