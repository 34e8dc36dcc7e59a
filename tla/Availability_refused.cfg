\* A barber of a tenant whose midnight is a third of a day after that of UTC.
CONSTANTS
  Call = {c1}
  NoCall = NoCall
  MaxRedemptions = 1
  PlanLimit = 1
  RateMax = 1
  Window = 1
  Attempts = 1
  MaxFaults = 1
  Barber = {ana}
  DayLength = 6
  Offset = 2
  SlotLength = 1
  Granularity = 1
  Price = {1, 150}
  Percent = {50}
  Date = {"d1", "d2"}
  Code = {"anna", "berta"}
  MaxOpenings = 2
  MaxMade = 2
  MaxWaiting = 2
  MaxSent = 3
  MaxAstray = 1
SPECIFICATION Spec
CHECK_DEADLOCK FALSE
INVARIANT OfferedIsBookable
