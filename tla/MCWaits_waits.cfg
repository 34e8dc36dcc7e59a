\* Two concurrent calls, one fault; the parts in which somebody waits.
CONSTANTS
  Call = {c1, c2}
  NoCall = NoCall
  MaxRedemptions = 1
  PlanLimit = 1
  RateMax = 2
  Window = 2
  Attempts = 2
  Barber = {ana}
  DayLength = 4
  Offset = 0
  SlotLength = 1
  Granularity = 1
  Price = {1, 150}
  Percent = {50}
  Date = {"d1", "d2"}
  Code = {"anna", "berta"}
  MaxOpenings = 2
  MaxMade = 2
  MaxWaiting = 2
  MaxSent = 3
  MaxAstray = 1
  MaxFaults = 1
SPECIFICATION Spec
CHECK_DEADLOCK FALSE
INVARIANTS
  RecordedIsMailed
PROPERTIES
  DeniedIsReleased
  EveryMessageShown
  EveryJobEnds
