\* Two concurrent calls, one fault, two barbers behind UTC; the parts with safety properties in turn.
CONSTANTS
  Call = {c1, c2}
  NoCall = NoCall
  MaxRedemptions = 1
  PlanLimit = 1
  RateMax = 2
  Window = 2
  Attempts = 2
  MaxFaults = 1
  Barber = {ana, rui}
  DayLength = 4
  Offset = 1
  SlotLength = 2
  Granularity = 1
  Price = {1, 150}
  Percent = {50}
  Date = {"d1", "d2"}
  Code = {"anna", "berta"}
  MaxOpenings = 2
  MaxMade = 2
  MaxWaiting = 2
  MaxSent = 2
  MaxAstray = 1
SPECIFICATION Spec
SYMMETRY OfficeSymmetry
CHECK_DEADLOCK FALSE
INVARIANTS
  TypeOK
  OwnersChoiceStands
  WithinPlan
  RowsOfLastSave
  RedemptionsBounded
  AcceptedWasMeant
  NoFreeRide
  BookingsFollowIdentity
  OncePerOpening
  SummaryIsBooked
  OfferIsExact
  TenantIsolation
  SavedAsSaid
  ShownIsStored
  NoRedirectLoop
  SignedInIsSeen
  OfferedIsPermitted
  NoLockout
