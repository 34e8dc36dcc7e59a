\* Two overlapping slots of one barber, two bookings, two requests for them.
CONSTANTS
  s1 = s1
  s2 = s2
  Staff <- MCStaff
  Offer <- MCOffer
  Booking = {b1, b2}
  Request = {r1, r2}
  Actor = {a1}
  HoldTime = 1
  MaxNow = 2
  MaxCrashes = 1
SPECIFICATION FairSpec
INVARIANTS TypeOK NoOverlap
PROPERTIES HoldNotCutShort LifecycleSpec BlockedOfferClears
