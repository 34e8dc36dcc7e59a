\* One booking, two checkouts of it and one failure; no refunds, no operations.
CONSTANTS
  b1 = b1
  Booking <- MCBookings
  Session = {s1, s2}
  NoSession = NoSession
  BookingOf <- MCBookingOf
  Payable <- MCPayable
  Charge <- MCCharge
  RefundAmounts = {}
  Client = {c1}
  Actor = {a1}
  MaxFaults = 1
  MaxOps = 0
SPECIFICATION FairSpec
CHECK_DEADLOCK FALSE
INVARIANTS NoOrphanHold EndedCheckoutReleases
PROPERTY PaymentSettles
