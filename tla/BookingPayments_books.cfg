\* One checkout, refunds of it at once or in two parts, one operation, one failure.
CONSTANTS
  b1 = b1
  Booking <- MCBookings
  Session = {s1}
  NoSession = NoSession
  BookingOf <- MCBookingOf
  Payable <- MCPayable
  Charge <- MCCharge
  RefundAmounts = {1, 2}
  Client = {c1}
  Actor = {a1}
  MaxFaults = 1
  MaxOps = 1
SPECIFICATION Spec
CHECK_DEADLOCK FALSE
INVARIANT PaidIsReceived
