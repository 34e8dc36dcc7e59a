CONSTANTS
  b1 = b1
  Booking <- MCBookings
  Session = {s1}
  NoSession = NoSession
  BookingOf <- MCBookingOf
  Payable <- MCPayable
  Charge <- MCCharge
  RefundAmounts = {}
  Client = {c1}
  Actor = {a1}
  MaxFaults = 0
  MaxOps = 0
SPECIFICATION FairSpec
CHECK_DEADLOCK FALSE
PROPERTY SweepSparesPaid
