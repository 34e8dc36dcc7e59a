------------------------------- MODULE Charges -------------------------------
(***************************************************************************)
(* The amounts of one booking: the price and the discount its customer is  *)
(* shown, those createBooking reads again and stores with the booking, the *)
(* part that is charged online, the rest that is paid on site and the fee  *)
(* of a cancellation.  The owner changes the price, the coupon, the mode   *)
(* of payment and the rules meanwhile.  Amounts are in cents.  The races   *)
(* of the webhook and of two payments on site are of BookingPayments, the  *)
(* uses of a coupon of Coupons.                                            *)
(***************************************************************************)
EXTENDS Limits

VARIABLES
  price,        \* service.priceInCents
  voucher,      \* type and value of the coupon
  preview,      \* what the page shows: a price, whether a coupon is applied, and its discount
  inHand,       \* what createBooking has read of the service and its rules
  account,      \* the booking, as far as it is about money
  shownStatus,  \* its status in the customer's list of bookings
  hoursLeft,    \* until it starts
  agreed,       \* history: the amount that was shown when the booking was confirmed, ...
  moved,        \* ... and has price or coupon been edited since they were shown?
  collected,    \* history: what the customer has paid, online and at the counter
  overwritten   \* history: has a confirmation written over what was recorded on site?

paid == <<collected, overwritten>>
vars == <<price, voucher, preview, inHand, account, shownStatus, hoursLeft, agreed, moved, paid>>

Value    == Price \cup Percent
Voucher  == [type : {"PERCENT", "FIXED"}, value : Value]
Fee      == [type : {"PERCENT", "FIXED"}, value : Value, free : 0 .. 2]  \* cancellation of the rules
Mode     == {"ON_SITE", "DEPOSIT", "FULL_PREPAYMENT"}
Horizon  == 2  \* bound: hours from the booking to its start
Unread   == [reading |-> FALSE]
Unbooked == [status |-> "none"]
Cancellable == {"PENDING_PAYMENT", "CONFIRMED"}

Init ==
  /\ price \in Price
  /\ voucher \in Voucher
  /\ preview = [price |-> price, coupon |-> FALSE, discount |-> 0]
  /\ inHand = Unread
  /\ account = Unbooked
  /\ shownStatus = "none"
  /\ hoursLeft = Horizon
  /\ agreed = 0
  /\ moved = FALSE
  /\ collected = 0
  /\ overwritten = FALSE

-----------------------------------------------------------------------------
(* The amounts *)

AtMost(a, b) == IF a <= b THEN a ELSE b

(* Math.round: halves up *)
PercentOf(amount, percent) == (2 * (amount * percent) + 100) \div 200

(* The discount is at most the price, whichever the coupon. *)
Discount(c, p) == AtMost(IF c.type = "PERCENT" THEN PercentOf(p, c.value) ELSE c.value, p)

(* A deposit is of what is left of the price; none, if no percentage is known. *)
ChargeAmount(final, mode, deposit) == IF mode = "DEPOSIT" THEN PercentOf(final, deposit) ELSE final

FeeInCents(payable, rule) ==
  IF rule.type = "PERCENT" THEN PercentOf(payable, AtMost(rule.value, 100)) ELSE AtMost(rule.value, payable)

Payable == account.price - account.discount

Outstanding == IF account.received < Payable THEN Payable - account.received ELSE 0

-----------------------------------------------------------------------------
(* The owner.  Nothing reads price and coupon once there is a booking. *)

UpdateService(p) ==
  /\ account = Unbooked
  /\ price' = p
  /\ moved' = (moved \/ inHand = Unread)
  /\ UNCHANGED <<voucher, preview, inHand, account, shownStatus, hoursLeft, agreed, paid>>

UpdateCoupon(c) ==
  /\ account = Unbooked
  /\ voucher' = c
  /\ moved' = (moved \/ preview.coupon \/ inHand # Unread)
  /\ UNCHANGED <<price, preview, inHand, account, shownStatus, hoursLeft, agreed, paid>>

-----------------------------------------------------------------------------
(* The customer's booking *)

LoadPage ==
  /\ inHand = Unread /\ account = Unbooked
  /\ preview' = [price |-> price, coupon |-> FALSE, discount |-> 0]
  /\ moved' = FALSE
  /\ UNCHANGED <<price, voucher, inHand, account, shownStatus, hoursLeft, agreed, paid>>

(* validateCoupon, for the price the service has by now. *)
ApplyCoupon ==
  /\ inHand = Unread /\ account = Unbooked
  /\ ~preview.coupon
  /\ preview' = [preview EXCEPT !.coupon = TRUE, !.discount = Discount(voucher, price)]
  /\ UNCHANGED <<price, voucher, inHand, account, shownStatus, hoursLeft, agreed, moved, paid>>

Shown == IF preview.price > preview.discount THEN preview.price - preview.discount ELSE 0

(* createBooking reads the service and the rules; a deposit that is only   *)
(* the mode of the rules may lack its percentage.                          *)
ReadService(mode, deposit, atDashboard) ==
  /\ inHand = Unread /\ account = Unbooked
  /\ inHand' = [reading |-> TRUE, price |-> price, mode |-> mode, deposit |-> deposit,
                online |-> ~atDashboard /\ mode # "ON_SITE"]
  /\ agreed' = Shown
  /\ UNCHANGED <<price, voucher, preview, account, shownStatus, hoursLeft, moved, paid>>

(* The slot is taken, or the coupon not valid any more. *)
Throw ==
  /\ inHand # Unread
  /\ inHand' = Unread
  /\ moved' = (moved \/ price # inHand.price)
  /\ UNCHANGED <<price, voucher, preview, account, shownStatus, hoursLeft, agreed, paid>>

(* The coupon is validated again, for the price that was read, and the     *)
(* booking inserted with the amounts of this moment.                       *)
Insert ==
  /\ inHand # Unread
  /\ LET discount == IF preview.coupon THEN Discount(voucher, inHand.price) ELSE 0
         charge   == ChargeAmount(inHand.price - discount, inHand.mode, inHand.deposit)
     IN  account' = [status |-> IF inHand.online THEN "PENDING_PAYMENT" ELSE "CONFIRMED",
                     price |-> inHand.price, discount |-> discount,
                     online |-> IF inHand.online THEN charge ELSE 0, received |-> 0, fee |-> 0]
  /\ inHand' = Unread
  /\ UNCHANGED <<price, voucher, preview, shownStatus, hoursLeft, agreed, moved, paid>>

-----------------------------------------------------------------------------
(* The booking's money *)

Change(row) ==
  /\ account' = row
  /\ UNCHANGED <<price, voucher, preview, inHand, shownStatus, hoursLeft, agreed, moved>>

(* Stripe takes no payment of nothing: such a hold can only run out.  The  *)
(* confirmation sets the amount received, whatever is in the row.          *)
PayOnline ==
  /\ account.status = "PENDING_PAYMENT"
  /\ account.online > 0
  /\ Change([account EXCEPT !.status = "CONFIRMED", !.received = account.online])
  /\ collected' = collected + account.online
  /\ overwritten' = (overwritten \/ account.received > 0)

HoldRunsOut ==
  /\ account.status = "PENDING_PAYMENT"
  /\ Change([account EXCEPT !.status = "CANCELLED"])
  /\ UNCHANGED paid

(* The rest, to the counter; also of a hold that is to be paid online. *)
RecordOnSitePayment ==
  /\ account.status \in Cancellable
  /\ Outstanding > 0
  /\ Change([account EXCEPT !.received = @ + Outstanding])
  /\ collected' = collected + Outstanding
  /\ UNCHANGED overwritten

ListBookings ==
  /\ shownStatus' = account.status
  /\ UNCHANGED <<price, voucher, preview, inHand, account, hoursLeft, agreed, moved, paid>>

(* The button is there for the status that was listed; cancelBooking asks  *)
(* for the time and the rules of now, but not for the status.              *)
Cancel(rule) ==
  /\ shownStatus \in Cancellable
  /\ hoursLeft > 0
  /\ Change([account EXCEPT !.status = "CANCELLED",
                            !.fee = IF hoursLeft >= rule.free THEN 0 ELSE FeeInCents(Payable, rule)])
  /\ UNCHANGED paid

HourPasses ==
  /\ account # Unbooked
  /\ hoursLeft > 0
  /\ hoursLeft' = hoursLeft - 1
  /\ UNCHANGED <<price, voucher, preview, inHand, account, shownStatus, agreed, moved, paid>>

Next ==
  \/ \E p \in Price \ {price} : UpdateService(p)
  \/ \E c \in Voucher \ {voucher} : UpdateCoupon(c)
  \/ LoadPage \/ ApplyCoupon
  \/ \E mode \in Mode, deposit \in Percent \cup {0}, atDashboard \in BOOLEAN : ReadService(mode, deposit, atDashboard)
  \/ Throw \/ Insert
  \/ PayOnline \/ HoldRunsOut \/ RecordOnSitePayment
  \/ ListBookings
  \/ \E rule \in Fee : Cancel(rule)
  \/ HourPasses

Spec == Init /\ [][Next]_vars

-----------------------------------------------------------------------------
Amount == [status : {"PENDING_PAYMENT", "CONFIRMED", "CANCELLED"},
           price : Price, discount : Nat, online : Nat, received : Nat, fee : Nat]

TypeOK ==
  /\ price \in Price
  /\ voucher \in Voucher
  /\ preview \in [price : Price, coupon : BOOLEAN, discount : Nat]
  /\ \/ inHand = Unread
     \/ /\ inHand \in [reading : {TRUE}, price : Price, mode : Mode, deposit : Percent \cup {0}, online : BOOLEAN]
        /\ account = Unbooked
  /\ account = Unbooked \/ account \in Amount
  /\ shownStatus \in {"none", "PENDING_PAYMENT", "CONFIRMED", "CANCELLED"}
  /\ hoursLeft \in 0 .. Horizon
  /\ agreed \in Nat
  /\ moved \in BOOLEAN
  /\ collected \in Nat
  /\ overwritten \in BOOLEAN

(* A customer is charged what the page showed on confirmation, although    *)
(* the page, its coupon, the booking's reading and its own coupon are of   *)
(* different times, unless the owner has edited one of them in between.    *)
ChargedAsShown == account # Unbooked /\ ~moved => Payable = agreed

(* Whatever price, coupon, deposit and rules were at which step, and how   *)
(* often it is paid for or cancelled, a booking is discounted by no more   *)
(* than its price, and charged online and fined no more than what the      *)
(* discount leaves of it.  No more is taken of its customer either, online *)
(* and at the counter together, and the row shows all of it, unless a hold *)
(* was paid at the counter before it was paid online: then the row has     *)
(* lost the first payment.  Payments at the counter are recorded one at a  *)
(* time here.                                                              *)
WithinPrice ==
  account # Unbooked =>
    /\ account.discount <= account.price
    /\ account.online <= Payable
    /\ account.fee <= Payable
    /\ account.received <= Payable
    /\ ~overwritten => collected = account.received
==============================================================================
