--------------------------- MODULE BookingPayments ---------------------------
(***************************************************************************)
(* The money of a booking: checkout sessions, what Stripe reports of them  *)
(* to the Connect webhook, the sweep of unpaid holds, refunds, and the     *)
(* dashboard and account operations on the same row.                       *)
(*                                                                         *)
(* Events reach the webhook through the ledger of StripeEvents, which      *)
(* stands here as the EventLease it implements: a delivery holds its event *)
(* while it is dispatched, one database call at a time, and may at any of  *)
(* them fail and leave the event to a later delivery.  Answers to Stripe   *)
(* are not lost here: a redelivery of a concluded event changes no row.    *)
(***************************************************************************)
EXTENDS Integers

CONSTANTS
  Booking,        \* booking ids
  Session,        \* ids of checkout sessions, and of their payment intents
  NoSession,      \* null
  BookingOf,      \* BookingOf[s] : the booking in the metadata of session s
  Payable,        \* Payable[b] : priceInCents - discountInCents
  Charge,         \* Charge[b]  : onlinePaymentAmountInCents, 0 when paid on site
  RefundAmounts,  \* what a tenant may refund at once
  Client,         \* concurrent calls of createBookingPaymentCheckout
  Actor,          \* concurrent dashboard and account operations
  MaxFaults,      \* bound: failed deliveries and operations, crashes of the worker
  MaxOps          \* bound: dashboard and account operations

Refunds == {"refund1", "refund2"}
Event == [type : {"completed", "ended"}, session : Session, amount : {0}]
         \cup [type : Refunds, session : Session, amount : RefundAmounts]

ASSUME SessionAssumption == NoSession \notin Session /\ BookingOf \in [Session -> Booking]
ASSUME AmountAssumption  == /\ Charge \in [Booking -> Nat]
                            /\ Payable \in [Booking -> Nat]
                            /\ \A b \in Booking : Charge[b] <= Payable[b]
                            /\ RefundAmounts \subseteq Nat \ {0}
ASSUME BoundAssumption   == MaxFaults \in Nat /\ MaxOps \in Nat

VARIABLES
  status,      \* booking.status
  pay,         \* booking.paymentStatus
  session,     \* booking.stripeCheckoutSessionId
  intent,      \* booking.stripePaymentIntentId, named by its session
  received,    \* booking.paymentReceivedInCents
  refunded,    \* booking.refundedAmountInCents
  noShows,     \* customer.noShowCount, on behalf of this booking
  overdue,     \* the bookings with expiresAt in the past
  jobs,        \* the notification jobs ever enqueued, one per job id
  sess,        \* sess[s]    : what has become of session s at Stripe
  repaid,      \* repaid[s]  : what Stripe has refunded of it
  paying,      \* checkouts between the read of the booking and its update
  ops,         \* operations between the read and the update of their booking
  started,     \* number of operations so far
  onSite,      \* history: onSite[b] : what has been paid of b at the counter
  sweep,       \* where the sweep is: "idle", "found" or "cancelled"
  stale,       \* the ids it is at
  phase, emitted, \* the event lease
  step,        \* step[e]    : what the holder of e does next
  faults,
  failed       \* history: the events some delivery of which has failed

rowVars    == <<status, pay, session, intent, received, refunded, noShows, overdue>>
stripeVars == <<sess, repaid>>
opVars     == <<ops, started, onSite>>
sweepVars  == <<sweep, stale>>
eventVars  == <<phase, emitted, step>>
vars == <<rowVars, jobs, stripeVars, paying, opVars, sweepVars, eventVars, faults, failed>>

concluded == {e \in Event : phase[e] = "concluded"}
Lease == INSTANCE EventLease WITH acked <- concluded, late <- {}

Terminal   == {"COMPLETED", "CANCELLED", "NO_SHOW"}
Active     == {"PENDING_PAYMENT", "CONFIRMED"}
Job        == [type : {"confirmation", "reminder", "cancellation", "expired"}, booking : Booking]
JobsOf(b, types) == [type : types, booking : {b}]

Completed(s)    == [type |-> "completed", session |-> s, amount |-> 0]
Ended(s)        == [type |-> "ended", session |-> s, amount |-> 0]

-----------------------------------------------------------------------------
(* createBooking has made every booking: a hold if it is to be paid online,*)
(* else confirmed.                                                         *)
Init ==
  /\ status = [b \in Booking |-> IF Charge[b] > 0 THEN "PENDING_PAYMENT" ELSE "CONFIRMED"]
  /\ pay = [b \in Booking |-> IF Charge[b] > 0 THEN "PENDING" ELSE "NONE"]
  /\ session = [b \in Booking |-> NoSession]
  /\ intent = [b \in Booking |-> NoSession]
  /\ received = [b \in Booking |-> 0]
  /\ refunded = [b \in Booking |-> 0]
  /\ noShows = [b \in Booking |-> 0]
  /\ overdue = {}
  /\ jobs = UNION {JobsOf(b, {"confirmation", "reminder"}) : b \in {c \in Booking : Charge[c] = 0}}
  /\ sess = [s \in Session |-> "none"]
  /\ repaid = [s \in Session |-> 0]
  /\ paying = {}
  /\ ops = {}
  /\ started = 0
  /\ onSite = [b \in Booking |-> 0]
  /\ sweep = "idle"
  /\ stale = {}
  /\ Lease!Init
  /\ step = [e \in Event |-> "start"]
  /\ faults = 0
  /\ failed = {}

-----------------------------------------------------------------------------
(* Time: the 30 minutes of the hold pass. *)
HoldRunsOut(b) ==
  /\ status[b] = "PENDING_PAYMENT"
  /\ b \notin overdue
  /\ overdue' = overdue \cup {b}
  /\ UNCHANGED <<status, pay, session, intent, received, refunded, noShows, jobs, stripeVars, paying, opVars, sweepVars, eventVars, faults, failed>>

(* createBookingPaymentCheckout reads the booking, ... *)
CheckoutRead(c, b) ==
  /\ \A p \in paying : p.by # c
  /\ status[b] = "PENDING_PAYMENT"
  /\ b \notin overdue
  /\ paying' = paying \cup {[by |-> c, for |-> b]}
  /\ UNCHANGED <<rowVars, jobs, stripeVars, opVars, sweepVars, eventVars, faults, failed>>

(* ... creates the session at Stripe and writes its id into the row; only  *)
(* then is its URL known to anybody.                                       *)
CheckoutWrite(p, s) ==
  /\ sess[s] = "none"
  /\ BookingOf[s] = p.for
  /\ sess' = [sess EXCEPT ![s] = "open"]
  /\ session' = [session EXCEPT ![p.for] = s]
  /\ paying' = paying \ {p}
  /\ UNCHANGED <<status, pay, intent, received, refunded, noShows, overdue, jobs, repaid, opVars, sweepVars, eventVars, faults, failed>>

-----------------------------------------------------------------------------
(* Stripe, as the webhook knows it: what may become of a session, and the  *)
(* events that tell of it.                                                 *)
Happens(s, from, to, e) ==
  /\ sess[s] = from
  /\ sess' = [sess EXCEPT ![s] = to]
  /\ Lease!Emit(e)
  /\ UNCHANGED <<rowVars, jobs, repaid, paying, opVars, sweepVars, step, faults, failed>>

Stripe(s) ==
  \/ Happens(s, "open", "paid", Completed(s))
  \/ Happens(s, "open", "expired", Ended(s))
  (* a delayed payment method: completed now, paid or failed later *)
  \/ Happens(s, "open", "delayed", Completed(s))
  \/ Happens(s, "delayed", "failed", Ended(s))
  \/ /\ sess[s] = "delayed"
     /\ sess' = [sess EXCEPT ![s] = "paid"]
     /\ UNCHANGED <<rowVars, jobs, repaid, paying, opVars, sweepVars, eventVars, faults, failed>>

(* The tenant refunds a payment, in full or in parts, from Stripe's side.  *)
(* charge.refund.updated tells of a refund whatever its status is: the     *)
(* money has been given back, or the refund is pending, canceled or has    *)
(* failed, and Stripe gives back nothing.  Refunds are named in the order  *)
(* they are told of.                                                       *)
Refund(s, e) ==
  /\ e.session = s
  /\ e.type \in Refunds
  /\ \A f \in emitted : f.session = s => f.type # e.type
  /\ e.type = "refund2" => \E f \in emitted : f.session = s /\ f.type = "refund1"
  /\ sess[s] = "paid"
  /\ repaid[s] + e.amount <= Charge[BookingOf[s]]
  /\ \/ repaid' = [repaid EXCEPT ![s] = @ + e.amount]
     \/ UNCHANGED repaid
  /\ Lease!Emit(e)
  /\ UNCHANGED <<rowVars, jobs, sess, paying, opVars, sweepVars, step, faults, failed>>

-----------------------------------------------------------------------------
(* The webhook: a delivery takes its event, makes its calls, concludes it. *)
TakeEvent(e) ==
  /\ Lease!Acquire(e)
  /\ step' = [step EXCEPT ![e] = "start"]
  /\ UNCHANGED <<rowVars, jobs, stripeVars, paying, opVars, sweepVars, faults, failed>>

FailEvent(e) ==
  /\ faults < MaxFaults
  /\ faults' = faults + 1
  /\ failed' = failed \cup {e}
  /\ Lease!Release(e)
  /\ step' = [step EXCEPT ![e] = "start"]
  /\ UNCHANGED <<rowVars, jobs, stripeVars, paying, opVars, sweepVars>>

ConcludeEvent(e) ==
  /\ step[e] = "done"
  /\ Lease!Conclude(e)
  /\ UNCHANGED <<rowVars, jobs, stripeVars, paying, opVars, sweepVars, step, faults, failed>>

At(e, type, from) == /\ phase[e] = "held"
                     /\ e.type \in type
                     /\ step[e] = from

Goto(e, to) == step' = [step EXCEPT ![e] = to]

NothingElse == UNCHANGED <<noShows, stripeVars, paying, opVars, sweepVars, phase, emitted, faults, failed>>

(* Mutants of Confirms: refusing holds that have run out, and without the  *)
(* guard on the status.                                                    *)
ConfirmsInTime(e, b) == /\ BookingOf[e.session] = b
                        /\ session[b] = e.session
                        /\ status[b] = "PENDING_PAYMENT"
                        /\ b \notin overdue
ConfirmsAnyStatus(e, b) == BookingOf[e.session] = b /\ session[b] = e.session

(* The row a completed session confirms: the updateMany of                 *)
(* confirmBookingFromCheckoutSession, ...                                  *)
Confirms(e, b) == /\ BookingOf[e.session] = b
                  /\ session[b] = e.session
                  /\ status[b] = "PENDING_PAYMENT"

ConfirmBooking(e) ==
  /\ At(e, {"completed"}, "start")
  /\ LET b == BookingOf[e.session] IN
     \/ /\ Confirms(e, b)
        /\ status' = [status EXCEPT ![b] = "CONFIRMED"]
        /\ pay' = [pay EXCEPT ![b] = "PAID"]
        /\ intent' = [intent EXCEPT ![b] = e.session]
        /\ overdue' = overdue \ {b}
        /\ Goto(e, "received")
     \/ /\ ~Confirms(e, b)
        /\ Goto(e, "done")
        /\ UNCHANGED <<status, pay, intent, overdue>>
  /\ UNCHANGED <<session, received, refunded, jobs>>
  /\ NothingElse

(* Mutant of RecordReceived: what is still to be paid, not what was charged. *)
RecordRemainder(e) ==
  /\ At(e, {"completed"}, "received")
  /\ LET b == BookingOf[e.session] IN received' = [received EXCEPT ![b] = Payable[b] - @]
  /\ Goto(e, "notify")
  /\ UNCHANGED <<status, pay, session, intent, refunded, overdue, jobs>>
  /\ NothingElse

(* ... its update of paymentReceivedInCents, ... *)
RecordReceived(e) ==
  /\ At(e, {"completed"}, "received")
  /\ LET b == BookingOf[e.session] IN received' = [received EXCEPT ![b] = Charge[b]]
  /\ Goto(e, "notify")
  /\ UNCHANGED <<status, pay, session, intent, refunded, overdue, jobs>>
  /\ NothingElse

(* ... and the jobs the route adds, one after the other.  "done" is next   *)
(* to markStripeEventProcessed.                                            *)
NotifyConfirmed(e) ==
  /\ \/ /\ At(e, {"completed"}, "notify")
        /\ jobs' = jobs \cup JobsOf(BookingOf[e.session], {"confirmation"})
        /\ Goto(e, "remind")
     \/ /\ At(e, {"completed"}, "remind")
        /\ jobs' = jobs \cup JobsOf(BookingOf[e.session], {"reminder"})
        /\ Goto(e, "done")
  /\ UNCHANGED <<status, pay, session, intent, received, refunded, overdue>>
  /\ NothingElse

(* Mutant of Releases: by the payment intent. *)
ReleasesByIntent(e, b) == intent[b] = e.session /\ status[b] = "PENDING_PAYMENT"

(* cancelPendingBookingByCheckoutSession: the session is not in the        *)
(* metadata's but in the row's own column.                                 *)
Releases(e, b) == session[b] = e.session /\ status[b] = "PENDING_PAYMENT"

CancelPending(e) ==
  /\ At(e, {"ended"}, "start")
  /\ status' = [b \in Booking |-> IF Releases(e, b) THEN "CANCELLED" ELSE status[b]]
  /\ Goto(e, IF \E b \in Booking : Releases(e, b) THEN "notify" ELSE "done")
  /\ UNCHANGED <<pay, session, intent, received, refunded, overdue, jobs>>
  /\ NothingElse

NotifyExpired(e) ==
  /\ At(e, {"ended"}, "notify")
  /\ jobs' = jobs \cup UNION {JobsOf(b, {"expired"}) : b \in {c \in Booking : session[c] = e.session}}
  /\ Goto(e, "done")
  /\ UNCHANGED <<status, pay, session, intent, received, refunded, overdue>>
  /\ NothingElse

(* Mutant of ApplyRefund: an increment, which a second delivery repeats. *)
AddRefund(e) ==
  /\ At(e, Refunds, "start")
  /\ LET hit == {b \in Booking : intent[b] = e.session} IN
     /\ pay' = [b \in Booking |-> IF b \notin hit THEN pay[b]
                                  ELSE IF e.amount >= Charge[b] THEN "REFUNDED" ELSE "PARTIALLY_REFUNDED"]
     /\ refunded' = [b \in Booking |-> IF b \in hit THEN refunded[b] + e.amount ELSE refunded[b]]
  /\ Goto(e, "done")
  /\ UNCHANGED <<status, session, intent, received, overdue, jobs>>
  /\ NothingElse

(* applyRefundToBooking, which the route calls without a look at the       *)
(* status of the refund: one no booking has the intent of is dropped.      *)
ApplyRefund(e) ==
  /\ At(e, Refunds, "start")
  /\ LET hit == {b \in Booking : intent[b] = e.session} IN
     /\ pay' = [b \in Booking |-> IF b \notin hit THEN pay[b]
                                  ELSE IF e.amount >= Charge[b] THEN "REFUNDED" ELSE "PARTIALLY_REFUNDED"]
     /\ refunded' = [b \in Booking |-> IF b \in hit THEN e.amount ELSE refunded[b]]
  /\ Goto(e, "done")
  /\ UNCHANGED <<status, session, intent, received, overdue, jobs>>
  /\ NothingElse

HandleEvent(e) == \/ ConfirmBooking(e) \/ RecordReceived(e) \/ NotifyConfirmed(e)
                  \/ CancelPending(e) \/ NotifyExpired(e) \/ ApplyRefund(e)
                  \/ ConcludeEvent(e)

-----------------------------------------------------------------------------
(* Mutant of SweepFind: the status holds had before. *)
SweepFindPending ==
  /\ sweep = "idle"
  /\ stale' = {b \in overdue : status[b] = "PENDING"}
  /\ stale' # {}
  /\ sweep' = "found"
  /\ UNCHANGED <<rowVars, jobs, stripeVars, paying, opVars, eventVars, faults, failed>>

(* The maintenance job of the worker: findMany, ... *)
SweepFind ==
  /\ sweep = "idle"
  /\ stale' = {b \in overdue : status[b] = "PENDING_PAYMENT"}
  /\ stale' # {}
  /\ sweep' = "found"
  /\ UNCHANGED <<rowVars, jobs, stripeVars, paying, opVars, eventVars, faults, failed>>

(* ... updateMany by id, ... *)
SweepCancel ==
  /\ sweep = "found"
  /\ status' = [b \in Booking |-> IF b \in stale THEN "CANCELLED" ELSE status[b]]
  /\ sweep' = "cancelled"
  /\ UNCHANGED <<pay, session, intent, received, refunded, noShows, overdue, jobs, stripeVars, paying, opVars, stale, eventVars, faults, failed>>

(* ... and a notification job for one id after the other. *)
SweepNotify(b) ==
  /\ sweep = "cancelled"
  /\ b \in stale
  /\ jobs' = jobs \cup JobsOf(b, {"expired"})
  /\ stale' = stale \ {b}
  /\ sweep' = IF stale = {b} THEN "idle" ELSE sweep
  /\ UNCHANGED <<rowVars, stripeVars, paying, opVars, eventVars, faults, failed>>

WorkerCrash ==
  /\ sweep # "idle"
  /\ faults < MaxFaults
  /\ faults' = faults + 1
  /\ sweep' = "idle"
  /\ stale' = {}
  /\ UNCHANGED <<rowVars, jobs, stripeVars, paying, opVars, eventVars, failed>>

-----------------------------------------------------------------------------
(* Dashboard and account operations: cancelBooking, completeBooking,       *)
(* markBookingNoShow, recordOnSitePayment.                                 *)
Outstanding(b) == IF Payable[b] > received[b] THEN Payable[b] - received[b] ELSE 0

(* What the operation requires of the row it reads.  A booking may be      *)
(* cancelled until it starts, in whatever status it is.                    *)
Allows(b, does) ==
  \/ does = "cancel"
  \/ /\ does # "cancel"
     /\ status[b] \notin {"CANCELLED", "NO_SHOW"}
     /\ does = "onSite" => Outstanding(b) > 0

OpRead(a, b, does) ==
  /\ started < MaxOps
  /\ started' = started + 1
  /\ \A o \in ops : o.by # a
  /\ Allows(b, does)
  /\ ops' = ops \cup {[by |-> a, does |-> does, on |-> b, amount |-> IF does = "onSite" THEN Outstanding(b) ELSE 0]}
  /\ UNCHANGED <<onSite, rowVars, jobs, stripeVars, paying, sweepVars, eventVars, faults, failed>>

(* Mutant of NewStatus: Stripe's spelling. *)
NewStatusCanceled == [cancel |-> "CANCELED", complete |-> "COMPLETED", noShow |-> "NO_SHOW"]

NewStatus == [cancel |-> "CANCELLED", complete |-> "COMPLETED", noShow |-> "NO_SHOW"]

(* The update names the id alone; cancelBooking then adds a job, or fails.  *)
OpWrite(o) ==
  /\ ops' = ops \ {o}
  /\ status' = IF o.does = "onSite" THEN status ELSE [status EXCEPT ![o.on] = NewStatus[o.does]]
  /\ received' = [received EXCEPT ![o.on] = @ + o.amount]
  /\ onSite' = [onSite EXCEPT ![o.on] = @ + o.amount]
  /\ noShows' = [noShows EXCEPT ![o.on] = IF o.does = "noShow" THEN @ + 1 ELSE @]
  /\ \/ /\ jobs' = IF o.does = "cancel" THEN jobs \cup JobsOf(o.on, {"cancellation"}) ELSE jobs
        /\ UNCHANGED faults
     \/ /\ o.does = "cancel"
        /\ faults < MaxFaults
        /\ faults' = faults + 1
        /\ UNCHANGED jobs
  /\ UNCHANGED <<pay, session, intent, refunded, overdue, stripeVars, paying, started, sweepVars, eventVars, failed>>

Does == {"cancel", "complete", "noShow", "onSite"}

Next ==
  \/ \E b \in Booking : \/ HoldRunsOut(b)
                        \/ SweepNotify(b)
                        \/ \E c \in Client : CheckoutRead(c, b)
                        \/ \E a \in Actor, does \in Does : OpRead(a, b, does)
  \/ \E p \in paying, s \in Session : CheckoutWrite(p, s)
  \/ \E s \in Session : Stripe(s) \/ \E e \in Event : Refund(s, e)
  \/ \E e \in Event : TakeEvent(e) \/ HandleEvent(e) \/ FailEvent(e)
  \/ SweepFind \/ SweepCancel \/ WorkerCrash
  \/ \E o \in ops : OpWrite(o)

Spec == Init /\ [][Next]_vars

Sweep == SweepFind \/ SweepCancel \/ \E b \in Booking : SweepNotify(b)

(* Time passes, the sweep is a job repeated every minute, and an event is  *)
(* redelivered until concluded (EventuallyAnswered of StripeEvents); what  *)
(* customers, tenants and Stripe's payments do is up to them.              *)
Fairness ==
  /\ \A b \in Booking : WF_vars(HoldRunsOut(b))
  /\ \A e \in Event : WF_vars(TakeEvent(e) \/ HandleEvent(e))
  /\ WF_vars(Sweep)

FairSpec == Spec /\ Fairness

-----------------------------------------------------------------------------
Refunded == {"PARTIALLY_REFUNDED", "REFUNDED"}
Op == [by : Actor, does : Does, on : Booking, amount : Nat]

TypeOK ==
  /\ status \in [Booking -> Active \cup Terminal]
  /\ pay \in [Booking -> {"NONE", "PENDING", "PAID"} \cup Refunded]
  /\ session \in [Booking -> Session \cup {NoSession}]
  /\ intent \in [Booking -> Session \cup {NoSession}]
  /\ received \in [Booking -> Nat]
  /\ refunded \in [Booking -> Nat]
  /\ noShows \in [Booking -> Nat]
  /\ overdue \subseteq Booking
  /\ jobs \subseteq Job
  /\ sess \in [Session -> {"none", "open", "delayed", "paid", "failed", "expired"}]
  /\ repaid \in [Session -> Nat]
  /\ paying \subseteq [by : Client, for : Booking]
  /\ ops \subseteq Op
  /\ started \in 0..MaxOps
  /\ onSite \in [Booking -> Nat]
  /\ sweep \in {"idle", "found", "cancelled"}
  /\ stale \subseteq Booking
  /\ phase \in [Event -> {"open", "held", "concluded"}]
  /\ emitted \subseteq Event
  /\ step \in [Event -> {"start", "received", "notify", "remind", "done"}]
  /\ faults \in 0..MaxFaults
  /\ failed \subseteq Event

Lifecycle == INSTANCE BookingLifecycle
LifecycleSpec == Lifecycle!Spec

(* When the webhook is done with the payment of the session a booking is   *)
(* waiting for, the booking is no longer waiting: neither a hold that has  *)
(* run out, nor a failed delivery, nor a second checkout makes the payment *)
(* pass by the row it is for.                                              *)
NoOrphanHold ==
  \A s \in Session, b \in Booking :
    phase[Completed(s)] = "concluded" /\ session[b] = s => status[b] # "PENDING_PAYMENT"

BlocksUnpaid(b, s) ==
  session[b] = s /\ status[b] \in Active /\ intent[b] \in {NoSession, s}

(* When the webhook is done with an expired session, the booking that was  *)
(* waiting for it no longer blocks the calendar, unless another session of *)
(* it has been paid.                                                       *)
EndedCheckoutReleases ==
  \A s \in Session, b \in Booking :
    phase[Ended(s)] = "concluded" /\ sess[s] = "expired" => ~BlocksUnpaid(b, s)

Recorded(b) == received[b] >= Charge[b] /\ JobsOf(b, {"confirmation", "reminder"}) \subseteq jobs

(* What has been paid online is in the books (paymentReceivedInCents), and *)
(* the customer is told and will be reminded, once the event is concluded, *)
(* provided that no delivery of it failed half way; on-site payments       *)
(* recorded meanwhile do not get in the way.                               *)
CaptureRecorded ==
  \A s \in Session, b \in Booking :
    intent[b] = s /\ phase[Completed(s)] = "concluded" /\ Completed(s) \notin failed => Recorded(b)

Tells(e, b) == e \in emitted /\ e.type \in Refunds /\ e.session = intent[b]

(* A row that shows a refund shows what one refund event of its own        *)
(* payment tells, with the status that goes with that amount: deliveries   *)
(* of the event do not add up, and no confirmation that is repeated or     *)
(* resumed afterwards makes the booking PAID again.                        *)
RefundStands ==
  \A b \in Booking : refunded[b] # 0 \/ pay[b] \in Refunded =>
    /\ \E e \in Event : Tells(e, b) /\ refunded[b] = e.amount
    /\ pay[b] = IF refunded[b] >= Charge[b] THEN "REFUNDED" ELSE "PARTIALLY_REFUNDED"

Settled(s) == sess[s] # "delayed" /\ \A e \in emitted : e.session = s => phase[e] = "concluded"

Captured(s) == IF sess[s] = "paid" THEN Charge[BookingOf[s]] - repaid[s] ELSE 0

(* Refuted: what a row shows as received less what it shows as refunded is *)
(* what its customer has in fact paid, as the comment of getCustomerStats  *)
(* says of all bookings, when the webhook is done with what Stripe has     *)
(* told of the payment.  A confirmation that failed half way is resumed as *)
(* a no-op, records a delayed payment that fails, and writes over what was *)
(* paid at the counter; a refund in parts shows the last part, one that    *)
(* has failed is shown as given back, one told before the confirmation     *)
(* not at all.                                                             *)
PaidIsReceived ==
  \A b \in Booking, s \in Session :
    intent[b] = s /\ Settled(s) => received[b] - refunded[b] = onSite[b] + Captured(s)

(* The sweep is the backstop for holds without a webhook of Stripe: it     *)
(* never cancels a booking the webhook has found paid.                     *)
SweepSparesPaid ==
  [][sweep = "found" /\ sweep' = "cancelled" => \A b \in stale : pay[b] # "PAID"]_vars

(* A customer who has paid is not left waiting: the booking the payment is *)
(* for is paid or closed at last, even if the row has come to name another *)
(* session, deliveries fail or the worker crashes.                         *)
PaymentSettles ==
  \A s \in Session : LET b == BookingOf[s] IN
    sess[s] = "paid" ~> status[b] \in Terminal \/ pay[b] # "PENDING"
=============================================================================
