--------------------------- MODULE BookingCalendar ---------------------------
(***************************************************************************)
(* The calendar of a tenant: bookings of staff time, made by concurrent    *)
(* requests that first read the availability and later insert, under the   *)
(* exclusion constraint booking_no_overlap of the database; payment holds  *)
(* that expire and the sweep of the worker that cancels them; and the      *)
(* dashboard and account operations that close bookings.                   *)
(*                                                                         *)
(* An operation that reads a row and later writes it is two actions, with  *)
(* what it has read kept in a set of operations in flight.  The clock of   *)
(* the calendar stops at MaxNow, slots that start then being those of days *)
(* to come; the time left of a hold is relative, and goes on running.      *)
(***************************************************************************)
EXTENDS Integers

CONSTANTS
  Booking,    \* booking ids
  Staff,
  Offer,      \* the slots that working hours, absences and closed periods admit
  Request,    \* concurrent calls of createBooking
  Actor,      \* concurrent dashboard and account operations
  HoldTime,   \* the 30 minutes of a payment hold
  MaxNow,     \* bound: the calendar's clock stops here
  MaxCrashes  \* bound: crashes of the worker

Slot == [staff : Staff, start : Nat, end : Nat]

ASSUME OfferAssumption    == Offer \subseteq Slot /\ Offer # {}
ASSUME HoldTimeAssumption == HoldTime \in Nat \ {0}
ASSUME BoundAssumption    == MaxNow \in Nat /\ MaxCrashes \in Nat

VARIABLES
  status,    \* booking.status, or "ABSENT"
  slot,      \* booking.staffId, startAt and endAt
  left,      \* booking.expiresAt - now, which no query reads below -1 or when null
  now,
  pending,   \* createBooking calls between the availability check and the insert
  ops,       \* closing operations between the read and the update of their booking
  sweeping,  \* is the sweep between its findMany and its updateMany?
  stale,     \* the ids that findMany returned
  crashes

rowVars == <<status, slot, left>>
vars == <<status, slot, left, now, pending, ops, sweeping, stale, crashes>>

Active   == {"PENDING_PAYMENT", "CONFIRMED"}
Terminal == {"COMPLETED", "CANCELLED", "NO_SHOW"}

Call == [by : Request, for : Offer]
Op   == [by : Actor, to : Terminal, on : Booking]

(* overlaps of lib/dates.ts, && of the constraint: half-open intervals. *)
Overlap(s, t) == s.staff = t.staff /\ s.start < t.end /\ t.start < s.end

(* A hold whose time is over, whether or not the sweep has seen it. *)
Expired(b) == status[b] = "PENDING_PAYMENT" /\ left[b] <= 0

-----------------------------------------------------------------------------
Init ==
  /\ status = [b \in Booking |-> "ABSENT"]
  /\ slot = [b \in Booking |-> CHOOSE s \in Offer : TRUE]
  /\ left = [b \in Booking |-> -1]
  /\ now = 0
  /\ pending = {}
  /\ ops = {}
  /\ sweeping = FALSE
  /\ stale = {}
  /\ crashes = 0

(* getAvailableSlots: among the slots on offer, those that have not begun  *)
(* and that no active booking covers, expired holds left aside.            *)
Available(s) ==
  /\ now <= s.start
  /\ \A b \in Booking : status[b] \in Active /\ ~Expired(b) => ~Overlap(slot[b], s)

CheckSlot(r, s) ==
  /\ \A p \in pending : p.by # r
  /\ Available(s)
  /\ pending' = pending \cup {[by |-> r, for |-> s]}
  /\ UNCHANGED <<status, slot, left, now, ops, sweeping, stale, crashes>>

(* Mutant of Admits: a constraint on confirmed bookings only. *)
AdmitsOverHolds(s) == \A b \in Booking : status[b] = "CONFIRMED" => ~Overlap(slot[b], s)

(* booking_no_overlap: it knows nothing of expiresAt. *)
Admits(s) == \A b \in Booking : status[b] \in Active => ~Overlap(slot[b], s)

(* db.booking.create, with a hold when the booking is to be paid online,   *)
(* or the SLOT_TAKEN error the constraint is turned into.                  *)
Insert(p, online) ==
  /\ pending' = pending \ {p}
  /\ \/ /\ Admits(p.for)
        /\ \E b \in Booking :
             /\ status[b] = "ABSENT"
             /\ status' = [status EXCEPT ![b] = IF online THEN "PENDING_PAYMENT" ELSE "CONFIRMED"]
             /\ slot' = [slot EXCEPT ![b] = p.for]
             /\ left' = [left EXCEPT ![b] = IF online THEN HoldTime ELSE -1]
     \/ /\ ~Admits(p.for)
        /\ UNCHANGED rowVars
  /\ UNCHANGED <<now, ops, sweeping, stale, crashes>>

(* Mutant of ConfirmBooking: without the guard on the status. *)
ConfirmAnyStatus(b) ==
  /\ status[b] # "ABSENT"
  /\ status' = [status EXCEPT ![b] = "CONFIRMED"]
  /\ left' = [left EXCEPT ![b] = -1]
  /\ UNCHANGED <<slot, now, pending, ops, sweeping, stale, crashes>>

(* The Connect webhook: the checkout session of the hold was paid ... *)
ConfirmBooking(b) ==
  /\ status[b] = "PENDING_PAYMENT"
  /\ status' = [status EXCEPT ![b] = "CONFIRMED"]
  /\ left' = [left EXCEPT ![b] = -1]
  /\ UNCHANGED <<slot, now, pending, ops, sweeping, stale, crashes>>

(* ... or has expired, or its delayed payment has failed. *)
CancelPending(b) ==
  /\ status[b] = "PENDING_PAYMENT"
  /\ status' = [status EXCEPT ![b] = "CANCELLED"]
  /\ UNCHANGED <<slot, left, now, pending, ops, sweeping, stale, crashes>>

(* What cancelBooking, completeBooking and markBookingNoShow require of    *)
(* the booking they read.                                                  *)
MayClose(b, to) ==
  /\ status[b] # "ABSENT"
  /\ IF to = "CANCELLED" THEN now < slot[b].start
                         ELSE status[b] \notin {"CANCELLED", "NO_SHOW"}

ReadToClose(a, b, to) ==
  /\ \A o \in ops : o.by # a
  /\ MayClose(b, to)
  /\ ops' = ops \cup {[by |-> a, to |-> to, on |-> b]}
  /\ UNCHANGED <<status, slot, left, now, pending, sweeping, stale, crashes>>

(* Mutant of WriteClosed: Stripe's spelling of the status. *)
WriteCanceled(o) ==
  /\ ops' = ops \ {o}
  /\ status' = [status EXCEPT ![o.on] = IF o.to = "CANCELLED" THEN "CANCELED" ELSE o.to]
  /\ UNCHANGED <<slot, left, now, pending, sweeping, stale, crashes>>

(* Their update names the id alone. *)
WriteClosed(o) ==
  /\ ops' = ops \ {o}
  /\ status' = [status EXCEPT ![o.on] = o.to]
  /\ UNCHANGED <<slot, left, now, pending, sweeping, stale, crashes>>

(* Mutants of Overdue: lte for lt, and the status holds had before. *)
OverdueOrDue == {b \in Booking : status[b] = "PENDING_PAYMENT" /\ left[b] <= 0}
OverduePending == {b \in Booking : status[b] = "PENDING" /\ left[b] < 0}

(* expireStaleHolds, one run at a time: findMany, ... *)
Overdue == {b \in Booking : status[b] = "PENDING_PAYMENT" /\ left[b] < 0}

SweepFind ==
  /\ ~sweeping
  /\ Overdue # {}
  /\ sweeping' = TRUE
  /\ stale' = Overdue
  /\ UNCHANGED <<status, slot, left, now, pending, ops, crashes>>

(* ... then updateMany by id. *)
SweepCancel ==
  /\ sweeping
  /\ status' = [b \in Booking |-> IF b \in stale THEN "CANCELLED" ELSE status[b]]
  /\ sweeping' = FALSE
  /\ stale' = {}
  /\ UNCHANGED <<slot, left, now, pending, ops, crashes>>

WorkerCrash ==
  /\ sweeping
  /\ crashes < MaxCrashes
  /\ crashes' = crashes + 1
  /\ sweeping' = FALSE
  /\ stale' = {}
  /\ UNCHANGED <<status, slot, left, now, pending, ops>>

Tick == /\ now' = IF now < MaxNow THEN now + 1 ELSE now
        /\ left' = [b \in Booking |-> IF left[b] > -1 THEN left[b] - 1 ELSE -1]
        /\ UNCHANGED <<status, slot, pending, ops, sweeping, stale, crashes>>

Sweep == SweepFind \/ SweepCancel

Next ==
  \/ \E r \in Request, s \in Offer : CheckSlot(r, s)
  \/ \E p \in pending, online \in BOOLEAN : Insert(p, online)
  \/ \E b \in Booking : ConfirmBooking(b) \/ CancelPending(b)
  \/ \E a \in Actor, b \in Booking, to \in Terminal : ReadToClose(a, b, to)
  \/ \E o \in ops : WriteClosed(o)
  \/ Sweep \/ WorkerCrash \/ Tick

Spec == Init /\ [][Next]_vars

(* The sweep is a job repeated every minute; nobody else is bound to act.  *)
FairSpec == Spec /\ WF_vars(Tick) /\ WF_vars(Sweep)

-----------------------------------------------------------------------------
TypeOK ==
  /\ status \in [Booking -> {"ABSENT"} \cup Active \cup Terminal]
  /\ slot \in [Booking -> Offer]
  /\ left \in [Booking -> -1..HoldTime]
  /\ now \in 0..MaxNow
  /\ pending \subseteq Call
  /\ ops \subseteq Op
  /\ sweeping \in BOOLEAN
  /\ stale \subseteq Booking
  /\ crashes \in 0..MaxCrashes

(* No two active bookings claim the same staff time, although only inserts *)
(* are checked against the constraint here: no update of a row, however    *)
(* stale what its writer has read, brings a booking back into a slot that  *)
(* has been given away (migration.sql, lines 312-323).                     *)
NoOverlap ==
  \A b, c \in Booking :
    b # c /\ status[b] \in Active /\ status[c] \in Active => ~Overlap(slot[b], slot[c])

(* The sweep never takes from its customer a hold with time left on it,    *)
(* neither when it reads nor later, when it cancels what it read.          *)
HoldNotCutShort ==
  [][\A b \in Booking : status[b] = "PENDING_PAYMENT" /\ status'[b] # status[b] /\ sweeping /\ ~sweeping'
       => left[b] < 0]_vars

(* A slot that is shown as free and yet refused does not stay so: the hold *)
(* in its way is paid, cancelled or swept, whatever crashes the worker.    *)
BlockedOfferClears ==
  \A s \in Offer : Available(s) /\ ~Admits(s) ~> ~(Available(s) /\ ~Admits(s))

Lifecycle == INSTANCE BookingLifecycle
LifecycleSpec == Lifecycle!Spec
=============================================================================
