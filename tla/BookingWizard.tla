---------------------------- MODULE BookingWizard ----------------------------
(***************************************************************************)
(* The booking sheet of the public page: the state of its React component, *)
(* the server actions it has called, which Next.js runs one at a time in   *)
(* the order of the calls, and their answers, which find the sheet as the  *)
(* customer has left it meanwhile.  A slot, and a list of slots, is the    *)
(* date it is for.  Names, coupons and photos are of BookingDetails.       *)
(***************************************************************************)
EXTENDS Limits, Sequences

Opening == 1 .. MaxOpenings

VARIABLES
  open, step, date, slot, slotConflictError, alternativeSlots, confirmed,  \* as in service-item.tsx
  shown,      \* availability.result
  queue,      \* the server actions called and not answered, oldest first
  uploading,  \* what comes after the upload of reference photos, when there is one
  left,       \* the browser has gone to the checkout
  opening,    \* history: how often the sheet was opened, ...
  made,       \* ... the bookings each opening has made, ...
  unpaid,     \* ... the openings whose checkout could not be created, ...
  mixed       \* ... and was the date changed with a confirmation unsettled?

sheet == <<open, step, date, slot, slotConflictError, alternativeSlots, confirmed>>
history == <<opening, made, unpaid>>
vars == <<sheet, shown, queue, uploading, left, history, mixed>>

None == "none"

Init ==
  /\ open = FALSE
  /\ step = "datetime"
  /\ date = None
  /\ slot = None
  /\ slotConflictError = FALSE
  /\ alternativeSlots = None
  /\ confirmed = FALSE
  /\ shown = None
  /\ queue = <<>>
  /\ uploading = {}
  /\ left = FALSE
  /\ opening = 0
  /\ made = [o \in Opening |-> 0]
  /\ unpaid = {}
  /\ mixed = FALSE

Pending(kinds) == \E i \in DOMAIN queue : queue[i].kind \in kinds

Called(kind, d) == [kind |-> kind, date |-> d, opening |-> opening]

(* The answer to a confirmation is to come, or its conflict or its         *)
(* alternatives are still there.                                           *)
Unsettled ==
  Pending({"book", "alternatives"}) \/ slotConflictError \/ alternativeSlots # None

(* handleOpenChange(true): the conflict and its alternatives are not reset. *)
Open ==
  /\ ~open /\ ~left
  /\ opening + 1 \in Opening
  /\ open' = TRUE
  /\ opening' = opening + 1
  /\ step' = "datetime"
  /\ confirmed' = FALSE
  /\ date' = None
  /\ slot' = None
  /\ mixed' = (mixed \/ Unsettled)
  /\ UNCHANGED <<slotConflictError, alternativeSlots, shown, queue, uploading, left, made, unpaid>>

Close ==
  /\ open /\ ~left
  /\ open' = FALSE
  /\ UNCHANGED <<step, date, slot, slotConflictError, alternativeSlots, confirmed,
                 shown, queue, uploading, left, history, mixed>>

AtDateTime == open /\ ~left /\ ~confirmed /\ step = "datetime"
AtConflict == open /\ ~left /\ ~confirmed /\ step = "details" /\ slotConflictError
AtDetails  == open /\ ~left /\ ~confirmed /\ step = "details" /\ ~slotConflictError

KeptSlot == None

(* handleDateSelect *)
SelectDate(d) ==
  /\ AtDateTime
  /\ Len(queue) < MaxWaiting
  /\ date' = d
  /\ slot' = KeptSlot
  /\ queue' = Append(queue, Called("availability", d))
  /\ mixed' = (mixed \/ Unsettled)
  /\ UNCHANGED <<open, step, slotConflictError, alternativeSlots, confirmed,
                 shown, uploading, left, history>>

(* handleSlotSelect: a slot of the list, which is hidden while one loads. *)
SelectSlot ==
  /\ AtDateTime
  /\ date # None
  /\ ~Pending({"availability", "alternatives"})
  /\ shown # None
  /\ slot' = shown
  /\ UNCHANGED <<open, step, date, slotConflictError, alternativeSlots, confirmed,
                 shown, queue, uploading, left, history, mixed>>

Continue ==
  /\ AtDateTime
  /\ slot # None
  /\ step' = "details"
  /\ UNCHANGED <<open, date, slot, slotConflictError, alternativeSlots, confirmed,
                 shown, queue, uploading, left, history, mixed>>

Back ==
  /\ AtDetails
  /\ step' = "datetime"
  /\ UNCHANGED <<open, date, slot, slotConflictError, alternativeSlots, confirmed,
                 shown, queue, uploading, left, history, mixed>>

(* Mutant of Busy: the button knows the checkout and the upload only. *)
BusyPaying == Pending({"checkout"}) \/ uploading # {}

(* The button is disabled while any of the calls it leads to is pending. *)
Busy == Pending({"book", "checkout"}) \/ uploading # {}

(* handleConfirm: createPublicBooking or createCustomerBooking. *)
Confirm ==
  /\ AtDetails
  /\ slot # None
  /\ ~Busy
  /\ queue' = Append(queue, Called("book", date))
  /\ UNCHANGED <<sheet, shown, uploading, left, history, mixed>>

PickAlternative ==
  /\ AtConflict
  /\ alternativeSlots # None
  /\ slot' = alternativeSlots
  /\ slotConflictError' = FALSE
  /\ alternativeSlots' = None
  /\ UNCHANGED <<open, step, date, confirmed, shown, queue, uploading, left, history, mixed>>

ChooseDifferentDate ==
  /\ AtConflict
  /\ step' = "datetime"
  /\ slotConflictError' = FALSE
  /\ alternativeSlots' = None
  /\ UNCHANGED <<open, date, slot, confirmed, shown, queue, uploading, left, history, mixed>>

-----------------------------------------------------------------------------
(* The answers *)

Answered(kind) == ~left /\ queue # <<>> /\ Head(queue).kind = kind

AvailabilityAnswered ==
  /\ Answered("availability")
  /\ shown' = Head(queue).date
  /\ queue' = Tail(queue)
  /\ UNCHANGED <<sheet, uploading, left, history, mixed>>

(* The slot is taken: alternatives are asked for the date of the click. *)
BookingConflicts ==
  /\ Answered("book")
  /\ slotConflictError' = TRUE
  /\ queue' = Append(Tail(queue), [Head(queue) EXCEPT !.kind = "alternatives"])
  /\ UNCHANGED <<open, step, date, slot, alternativeSlots, confirmed,
                 shown, uploading, left, history, mixed>>

BookingRefused ==
  /\ Answered("book")
  /\ queue' = Tail(queue)
  /\ UNCHANGED <<sheet, shown, uploading, left, history, mixed>>

AlternativesAnswered ==
  /\ Answered("alternatives")
  /\ shown' = Head(queue).date
  /\ alternativeSlots' = Head(queue).date
  /\ queue' = Tail(queue)
  /\ UNCHANGED <<open, step, date, slot, slotConflictError, confirmed, uploading, left, history, mixed>>

Confirmed == confirmed' = TRUE /\ slotConflictError' = FALSE

(* Booked, with or without photos, to be paid online or not. *)
BookingMade(online, photos) ==
  LET o == Head(queue).opening
      next == [Head(queue) EXCEPT !.kind = IF online THEN "checkout" ELSE "confirmed"] IN
  /\ Answered("book")
  /\ made[o] < MaxMade
  /\ made' = [made EXCEPT ![o] = @ + 1]
  /\ queue' = IF online /\ ~photos THEN Append(Tail(queue), next) ELSE Tail(queue)
  /\ uploading' = IF photos THEN {next} ELSE {}
  /\ IF online \/ photos THEN UNCHANGED <<confirmed, slotConflictError>> ELSE Confirmed
  /\ UNCHANGED <<open, step, date, slot, alternativeSlots, shown, left, opening, unpaid, mixed>>

(* uploadReferencePhotos: a photo that fails does not undo the booking. *)
PhotosUploaded ==
  /\ ~left
  /\ \E next \in uploading :
       IF next.kind = "checkout"
       THEN queue' = Append(queue, next) /\ UNCHANGED <<confirmed, slotConflictError>>
       ELSE Confirmed /\ UNCHANGED queue
  /\ uploading' = {}
  /\ UNCHANGED <<open, step, date, slot, alternativeSlots, shown, left, history, mixed>>

(* window.location.assign *)
CheckoutCreated ==
  /\ Answered("checkout")
  /\ left' = TRUE
  /\ queue' = Tail(queue)
  /\ UNCHANGED <<sheet, shown, uploading, history, mixed>>

(* The hold stays, and so does the sheet. *)
CheckoutFails ==
  /\ Answered("checkout")
  /\ unpaid' = unpaid \cup {Head(queue).opening}
  /\ queue' = Tail(queue)
  /\ UNCHANGED <<sheet, shown, uploading, left, opening, made, mixed>>

Next ==
  \/ Open
  \/ Close
  \/ \E d \in Date : SelectDate(d)
  \/ SelectSlot
  \/ Continue
  \/ Back
  \/ Confirm
  \/ PickAlternative
  \/ ChooseDifferentDate
  \/ AvailabilityAnswered
  \/ BookingConflicts
  \/ BookingRefused
  \/ AlternativesAnswered
  \/ \E online, photos \in BOOLEAN : BookingMade(online, photos)
  \/ PhotosUploaded
  \/ CheckoutCreated
  \/ CheckoutFails

Spec == Init /\ [][Next]_vars

-----------------------------------------------------------------------------
CallOf(kinds) == [kind : kinds, date : Date \cup {None}, opening : Opening]

TypeOK ==
  /\ open \in BOOLEAN
  /\ step \in {"datetime", "details"}
  /\ date \in Date \cup {None}
  /\ slot \in Date \cup {None}
  /\ slotConflictError \in BOOLEAN
  /\ alternativeSlots \in Date \cup {None}
  /\ confirmed \in BOOLEAN
  /\ shown \in Date \cup {None}
  /\ queue \in Seq(CallOf({"availability", "book", "alternatives", "checkout"}))
  /\ uploading \in SUBSET CallOf({"checkout", "confirmed"})
  /\ left \in BOOLEAN
  /\ opening \in Opening \cup {0}
  /\ made \in [Opening -> Nat]
  /\ unpaid \in SUBSET Opening
  /\ mixed \in BOOLEAN

(* An opening of the sheet makes at most one booking, however its buttons  *)
(* are pressed while answers are awaited, unless its checkout could not be *)
(* created and its customer started again.                                 *)
OneBookingPerOpening == \A o \in Opening : made[o] > 1 => o \in unpaid

(* The slot that Confirm books is one of the date the summary shows, as    *)
(* long as the date has not been changed, or the sheet reopened, while the *)
(* answer to a confirmation, its conflict or its alternatives were there.  *)
SummaryIsBooked == AtDetails /\ slot # None /\ ~mixed => slot = date
==============================================================================
