----------------------------- MODULE BookingSheet -----------------------------
(***************************************************************************)
(* The booking sheets of the dashboard and of the customer's account.      *)
(* Unlike the wizard of the public page, they choose the service and the   *)
(* professional themselves, and close themselves when the booking is made. *)
(* Server actions run one at a time in the order of the calls, and their   *)
(* answers find the sheet as its user has left it meanwhile.  A slot, and  *)
(* a list of slots, is the question it answers.  Contacts and coupons are  *)
(* left out.                                                               *)
(***************************************************************************)
EXTENDS Limits, Sequences

Service == {"cut", "shave"}
Offers  == [cut |-> {"ana", "rui"}, shave |-> {"rui"}]  \* serviceIds of the staff
Opened  == 1 .. MaxOpenings

VARIABLES
  kind,                                      \* "manual" in the dashboard, "own" in the account
  open, step, serviceId, staffId, day, slot, \* as in new-booking-sheet.tsx; day is date
  offered,   \* availability.result
  calls,     \* the server actions called and not answered, oldest first
  left,      \* the browser has gone to the checkout
  opening,   \* history: how often the sheet was opened, ...
  made,      \* ... the bookings each opening has made, ...
  unpaid,    \* ... the openings whose checkout could not be created, ...
  restated   \* ... was the service or professional changed since the date was chosen?

choice == <<serviceId, staffId, day, slot>>
past   == <<opening, made, unpaid>>
vars   == <<kind, open, step, choice, offered, calls, left, past, restated>>

None == "none"
NoSlot == [service |-> None, staff |-> None, day |-> None]

Init ==
  /\ kind \in {"manual", "own"}
  /\ open = FALSE
  /\ step = "setup"
  /\ serviceId = None /\ staffId = None /\ day = None /\ slot = NoSlot
  /\ offered = NoSlot
  /\ calls = <<>>
  /\ left = FALSE
  /\ opening = 0
  /\ made = [o \in Opened |-> 0]
  /\ unpaid = {}
  /\ restated = FALSE

Waiting(names) == \E i \in DOMAIN calls : calls[i].name \in names

Question(date) == [service |-> serviceId, staff |-> staffId, day |-> date]

Ask(date) == Append(calls, [name |-> "availability", about |-> Question(date)])

(* handleOpenChange(true) *)
Open ==
  /\ ~open /\ ~left
  /\ opening + 1 \in Opened
  /\ open' = TRUE
  /\ opening' = opening + 1
  /\ step' = "setup"
  /\ serviceId' = None /\ staffId' = None /\ day' = None /\ slot' = NoSlot
  /\ restated' = FALSE
  /\ UNCHANGED <<kind, offered, calls, left, made, unpaid>>

Close ==
  /\ open /\ ~left
  /\ open' = FALSE
  /\ UNCHANGED <<kind, step, choice, offered, calls, left, past, restated>>

AtSetup == open /\ ~left /\ step = "setup"

(* handleDateSelect(date), called with the date there is from a handler    *)
(* that has just changed the service or the professional: it asks for      *)
(* those of the last rendering, before the change.                         *)
AskAgain ==
  /\ slot' = NoSlot
  /\ restated' = (day # None)
  /\ calls' = IF day # None THEN Ask(day) ELSE calls

SelectService(s) ==
  /\ AtSetup
  /\ s # serviceId
  /\ Len(calls) < MaxWaiting
  /\ serviceId' = s
  /\ staffId' = None
  /\ AskAgain
  /\ UNCHANGED <<kind, open, step, day, offered, left, past>>

(* In the account, the professional is chosen among two or more. *)
SelectStaff(p) ==
  /\ AtSetup
  /\ serviceId # None
  /\ p \in Offers[serviceId] \ {staffId}
  /\ kind = "own" => Offers[serviceId] # {p}
  /\ Len(calls) < MaxWaiting
  /\ staffId' = p
  /\ AskAgain
  /\ UNCHANGED <<kind, open, step, serviceId, day, offered, left, past>>

(* handleDateSelect: the date chosen already is unchosen. *)
SelectDay(date) ==
  /\ AtSetup
  /\ serviceId # None
  /\ Len(calls) < MaxWaiting
  /\ IF date = day
     THEN day' = None /\ UNCHANGED calls
     ELSE day' = date /\ calls' = Ask(date)
  /\ slot' = NoSlot
  /\ restated' = FALSE
  /\ UNCHANGED <<kind, open, step, serviceId, staffId, offered, left, past>>

(* Mutant of Listed: the last list stays while another is loading. *)
ListedAlways ==
  /\ AtSetup
  /\ serviceId # None /\ day # None
  /\ offered # NoSlot

(* The list is not shown while one is loading. *)
Listed ==
  /\ AtSetup
  /\ serviceId # None /\ day # None
  /\ ~Waiting({"availability"})
  /\ offered # NoSlot

(* Those who have a slot of the list; nobody, if the one asked for does    *)
(* not do the service.                                                     *)
OnDuty == IF offered.staff = None THEN Offers[offered.service]
          ELSE Offers[offered.service] \cap {offered.staff}

(* handleSlotSelect: without a choice, the first professional of the slot. *)
SelectSlot ==
  /\ Listed
  /\ \E first \in OnDuty : staffId' = IF staffId = None THEN first ELSE staffId
  /\ slot' = offered
  /\ UNCHANGED <<kind, open, step, serviceId, day, offered, calls, left, past, restated>>

Continue ==
  /\ AtSetup
  /\ kind = "manual" /\ slot # NoSlot
  /\ step' = "details"
  /\ UNCHANGED <<kind, open, choice, offered, calls, left, past, restated>>

Back ==
  /\ open /\ step = "details"
  /\ step' = "setup"
  /\ UNCHANGED <<kind, open, choice, offered, calls, left, past, restated>>

(* The button is disabled while the booking or its checkout is pending. *)
Busy == Waiting({"book", "checkout"})

AtConfirm == open /\ ~left /\ slot # NoSlot /\ step = IF kind = "manual" THEN "details" ELSE "setup"

(* handleConfirm: createManualBooking or createCustomerBooking. *)
Confirm ==
  /\ AtConfirm
  /\ ~Busy
  /\ calls' = Append(calls, [name |-> "book", by |-> opening])
  /\ UNCHANGED <<kind, open, step, choice, offered, left, past, restated>>

-----------------------------------------------------------------------------
(* The answers *)

Answered(name) == ~left /\ calls # <<>> /\ Head(calls).name = name

SlotsListed ==
  /\ Answered("availability")
  /\ offered' = Head(calls).about
  /\ calls' = Tail(calls)
  /\ UNCHANGED <<kind, open, step, choice, left, past, restated>>

BookingRefused ==
  /\ Answered("book")
  /\ calls' = Tail(calls)
  /\ UNCHANGED <<kind, open, step, choice, offered, left, past, restated>>

Made(o) == made[o] < MaxMade /\ made' = [made EXCEPT ![o] = @ + 1]

(* onSuccess closes the sheet, whichever opening of it is open. *)
BookingMade ==
  /\ Answered("book")
  /\ Made(Head(calls).by)
  /\ open' = FALSE
  /\ calls' = Tail(calls)
  /\ UNCHANGED <<kind, step, choice, offered, left, opening, unpaid, restated>>

(* A customer's booking that is to be paid online. *)
BookingHeld ==
  /\ kind = "own"
  /\ Answered("book")
  /\ Made(Head(calls).by)
  /\ calls' = Append(Tail(calls), [Head(calls) EXCEPT !.name = "checkout"])
  /\ UNCHANGED <<kind, open, step, choice, offered, left, opening, unpaid, restated>>

(* window.location.assign *)
CheckoutCreated ==
  /\ Answered("checkout")
  /\ left' = TRUE
  /\ calls' = Tail(calls)
  /\ UNCHANGED <<kind, open, step, choice, offered, past, restated>>

CheckoutFails ==
  /\ Answered("checkout")
  /\ unpaid' = unpaid \cup {Head(calls).by}
  /\ calls' = Tail(calls)
  /\ UNCHANGED <<kind, open, step, choice, offered, left, opening, made, restated>>

Next ==
  \/ Open
  \/ Close
  \/ \E s \in Service : SelectService(s)
  \/ \E p \in Offers["cut"] : SelectStaff(p)
  \/ \E d \in Date : SelectDay(d)
  \/ SelectSlot
  \/ Continue
  \/ Back
  \/ Confirm
  \/ SlotsListed
  \/ BookingRefused
  \/ BookingMade
  \/ BookingHeld
  \/ CheckoutCreated
  \/ CheckoutFails

Spec == Init /\ [][Next]_vars

-----------------------------------------------------------------------------
TypeOK ==
  LET question == [service : Service, staff : Offers["cut"] \cup {None}, day : Date] IN
  /\ kind \in {"manual", "own"}
  /\ open \in BOOLEAN
  /\ step \in {"setup", "details"}
  /\ serviceId \in Service \cup {None}
  /\ staffId \in Offers["cut"] \cup {None}
  /\ day \in Date \cup {None}
  /\ slot \in question \cup {NoSlot}
  /\ offered \in question \cup {NoSlot}
  /\ calls \in Seq([name : {"availability"}, about : question] \cup [name : {"book", "checkout"}, by : Opened])
  /\ left \in BOOLEAN
  /\ opening \in Opened \cup {0}
  /\ made \in [Opened -> 0 .. MaxMade]
  /\ unpaid \in SUBSET Opened
  /\ restated \in BOOLEAN

(* An opening of the sheet makes at most one booking, however its buttons  *)
(* are pressed while answers are awaited, unless its checkout could not be *)
(* created and its customer started again.                                 *)
OneBookingPerSheet == \A o \in Opened : made[o] > 1 => o \in unpaid

(* The slot that Confirm books was listed for the service, the date and a  *)
(* professional who does it, as long as neither the service nor the        *)
(* professional was changed after the date: then the list that is loaded   *)
(* is that of the service and the professional before the change.          *)
SlotIsOfChoice ==
  slot # NoSlot /\ ~restated =>
    /\ slot.service = serviceId /\ slot.day = day
    /\ slot.staff \in {staffId, None} /\ staffId \in Offers[serviceId]
==============================================================================
