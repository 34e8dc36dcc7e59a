--------------------------- MODULE BookingDetails ---------------------------
(***************************************************************************)
(* The details step of the booking sheet of the public page: who books,    *)
(* the coupon and the reference photos.  A coupon is validated by a server *)
(* action, and a booking made by another, while the fields stay open; the  *)
(* sheet may be closed and reopened before either answers.  The choice of  *)
(* the slot is of BookingWizard.                                           *)
(***************************************************************************)
EXTENDS Limits, Sequences

MaxReferencePhotos == 3

VARIABLES
  sheetShown,       \* open, at the details step
  contact,          \* the fields of name and address: empty, refused by the schema, or valid
  couponCode,       \* the field of the coupon
  appliedCoupon,    \* the coupon whose discount the summary shows
  referencePhotos,  \* how many are attached
  waiting,          \* the actions called and not answered, oldest first
  sendingPhotos,    \* are photos being uploaded for a booking made?
  typedOver,        \* history: was the code changed while its validation was awaited, ...
  touched           \* ... and anything since the booking was confirmed?

fields == <<sheetShown, contact, couponCode, appliedCoupon, referencePhotos>>
past == <<typedOver, touched>>
vars == <<fields, waiting, sendingPhotos, past>>

Blank == "blank"

(* What the customer is shown before confirming. *)
Summary == [coupon |-> appliedCoupon, photos |-> referencePhotos]

Init ==
  /\ sheetShown = FALSE
  /\ contact = Blank
  /\ couponCode = Blank
  /\ appliedCoupon = Blank
  /\ referencePhotos = 0
  /\ waiting = <<>>
  /\ sendingPhotos = FALSE
  /\ typedOver = FALSE
  /\ touched = FALSE

Awaited(kind) == \E i \in DOMAIN waiting : waiting[i].kind = kind

(* handleOpenChange(true): the fields are emptied, the calls go on. *)
Reopen ==
  /\ ~sheetShown
  /\ sheetShown' = TRUE
  /\ contact' = Blank
  /\ couponCode' = Blank
  /\ appliedCoupon' = Blank
  /\ referencePhotos' = 0
  /\ typedOver' = Awaited("coupon")
  /\ touched' = TRUE
  /\ UNCHANGED <<waiting, sendingPhotos>>

Close ==
  /\ sheetShown
  /\ sheetShown' = FALSE
  /\ UNCHANGED <<contact, couponCode, appliedCoupon, referencePhotos, waiting, sendingPhotos, past>>

(* Name, e-mail and phone, held against the schema of the action. *)
FillIn(entry) ==
  /\ sheetShown
  /\ contact' = entry
  /\ UNCHANGED <<sheetShown, couponCode, appliedCoupon, referencePhotos, waiting, sendingPhotos, past>>

(* A change of the code takes the applied coupon back. *)
TypeCode(code) ==
  /\ sheetShown
  /\ couponCode' = code
  /\ appliedCoupon' = Blank
  /\ typedOver' = Awaited("coupon")
  /\ touched' = TRUE
  /\ UNCHANGED <<sheetShown, contact, referencePhotos, waiting, sendingPhotos>>

(* handleApplyCoupon; its button is disabled while one is validated, and   *)
(* once one is applied.                                                    *)
ApplyCoupon ==
  /\ sheetShown
  /\ couponCode # Blank /\ appliedCoupon = Blank
  /\ ~Awaited("coupon")
  /\ Len(waiting) < MaxWaiting
  /\ waiting' = Append(waiting, [kind |-> "coupon", with |-> [coupon |-> couponCode, photos |-> 0]])
  /\ typedOver' = FALSE
  /\ UNCHANGED <<fields, sendingPhotos, touched>>

Room == referencePhotos < MaxReferencePhotos

AddPhoto ==
  /\ sheetShown
  /\ Room
  /\ referencePhotos' = referencePhotos + 1
  /\ touched' = TRUE
  /\ UNCHANGED <<sheetShown, contact, couponCode, appliedCoupon, waiting, sendingPhotos, typedOver>>

RemovePhoto ==
  /\ sheetShown
  /\ referencePhotos > 0
  /\ referencePhotos' = referencePhotos - 1
  /\ touched' = TRUE
  /\ UNCHANGED <<sheetShown, contact, couponCode, appliedCoupon, waiting, sendingPhotos, typedOver>>

(* publicBookingCustomerSchema.safeParse; a session needs no contact. *)
ValidContact == contact = "valid"

(* The button is disabled for an invalid contact and while it is busy. *)
Ready == ValidContact /\ ~Awaited("booking") /\ ~sendingPhotos

(* handleConfirm: what it sends, and the photos it will upload, are those  *)
(* of the render whose button was pressed.                                 *)
Confirm ==
  /\ sheetShown /\ Ready
  /\ Len(waiting) < MaxWaiting
  /\ waiting' = Append(waiting, [kind |-> "booking", with |-> Summary])
  /\ touched' = Awaited("coupon")
  /\ UNCHANGED <<fields, sendingPhotos, typedOver>>

-----------------------------------------------------------------------------
Answers(kind) == waiting # <<>> /\ Head(waiting).kind = kind /\ waiting' = Tail(waiting)

(* The discount shown is of the code that was sent. *)
CouponValid ==
  /\ Answers("coupon")
  /\ appliedCoupon' = Head(waiting).with.coupon
  /\ UNCHANGED <<sheetShown, contact, couponCode, referencePhotos, sendingPhotos, past>>

CouponRefused ==
  /\ Answers("coupon")
  /\ appliedCoupon' \in {Blank, appliedCoupon}  \* invalid, or an error of the server
  /\ UNCHANGED <<sheetShown, contact, couponCode, referencePhotos, sendingPhotos, past>>

(* The confirmation takes the place of the form, unless a checkout follows. *)
Confirmed ==
  /\ sheetShown' \in {FALSE, sheetShown}
  /\ UNCHANGED <<contact, couponCode, appliedCoupon, referencePhotos, past>>

(* The photos are uploaded for the booking that is there by now. *)
Made ==
  /\ Answers("booking")
  /\ sendingPhotos' = (Head(waiting).with.photos > 0)
  /\ IF sendingPhotos' THEN UNCHANGED <<fields, past>> ELSE Confirmed

Refused ==
  /\ Answers("booking")
  /\ UNCHANGED <<fields, sendingPhotos, past>>

(* uploadReferencePhotos: all at once, and one that fails is only told of. *)
PhotosSent ==
  /\ sendingPhotos
  /\ sendingPhotos' = FALSE
  /\ Confirmed
  /\ UNCHANGED waiting

Next ==
  \/ Reopen \/ Close
  \/ \E entry \in {Blank, "invalid", "valid"} : FillIn(entry)
  \/ \E code \in Code \cup {Blank} : TypeCode(code)
  \/ ApplyCoupon \/ AddPhoto \/ RemovePhoto \/ Confirm
  \/ CouponValid \/ CouponRefused \/ Made \/ Refused \/ PhotosSent

Spec == Init /\ [][Next]_vars

-----------------------------------------------------------------------------
TypeOK ==
  /\ sheetShown \in BOOLEAN
  /\ contact \in {Blank, "invalid", "valid"}
  /\ couponCode \in Code \cup {Blank}
  /\ appliedCoupon \in Code \cup {Blank}
  /\ referencePhotos \in 0 .. MaxReferencePhotos
  /\ waiting \in Seq([kind : {"coupon", "booking"},
                      with : [coupon : Code \cup {Blank}, photos : 0 .. MaxReferencePhotos]])
  /\ sendingPhotos \in BOOLEAN
  /\ typedOver \in BOOLEAN
  /\ touched \in BOOLEAN

(* The coupon whose discount the summary shows is the one in its field,    *)
(* however answers and changes interleave, unless the field was changed,   *)
(* or the sheet reopened, while the answer was awaited.                    *)
AppliedIsTyped == appliedCoupon # Blank /\ ~typedOver => appliedCoupon = couponCode

(* While a booking is made the summary shows the coupon and the photos it  *)
(* is made with, though the fields stay open and coupons are validated     *)
(* meanwhile; unless the customer has changed them since, or has confirmed *)
(* without waiting for the validation.                                     *)
SentIsShown ==
  ~touched => \A i \in DOMAIN waiting : waiting[i].kind = "booking" =>
    waiting[i].with = Summary
=============================================================================
