------------------------------ MODULE MCOffice ------------------------------
(***************************************************************************)
(* The parts of the office that share no state with one another, checked   *)
(* together: a behavior of this module is a behavior of one of them, in    *)
(* which the variables of the others stay as they are at first.            *)
(***************************************************************************)
EXTENDS Limits, Sequences, TLC

OfficeSymmetry == Permutations(Call)

VARIABLES
  part,  \* the component that runs
  faults,
  setup, listed, byOwner, loads, found, choice,
  count, hiring, rows, save, last, rivals, outcome,
  active, scope, links, live, stage, want, seen, lost, claimed, goal, since, inForce, cover,
  exists, churned, subId, subStatus, trialOver, signup, paid, read, sub, meta, events, missed,
  verified, member, owner, email, placed, job,
  open, step, date, slot, slotConflictError, alternativeSlots, confirmed, shown, queue, uploading,
  left, opening, made, unpaid, mixed,
  hours, busy, earliest, latest, phase, query, loaded, todo, shift, cursor, offer, wanted,
  contexts, conn, reached,
  kind, sheetOpen, sheetStep, serviceId, staffId, day, sheetSlot, offered, calls,
  sheetLeft, sheetOpening, sheetMade, sheetUnpaid, restated,
  entity, row, page, form, sent, inputs, said,
  stored, chosen, prop, setByOwner, jobs, uploads, elsewhere, astray,
  session, user, role, due, older, tickets, at, loading, trail, asking, signedIn,
  rank, holder, deadline, shop, linked, visited, rendered,
  formStep, slug, filled, dpaAccepted, createdSlug, claim, visitor, asked, shops, taken, hurried,
  standing, published, german, impressum, category, guest, lastShop, place, display, basis, served,
  sheetShown, contact, couponCode, appliedCoupon, referencePhotos, waiting, sendingPhotos, typedOver, touched,
  price, voucher, preview, inHand, account, shownStatus, hoursLeft, agreed, moved, collected, overwritten

Dir    == INSTANCE Directory
Plan   == INSTANCE Staffing
Coupon == INSTANCE Coupons
Org    == INSTANCE Organization
Cust   == INSTANCE Customers
Wizard == INSTANCE BookingWizard
Slots  == INSTANCE Availability
Scope  == INSTANCE TenantScope
Sheet  == INSTANCE BookingSheet WITH open <- sheetOpen, step <- sheetStep, slot <- sheetSlot, left <- sheetLeft,
            opening <- sheetOpening, made <- sheetMade, unpaid <- sheetUnpaid
Edit   == INSTANCE Editors
Panel  == INSTANCE Controls
Visit  == INSTANCE Visits
Gate   == INSTANCE Access WITH role <- rank, user <- holder, due <- deadline, at <- visited, seen <- rendered
Found  == INSTANCE Onboarding WITH step <- formStep
Front  == INSTANCE Storefront
Detail == INSTANCE BookingDetails
Money  == INSTANCE Charges

dir    == <<setup, listed, byOwner, loads, found, choice>>
plan   == <<count, hiring, rows, save, last, rivals, outcome>>
coupon == <<active, scope, links, live, stage, want, seen, lost, claimed, goal, since, inForce, cover>>
org    == <<exists, churned, subId, subStatus, trialOver, signup, paid, read, sub, meta, events, missed>>
cust   == <<verified, member, owner, email, placed, job>>
wizard == <<open, step, date, slot, slotConflictError, alternativeSlots, confirmed, shown, queue,
            uploading, left, opening, made, unpaid, mixed>>
slots  == <<hours, busy, earliest, latest, phase, query, loaded, todo, shift, cursor, offer, wanted>>
scoped == <<contexts, conn, reached>>
sheet  == <<kind, sheetOpen, sheetStep, serviceId, staffId, day, sheetSlot, offered, calls,
            sheetLeft, sheetOpening, sheetMade, sheetUnpaid, restated>>
edit   == <<entity, row, page, form, sent, inputs, said>>
panel  == <<stored, chosen, prop, setByOwner, jobs, uploads, elsewhere, astray>>
visit  == <<session, user, role, due, older, tickets, at, loading, trail, asking, signedIn>>
gate   == <<rank, holder, deadline, shop, linked, visited, rendered>>
signing == <<formStep, slug, filled, dpaAccepted, createdSlug, claim, visitor, asked, shops, taken, hurried>>
front  == <<standing, published, german, impressum, category, guest, lastShop, place, display, basis, served>>
detail == <<sheetShown, contact, couponCode, appliedCoupon, referencePhotos, waiting, sendingPhotos, typedOver, touched>>
money  == <<price, voucher, preview, inHand, account, shownStatus, hoursLeft, agreed, moved, collected, overwritten>>
public == <<front, detail, money>>
screen == <<sheet, edit, panel, visit, gate, signing, public>>
vars   == <<part, faults, dir, plan, coupon, org, cust, wizard, slots, scoped, screen>>

(* One initial state for each part that is not the one to run. *)
Init ==
  /\ part \in {"dir", "plan", "coupon", "org", "cust", "wizard", "slots", "scope",
              "sheet", "edit", "panel", "visit", "gate", "signing", "front", "detail", "money"}
  /\ Dir!Init
  /\ Plan!Init /\ (part # "plan" => \A r \in DOMAIN count : count[r] = 0)
  /\ Coupon!Init /\ (part # "coupon" => scope = "all")
  /\ Org!Init /\ (part # "org" => ~paid)
  /\ Cust!Init
  /\ Wizard!Init
  /\ Slots!Init /\ (part # "slots" => busy = {} /\ earliest = 0 /\ latest = Slots!DayEnd(Slots!Today)
                                      /\ \A d \in DOMAIN hours : hours[d] = {})
  /\ Scope!Init
  /\ Sheet!Init /\ (part # "sheet" => kind = "own")
  /\ Edit!Init /\ (part # "edit" => entity = "staff")
  /\ Panel!Init
  /\ Visit!Init /\ (part # "visit" => /\ user = [known |-> FALSE, factor |-> FALSE, super |-> FALSE]
                                      /\ ~older /\ tickets = [claim |-> FALSE, invite |-> FALSE])
  /\ Gate!Init /\ (part # "gate" => /\ rank = "none" /\ shop = "trial" /\ deadline = "unset"
                                    /\ holder = [known |-> TRUE, factor |-> FALSE, super |-> FALSE])
  /\ Found!Init /\ (part # "signing" => claim = "none")
  /\ Front!Init /\ (part # "front" => standing = "trial" /\ ~published /\ ~german /\ ~impressum /\ category = "clock")
  /\ Detail!Init
  /\ Money!Init /\ (part # "money" => /\ \A p \in Price : price <= p
                                     /\ voucher = [type |-> "FIXED", value |-> price])

DirOnly    == UNCHANGED <<part, faults, plan, coupon, org, cust, wizard, slots, scoped, screen>>
PlanOnly   == UNCHANGED <<part, dir, coupon, org, cust, wizard, slots, scoped, screen>>
CouponOnly == UNCHANGED <<part, dir, plan, org, cust, wizard, slots, scoped, screen>>
OrgOnly    == UNCHANGED <<part, dir, plan, coupon, cust, wizard, slots, scoped, screen>>
CustOnly   == UNCHANGED <<part, faults, dir, plan, coupon, org, wizard, slots, scoped, screen>>
WizardOnly == UNCHANGED <<part, faults, dir, plan, coupon, org, cust, slots, scoped, screen>>
SlotsOnly  == UNCHANGED <<part, faults, dir, plan, coupon, org, cust, wizard, scoped, screen>>
ScopeOnly  == UNCHANGED <<part, faults, dir, plan, coupon, org, cust, wizard, slots, screen>>

office     == <<part, faults, dir, plan, coupon, org, cust, wizard, slots, scoped>>
SheetOnly  == UNCHANGED <<office, edit, panel, visit, gate, signing, public>>
EditOnly   == UNCHANGED <<office, sheet, panel, visit, gate, signing, public>>
PanelOnly  == UNCHANGED <<office, sheet, edit, visit, gate, signing, public>>
VisitOnly  == UNCHANGED <<office, sheet, edit, panel, gate, signing, public>>
GateOnly   == UNCHANGED <<office, sheet, edit, panel, visit, signing, public>>
SigningOnly == UNCHANGED <<office, sheet, edit, panel, visit, gate, public>>
FrontOnly  == UNCHANGED <<office, sheet, edit, panel, visit, gate, signing, detail, money>>
DetailOnly == UNCHANGED <<office, sheet, edit, panel, visit, gate, signing, front, money>>
MoneyOnly  == UNCHANGED <<office, sheet, edit, panel, visit, gate, signing, front, detail>>

Next ==
  \/ part = "dir" /\ Dir!Next /\ DirOnly
  \/ part = "plan" /\ Plan!Next /\ PlanOnly
  \/ part = "coupon" /\ Coupon!Next /\ CouponOnly
  \/ part = "org" /\ Org!Next /\ OrgOnly
  \/ part = "cust" /\ Cust!Next /\ CustOnly
  \/ part = "wizard" /\ Wizard!Next /\ WizardOnly
  \/ part = "slots" /\ Slots!Next /\ SlotsOnly
  \/ part = "scope" /\ Scope!Next /\ ScopeOnly
  \/ part = "sheet" /\ Sheet!Next /\ SheetOnly
  \/ part = "edit" /\ Edit!Next /\ EditOnly
  \/ part = "panel" /\ Panel!Next /\ PanelOnly
  \/ part = "visit" /\ Visit!Next /\ VisitOnly
  \/ part = "gate" /\ Gate!Next /\ GateOnly
  \/ part = "signing" /\ Found!Next /\ SigningOnly
  \/ part = "front" /\ Front!Next /\ FrontOnly
  \/ part = "detail" /\ Detail!Next /\ DetailOnly
  \/ part = "money" /\ Money!Next /\ MoneyOnly

Spec == Init /\ [][Next]_vars

-----------------------------------------------------------------------------
TypeOK ==
  /\ part = "dir" => Dir!TypeOK
  /\ part = "plan" => Plan!TypeOK
  /\ part = "coupon" => Coupon!TypeOK
  /\ part = "org" => Org!TypeOK
  /\ part = "cust" => Cust!TypeOK
  /\ part = "wizard" => Wizard!TypeOK
  /\ part = "slots" => Slots!TypeOK
  /\ part = "scope" => Scope!TypeOK
  /\ part = "sheet" => Sheet!TypeOK
  /\ part = "edit" => Edit!TypeOK
  /\ part = "panel" => Panel!TypeOK
  /\ part = "visit" => Visit!TypeOK
  /\ part = "gate" => Gate!TypeOK
  /\ part = "signing" => Found!TypeOK
  /\ part = "front" => Front!TypeOK
  /\ part = "detail" => Detail!TypeOK
  /\ part = "money" => Money!TypeOK

(* The owner's choice of the directory listing stands; see Directory. *)
OwnersChoiceStands == part = "dir" => Dir!OwnersChoiceStands

(* Concurrent creations exceed the plan by less than their number; see     *)
(* Staffing.                                                               *)
WithinPlan == part = "plan" => Plan!WithinPlan

(* No row of an earlier save outlives a later one; see Staffing. *)
RowsOfLastSave == part = "plan" => Plan!RowsOfLastSave

(* Concurrent bookings exceed a coupon by less than their number; see      *)
(* Coupons.                                                                *)
RedemptionsBounded == part = "coupon" => Coupon!RedemptionsBounded

(* A coupon admits a service only as it was saved or being saved; see      *)
(* Coupons.                                                                *)
AcceptedWasMeant == part = "coupon" => Coupon!AcceptedWasMeant

(* Nobody writes for free once the trial is over; see Organization. *)
NoFreeRide == part = "org" => Org!NoFreeRide

(* The bookings of an account are its own; see Customers. *)
BookingsFollowIdentity == part = "cust" => Cust!BookingsFollowIdentity

(* One booking for each opening of the wizard, and of the sheets of        *)
(* dashboard and account, and one shop for each wizard of the sign-up; see *)
(* BookingWizard, BookingSheet and Onboarding.                             *)
OncePerOpening ==
  /\ part = "wizard" => Wizard!OneBookingPerOpening
  /\ part = "sheet" => Sheet!OneBookingPerSheet
  /\ part = "signing" => Found!OneShopPerWizard

(* The slot confirmed is of the choice shown, and so are the coupon, the   *)
(* photos and the amount, and no more than the price is charged and, but   *)
(* for an on-site payment that is written over, taken; see BookingWizard,  *)
(* BookingSheet, BookingDetails and Charges.                               *)
SummaryIsBooked ==
  /\ part = "wizard" => Wizard!SummaryIsBooked
  /\ part = "sheet" => Sheet!SlotIsOfChoice
  /\ part = "detail" => Detail!AppliedIsTyped /\ Detail!SentIsShown
  /\ part = "money" => Money!ChargedAsShown /\ Money!WithinPrice

(* Availability lists exactly the slots of the day; see Availability. *)
OfferIsExact == part = "slots" => Slots!OfferIsExact

(* No query reaches another organization; see TenantScope. *)
TenantIsolation == part = "scope" => Scope!TenantIsolation

(* A row holds what the forms saved last have said; see Editors. *)
SavedAsSaid == part = "edit" => Edit!SavedAsSaid

(* At rest a control shows what is stored; see Controls. *)
ShownIsStored == part = "panel" => Panel!ShownIsStored

(* No page redirects to one that has redirected to it; see Visits. *)
NoRedirectLoop == part = "visit" => Visit!NoRedirectLoop

(* A form that has succeeded leads to a page that knows; see Visits. *)
SignedInIsSeen == part = "visit" => Visit!SignedInIsSeen

(* Members may do what their page offers, and visitors what the public     *)
(* page does, which takes nothing without the Impressum; see Access and    *)
(* Storefront.                                                             *)
OfferedIsPermitted ==
  /\ part = "gate" => Gate!OfferedIsPermitted
  /\ part = "front" => Front!OfferedIsAdmitted /\ Front!ImpressumFirst

(* Refuted: the same without the exceptions that comments of code deny.    *)
(* A customer with a session is served by the actions of its area, and a   *)
(* professional without a link is shown nothing; see its two parts.        *)
OfferedAsDocumented ==
  /\ part = "front" => Front!CustomersAreAdmitted
  /\ part = "gate" => Gate!UnlinkedSeesNothing

(* The owner is never locked out; see Access. *)
NoLockout == part = "gate" => Gate!NoLockout
=============================================================================
