------------------------------- MODULE Access -------------------------------
(***************************************************************************)
(* What the pages of the dashboard offer a member of the shop, and what    *)
(* the actions behind it admit.  The role, the deadline for the second     *)
(* factor, the subscription and the member's link to a professional change *)
(* while a page stays as it was rendered.                                  *)
(***************************************************************************)
EXTENDS Naturals

Catalog == {"/dashboard/services", "/dashboard/coupons", "/dashboard/staff", "/dashboard/customers"}
Path == Catalog \cup {"/dashboard", "/dashboard/agenda", "/dashboard/settings", "/dashboard/billing", "/dashboard/messages"}

VARIABLES
  role,    \* its membership
  user,    \* has it the second factor, is it of the platform?
  due,     \* mfaGracePeriodEndsAt
  shop,    \* the trial, or the subscription
  linked,  \* is it a professional of the calendar?  Staff.memberId
  at,      \* the page it is at, or away
  seen     \* what that page was rendered with, the bookings it shows, are they those it was
           \* first rendered with, and for whom were they read?

vars == <<role, user, due, shop, linked, at, seen>>

(* The guards of layout and pages, for a session. *)
V == INSTANCE Visits WITH session <- "full", at <- [host |-> "shop", path |-> at], older <- FALSE,
       tickets <- [claim |-> FALSE, invite |-> FALSE],
       loading <- "no", trail <- {}, asking <- "password", signedIn <- FALSE

(* The rows a page finds: without a location, without what it lists, or with. *)
Stock == {"bare", "empty", "some"}
Finds(path) ==
  CASE path = "/dashboard/staff" -> Stock
    [] path \in {"/dashboard", "/dashboard/billing"} -> {"some"}
    [] OTHER -> Stock \ {"bare"}

Away == [role |-> "none", stock |-> "bare", paying |-> FALSE, bookings |-> {}, first |-> TRUE, reader |-> <<"none", FALSE>>]

Init ==
  /\ role \in V!Role \cup {"none"} /\ linked \in BOOLEAN /\ (linked => role # "none")
  /\ user \in [known : {TRUE}, factor : BOOLEAN, super : BOOLEAN]
  /\ due \in {"unset", "running"}
  /\ shop \in {"trial", "subscribed"}
  /\ at = "away" /\ seen = Away

-----------------------------------------------------------------------------
(* What the actions admit *)

Booking == {"completeBooking", "markBookingNoShow", "recordOnSitePayment"}
Upload  == {"upload service", "upload cover"}
Read    == {"getAgendaBookings", "getDashboardAvailability", "getDashboardMetrics", "getStaffConversation",
            "replyToMessage", "createSubscriptionCheckout", "createBillingPortal"}

(* The permission for which the client of an action asks. *)
Right(c) ==
  CASE c \in {"getAgendaBookings", "getDashboardAvailability", "getDashboardMetrics"} -> <<"booking", "read_own">>
    [] c \in Booking -> <<"booking", "update">>
    [] c = "createManualBooking" -> <<"booking", "create">>
    [] c \in {"createService", "updateService", "createCoupon", "updateCoupon", "upload service"} -> <<"service", "manage">>
    [] c = "createLocation" -> <<"location", "manage">>
    [] c \in {"createStaff", "updateStaff", "setStaffWorkingHours", "createAbsence",
              "inviteMember", "updateMemberRole", "removeMember"} -> <<"staff", "manage">>
    [] c \in {"updateCustomer", "updateQuoteRequestStatus"} -> <<"customer", "manage">>
    [] c \in {"updateRules", "createClosedPeriod", "updateImpressum", "updateCoverImage", "upload cover",
              "toggleDirectoryListing", "updateBusinessCategory"} -> <<"settings", "manage">>
    [] c \in {"createSubscriptionCheckout", "createBillingPortal", "createConnectOnboarding"} -> <<"billing", "manage">>
    [] c = "getStaffConversation" -> <<"messages", "read">>
    [] c = "replyToMessage" -> <<"messages", "reply">>

Desk   == {"create", "read_own", "update"}
Manage == {<<"service", "manage">>, <<"staff", "manage">>, <<"location", "manage">>, <<"customer", "manage">>, <<"settings", "manage">>}
Talk   == {<<"messages", "read">>, <<"messages", "reply">>}

Rights(r) ==
  CASE r = "owner" -> {"booking"} \X Desk \cup Manage \cup Talk \cup {<<"billing", "manage">>}
    [] r = "manager" -> {"booking"} \X Desk \cup Manage \cup Talk
    [] r = "receptionist" -> {"booking"} \X Desk \cup Talk \cup {<<"customer", "manage">>}
    [] r = "professional" -> {"booking"} \X (Desk \ {"create"})
    [] r = "none" -> {}

Permits(c) == Right(c) \in Rights(role)

(* A professional operates on its own bookings, and without a link on none. *)
OwnBookingAccess(b) == role = "professional" => linked /\ b = "own"

TenantAdmits == shop # "churned" /\ role # "none"
StaffAdmits  == TenantAdmits /\ ~(V!NeedsFactor /\ due = "over")

(* Mutant of WriteAdmits: to subscribe is a write like others. *)
WriteAdmitsAny(c) == shop # "expired"

WriteAdmits(c) == c \notin Read => shop # "expired"

Admits(c) == Permits(c) /\ (c \notin Upload => StaffAdmits /\ WriteAdmits(c))

-----------------------------------------------------------------------------
(* What the pages offer *)

(* The page is empty for one that is no member any more. *)
OverviewOffers == IF seen.role = "none" THEN {} ELSE {"getDashboardMetrics"}

AgendaOffers ==
  {"getAgendaBookings"}
    \cup (IF seen.bookings # {} /\ seen.role \in V!Role THEN Booking ELSE {})
    \cup (IF seen.role \in {"owner", "manager", "receptionist"} THEN {"createManualBooking", "getDashboardAvailability"} ELSE {})

ServicesOffer == {"createService", "upload service"} \cup (IF seen.stock = "some" THEN {"updateService"} ELSE {})
CouponsOffer  == {"createCoupon"} \cup (IF seen.stock = "some" THEN {"updateCoupon"} ELSE {})
CustomersOffer == IF seen.stock = "some" THEN {"updateCustomer"} ELSE {}

StaffOffers ==
  CASE seen.stock = "bare" -> {"createLocation"}
    [] seen.stock = "empty" -> {"createStaff", "upload service"}
    [] seen.stock = "some" -> {"createStaff", "upload service", "updateStaff", "setStaffWorkingHours", "createAbsence"}

TeamOffers == IF seen.stock = "some" THEN {"updateMemberRole", "removeMember"} ELSE {}  \* a member that does not own

SettingsOffer ==
  {"updateRules", "createClosedPeriod", "inviteMember", "updateImpressum", "updateCoverImage", "upload cover",
   "toggleDirectoryListing", "updateBusinessCategory"}
    \cup TeamOffers \cup (IF seen.stock = "some" THEN {"updateQuoteRequestStatus"} ELSE {})

BillingOffers ==
  {"createConnectOnboarding", IF seen.paying THEN "createBillingPortal" ELSE "createSubscriptionCheckout"}

(* In a conversation; it asks for the permission to reply. *)
MessagesOffer ==
  IF seen.stock # "some" THEN {}
  ELSE {"getStaffConversation"} \cup (IF <<"messages", "reply">> \in Rights(seen.role) THEN {"replyToMessage"} ELSE {})

Offered ==
  CASE at = "away" -> {}
    [] at = "/dashboard" -> OverviewOffers
    [] at = "/dashboard/agenda" -> AgendaOffers
    [] at = "/dashboard/services" -> ServicesOffer
    [] at = "/dashboard/coupons" -> CouponsOffer
    [] at = "/dashboard/staff" -> StaffOffers
    [] at = "/dashboard/customers" -> CustomersOffer
    [] at = "/dashboard/settings" -> SettingsOffer
    [] at = "/dashboard/billing" -> BillingOffers
    [] at = "/dashboard/messages" -> MessagesOffer

-----------------------------------------------------------------------------
(* Visits *)

Location(path) == [host |-> "shop", path |-> path]
Opens(path) == IF path \in Catalog THEN V!Catalog(Location(path)) = {} ELSE V!DashboardPage(Location(path)) = {}
LayoutOpens(path) == V!DashboardLayout(Location(path)) = {}

(* ensureMfaGracePeriod, of the layout and of the actions. *)
Ensured  == IF V!NeedsFactor /\ due = "unset" THEN "running" ELSE due
Deadline == due' = Ensured

(* The agenda as rendered: of all bookings, unless it finds the professional. *)
Bookings == IF linked THEN {"own", "others"} ELSE {"others"}
FirstBookings == IF role = "professional" /\ linked THEN {"own"} ELSE Bookings

(* Mutant of PolledBookings: the filter of the page. *)
PolledLikeFirst == IF role = "professional" /\ linked THEN {"own"} ELSE Bookings

PolledBookings == IF role = "professional" THEN Bookings \ {"others"} ELSE Bookings

(* A page, with its layout or, by a link of the dashboard, perhaps without. *)
Open(path) ==
  /\ Opens(path)
  /\ due' \in {d \in {due, Ensured} : (d = Ensured /\ LayoutOpens(path)) \/ (d = due /\ at # "away")}
  /\ at' = path
  /\ \E stock \in Finds(path) : seen' =
       [role |-> role, stock |-> stock, paying |-> shop \in {"subscribed", "churned"},
        bookings |-> IF path = "/dashboard/agenda" /\ stock = "some" THEN FirstBookings ELSE {},
        first |-> TRUE, reader |-> <<role, linked>>]
  /\ UNCHANGED <<role, user, shop, linked>>

Leave == at # "away" /\ at' = "away" /\ seen' = Away /\ UNCHANGED <<role, user, due, shop, linked>>

(* What an action does is of other modules; its client may set the deadline. *)
Press ==
  /\ TenantAdmits /\ {c \in Offered \ Upload : Permits(c)} # {}
  /\ Deadline
  /\ UNCHANGED <<role, user, shop, linked, at, seen>>

(* getAgendaBookings *)
Poll ==
  /\ "getAgendaBookings" \in Offered /\ Admits("getAgendaBookings")
  /\ Deadline
  /\ IF seen.stock = "some"
       THEN seen' = [seen EXCEPT !.bookings = PolledBookings, !.first = FALSE, !.reader = <<role, linked>>] ELSE UNCHANGED seen
  /\ UNCHANGED <<role, user, shop, linked, at>>

(* The checkout is paid, and its event handled, before Stripe leads back. *)
Subscribe ==
  /\ "createSubscriptionCheckout" \in Offered /\ Admits("createSubscriptionCheckout")
  /\ shop \in {"trial", "expired"} /\ shop' = "subscribed"
  /\ at' = "away" /\ seen' = Away
  /\ UNCHANGED <<role, user, due, linked>>

Security ==
  /\ at = "/dashboard/settings"
  /\ user' = [user EXCEPT !.factor = ~@]
  /\ UNCHANGED <<role, due, shop, linked, at, seen>>

-----------------------------------------------------------------------------
(* What happens meanwhile *)

DeadlinePasses == due = "running" /\ due' = "over" /\ UNCHANGED <<role, user, shop, linked, at, seen>>
TrialEnds == shop = "trial" /\ shop' = "expired" /\ UNCHANGED <<role, user, due, linked, at, seen>>
Churn == shop = "subscribed" /\ shop' = "churned" /\ UNCHANGED <<role, user, due, linked, at, seen>>

ChangeRole(r) ==
  /\ role \notin {"none", "owner", r} /\ r # "owner" /\ role' = r
  /\ UNCHANGED <<user, due, shop, linked, at, seen>>

Remove ==
  /\ role \notin {"none", "owner"} /\ role' = "none" /\ due' = "unset" /\ linked' = FALSE
  /\ UNCHANGED <<user, shop, at, seen>>

(* Invited by itself, or as a professional; the link is made after it joined. *)
Join(r) ==
  /\ role = "none" /\ r # "owner" /\ role' = r
  /\ UNCHANGED <<user, due, shop, linked, at, seen>>
Link == role # "none" /\ ~linked /\ linked' = TRUE /\ UNCHANGED <<role, user, due, shop, at, seen>>

Next ==
  \/ \E path \in Path : Open(path)
  \/ Press \/ Poll \/ Leave \/ Subscribe \/ Security
  \/ DeadlinePasses \/ TrialEnds \/ Churn \/ Remove \/ Link
  \/ \E r \in V!Role : Join(r) \/ ChangeRole(r)

Spec == Init /\ [][Next]_vars

-----------------------------------------------------------------------------
TypeOK ==
  /\ role \in V!Role \cup {"none"} /\ linked \in BOOLEAN
  /\ user \in [known : BOOLEAN, factor : BOOLEAN, super : BOOLEAN]
  /\ due \in {"unset", "running", "over"}
  /\ shop \in {"trial", "expired", "subscribed", "churned"}
  /\ at \in Path \cup {"away"}
  /\ seen \in [role : V!Role \cup {"none"}, stock : Stock, paying : BOOLEAN, bookings : SUBSET {"own", "others"},
              first : BOOLEAN, reader : (V!Role \cup {"none"}) \X BOOLEAN]

(* As long as its role stands, a member lacks the permission for nothing   *)
(* its page offers, and as long as its link stands too, it may operate on  *)
(* each booking shown.  Only the catalog offers its forms to those who may *)
(* not use them, and the agenda first shows a professional without a link  *)
(* all bookings, which UnlinkedSeesNothing is about.                       *)
OfferedIsPermitted ==
  /\ seen.role = role =>
       \A c \in Offered : Permits(c) \/ (at \in Catalog /\ role \in {"professional", "receptionist"})
  /\ seen.reader = <<role, linked>> => \A b \in seen.bookings : OwnBookingAccess(b) \/ (seen.first /\ ~linked)

(* The owner of a shop that has not churned is never locked out: past its  *)
(* deadline the settings open, where the second factor is; else, after the *)
(* trial, the billing opens and its checkout is admitted; and else it is   *)
(* admitted to all it is offered.                                          *)
NoLockout ==
  role = "owner" /\ shop # "churned" =>
    IF V!NeedsFactor /\ due = "over" THEN LayoutOpens("/dashboard/settings") /\ Opens("/dashboard/settings")
    ELSE IF shop = "expired"
    THEN /\ LayoutOpens("/dashboard/billing") /\ Opens("/dashboard/billing")
         /\ Admits("createSubscriptionCheckout")
    ELSE /\ \A path \in Path : LayoutOpens(path) /\ Opens(path)
         /\ \A c \in Offered : Admits(c)

(* Refuted: a professional without a link to the calendar is shown no      *)
(* booking, neither first nor later, as the comments of getAgendaBookings  *)
(* say: the page, when it finds no link, reads all bookings.               *)
UnlinkedSeesNothing == seen.reader = <<"professional", FALSE>> => seen.bookings = {}
=============================================================================
