----------------------------- MODULE Storefront -----------------------------
(***************************************************************************)
(* A shop as its visitors meet it: the directory of the platform lists it, *)
(* its public page takes bookings or asks for a request, and the area of   *)
(* its customers books too.  The browser keeps a page as it was rendered   *)
(* while the shop changes, and the actions behind the page ask again, each *)
(* client for its own conditions.                                          *)
(***************************************************************************)
EXTENDS Naturals

VARIABLES
  standing,   \* of the shop: in its trial or past it, subscribed, or churned
  published,  \* organization.isListed
  german,     \* has it a location in Germany?  Of its sign-up: locations created later name no country
  impressum,  \* has it a tenantImpressum row?
  category,   \* does it book by the clock or by request?
  guest,      \* the session: of nobody, of a customer, or of a member of the shop
  lastShop,   \* does the browser remember the shop?
  place,      \* the page it is at, ...
  display,    \* ... what that page was rendered with, ...
  basis,      \* ... and the standing it was rendered for
  served      \* history: the pages from which a visitor has booked or asked

shopRow == <<standing, published, german, impressum, category>>
browser == <<guest, lastShop, place, display, basis>>
vars == <<shopRow, browser, served>>

Standing == {"trial", "expired", "subscribed", "churned"}  \* nothing in the code suspends
Session  == {"none", "customer", "member"}
Display  == {"nothing", "listed", "notFound", "trialExpired", "impressumRequired", "services", "quote", "area"}

Init ==
  /\ standing \in {"trial", "subscribed"}
  /\ published \in BOOLEAN
  /\ german \in BOOLEAN
  /\ impressum \in BOOLEAN
  /\ category \in {"clock", "quote"}
  /\ guest = "none"
  /\ lastShop = FALSE
  /\ place = "away" /\ display = "nothing" /\ basis = standing
  /\ served = {}

-----------------------------------------------------------------------------
(* What the pages show *)

(* isDirectoryEligible: the end of the trial is not asked for. *)
Eligible == published /\ standing # "churned"

(* The gates of the public page, in their order. *)
PublicPage ==
  CASE standing = "churned" -> "notFound"
    [] standing = "expired" -> "trialExpired"
    [] standing \in {"trial", "subscribed"} /\ german /\ ~impressum -> "impressumRequired"
    [] OTHER -> IF category = "quote" THEN "quote" ELSE "services"

Goes(page, shown) == place' = page /\ display' = shown /\ basis' = standing

Listing == IF Eligible THEN "listed" ELSE "nothing"

(* The cities that have an eligible shop, ... *)
FindCity ==
  /\ Goes("cities", Listing)
  /\ UNCHANGED <<shopRow, guest, lastShop, served>>

(* ... and the eligible shops of one. *)
OpenCity ==
  /\ place = "cities" /\ display = "listed"
  /\ Goes("directory", Listing)
  /\ UNCHANGED <<shopRow, guest, lastShop, served>>

(* The home of the app: a search, a category, or the shops listed last. *)
Discover ==
  /\ \E found \in {Listing, "nothing"} : Goes("app", found)
  /\ UNCHANGED <<shopRow, guest, lastShop, served>>

(* A card of a list leads to the shop, and the browser remembers it. *)
Choose ==
  /\ place \in {"directory", "app"} /\ display = "listed"
  /\ lastShop' = TRUE
  /\ Goes("shop", PublicPage)
  /\ UNCHANGED <<shopRow, guest, served>>

(* The card of the shop visited last, which asks nobody. *)
Return ==
  /\ place = "app" /\ lastShop
  /\ Goes("shop", PublicPage)
  /\ UNCHANGED <<shopRow, guest, lastShop, served>>

(* By its address. *)
Visit ==
  /\ Goes("shop", PublicPage)
  /\ UNCHANGED <<shopRow, guest, lastShop, served>>

(* The layout of the area asks for a session and for the organization, but *)
(* not how it stands.                                                      *)
OpenArea ==
  /\ guest # "none"
  /\ Goes("account", "area")
  /\ UNCHANGED <<shopRow, guest, lastShop, served>>

(* The page the form leads to is rendered anew. *)
SignIn(who) ==
  /\ guest = "none" /\ who # "none"
  /\ guest' = who
  /\ Goes("account", "area")
  /\ UNCHANGED <<shopRow, lastShop, served>>

(* BackButton, signOut: away from the shop. *)
SignOut ==
  /\ place = "account"
  /\ guest' = "none"
  /\ Goes("away", "nothing")
  /\ UNCHANGED <<shopRow, lastShop, served>>

-----------------------------------------------------------------------------
(* What the actions admit *)

PublicAdmits == standing \notin {"expired", "churned"}

(* customerActionClient is a tenantActionClient: it asks for a membership. *)
CustomerAdmits == standing # "churned" /\ guest = "member"

(* A session books as itself, nobody with a name and an address. *)
BookingAction == IF guest = "none" THEN "createPublicBooking" ELSE "createCustomerBooking"

Offered ==
  CASE display = "services" -> {"getPublicAvailability", BookingAction}
    [] display = "quote" -> {"submitQuoteRequest"}
    [] display = "area" -> {"getPublicAvailability", "createCustomerBooking"}
    [] OTHER -> {}

Admits(c) == IF c = "createCustomerBooking" THEN CustomerAdmits ELSE PublicAdmits

(* A booking, in the wizard or in the sheet of the area. *)
Book ==
  /\ BookingAction \in Offered
  /\ PublicAdmits \/ basis \in {"trial", "subscribed"}  \* the slots have been listed
  /\ Admits(BookingAction)
  /\ served' = served \cup {place}
  /\ UNCHANGED <<shopRow, browser>>

SubmitQuote ==
  /\ "submitQuoteRequest" \in Offered
  /\ Admits("submitQuoteRequest")
  /\ served' = served \cup {place}
  /\ UNCHANGED <<shopRow, browser>>

-----------------------------------------------------------------------------
(* What happens to the shop meanwhile *)

Stands(from, to) ==
  /\ standing = from
  /\ standing' = to
  /\ UNCHANGED <<published, german, impressum, category, browser, served>>

Subscribe == \E s \in {"trial", "expired"} : Stands(s, "subscribed")

(* The row is created or updated, never deleted. *)
UpdateImpressum ==
  /\ impressum' = TRUE
  /\ UNCHANGED <<standing, published, german, category, browser, served>>

SetDirectoryListing ==
  /\ published' = ~published
  /\ UNCHANGED <<standing, german, impressum, category, browser, served>>

UpdateCategory ==
  /\ category' \in {"clock", "quote"} \ {category}
  /\ UNCHANGED <<standing, published, german, impressum, browser, served>>

Next ==
  \/ FindCity \/ OpenCity \/ Discover \/ Choose \/ Return \/ Visit \/ OpenArea
  \/ \E who \in Session : SignIn(who)
  \/ SignOut
  \/ Book \/ SubmitQuote
  \/ Stands("trial", "expired") \/ Subscribe \/ Stands("subscribed", "churned")
  \/ UpdateImpressum \/ SetDirectoryListing \/ UpdateCategory

Spec == Init /\ [][Next]_vars

-----------------------------------------------------------------------------
TypeOK ==
  /\ standing \in Standing
  /\ published \in BOOLEAN /\ german \in BOOLEAN /\ impressum \in BOOLEAN
  /\ category \in {"clock", "quote"}
  /\ guest \in Session
  /\ lastShop \in BOOLEAN
  /\ place \in {"away", "cities", "directory", "app", "shop", "account"}
  /\ display \in Display
  /\ basis \in Standing
  /\ served \in SUBSET {"shop", "account"}

(* The directory lists no shop whose page is gone, and where a page stands *)
(* as it was rendered, the actions admit what it offers.  Two exceptions:  *)
(* no session of a customer is admitted to book, neither by the wizard nor *)
(* by the area, which CustomersAreAdmitted is about, and the area opens    *)
(* for a shop past its trial or churned, which the actions refuse.         *)
OfferedIsAdmitted ==
  basis = standing =>
    /\ display = "listed" => PublicPage # "notFound"
    /\ \A c \in Offered :
         \/ Admits(c)
         \/ c = "createCustomerBooking" /\ guest = "customer"
         \/ place = "account" /\ standing \in {"expired", "churned"}

(* A shop with a German location that lacks its Impressum takes no booking *)
(* and no request from its public page: that page alone refuses and none   *)
(* of the actions does, so no page rendered before may be left open.  It   *)
(* rests on createLocation, whose input has no country: the default is     *)
(* Brazil, and only the sign-up, which writes the Impressum too, names     *)
(* one.  The area refuses nobody for it.                                   *)
ImpressumFirst == german /\ ~impressum => "shop" \notin served

(* Refuted: a customer with a session is admitted to book for itself, as   *)
(* the comment of customerActionClient says of the area it serves, where   *)
(* the shop stands: the client it is made of asks for a membership.        *)
CustomersAreAdmitted ==
  guest = "customer" /\ standing \in {"trial", "subscribed"} /\ "createCustomerBooking" \in Offered
    => Admits("createCustomerBooking")
=============================================================================
