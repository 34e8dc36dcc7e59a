------------------------------- MODULE Visits -------------------------------
(***************************************************************************)
(* The visits of one person to the pages of all hosts: which of them the   *)
(* session and the membership let it see, to which it is redirected, and   *)
(* the forms by which it signs in, is asked for the second factor, signs   *)
(* up, claims a paid subscription, founds its shop or joins it.  Better    *)
(* Auth is external: its answers are taken as the forms use them.          *)
(***************************************************************************)
EXTENDS Naturals

Host == {"root", "app", "shop"}  \* the root domain, app., and the tenant of the shop
Role == {"owner", "manager", "receptionist", "professional"}
Dashboard == {"/dashboard", "/dashboard/agenda", "/dashboard/services",  \* the last as coupons, staff and customers
              "/dashboard/settings", "/dashboard/billing", "/dashboard/messages"}
Account == {"/account", "/account/sign-in"}
Reserved == Dashboard \cup {"/sign-in", "/sign-up", "/onboarding", "/onboarding?session_id", "/accept-invitation"}

On(host, path) == [host |-> host, path |-> path]

(* Served by a host: proxy rewrites the others to pages that do not exist. *)
Location ==
  {On(h, p) : h \in {"root", "shop"}, p \in Reserved} \cup {On(h, p) : h \in {"app", "shop"}, p \in Account}
    \cup {On(h, "/") : h \in Host} \cup {On("root", "/superadmin")}

Away == On("other", "/")  \* the dashboard of another shop

VARIABLES
  session,   \* Better Auth: "half" waits for the second factor
  user,      \* has it an account, its second factor, is it of the platform?
  role,      \* its membership of the shop
  due,       \* mfaGracePeriodEndsAt
  older,     \* is it a member of another shop before?
  tickets,   \* its paid checkout session, its invitation
  at,        \* the page loaded or shown
  loading,   \* "full": with its layout, "soft": perhaps without, "no": shown
  trail,     \* history: what has redirected it here, as things stand
  asking,    \* what a form of the page asks for next
  signedIn   \* history: is this the page to which a form that succeeded leads?

vars == <<session, user, role, due, older, tickets, at, loading, trail, asking, signedIn>>
person == <<user, role, due, older, tickets>>
view == <<at, loading, trail, asking, signedIn>>

Init ==
  /\ session = "none"
  /\ user \in [known : BOOLEAN, factor : BOOLEAN, super : BOOLEAN]
  /\ older \in BOOLEAN
  /\ (user.super \/ older => user.known) /\ (user.factor => older)
  /\ role = "none" /\ due = "unset"
  /\ tickets \in [claim : BOOLEAN, invite : BOOLEAN]
  /\ at = On("root", "/") /\ loading = "no" /\ trail = {}
  /\ asking = "password" /\ signedIn = FALSE

-----------------------------------------------------------------------------
(* Where a page redirects to; nowhere, when it is shown. *)

Known == session = "full"
Member == role # "none"
Home(l) == On(l.host, "/")
Shop == On("shop", "/dashboard")

NeedsFactor == (role = "owner" \/ user.super) /\ ~user.factor

(* Mutant of Exempt: the page that ends the duty is not spared. *)
ExemptNone(l) == FALSE

Exempt(l) == l.path = "/dashboard/settings"

DashboardLayout(l) ==
  IF ~Known \/ l.host # "shop" \/ ~Member THEN {Home(l)}
  ELSE IF NeedsFactor /\ due = "over" /\ ~Exempt(l) THEN {On(l.host, "/dashboard/settings")}
  ELSE {}

Overview(l) ==
  IF Known /\ l.host = "shop" /\ Member /\ role \notin {"owner", "manager"} THEN {On(l.host, "/dashboard/agenda")} ELSE {}

(* Like it, that of the profile. *)
Agenda(l) == IF ~Known \/ l.host # "shop" \/ ~Member THEN {Home(l)} ELSE {}

Guarded(l, allowed) ==
  IF ~Known \/ l.host # "shop" THEN {Home(l)} ELSE IF role \notin allowed THEN {On(l.host, "/dashboard")} ELSE {}

Catalog(l)  == Guarded(l, Role)
Settings(l) == Guarded(l, {"owner", "manager"})
Billing(l)  == Guarded(l, {"owner"})
Messages(l) == Guarded(l, {"owner", "manager", "receptionist"})  \* messages: read

DashboardPage(l) ==
  CASE l.path = "/dashboard" -> Overview(l)
    [] l.path = "/dashboard/agenda" -> Agenda(l)
    [] l.path = "/dashboard/services" -> Catalog(l)
    [] l.path = "/dashboard/settings" -> Settings(l)
    [] l.path = "/dashboard/billing" -> Billing(l)
    [] l.path = "/dashboard/messages" -> Messages(l)

Shops == (IF Member THEN 1 ELSE 0) + (IF older THEN 1 ELSE 0)
First == IF older THEN Away ELSE Shop

SignIn(l) == IF Known /\ Shops = 1 THEN {First} ELSE {}

SignUp(l) == IF ~Known THEN {} ELSE IF Shops > 0 THEN {First} ELSE {On(l.host, "/onboarding")}

Onboarding(l) ==
  IF ~Known THEN {On(l.host, "/sign-up")}
  ELSE IF Shops = 1 THEN {First}
  ELSE IF Shops > 1 THEN {On(l.host, "/sign-in")}
  ELSE {}

(* The layout of the area, and its pages, which only the tenant has; that  *)
(* of app. asks to sign in where it is.                                    *)
AccountArea(l) == IF l.host = "shop" /\ ~Known THEN {On(l.host, "/account/sign-in"), Home(l)} ELSE {}

AccountSignIn(l) == IF Known THEN {On(l.host, "/account")} ELSE {}

Superadmin(l) == IF Known /\ user.super THEN {} ELSE {Home(l)}

Page(l) ==
  CASE l.path \in Dashboard -> DashboardPage(l)
    [] l.path = "/sign-in" -> SignIn(l)
    [] l.path = "/sign-up" -> SignUp(l)
    [] l.path = "/onboarding" -> Onboarding(l)
    [] l.path = "/account" -> AccountArea(l)
    [] l.path = "/account/sign-in" -> AccountSignIn(l)
    [] l.path = "/superadmin" -> Superadmin(l)
    [] OTHER -> {}

Layout(l) == IF l.path \in Dashboard THEN DashboardLayout(l) ELSE {}

-----------------------------------------------------------------------------
Load(l, how) == at' = l /\ loading' = how /\ trail' = {} /\ asking' = "password"

(* The first reading of the layout sets the deadline: ensureMfaGracePeriod. *)
LayoutRuns == due' = IF DashboardLayout(at) # {Home(at)} /\ NeedsFactor /\ due = "unset" THEN "running" ELSE due
LayoutSpared == loading = "soft" /\ UNCHANGED due

Redirect ==
  /\ loading # "no"
  /\ \/ at.path \in Dashboard /\ LayoutRuns /\ at' \in Layout(at) \cup Page(at)
     \/ (at.path \notin Dashboard \/ LayoutSpared) /\ UNCHANGED due /\ at' \in Page(at)
  /\ trail' = trail \cup {at}
  /\ UNCHANGED <<session, user, role, older, tickets, loading, asking, signedIn>>

Show ==
  /\ loading # "no"
  /\ Page(at) = {}
  /\ \/ at.path \in Dashboard /\ LayoutRuns /\ Layout(at) = {}
     \/ (at.path \notin Dashboard \/ LayoutSpared) /\ UNCHANGED due
  /\ loading' = "no"
  /\ UNCHANGED <<session, user, role, older, tickets, at, trail, asking, signedIn>>

(* An address, or a link to another host. *)
Enter(l) ==
  /\ loading = "no"
  /\ Load(l, "full") /\ signedIn' = FALSE
  /\ UNCHANGED <<session, person>>

(* A link of the dashboard: its layout is there already. *)
Follow(path) ==
  /\ loading = "no" /\ at.host = "shop" /\ at.path \in Dashboard
  /\ Load(On(at.host, path), "soft") /\ signedIn' = FALSE
  /\ UNCHANGED <<session, person>>

-----------------------------------------------------------------------------
(* The forms *)

Shown(path) == loading = "no" /\ at.path = path
AskedToSignIn(path) == Shown(path) /\ session # "full" /\ asking # "code"

(* What the form of a page does once it has a session. *)
Leads(path) == IF path \in Account THEN On(at.host, "/account") ELSE at

Succeed(l) == Load(l, "full") /\ signedIn' = TRUE

(* Mutant of Password: the answer of an account with the second factor     *)
(* counts as success.                                                      *)
PasswordOnly(path) ==
  /\ user.known /\ UNCHANGED person
  /\ session' = IF user.factor THEN "half" ELSE "full"
  /\ Succeed(Leads(path))

Password(path) ==
  /\ user.known /\ UNCHANGED person
  /\ session' = IF user.factor THEN "half" ELSE "full"
  /\ IF user.factor THEN asking' = "code" /\ UNCHANGED <<at, loading, trail, signedIn>>
                    ELSE Succeed(Leads(path))

(* An account for an address that has none. *)
Register ==
  /\ ~user.known
  /\ user' = [user EXCEPT !.known = TRUE] /\ session' = "full"
  /\ UNCHANGED <<role, due, older, tickets>>

(* Google asks for no code, and makes the account at once. *)
Google(l) ==
  /\ user' = [user EXCEPT !.known = TRUE] /\ session' = "full"
  /\ Succeed(l)
  /\ UNCHANGED <<role, due, older, tickets>>

SubmitSignIn == AskedToSignIn("/sign-in") /\ Password("/sign-in")
SignInWithGoogle == AskedToSignIn("/sign-in") /\ Google(On("root", "/sign-in"))

SubmitSignUp == AskedToSignIn("/sign-up") /\ Register /\ Succeed(On(at.host, "/onboarding"))
SignUpWithGoogle == AskedToSignIn("/sign-up") /\ Google(On("root", "/onboarding"))

SubmitAccount ==
  /\ AskedToSignIn("/account/sign-in")
  /\ \/ Password("/account/sign-in")
     \/ Register /\ Succeed(Leads("/account/sign-in"))
AccountWithGoogle == AskedToSignIn("/account/sign-in") /\ Google(Leads("/account/sign-in"))

VerifyCode ==
  /\ loading = "no" /\ asking = "code" /\ session = "half"
  /\ session' = "full"
  /\ Succeed(Leads(at.path))
  /\ UNCHANGED person

(* Signs up or, when the address is in use, in; then reloads. *)
SignUpOrIn ==
  \/ Register /\ Succeed(at)
  \/ /\ user.known /\ UNCHANGED person
     /\ session' = IF user.factor THEN "half" ELSE "full"
     /\ Succeed(at)

ClaimAccount == AskedToSignIn("/onboarding?session_id") /\ tickets.claim /\ SignUpOrIn

(* The invitation is still pending: the page asks to sign in or, of one who *)
(* has, to join.                                                           *)
Invited == Shown("/accept-invitation") /\ tickets.invite

(* The same, but it asks again for the password of an address in use. *)
InUse ==
  /\ Invited /\ AskedToSignIn("/accept-invitation") /\ user.known /\ asking = "password"
  /\ asking' = "existing"
  /\ UNCHANGED <<session, person, at, loading, trail, signedIn>>

AcceptAuth ==
  /\ Invited /\ AskedToSignIn("/accept-invitation")
  /\ user.known => asking = "existing"
  /\ SignUpOrIn

SignOut ==
  /\ loading = "no" /\ Known /\ session' = "none"
  /\ \/ at.path \in Dashboard /\ Load(On("root", "/sign-in"), "full")
     \/ at.path = "/account" /\ Load(On(at.host, "/account/sign-in"), "full")
  /\ signedIn' = FALSE
  /\ UNCHANGED person

(* createOrganization: the wizard of both pages, and the card that leads   *)
(* to the new shop.                                                        *)
FoundShop ==
  /\ loading = "no" /\ Known /\ ~Member
  /\ \/ at.path = "/onboarding"
     \/ at.path = "/onboarding?session_id" /\ tickets.claim
  /\ role' = "owner" /\ due' = "running"
  /\ tickets' = [tickets EXCEPT !.claim = @ /\ at.path = "/onboarding"]
  /\ \E path \in {"/dashboard", "/dashboard/settings"} : Load(On("shop", path), "full")
  /\ signedIn' = FALSE
  /\ UNCHANGED <<session, user, older>>

Join(r) ==
  /\ Invited /\ Known /\ ~Member /\ r # "owner"
  /\ role' = r /\ due' = "unset" /\ tickets' = [tickets EXCEPT !.invite = FALSE]
  /\ Load(Shop, "full") /\ signedIn' = FALSE
  /\ UNCHANGED <<session, user, older>>

(* SecuritySection, on the pages that have it; they stay. *)
Security ==
  /\ loading = "no" /\ Known
  /\ \/ at.host = "shop" /\ at.path = "/dashboard/settings" /\ role \in {"owner", "manager"}
     \/ at.path = "/superadmin" /\ user.super /\ ~user.factor
  /\ user' = [user EXCEPT !.factor = ~@]
  /\ trail' = {}
  /\ UNCHANGED <<session, role, due, older, tickets, at, loading, asking, signedIn>>

-----------------------------------------------------------------------------
(* What happens to the person meanwhile; it has not yet followed a redirect *)
(* as things stand now.                                                    *)
Meanwhile == trail' = {} /\ UNCHANGED <<at, loading, asking>>

Expire == /\ session # "none" /\ session' = "none" /\ Meanwhile /\ signedIn' = FALSE /\ UNCHANGED person

DeadlinePasses ==
  /\ due = "running" /\ due' = "over" /\ Meanwhile
  /\ UNCHANGED <<session, user, role, older, tickets, signedIn>>

ChangeRole(r) ==
  /\ role \notin {"none", "owner", r} /\ r # "owner" /\ role' = r /\ Meanwhile
  /\ UNCHANGED <<session, user, due, older, tickets, signedIn>>

Remove ==
  /\ role \notin {"none", "owner"} /\ role' = "none" /\ due' = "unset" /\ Meanwhile
  /\ UNCHANGED <<session, user, older, tickets, signedIn>>

Next ==
  \/ Redirect \/ Show
  \/ \E l \in Location : Enter(l)
  \/ \E path \in Dashboard : Follow(path)
  \/ SubmitSignIn \/ SignInWithGoogle \/ SubmitSignUp \/ SignUpWithGoogle
  \/ SubmitAccount \/ AccountWithGoogle \/ VerifyCode
  \/ ClaimAccount \/ InUse \/ AcceptAuth \/ SignOut
  \/ FoundShop \/ Security
  \/ \E r \in Role : Join(r) \/ ChangeRole(r)
  \/ Expire \/ DeadlinePasses \/ Remove

Spec == Init /\ [][Next]_vars

-----------------------------------------------------------------------------
TypeOK ==
  /\ session \in {"none", "half", "full"}
  /\ user \in [known : BOOLEAN, factor : BOOLEAN, super : BOOLEAN]
  /\ role \in Role \cup {"none"}
  /\ due \in {"unset", "running", "over"}
  /\ older \in BOOLEAN
  /\ tickets \in [claim : BOOLEAN, invite : BOOLEAN]
  /\ at \in Location \cup {Away}
  /\ loading \in {"full", "soft", "no"}
  /\ trail \subseteq Location
  /\ asking \in {"password", "code", "existing"}
  /\ signedIn \in BOOLEAN

(* Redirects end: as things stand, none leads back to a page that has      *)
(* redirected before.  Only a superadmin that is a professional or         *)
(* receptionist of the shop, and past its deadline, is sent back and forth *)
(* between the dashboard and the settings, which it may not see.           *)
NoRedirectLoop == at \in trail => NeedsFactor /\ due = "over" /\ role \notin {"owner", "manager"}

(* A form that has succeeded leads to a page that knows the person: no     *)
(* sign-in comes back to itself in silence.  The pages of the forms that   *)
(* claim an account and accept an invitation are left out altogether: they *)
(* do, for a person with the second factor.                                *)
SignedInIsSeen ==
  signedIn /\ loading = "no" /\ at.path \notin {"/onboarding?session_id", "/accept-invitation"} => Known
=============================================================================
