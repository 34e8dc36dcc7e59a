---------------------------- MODULE Organization ----------------------------
(***************************************************************************)
(* An organization from the sign-up of its owner on: createOrganization    *)
(* with its calls to Better Auth, to Stripe and to the database, any of    *)
(* which may fail; the subscriptions at Stripe, one paid before the        *)
(* sign-up and claimed by it and one bought from the dashboard; the        *)
(* subscription events, handled in any order by the billing webhook; and   *)
(* the gates of the server actions.                                        *)
(***************************************************************************)
EXTENDS Limits

Sub == {"claimed", "bought"}
Undelivered == 2  \* bound: changes at Stripe wait while so many events are to be handled

(* Stripe's trialing, active and past_due are one status here, which no    *)
(* gate tells apart; so are the others that the code calls CANCELED.       *)
StripeStatus == {"none", "running", "unpaid", "canceled"}
Changes == [none |-> {}, running |-> {"unpaid", "canceled"}, unpaid |-> {"running", "canceled"}, canceled |-> {}]

VARIABLES
  exists,     \* the organization row and its owner's membership
  churned,    \* organization.status = "CHURNED"
  subId,      \* organization.stripeSubscriptionId, "none" for null
  subStatus,  \* organization.subscriptionStatus
  trialOver,  \* the 7 days since createdAt have passed
  signup,     \* the step createOrganization has come to
  paid,       \* does the sign-up come with a checkout session?
  read,       \* the Stripe status it has read and not yet written
  sub,        \* at Stripe: the status of each subscription, ...
  meta,       \* ... the subscriptions whose metadata has the organization, ...
  events,     \* ... and the events the webhook has not handled yet
  missed,     \* history: was an ended "claimed" subscription's event dropped?
  faults

row == <<exists, churned, subId, subStatus>>
stripe == <<sub, meta, events>>
vars == <<row, trialOver, signup, paid, read, stripe, missed, faults>>

OurStatus == {"TRIALING", "RUNNING", "CANCELED"}

(* Mutant of MapStatus: Stripe's status is stored as it is. *)
StatusUnmapped(s) == s

(* mapStatus, and the same computation in the webhook. *)
MapStatus(s) == IF s = "running" THEN "RUNNING" ELSE "CANCELED"

Event(b, s) == [sub |-> b, status |-> s, meta |-> b \in meta']

Init ==
  /\ exists = FALSE
  /\ churned = FALSE
  /\ subId = "none"
  /\ subStatus = "TRIALING"
  /\ trialOver = FALSE
  /\ signup = "form"
  /\ paid \in BOOLEAN
  /\ read = "none"
  /\ sub = [b \in Sub |-> IF b = "claimed" /\ paid THEN "running" ELSE "none"]
  /\ meta = {}
  /\ events = {}
  /\ missed = FALSE
  /\ faults = 0

-----------------------------------------------------------------------------
(* createOrganization *)

(* The session is retrieved, and must not have been claimed already. *)
Submit ==
  /\ signup \in {"form", "failed"}
  /\ IF paid /\ subId = "claimed"
     THEN signup' = "failed" /\ UNCHANGED read
     ELSE signup' = "checked" /\ read' = sub["claimed"]
  /\ UNCHANGED <<row, trialOver, paid, stripe, missed, faults>>

(* auth.api.createOrganization: the slug is taken when the row is there.   *)
CreateRow ==
  /\ signup = "checked"
  /\ IF exists
     THEN signup' = "failed" /\ read' = "none"
     ELSE signup' = "created" /\ UNCHANGED read
  /\ exists' = TRUE
  /\ UNCHANGED <<churned, subId, subStatus, trialOver, paid, stripe, missed, faults>>

(* Mutant of Churns: an end of the subscription leaves the status alone. *)
NeverChurns(s) == FALSE

Churns(s) == MapStatus(s) = "CANCELED"

(* updateSubscriptionFromStripe; nothing takes CHURNED back. *)
UpdateSubscription(b, s) ==
  /\ subId' = b
  /\ subStatus' = MapStatus(s)
  /\ churned' = (churned \/ Churns(s))
  /\ UNCHANGED exists

(* The claim is written, or the intended plan of a free sign-up. *)
WriteClaim ==
  /\ signup = "created"
  /\ IF paid
     THEN signup' = "written" /\ UpdateSubscription("claimed", read)
     ELSE signup' = "backfilled" /\ UNCHANGED row
  /\ read' = "none"
  /\ UNCHANGED <<trialOver, paid, stripe, missed, faults>>

(* subscriptions.update of the metadata, which is an event of its own. *)
Backfill ==
  /\ signup = "written"
  /\ signup' = "backfilled"
  /\ meta' = meta \cup {"claimed"}
  /\ events' = events \cup {Event("claimed", sub["claimed"])}
  /\ UNCHANGED <<row, trialOver, paid, read, sub, missed, faults>>

(* ensureMfaGracePeriod *)
SetGracePeriod ==
  /\ signup = "backfilled"
  /\ signup' = "graced"
  /\ UNCHANGED <<row, trialOver, paid, read, stripe, missed, faults>>

(* The location, the impressum and the audit records.  Each is committed   *)
(* on its own: within db.$transaction the extended client still opens a    *)
(* transaction of its own for every query.                                 *)
WriteDetails(from, to) ==
  /\ signup = from
  /\ signup' = to
  /\ UNCHANGED <<row, trialOver, paid, read, stripe, missed, faults>>

(* A throw is answered with an error; what has been written stays. *)
Fail ==
  /\ signup \in {"checked", "created", "written", "backfilled", "graced", "located", "published"}
  /\ faults < MaxFaults
  /\ faults' = faults + 1
  /\ signup' = "failed"
  /\ read' = "none"
  /\ UNCHANGED <<row, trialOver, paid, stripe, missed>>

-----------------------------------------------------------------------------
(* Stripe, the billing webhook and the owner *)

(* A payment fails or succeeds, the owner cancels, Stripe gives up. *)
ChangeStatus(b, s) ==
  /\ s \in Changes[sub[b]]
  /\ Cardinality(events) < Undelivered
  /\ sub' = [sub EXCEPT ![b] = s]
  /\ UNCHANGED meta
  /\ events' = events \cup {Event(b, s)}
  /\ UNCHANGED <<row, trialOver, signup, paid, read, missed, faults>>

(* The gate of tenantActionClient, and that of staffWriteActionClient. *)
MayEnter == exists /\ ~churned
MayWrite == MayEnter /\ (subId = "none" => ~trialOver)

(* createSubscriptionCheckout, paid: its metadata has the organization. *)
Buy ==
  /\ MayEnter
  /\ Cardinality(events) < Undelivered
  /\ sub["bought"] = "none"
  /\ sub' = [sub EXCEPT !["bought"] = "running"]
  /\ meta' = meta \cup {"bought"}
  /\ events' = events \cup {Event("bought", "running")}
  /\ UNCHANGED <<row, trialOver, signup, paid, read, missed, faults>>

(* The webhook finds the organization by the metadata or by the id of the  *)
(* subscription, and drops an event that it finds none for.                *)
Handle(e) ==
  /\ e \in events
  /\ events' = events \ {e}
  /\ IF e.meta \/ subId = e.sub
     THEN UpdateSubscription(e.sub, e.status) /\ UNCHANGED missed
     ELSE missed' = (missed \/ MapStatus(e.status) = "CANCELED") /\ UNCHANGED row
  /\ UNCHANGED <<trialOver, signup, paid, read, sub, meta, faults>>

TrialEnds ==
  /\ exists
  /\ ~trialOver
  /\ trialOver' = TRUE
  /\ UNCHANGED <<row, signup, paid, read, stripe, missed, faults>>

SignupStep ==
  \/ CreateRow
  \/ WriteClaim
  \/ Backfill
  \/ SetGracePeriod
  \/ WriteDetails("graced", "located")
  \/ WriteDetails("located", "published")
  \/ WriteDetails("published", "done")

Next ==
  \/ Submit
  \/ SignupStep
  \/ Fail
  \/ Buy
  \/ TrialEnds
  \/ \E b \in Sub, s \in StripeStatus : ChangeStatus(b, s)
  \/ \E e \in events : Handle(e)

Spec == Init /\ [][Next]_vars

-----------------------------------------------------------------------------
TypeOK ==
  /\ exists \in BOOLEAN
  /\ churned \in BOOLEAN
  /\ subId \in Sub \cup {"none"}
  /\ subStatus \in OurStatus
  /\ trialOver \in BOOLEAN
  /\ signup \in {"form", "checked", "created", "written", "backfilled", "graced", "located",
                "published", "done", "failed"}
  /\ paid \in BOOLEAN
  /\ read \in StripeStatus
  /\ sub \in [Sub -> StripeStatus]
  /\ meta \in SUBSET Sub
  /\ events \in SUBSET [sub : Sub, status : StripeStatus, meta : BOOLEAN]
  /\ missed \in BOOLEAN
  /\ faults \in 0 .. MaxFaults

(* When every event is handled and no sign-up is under way, an             *)
(* organization whose trial is over may write only with a subscription     *)
(* that runs, in whatever order the events came; the one exception is a    *)
(* claimed subscription whose end was told before the claim was written,   *)
(* and whose metadata was not filled in afterwards; the comment of the     *)
(* webhook denies that case, and EndIsNeverOrphaned is about it.           *)
Overlooked == missed /\ "claimed" \notin meta

NoFreeRide ==
  events = {} /\ signup \in {"done", "failed"} /\ MayWrite /\ trialOver =>
    (\E b \in Sub : sub[b] = "running") \/ Overlooked

(* Refuted: the same without the exception.  No end of a subscription gets *)
(* lost, as the comment of the webhook says, even when the metadata is not *)
(* filled in and the event comes first: the id by which the event should   *)
(* find the organization is written no sooner than the status read before. *)
EndIsNeverOrphaned ==
  events = {} /\ signup \in {"done", "failed"} /\ MayWrite /\ trialOver => \E b \in Sub : sub[b] = "running"
==============================================================================
