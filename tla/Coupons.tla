------------------------------- MODULE Coupons -------------------------------
(***************************************************************************)
(* One coupon: bookings and claims that validate it in steps (row, count,  *)
(* link, insert), cancellations that give a use back, closing operations   *)
(* that write over a cancellation they have not seen, and its replacement  *)
(* by editors, row first and links afterwards, who may come between one    *)
(* another's statements.  Validity dates are part of the switch `active'.  *)
(***************************************************************************)
EXTENDS Limits

Service == {"cut", "shave"}

VARIABLES
  active,   \* coupon.isActive, within its dates
  scope,    \* coupon.scope: "all" or "selected" services
  links,    \* the couponService rows
  live,     \* the bookings with this coupon that are not cancelled
  stage,    \* of each call, the step it has come to
  want,     \* ... the service to book, or "claim", its value at rest
  seen,     \* ... the scope it has read
  lost,     \* completing calls whose booking was cancelled after their read
  claimed,  \* has the customer who claims it a customerCoupon row?
  goal,     \* ... the scope and links it is saving
  since,    \* history: ... the services of the saves under way since its own began
  inForce,  \* history: the services of the saves that may have a say in the coupon
  cover,    \* history: of each call, those in force at some time since its read
  faults

couponVars == <<active, scope, links, goal, since, inForce>>
vars == <<couponVars, live, stage, want, seen, lost, claimed, cover, faults>>

Scope == {"all", "selected"}
Stage == {"idle", "row", "counted", "accepted", "completing", "updated", "deleted"}

Reading == {"row", "counted", "accepted"}
Saving  == {c \in Call : stage[c] \in {"updated", "deleted"}}

Goals == [scope : {"selected"}, links : SUBSET Service] \cup [scope : {"all"}, links : {{}}]

Services(g) == IF g.scope = "all" THEN Service ELSE g.links

NoGoal == [scope |-> "all", links |-> {}]

Init ==
  /\ active = TRUE
  /\ \E g \in Goals : scope = g.scope /\ links = g.links /\ inForce = Services(g)
  /\ live = 0
  /\ stage = [c \in Call |-> "idle"]
  /\ want = [c \in Call |-> "claim"]
  /\ seen = [c \in Call |-> "all"]
  /\ lost = {}
  /\ claimed = FALSE
  /\ goal = [c \in Call |-> NoGoal]
  /\ since = [c \in Call |-> {}]
  /\ cover = [c \in Call |-> {}]
  /\ faults = 0

At(c, s) == stage' = [stage EXCEPT ![c] = s]

(* The call ends, and forgets what it has read. *)
Leave(c) ==
  /\ At(c, "idle")
  /\ want' = [want EXCEPT ![c] = "claim"]
  /\ seen' = [seen EXCEPT ![c] = "all"]
  /\ cover' = [cover EXCEPT ![c] = {}]

GoOn(c, s) == At(c, s) /\ UNCHANGED <<want, seen, cover>>

(* getCouponByCode, for a booking of a service or for a claim. *)
Read(c, s) ==
  /\ stage[c] = "idle"
  /\ active
  /\ At(c, "row")
  /\ want' = [want EXCEPT ![c] = s]
  /\ seen' = [seen EXCEPT ![c] = scope]
  /\ cover' = [cover EXCEPT ![c] = inForce]
  /\ UNCHANGED <<couponVars, live, lost, claimed, faults>>

(* Mutant of Exhausted: one use more. *)
Overdrawn == live > MaxRedemptions

(* countRedemptions: the bookings that are not cancelled. *)
Exhausted == live >= MaxRedemptions

(* validateCoupon and claimCoupon count; only a selected scope looks on. *)
CountRedemptions(c) ==
  /\ stage[c] = "row"
  /\ IF Exhausted
     THEN Leave(c)
     ELSE GoOn(c, IF want[c] # "claim" /\ seen[c] = "selected" THEN "counted" ELSE "accepted")
  /\ UNCHANGED <<couponVars, live, lost, claimed, faults>>

(* The link of the service, or wrong_service. *)
FindLink(c) ==
  /\ stage[c] = "counted"
  /\ IF want[c] \in links THEN GoOn(c, "accepted") ELSE Leave(c)
  /\ UNCHANGED <<couponVars, live, lost, claimed, faults>>

(* The insert of the booking, unless its slot is taken. *)
InsertBooking(c) ==
  /\ stage[c] = "accepted" /\ want[c] # "claim"
  /\ Leave(c)
  /\ live' \in {live, live + 1}
  /\ UNCHANGED <<couponVars, lost, claimed, faults>>

(* customerCoupon.create: a second claim meets the key, already_claimed. *)
InsertClaim(c) ==
  /\ stage[c] = "accepted" /\ want[c] = "claim"
  /\ Leave(c)
  /\ claimed' = TRUE
  /\ UNCHANGED <<couponVars, live, lost, faults>>

Completing == {c \in Call : stage[c] = "completing"}

(* completeBooking or markNoShow has read a booking that is not cancelled. *)
BeginComplete(c) ==
  /\ stage[c] = "idle"
  /\ Cardinality(Completing \ lost) < live
  /\ At(c, "completing")
  /\ UNCHANGED <<couponVars, live, want, seen, lost, claimed, cover, faults>>

(* A cancellation, or an expired hold, of a booking that nobody is closing *)
(* or of one that a call is closing.                                       *)
Cancel ==
  /\ live > 0
  /\ live' = live - 1
  /\ \/ Cardinality(Completing \ lost) < live /\ UNCHANGED lost
     \/ \E c \in Completing \ lost : lost' = lost \cup {c}
  /\ UNCHANGED <<couponVars, stage, want, seen, claimed, cover, faults>>

(* The update by id: a cancelled booking counts again. *)
Complete(c) ==
  /\ stage[c] = "completing"
  /\ At(c, "idle")
  /\ live' = IF c \in lost THEN live + 1 ELSE live
  /\ lost' = lost \ {c}
  /\ UNCHANGED <<couponVars, want, seen, claimed, cover, faults>>

(* updateCoupon: the row.  The form sends no links with ALL_SERVICES.      *)
(* Nothing keeps a second editor out while this one goes on.               *)
UpdateRow(c, g) ==
  /\ stage[c] = "idle"
  /\ At(c, "updated")
  /\ scope' = g.scope
  /\ goal' = [goal EXCEPT ![c] = g]
  /\ since' = [d \in Call |->
                 IF d = c THEN Services(g) \cup UNION {Services(goal[e]) : e \in Saving}
                 ELSE IF d \in Saving THEN since[d] \cup Services(g) ELSE {}]
  /\ inForce' = inForce \cup Services(g)
  /\ cover' = [d \in Call |-> IF stage[d] \in Reading THEN cover[d] \cup Services(g) ELSE {}]
  /\ UNCHANGED <<active, links, live, want, seen, lost, claimed, faults>>

(* Mutant of Kept: the links that are not chosen again stay. *)
KeptAll == links

Kept == {}

(* couponService.deleteMany ... *)
DeleteLinks(c) ==
  /\ stage[c] = "updated"
  /\ At(c, "deleted")
  /\ links' = Kept
  /\ UNCHANGED <<active, scope, goal, since, inForce, live, want, seen, lost, claimed, cover, faults>>

(* The call of an editor ends, with its last statement or on the way.      *)
EndEdit(c) ==
  /\ At(c, "idle")
  /\ goal' = [goal EXCEPT ![c] = NoGoal]
  /\ since' = [since EXCEPT ![c] = {}]
  /\ UNCHANGED <<active, scope, live, want, seen, lost, claimed, cover>>

(* ... and createMany, which the key of a link that another editor has     *)
(* just created makes fail as a whole.  Either way nothing is left of what *)
(* was saved before this save began.                                       *)
CreateLinks(c) ==
  /\ stage[c] = "deleted"
  /\ EndEdit(c)
  /\ links' = IF goal[c].links \cap links = {} THEN links \cup goal[c].links ELSE links
  /\ inForce' = inForce \cap since[c]
  /\ UNCHANGED faults

(* The editor's call is lost between two of its statements. *)
LoseEdit(c) ==
  /\ stage[c] \in {"updated", "deleted"}
  /\ faults < MaxFaults
  /\ faults' = faults + 1
  /\ EndEdit(c)
  /\ UNCHANGED <<links, inForce>>

(* updateCoupon with isActive alone: the switch of the coupon list. *)
Toggle ==
  /\ active' = ~active
  /\ UNCHANGED <<scope, links, goal, since, inForce, live, stage, want, seen, lost, claimed, cover, faults>>

Next ==
  \/ Cancel
  \/ Toggle
  \/ \E c \in Call :
       \/ \E s \in Service \cup {"claim"} : Read(c, s)
       \/ CountRedemptions(c)
       \/ FindLink(c)
       \/ InsertBooking(c)
       \/ InsertClaim(c)
       \/ BeginComplete(c)
       \/ Complete(c)
       \/ \E g \in Goals : UpdateRow(c, g)
       \/ DeleteLinks(c)
       \/ CreateLinks(c)
       \/ LoseEdit(c)

Spec == Init /\ [][Next]_vars

-----------------------------------------------------------------------------
TypeOK ==
  /\ active \in BOOLEAN
  /\ scope \in Scope
  /\ links \in SUBSET Service
  /\ live \in Nat
  /\ stage \in [Call -> Stage]
  /\ want \in [Call -> Service \cup {"claim"}]
  /\ seen \in [Call -> Scope]
  /\ lost \in SUBSET Call
  /\ claimed \in BOOLEAN
  /\ goal \in [Call -> Goals]
  /\ since \in [Call -> SUBSET Service]
  /\ inForce \in SUBSET Service
  /\ cover \in [Call -> SUBSET Service]
  /\ faults \in 0 .. MaxFaults

(* Bookings that count the uses at the same time, and closing operations   *)
(* that bring a cancelled one back, pass the limit of the coupon by no     *)
(* more than the number of calls, less one.                                *)
RedemptionsBounded == live <= MaxRedemptions + Cardinality(Call) - 1

(* A service is accepted only if a save that had a say in the coupon since *)
(* its row was read names it.  Saves that overlap, and one that is lost    *)
(* half way, may leave the row of the one with the links of the other, but *)
(* what was saved before a save that has ended began has no say any more,  *)
(* and links deleted and not yet created do not admit all services.        *)
AcceptedWasMeant ==
  \A c \in Call : stage[c] = "accepted" /\ want[c] # "claim" => want[c] \in cover[c]
==============================================================================
