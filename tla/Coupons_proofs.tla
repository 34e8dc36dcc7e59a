--------------------------- MODULE Coupons_proofs ---------------------------
(***************************************************************************)
(* Proofs about a coupon, for any number of calls, any limit and any       *)
(* number of lost edits.  A use is due when a call has passed the count or *)
(* will bring a cancelled booking back: what is bounded is the uses there  *)
(* are and those due, together.  A reading call has covered, since it read *)
(* the row, all that the links of the coupon have named.                   *)
(***************************************************************************)
EXTENDS Coupons, FiniteSetTheorems, TLAPS

(* The calls by which the coupon may gain a use.                           *)
Due == {c \in Call : c \in lost \/ (stage[c] \in {"counted", "accepted"} /\ want[c] # "claim")}

UsesBounded ==
  /\ \A c \in lost : stage[c] = "completing"
  /\ live + Cardinality(Due) <= MaxRedemptions + Cardinality(Call) - 1

(* A save that goes on has seen all that others that go on are saving, and *)
(* lets in no more than that as soon as it has written row and links.      *)
Editing == \A c \in Saving :
  /\ \A d \in Saving : Services(goal[d]) \subseteq since[c]
  /\ Services(goal[c]) \subseteq inForce
  /\ scope = "all" => since[c] = Service
  /\ stage[c] = "deleted" => links \subseteq since[c]

(* The row and the links let in no more than what is in force.             *)
InForce ==
  /\ scope = "all" => inForce = Service
  /\ links \subseteq inForce

(* A call that reads has covered what was in force at each of its reads.   *)
Covered == \A c \in Call : stage[c] \in Reading =>
  /\ inForce \subseteq cover[c]
  /\ seen[c] = "all" => cover[c] = Service

IInv == TypeOK /\ UsesBounded /\ Editing /\ InForce /\ Covered /\ AcceptedWasMeant

-----------------------------------------------------------------------------
LEMMA Calls ==
  /\ IsFiniteSet(Call)
  /\ Cardinality(Call) \in Nat \ {0}
  /\ \A S \in SUBSET Call : /\ IsFiniteSet(S)
                            /\ Cardinality(S) \in Nat
                            /\ Cardinality(S) <= Cardinality(Call)
<1>1. IsFiniteSet(Call) /\ Call # {}
  BY CallAssumption
<1>2. Cardinality(Call) \in Nat /\ Cardinality(Call) # 0
  BY <1>1, FS_CardinalityType, FS_EmptySet
<1>3. QED
  BY <1>1, <1>2, FS_Subset, FS_CardinalityType

(* What an editor saves is a scope, and links that are of a selected one. *)
LEMMA GoalShape ==
  /\ NoGoal \in Goals /\ Services(NoGoal) = Service
  /\ \A g \in Goals : /\ g.scope \in Scope
                      /\ g.links \in SUBSET Service
                      /\ g.links \subseteq Services(g)
                      /\ Services(g) \subseteq Service
                      /\ g.scope = "all" => Services(g) = Service
BY DEF Goals, Scope, NoGoal, Services

LEMMA InitIInv == Init => IInv
<1> SUFFICES ASSUME Init PROVE IInv
  OBVIOUS
<1>1. PICK g \in Goals : scope = g.scope /\ links = g.links /\ inForce = Services(g)
  BY DEF Init
<1>2. TypeOK
  <2>1. scope \in Scope /\ links \in SUBSET Service /\ inForce \in SUBSET Service
          /\ goal \in [Call -> Goals] /\ since \in [Call -> SUBSET Service]
    BY <1>1, GoalShape DEF Init
  <2>2. /\ active \in BOOLEAN /\ claimed \in BOOLEAN
        /\ lost \in SUBSET Call /\ cover \in [Call -> SUBSET Service]
    BY DEF Init
  <2>3. live \in Nat /\ faults \in 0 .. MaxFaults
    BY FaultAssumption DEF Init
  <2>4. /\ stage \in [Call -> Stage]
        /\ want \in [Call -> Service \cup {"claim"}]
        /\ seen \in [Call -> Scope]
    BY DEF Init, Stage, Scope
  <2>5. QED
    BY <2>1, <2>2, <2>3, <2>4 DEF TypeOK
<1>3. UsesBounded
  <2>1. Due = {}
    BY DEF Init, Due
  <2>2. Cardinality(Due) = 0
    BY <2>1, FS_EmptySet
  <2>3. live = 0 /\ lost = {}
    BY DEF Init
  <2>4. QED
    BY <2>2, <2>3, Calls, CouponAssumption DEF UsesBounded
<1>4. InForce
  BY <1>1, GoalShape DEF InForce
<1>5. Editing /\ Covered /\ AcceptedWasMeant
  BY DEF Init, Editing, Saving, Covered, Reading, AcceptedWasMeant
<1>6. QED
  BY <1>2, <1>3, <1>4, <1>5 DEF IInv

-----------------------------------------------------------------------------
(* Every step keeps the state well typed. *)
LEMMA TypeStep == TypeOK /\ [Next]_vars => TypeOK'
<1> SUFFICES ASSUME TypeOK, [Next]_vars PROVE TypeOK'
  OBVIOUS
<1> USE FaultAssumption, GoalShape
    DEF TypeOK, couponVars, At, GoOn, Leave, Stage, Scope
<1>1. ASSUME NEW c \in Call, NEW s \in Service \cup {"claim"}, Read(c, s) PROVE TypeOK'
  BY <1>1 DEF Read
<1>2. ASSUME NEW c \in Call, CountRedemptions(c) PROVE TypeOK'
  BY <1>2 DEF CountRedemptions
<1>3. ASSUME NEW c \in Call, FindLink(c) PROVE TypeOK'
  BY <1>3 DEF FindLink
<1>4. ASSUME NEW c \in Call, InsertBooking(c) PROVE TypeOK'
  BY <1>4 DEF InsertBooking
<1>5. ASSUME NEW c \in Call, InsertClaim(c) PROVE TypeOK'
  BY <1>5 DEF InsertClaim
<1>6. ASSUME NEW c \in Call, BeginComplete(c) PROVE TypeOK'
  BY <1>6 DEF BeginComplete
<1>7. ASSUME NEW c \in Call, Complete(c) PROVE TypeOK'
  BY <1>7 DEF Complete
<1>8. ASSUME NEW c \in Call, NEW g \in Goals, UpdateRow(c, g) PROVE TypeOK'
  <2>1. UNION {Services(goal[e]) : e \in Saving} \subseteq Service
    BY DEF Saving
  <2>2. since' \in [Call -> SUBSET Service] /\ cover' \in [Call -> SUBSET Service]
    BY <1>8, <2>1 DEF UpdateRow
  <2>3. QED
    BY <1>8, <2>2 DEF UpdateRow
<1>9. ASSUME NEW c \in Call, DeleteLinks(c) PROVE TypeOK'
  BY <1>9 DEF DeleteLinks, Kept
<1>10. ASSUME NEW c \in Call, CreateLinks(c) PROVE TypeOK'
  BY <1>10 DEF CreateLinks, EndEdit
<1>11. ASSUME NEW c \in Call, LoseEdit(c) PROVE TypeOK'
  BY <1>11 DEF LoseEdit, EndEdit
<1>12. CASE Cancel
  BY <1>12 DEF Cancel, Completing
<1>13. CASE Toggle
  BY <1>13 DEF Toggle
<1>14. CASE UNCHANGED vars
  BY <1>14 DEF vars
<1> HIDE DEF TypeOK
<1>15. QED
  BY <1>1, <1>2, <1>3, <1>4, <1>5, <1>6, <1>7, <1>8, <1>9, <1>10, <1>11, <1>12, <1>13, <1>14
     DEF Next

-----------------------------------------------------------------------------
(* The count admits a call below the limit only; after it, a use that is   *)
(* added was due before.                                                   *)
LEMMA UsesStep == TypeOK /\ UsesBounded /\ [Next]_vars => UsesBounded'
<1> SUFFICES ASSUME TypeOK, UsesBounded, [Next]_vars PROVE UsesBounded'
  OBVIOUS
<1>a. /\ live \in Nat
      /\ MaxRedemptions \in Nat \ {0}
      /\ lost \in SUBSET Call
      /\ stage \in [Call -> Stage]
      /\ want \in [Call -> Service \cup {"claim"}]
  BY CouponAssumption DEF TypeOK
<1>b. /\ Due \in SUBSET Call
      /\ IsFiniteSet(Due)
      /\ Cardinality(Due) \in Nat
      /\ live + Cardinality(Due) <= MaxRedemptions + Cardinality(Call) - 1
  <2>1. Due \in SUBSET Call
    BY DEF Due
  <2>2. QED
    BY <2>1, Calls DEF UsesBounded
<1>c. /\ IsFiniteSet(Due')
      /\ Cardinality(Due') \in Nat
      /\ Cardinality(Due') <= Cardinality(Call)
  <2>1. Due' \in SUBSET Call
    BY DEF Due
  <2>2. QED
    BY <2>1, Calls
<1>d. \A c \in lost : stage[c] = "completing"
  BY DEF UsesBounded
<1> DEFINE LostAreCompleting == \A c \in lost' : stage'[c] = "completing"
           Bounded == live' + Cardinality(Due') <= MaxRedemptions + Cardinality(Call) - 1
<1>0. LostAreCompleting /\ Bounded => UsesBounded'
  BY DEF UsesBounded
(* No new use, and none due that was not.                                  *)
<1>1. ASSUME Due' \subseteq Due, live' = live PROVE Bounded
  <2>1. Cardinality(Due') <= Cardinality(Due)
    BY <1>1, <1>b, FS_Subset
  <2>2. QED
    BY <2>1, <1>1, <1>a, <1>b, <1>c, Calls
(* A use that was due comes.                                               *)
<1>2. ASSUME NEW c \in Due, Due' = Due \ {c}, live' \in {live, live + 1} PROVE Bounded
  <2>1. Cardinality(Due') = Cardinality(Due) - 1
    BY <1>2, <1>b, FS_RemoveElement
  <2>2. QED
    BY <2>1, <1>2, <1>a, <1>b, Calls
<1>3. ASSUME NEW c \in Call, CountRedemptions(c) PROVE UsesBounded'
  <2>1. LostAreCompleting
    BY <1>3, <1>a, <1>d DEF CountRedemptions, At, GoOn, Leave
  <2>2. CASE Exhausted
    <3>1. Due' \subseteq Due /\ live' = live
      BY <1>3, <2>2, <1>a DEF CountRedemptions, At, Leave, Due
    <3>2. QED
      BY <3>1, <1>1, <2>1, <1>0
  <2>3. CASE ~Exhausted
    <3>1. live' = live /\ live <= MaxRedemptions - 1
      BY <1>3, <2>3, <1>a DEF CountRedemptions, Exhausted
    <3>2. Bounded
      BY <3>1, <1>a, <1>c, Calls
    <3>3. QED
      BY <3>2, <2>1, <1>0
  <2>4. QED
    BY <2>2, <2>3
<1>4. ASSUME NEW c \in Call, InsertBooking(c) PROVE UsesBounded'
  <2>1. LostAreCompleting
    BY <1>4, <1>a, <1>d DEF InsertBooking, At, Leave
  <2>2. c \in Due /\ Due' = Due \ {c}
    BY <1>4, <1>a, <1>d DEF InsertBooking, At, Leave, Due
  <2>3. QED
    BY <2>1, <2>2, <1>2, <1>4, <1>0 DEF InsertBooking
<1>5. ASSUME NEW c \in Call, Complete(c) PROVE UsesBounded'
  <2>1. LostAreCompleting
    BY <1>5, <1>a, <1>d DEF Complete, At
  <2>2. CASE c \in lost
    <3>1. c \in Due /\ Due' = Due \ {c} /\ live' = live + 1
      BY <1>5, <2>2, <1>a, <1>d DEF Complete, At, Due
    <3>2. QED
      BY <3>1, <2>1, <1>2, <1>0
  <2>3. CASE c \notin lost
    <3>1. Due' \subseteq Due /\ live' = live
      BY <1>5, <2>3, <1>a DEF Complete, At, Due
    <3>2. QED
      BY <3>1, <2>1, <1>1, <1>0
  <2>4. QED
    BY <2>2, <2>3
<1>6. ASSUME Cancel PROVE UsesBounded'
  <2>1. live' = live - 1 /\ live > 0 /\ UNCHANGED <<stage, want>>
    BY <1>6 DEF Cancel
  <2>2. CASE lost' = lost
    <3>1. Due' = Due
      BY <2>1, <2>2 DEF Due
    <3>2. LostAreCompleting /\ Bounded
      BY <3>1, <2>1, <2>2, <1>a, <1>b, <1>d, Calls
    <3>3. QED
      BY <3>2, <1>0
  <2>3. ASSUME NEW c \in Completing \ lost, lost' = lost \cup {c} PROVE UsesBounded'
    <3>1. c \in Call /\ stage[c] = "completing" /\ Due' = Due \cup {c} /\ c \notin Due
      BY <2>1, <2>3, <1>a DEF Completing, Due
    <3>2. Cardinality(Due') = Cardinality(Due) + 1
      BY <3>1, <1>b, FS_AddElement
    <3>3. LostAreCompleting /\ Bounded
      BY <3>1, <3>2, <2>1, <2>3, <1>a, <1>b, <1>d, Calls
    <3>4. QED
      BY <3>3, <1>0
  <2>4. QED
    BY <2>2, <2>3, <1>6 DEF Cancel
<1>7. ASSUME NEW c \in Call, stage[c] \notin {"completing", "accepted"},
             stage' = [stage EXCEPT ![c] = stage'[c]],
             stage'[c] = "counted" => stage[c] = "counted",
             stage'[c] # "accepted",
             \A d \in Call : want'[d] # want[d] => d = c /\ stage'[c] \in {"row", "idle"},
             live' = live, lost' = lost
      PROVE  UsesBounded'
  <2>1. LostAreCompleting
    BY <1>7, <1>a, <1>d
  <2>2. Due' \subseteq Due
    BY <1>7, <1>a, <1>d DEF Due
  <2>3. QED
    BY <2>1, <2>2, <1>1, <1>7, <1>0
<1>8. ASSUME NEW c \in Call, FindLink(c) PROVE UsesBounded'
  <2>1. LostAreCompleting
    BY <1>8, <1>a, <1>d DEF FindLink, At, GoOn, Leave
  <2>2. Due' \subseteq Due /\ live' = live
    BY <1>8, <1>a, <1>d DEF FindLink, At, GoOn, Leave, Due
  <2>3. QED
    BY <2>1, <2>2, <1>1, <1>0
<1>9. ASSUME NEW c \in Call, InsertClaim(c) PROVE UsesBounded'
  <2>1. LostAreCompleting
    BY <1>9, <1>a, <1>d DEF InsertClaim, At, Leave
  <2>2. Due' \subseteq Due /\ live' = live
    BY <1>9, <1>a, <1>d DEF InsertClaim, At, Leave, Due
  <2>3. QED
    BY <2>1, <2>2, <1>1, <1>0
<1>10. ASSUME NEW c \in Call, NEW s \in Service \cup {"claim"}, Read(c, s) PROVE UsesBounded'
  BY <1>10, <1>7, <1>a DEF Read, At
<1>11. ASSUME NEW c \in Call, BeginComplete(c) PROVE UsesBounded'
  BY <1>11, <1>7, <1>a DEF BeginComplete, At
<1>12. ASSUME NEW c \in Call, NEW g \in Goals, UpdateRow(c, g) PROVE UsesBounded'
  BY <1>12, <1>7, <1>a DEF UpdateRow, At
<1>13. ASSUME NEW c \in Call, DeleteLinks(c) \/ CreateLinks(c) \/ LoseEdit(c) PROVE UsesBounded'
  BY <1>13, <1>7, <1>a DEF DeleteLinks, CreateLinks, LoseEdit, EndEdit, At
<1>14. ASSUME UNCHANGED <<live, lost, stage, want>> PROVE UsesBounded'
  BY <1>14 DEF UsesBounded, Due
<1>15. QED
  BY <1>3, <1>4, <1>5, <1>6, <1>8, <1>9, <1>10, <1>11, <1>12, <1>13, <1>14
     DEF Next, Toggle, vars

-----------------------------------------------------------------------------
(* While saves are half done the services of all of them are in force; the *)
(* calls that read meanwhile have covered them.                            *)
LEMMA CoverStep == TypeOK /\ Editing /\ InForce /\ Covered /\ AcceptedWasMeant /\ [Next]_vars
                     => Editing' /\ InForce' /\ Covered' /\ AcceptedWasMeant'
<1> DEFINE Inv == Editing /\ InForce /\ Covered /\ AcceptedWasMeant
<1> SUFFICES ASSUME TypeOK, Inv, [Next]_vars PROVE Inv'
  OBVIOUS
<1>a. /\ scope \in Scope
      /\ links \in SUBSET Service
      /\ stage \in [Call -> Stage]
      /\ want \in [Call -> Service \cup {"claim"}]
      /\ seen \in [Call -> Scope]
      /\ goal \in [Call -> Goals]
      /\ since \in [Call -> SUBSET Service]
      /\ inForce \in SUBSET Service
      /\ cover \in [Call -> SUBSET Service]
  BY DEF TypeOK
<1> USE <1>a DEF Editing, Saving, InForce, Covered, AcceptedWasMeant, Reading, At, Scope
(* A step of a call that touches neither the coupon nor what it covers.    *)
<1>1. ASSUME NEW c \in Call, UNCHANGED <<scope, links, goal, since, inForce, seen, want, cover>>,
             stage[c] \notin Reading, stage'[c] \notin Reading,
             stage'[c] \in {"updated", "deleted"} => stage'[c] = stage[c],
             \A d \in Call \ {c} : stage'[d] = stage[d]
      PROVE  Inv'
  BY <1>1
<1>2. ASSUME NEW c \in Call, stage[c] \in Reading, Leave(c), UNCHANGED couponVars PROVE Inv'
  BY <1>2 DEF Leave, couponVars
<1>3. ASSUME NEW c \in Call, NEW s \in Service \cup {"claim"}, Read(c, s) PROVE Inv'
  BY <1>3 DEF Read, couponVars
<1>4. ASSUME NEW c \in Call, CountRedemptions(c) PROVE Inv'
  <2>1. CASE Exhausted
    BY <1>4, <2>1, <1>2 DEF CountRedemptions
  <2>2. CASE ~Exhausted
    <3>1. want[c] \in Service /\ seen[c] = "all" => want[c] \in cover[c]
      BY <1>4 DEF CountRedemptions
    <3>2. QED
      BY <3>1, <1>4, <2>2 DEF CountRedemptions, GoOn, couponVars
  <2>3. QED
    BY <2>1, <2>2
<1>5. ASSUME NEW c \in Call, FindLink(c) PROVE Inv'
  <2>1. CASE want[c] \in links
    BY <1>5, <2>1 DEF FindLink, GoOn, couponVars
  <2>2. CASE want[c] \notin links
    BY <1>5, <2>2, <1>2 DEF FindLink
  <2>3. QED
    BY <2>1, <2>2
<1>6. ASSUME NEW c \in Call, InsertBooking(c) \/ InsertClaim(c) PROVE Inv'
  BY <1>6, <1>2 DEF InsertBooking, InsertClaim
<1>7. ASSUME NEW c \in Call, BeginComplete(c) \/ Complete(c) PROVE Inv'
  BY <1>7, <1>1 DEF BeginComplete, Complete, couponVars
<1>8. ASSUME NEW c \in Call, NEW g \in Goals, UpdateRow(c, g) PROVE Inv'
  <2>1. Saving' = Saving \cup {c} /\ c \notin Saving
    BY <1>8 DEF UpdateRow
  <2>2. /\ scope' = g.scope /\ links' = links /\ seen' = seen /\ want' = want
        /\ goal' = [goal EXCEPT ![c] = g]
        /\ inForce' = inForce \cup Services(g)
    BY <1>8 DEF UpdateRow
  <2>3. /\ since'[c] = Services(g) \cup UNION {Services(goal[e]) : e \in Saving}
        /\ \A d \in Saving : since'[d] = since[d] \cup Services(g)
    BY <1>8, <2>1 DEF UpdateRow
  <2>4. \A d \in Saving : Services(goal[d]) \subseteq since'[c]
    BY <2>3
  <2>5. \A d \in Saving' : /\ Services(goal'[d]) \subseteq inForce'
                           /\ \A e \in Saving' : Services(goal'[e]) \subseteq since'[d]
    BY <2>1, <2>2, <2>3, <2>4
  <2>6. \A d \in Saving' : since'[d] \subseteq Service
    BY <1>8, GoalShape, <2>1, <2>3
  <2>7. \A d \in Saving' : scope' = "all" => since'[d] = Service
    <3>1. \A d \in Saving' : Services(g) \subseteq since'[d]
      BY <2>1, <2>3
    <3>2. scope' = "all" => Services(g) = Service
      BY <2>2, GoalShape
    <3>3. QED
      BY <2>6, <3>1, <3>2
  <2>8. \A d \in Saving' : stage'[d] = "deleted" => d \in Saving /\ stage[d] = "deleted"
    BY <1>8 DEF UpdateRow
  <2>9. Editing'
    BY <2>2, <2>3, <2>5, <2>7, <2>8
  <2>10. InForce'
    BY <2>2, GoalShape
  <2>11. Covered' /\ AcceptedWasMeant'
    BY <1>8, GoalShape DEF UpdateRow
  <2>12. QED
    BY <2>9, <2>10, <2>11
<1>9. ASSUME NEW c \in Call, DeleteLinks(c) PROVE Inv'
  BY <1>9 DEF DeleteLinks, Kept
<1>10. ASSUME NEW c \in Call, c \in Saving, EndEdit(c), links' \subseteq inForce', inForce' \subseteq inForce,
              \A d \in Saving \ {c} : Services(goal[d]) \subseteq inForce' /\ links' \subseteq links \cup Services(goal[c]),
              scope = "all" => inForce' = Service
       PROVE  Inv'
  <2>1. Saving' = Saving \ {c} /\ UNCHANGED <<scope, want, seen, cover>>
    BY <1>10 DEF EndEdit
  <2>2. \A d \in Saving' : goal'[d] = goal[d] /\ since'[d] = since[d] /\ stage'[d] = stage[d]
    BY <1>10 DEF EndEdit
  <2>3. \A d \in Saving' : stage'[d] = "deleted" => links' \subseteq since'[d]
    BY <1>10, <2>1, <2>2
  <2>4. Editing'
    BY <1>10, <2>1, <2>2, <2>3
  <2>5. \A d \in Call : stage'[d] \in Reading => stage[d] = stage'[d]
    BY <1>10 DEF EndEdit
  <2>6. InForce' /\ Covered' /\ AcceptedWasMeant'
    BY <1>10, <2>1, <2>5
  <2>7. QED
    BY <2>4, <2>6
<1>11. ASSUME NEW c \in Call, CreateLinks(c) \/ LoseEdit(c) PROVE Inv'
  <2>1. c \in Saving /\ EndEdit(c)
    BY <1>11 DEF CreateLinks, LoseEdit
  <2>2. goal[c].links \subseteq Services(goal[c])
    BY GoalShape
  <2>3. CASE LoseEdit(c)
    BY <1>10, <2>1, <2>3 DEF LoseEdit
  <2>4. CASE CreateLinks(c)
    <3>1. links' \subseteq links \cup Services(goal[c]) /\ inForce' = inForce \cap since[c] /\ links \subseteq since[c]
      BY <2>2, <2>4 DEF CreateLinks
    <3>2. links' \subseteq inForce'
      BY <2>1, <3>1
    <3>3. \A d \in Saving \ {c} : Services(goal[d]) \subseteq inForce'
      BY <2>1, <3>1
    <3>4. scope = "all" => inForce' = Service
      BY <2>1, <3>1
    <3>5. QED
      BY <1>10, <2>1, <3>1, <3>2, <3>3, <3>4
  <2>5. QED
    BY <1>11, <2>3, <2>4
<1>12. ASSUME UNCHANGED <<scope, links, goal, since, inForce, stage, want, seen, cover>> PROVE Inv'
  BY <1>12
<1> HIDE DEF Inv
<1>13. QED
  BY <1>3, <1>4, <1>5, <1>6, <1>7, <1>8, <1>9, <1>11, <1>12
     DEF Next, Cancel, Toggle, vars, couponVars

LEMMA StepIInv == IInv /\ [Next]_vars => IInv'
BY TypeStep, UsesStep, CoverStep DEF IInv

LEMMA IInvBounds == IInv => RedemptionsBounded
<1> SUFFICES ASSUME IInv PROVE RedemptionsBounded
  OBVIOUS
<1>1. live + Cardinality(Due) <= MaxRedemptions + Cardinality(Call) - 1
  BY DEF IInv, UsesBounded
<1>2. Cardinality(Due) \in Nat
  BY Calls DEF Due
<1>3. QED
  BY <1>1, <1>2, Calls, CouponAssumption DEF IInv, TypeOK, RedemptionsBounded

-----------------------------------------------------------------------------
(* However bookings, closings and cancellations interleave, the uses of a  *)
(* coupon pass its limit by less than the number of calls at a time.       *)
THEOREM UsesAreBounded == Spec => []RedemptionsBounded
BY InitIInv, StepIInv, IInvBounds, PTL DEF Spec

(* No booking is accepted for a service that no save names which had a say *)
(* in the coupon since its row was read: however the statements of editors *)
(* mix, nothing saved before a save that has ended comes back.             *)
THEOREM AcceptedAsSaved == Spec => []AcceptedWasMeant
<1>1. IInv => AcceptedWasMeant
  BY DEF IInv
<1>2. QED
  BY <1>1, InitIInv, StepIInv, PTL DEF Spec
=============================================================================
