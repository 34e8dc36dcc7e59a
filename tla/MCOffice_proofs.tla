--------------------------- MODULE MCOffice_proofs ---------------------------
(***************************************************************************)
(* Proofs about the office.  Of its parts, the coupons and the customers   *)
(* have modules of proofs, where each is a component of its own: here they *)
(* are shown to be the parts that the office runs, and their invariants    *)
(* those of the office.  The screens are proved in Screens_proofs.  The    *)
(* staff, the directory, the organization, the slots, the tenant scope,    *)
(* the money and the settings' controls are proved in place.               *)
(***************************************************************************)
EXTENDS Screens_proofs, FiniteSetTheorems, TLAPS

CouponP == INSTANCE Coupons_proofs
CustP   == INSTANCE Customers_proofs

-----------------------------------------------------------------------------
(* The calls that have counted are rows that may still come.              *)
Hirers(r) == {c \in Call : hiring[c] = r}

(* The rows there are and the rows to come. *)
WithinPlanToCome == \A r \in Plan!Resource :
  count[r] + Cardinality(Hirers(r)) <= PlanLimit + Cardinality(Call) - 1

(* The saves that may still create rows are the last one and its rivals.   *)
SaversAreRivals == \A c \in Call, t \in Plan!RowSet : save[c] = t => c \in {last[t]} \cup rivals[t]

StaffInv == Plan!TypeOK /\ WithinPlanToCome /\ SaversAreRivals /\ Plan!RowsOfLastSave

(* What the owner chose is in the row, and guarded.                        *)
DirInv == choice # "none" => byOwner /\ listed = (choice = "listed")

(* The news that a subscription does not run any more is on its way, and   *)
(* will find the organization, or it has come, or it was overlooked.       *)
EndIsTold(b) ==
  \/ churned
  \/ \E e \in events : e.sub = b /\ e.status \in {"unpaid", "canceled"} /\ (b \in meta => e.meta)
  \/ b = "claimed" /\ b \notin meta /\ missed

SubsInv ==
  /\ sub \in [Org!Sub -> Org!StripeStatus]
  /\ subId # "none" => subId \in Org!Sub /\ sub[subId] # "none"
  /\ signup = "written" => paid
  /\ paid => sub["claimed"] # "none"
  /\ sub["bought"] # "none" => "bought" \in meta
  /\ \A e \in events : e.sub \in Org!Sub /\ sub[e.sub] # "none"
  /\ \A b \in Org!Sub : sub[b] \in {"unpaid", "canceled"} => EndIsTold(b)

(* The shifts the loop is to walk through.                                 *)
Asked == {s \in hours[query.date] : s.by \in query.staff}

(* What the loop works on has its type.                                    *)
SlotsType ==
  /\ hours \in [Slots!Day -> SUBSET Slots!Shift]
  /\ busy \in SUBSET Slots!Interval
  /\ earliest \in Int /\ latest \in Int /\ cursor \in Int
  /\ query.date \in Slots!Day /\ query.staff \in SUBSET Barber

(* On its way, the loop has found slots of the reference only, and of them *)
(* all but those of shifts to come and of the shift at the cursor.         *)
WalkInv ==
  /\ loaded = Slots!BusyOn(query.date)
  /\ todo \subseteq Asked
  /\ offer \subseteq Slots!Offered(query.date, query.staff)
  /\ \A free \in Slots!Offered(query.date, query.staff) : \A s \in Asked :
       s.by = free[2] /\ Slots!Start(query.date, s, free[1])
         => free \in offer \/ s \in todo \/ (s = shift /\ free[1] >= cursor)

(* The cursor is on the grid of its shift.                                 *)
SlotsInv ==
  /\ SlotsType
  /\ shift # Slots!NoShift =>
       /\ phase = "walking"
       /\ shift \in Asked
       /\ \E n \in Nat : cursor = Slots!DayStart(query.date) + shift.from + n * Granularity
  /\ phase = "walking" => WalkInv
  /\ Slots!OfferIsExact

(* A connection has the parameters of the context it is used in, and none  *)
(* when it is idle or not yet configured.                                  *)
ScopeInv ==
  /\ contexts \in [Call -> Seq(Scope!Context)]
  /\ \A k \in Scope!Conn :
       /\ conn[k] \in [context : Scope!Context \cup {"none"}, ready : BOOLEAN, settings : Scope!Settings]
       /\ conn[k].ready => conn[k].context # "none"
       /\ ~conn[k].ready => conn[k].settings = Scope!Unset
       /\ conn[k].ready /\ conn[k].context # "platform" =>
            conn[k].settings = [tenant |-> conn[k].context, bypass |-> FALSE]
  /\ DOMAIN conn = Scope!Conn
  /\ Scope!TenantIsolation

(* The booking is within its price and as it was agreed; what is shown     *)
(* before is what is in the database, unless that was edited.              *)
MoneyInv ==
  /\ Money!TypeOK
  /\ Money!WithinPrice
  /\ Money!ChargedAsShown
  /\ account = Money!Unbooked => shownStatus = "none" /\ collected = 0 /\ overwritten = FALSE
  /\ ~preview.coupon => preview.discount = 0
  /\ account = Money!Unbooked /\ ~moved =>
       /\ preview.coupon => preview.discount = Money!Discount(voucher, preview.price)
       /\ inHand = Money!Unread => price = preview.price
       /\ inHand # Money!Unread => inHand.price = preview.price /\ agreed = Money!Shown

(* Calls of the settings' controls. *)
Job == [control : Panel!Control, value : Panel!Value, from : {"own", "left"}]

(* The last call that its control awaits *)
LastOf(i) == \A j \in 1 .. Len(jobs) : j > i => jobs[j].control # jobs[i].control \/ jobs[j].from = "left"

(* The queue has its type, as the controls have.                           *)
PanelType ==
  /\ Panel!TypeOK
  /\ jobs \in Seq(Job)

(* What a control shows is what it called last; but for the cover it       *)
(* awaits one call only, and can take it back: the switch to the other     *)
(* value, the status to that of the page, which is the one stored.  The    *)
(* calls of controls that have been left are counted as exceptions.        *)
PanelInv ==
  /\ PanelType
  /\ \A i, j \in 1 .. Len(jobs) :
       jobs[i].from = "own" /\ jobs[j].from = "own" /\ jobs[i].control = jobs[j].control => i = j \/ jobs[i].control = "cover"
  /\ \A i \in 1 .. Len(jobs) : jobs[i].from = "own" /\ LastOf(i) => jobs[i].value = chosen[jobs[i].control]
  /\ \A i \in 1 .. Len(jobs) : jobs[i].from = "left" => jobs[i].control \in astray
  /\ "left" \in uploads => "cover" \in astray
  /\ Panel!Pending("listed") => "listed" \in elsewhere \cup astray \/ chosen["listed"] = 1 - stored["listed"]
  /\ \A k \in Panel!Control : k \in elsewhere \/ prop[k] = stored[k]
  /\ Panel!ShownIsStored

(* The invariant of the part that runs.                                    *)
IInv ==
  /\ part = "plan" => StaffInv
  /\ part = "coupon" => CouponP!IInv
  /\ part = "cust" => CustP!IInv
  /\ part = "dir" => DirInv /\ Dir!TypeOK
  /\ part = "org" => SubsInv /\ Org!TypeOK
  /\ part = "slots" => SlotsInv /\ Slots!TypeOK
  /\ part = "scope" => ScopeInv /\ Scope!TypeOK
  /\ part = "money" => MoneyInv
  /\ part = "panel" => PanelInv
  /\ part = "wizard" => WizardInv
  /\ part = "sheet" => SheetInv
  /\ part = "detail" => DetailInv
  /\ part = "signing" => SigningInv
  /\ part = "edit" => EditInv
  /\ part = "front" => FrontInv
  /\ part = "visit" => VisitInv
  /\ part = "gate" => GateInv

-----------------------------------------------------------------------------
(* A finite set is one wherever the definition is taken from. *)
LEMMA CouponFinite == IsFiniteSet(Call) <=> CouponP!IsFiniteSet(Call)
BY DEF IsFiniteSet, CouponP!IsFiniteSet

LEMMA CustFinite == IsFiniteSet(Call) <=> CustP!IsFiniteSet(Call)
BY DEF IsFiniteSet, CustP!IsFiniteSet

(* The coupon of the office is the coupon of the proofs. *)
LEMMA CouponBridge ==
  /\ Coupon!Init => CouponP!IInv
  /\ CouponP!IInv /\ Coupon!Next => CouponP!IInv'
  /\ CouponP!IInv => Coupon!RedemptionsBounded /\ Coupon!AcceptedWasMeant
<1>0. \A S : Coupon!Cardinality(S) = CouponP!Cardinality(S)
  BY DEF Coupon!Cardinality, CouponP!Cardinality
<1> USE DEF Coupon!Service, CouponP!Service, Coupon!NoGoal, CouponP!NoGoal,
            Coupon!Goals, CouponP!Goals, Coupon!Services, CouponP!Services,
            Coupon!At, CouponP!At, Coupon!Leave, CouponP!Leave, Coupon!GoOn, CouponP!GoOn,
            Coupon!couponVars, CouponP!couponVars, Coupon!Exhausted, CouponP!Exhausted,
            Coupon!Completing, CouponP!Completing, Coupon!Reading, CouponP!Reading,
            Coupon!Kept, CouponP!Kept, Coupon!Saving, CouponP!Saving, Coupon!EndEdit, CouponP!EndEdit
<1>2. Coupon!Init => CouponP!Init
  BY DEF Coupon!Init, CouponP!Init
<1>3. \A c \in Call :
        /\ \A s : Coupon!Read(c, s) => CouponP!Read(c, s)
        /\ Coupon!CountRedemptions(c) => CouponP!CountRedemptions(c)
        /\ Coupon!FindLink(c) => CouponP!FindLink(c)
        /\ Coupon!InsertBooking(c) => CouponP!InsertBooking(c)
        /\ Coupon!InsertClaim(c) => CouponP!InsertClaim(c)
        /\ Coupon!BeginComplete(c) => CouponP!BeginComplete(c)
        /\ Coupon!Complete(c) => CouponP!Complete(c)
        /\ \A g : Coupon!UpdateRow(c, g) => CouponP!UpdateRow(c, g)
        /\ Coupon!DeleteLinks(c) => CouponP!DeleteLinks(c)
        /\ Coupon!CreateLinks(c) => CouponP!CreateLinks(c)
        /\ Coupon!LoseEdit(c) => CouponP!LoseEdit(c)
  BY <1>0 DEF Coupon!Read, CouponP!Read, Coupon!CountRedemptions, CouponP!CountRedemptions,
         Coupon!FindLink, CouponP!FindLink, Coupon!InsertBooking, CouponP!InsertBooking,
         Coupon!InsertClaim, CouponP!InsertClaim, Coupon!BeginComplete, CouponP!BeginComplete,
         Coupon!Complete, CouponP!Complete, Coupon!UpdateRow, CouponP!UpdateRow,
         Coupon!DeleteLinks, CouponP!DeleteLinks, Coupon!CreateLinks, CouponP!CreateLinks,
         Coupon!LoseEdit, CouponP!LoseEdit
<1>4. /\ Coupon!Cancel => CouponP!Cancel
      /\ Coupon!Toggle => CouponP!Toggle
  BY <1>0 DEF Coupon!Cancel, CouponP!Cancel, Coupon!Toggle, CouponP!Toggle
<1>5. Coupon!Next => CouponP!Next
  BY <1>3, <1>4 DEF Coupon!Next, CouponP!Next
<1>6. /\ CouponP!RedemptionsBounded => Coupon!RedemptionsBounded
      /\ CouponP!AcceptedWasMeant => Coupon!AcceptedWasMeant
  BY <1>0 DEF Coupon!RedemptionsBounded, CouponP!RedemptionsBounded,
         Coupon!AcceptedWasMeant, CouponP!AcceptedWasMeant
<1> USE CouponFinite, CallAssumption, CouponAssumption, PlanAssumption, RateAssumption,
        MailAssumption, FaultAssumption, SlotAssumption, PriceAssumption, ScreenAssumption
<1>7. CouponP!Init => CouponP!IInv
  BY CouponP!InitIInv
<1>8. CouponP!IInv /\ CouponP!Next => CouponP!IInv'
  BY CouponP!StepIInv
<1>9. CouponP!IInv => CouponP!RedemptionsBounded
  BY CouponP!IInvBounds
<1>10. CouponP!IInv => CouponP!AcceptedWasMeant
  BY DEF CouponP!IInv
<1>11. QED
  BY <1>2, <1>5, <1>6, <1>7, <1>8, <1>9, <1>10

(* The customers of the office are the customers of the proofs. *)
LEMMA CustBridge ==
  /\ Cust!Init => CustP!IInv
  /\ CustP!IInv /\ Cust!Next => CustP!IInv'
  /\ CustP!IInv => Cust!BookingsFollowIdentity
<1> USE DEF Cust!Account, CustP!Account, Cust!Row, CustP!Row, Cust!Booking, CustP!Booking,
            Cust!NoBooking, CustP!NoBooking, Cust!Idle, CustP!Idle, Cust!Do, CustP!Do,
            Cust!Oldest, CustP!Oldest, Cust!Free, CustP!Free, Cust!Own, CustP!Own,
            Cust!Matching, CustP!Matching, Cust!Guests, CustP!Guests,
            Cust!Admitted, CustP!Admitted, Cust!Primary, CustP!Primary,
            Cust!Conflict, CustP!Conflict
<1>2. Cust!Init => CustP!Init
  BY DEF Cust!Init, CustP!Init
<1>3. \A u : Cust!VerifyEmail(u) => CustP!VerifyEmail(u)
  BY DEF Cust!VerifyEmail, CustP!VerifyEmail
<1>4. \A c \in Call : \A e :
        /\ Cust!FindGuest(c, e) => CustP!FindGuest(c, e)
        /\ Cust!ListForErasure(c, e) => CustP!ListForErasure(c, e)
        /\ \A next : Cust!Resolve(c, e, next) => CustP!Resolve(c, e, next)
        /\ Cust!Book(c, e) => CustP!Book(c, e)
        /\ Cust!UpdateProfile(c, e) => CustP!UpdateProfile(c, e)
  <2> TAKE c \in Call
  <2> TAKE e
  <2>1. Cust!FindGuest(c, e) => CustP!FindGuest(c, e)
    BY DEF Cust!FindGuest, CustP!FindGuest
  <2>2. Cust!ListForErasure(c, e) => CustP!ListForErasure(c, e)
    BY DEF Cust!ListForErasure, CustP!ListForErasure
  <2>3. \A next : Cust!Resolve(c, e, next) => CustP!Resolve(c, e, next)
    BY DEF Cust!Resolve, CustP!Resolve
  <2>4. Cust!Book(c, e) => CustP!Book(c, e)
    BY DEF Cust!Book, CustP!Book
  <2>5. Cust!UpdateProfile(c, e) => CustP!UpdateProfile(c, e)
    BY DEF Cust!UpdateProfile, CustP!UpdateProfile
  <2>6. QED
    BY <2>1, <2>2, <2>3, <2>4, <2>5
<1>5. \A c \in Call :
        /\ Cust!CreateGuest(c) => CustP!CreateGuest(c)
        /\ Cust!Merge(c) => CustP!Merge(c)
        /\ Cust!Abort(c) => CustP!Abort(c)
        /\ Cust!Erase(c) => CustP!Erase(c)
  BY DEF Cust!CreateGuest, CustP!CreateGuest, Cust!Merge, CustP!Merge,
         Cust!Abort, CustP!Abort, Cust!Erase, CustP!Erase
<1>6. Cust!Next => CustP!Next
  BY <1>3, <1>4, <1>5 DEF Cust!Next, CustP!Next
<1>7. CustP!BookingsFollowIdentity => Cust!BookingsFollowIdentity
  BY DEF Cust!BookingsFollowIdentity, CustP!BookingsFollowIdentity
<1> USE CustFinite, CallAssumption, CouponAssumption, PlanAssumption, RateAssumption,
        MailAssumption, FaultAssumption, SlotAssumption, PriceAssumption, ScreenAssumption
<1>8. CustP!Init => CustP!IInv
  BY CustP!InitIInv
<1>9. CustP!IInv /\ CustP!Next => CustP!IInv'
  BY CustP!StepIInv
<1>10. CustP!IInv => CustP!BookingsFollowIdentity
  BY CustP!IInvFollows
<1>11. QED
  BY <1>2, <1>6, <1>7, <1>8, <1>9, <1>10

-----------------------------------------------------------------------------
(* There is a call, and the hirers of a resource are no more than calls.   *)
LEMMA HirersBounded ==
  /\ Cardinality(Call) \in Nat \ {0}
  /\ \A r : /\ IsFiniteSet(Hirers(r))
            /\ Cardinality(Hirers(r)) \in Nat
            /\ Cardinality(Hirers(r)) <= Cardinality(Call)
<1>1. IsFiniteSet(Call) /\ Call # {}
  BY CallAssumption
<1>2. Cardinality(Call) \in Nat /\ Cardinality(Call) # 0
  BY <1>1, FS_CardinalityType, FS_EmptySet
<1>3. ASSUME NEW r
      PROVE  /\ IsFiniteSet(Hirers(r))
             /\ Cardinality(Hirers(r)) \in Nat
             /\ Cardinality(Hirers(r)) <= Cardinality(Call)
  <2>1. Hirers(r) \subseteq Call
    BY DEF Hirers
  <2>2. QED
    BY <1>1, <2>1, FS_Subset, FS_CardinalityType
<1>4. QED
  BY <1>2, <1>3

LEMMA StaffInit == Plan!Init => StaffInv
<1> SUFFICES ASSUME Plan!Init PROVE StaffInv
  OBVIOUS
<1>1. Plan!TypeOK
  BY FaultAssumption DEF Plan!Init, Plan!TypeOK
<1>2. WithinPlanToCome
  <2> SUFFICES ASSUME NEW r \in Plan!Resource
               PROVE  count[r] + Cardinality(Hirers(r)) <= PlanLimit + Cardinality(Call) - 1
    BY DEF WithinPlanToCome
  <2>1. Hirers(r) = {}
    BY DEF Plan!Init, Hirers, Plan!Resource
  <2>2. Cardinality(Hirers(r)) = 0
    BY <2>1, FS_EmptySet
  <2>3. count[r] \in {0, 1}
    BY DEF Plan!Init
  <2>4. QED
    BY <2>2, <2>3, HirersBounded, PlanAssumption
<1>3. SaversAreRivals /\ Plan!RowsOfLastSave
  BY DEF Plan!Init, SaversAreRivals, Plan!RowsOfLastSave, Plan!RowSet
<1>4. QED
  BY <1>1, <1>2, <1>3 DEF StaffInv

(* Every step keeps the state well typed. *)
LEMMA StaffTypeStep == Plan!TypeOK /\ [Plan!Next]_(Plan!vars) => Plan!TypeOK'
<1> SUFFICES ASSUME Plan!TypeOK, [Plan!Next]_(Plan!vars) PROVE Plan!TypeOK'
  OBVIOUS
<1> USE FaultAssumption DEF Plan!TypeOK, Plan!planVars, Plan!rowVars
<1>1. ASSUME NEW c \in Call, NEW r \in Plan!Resource, Plan!Count(c, r) PROVE Plan!TypeOK'
  BY <1>1 DEF Plan!Count
<1>2. ASSUME NEW c \in Call, NEW r \in Plan!Resource, Plan!Create(c, r) PROVE Plan!TypeOK'
  BY <1>2 DEF Plan!Create
<1>3. ASSUME NEW c \in Call, NEW t \in Plan!RowSet, NEW some \in BOOLEAN, Plan!Delete(c, t, some)
      PROVE  Plan!TypeOK'
  BY <1>3 DEF Plan!Delete, Plan!Cleared
<1>4. ASSUME NEW c \in Call, NEW t \in Plan!RowSet, Plan!CreateRows(c, t) PROVE Plan!TypeOK'
  BY <1>4 DEF Plan!CreateRows, Plan!Conclude
<1>5. ASSUME NEW c \in Call, NEW t \in Plan!RowSet, Plan!Lose(c, t) PROVE Plan!TypeOK'
  BY <1>5 DEF Plan!Lose, Plan!Conclude
<1>6. ASSUME NEW c \in Call, Plan!Duplicate(c) PROVE Plan!TypeOK'
  BY <1>6 DEF Plan!Duplicate, Plan!Conclude, Plan!RowSet
<1>7. CASE UNCHANGED Plan!vars
  BY <1>7 DEF Plan!vars
<1> HIDE DEF Plan!TypeOK
<1>8. QED
  BY <1>1, <1>2, <1>3, <1>4, <1>5, <1>6, <1>7 DEF Plan!Next

(* A call counts only below the limit, and creates no more than it came for. *)
LEMMA PlanToComeStep == Plan!TypeOK /\ WithinPlanToCome /\ [Plan!Next]_(Plan!vars) => WithinPlanToCome'
<1> SUFFICES ASSUME Plan!TypeOK, WithinPlanToCome, [Plan!Next]_(Plan!vars),
                    NEW r \in Plan!Resource
             PROVE  count'[r] + Cardinality(Hirers(r)') <= PlanLimit + Cardinality(Call) - 1
  BY DEF WithinPlanToCome
<1> DEFINE Goal == count'[r] + Cardinality(Hirers(r)') <= PlanLimit + Cardinality(Call) - 1
<1>a. /\ count[r] \in Nat /\ PlanLimit \in Nat
      /\ count[r] + Cardinality(Hirers(r)) <= PlanLimit + Cardinality(Call) - 1
  BY PlanAssumption DEF Plan!TypeOK, WithinPlanToCome
<1>b. /\ Cardinality(Hirers(r)) \in Nat
      /\ Cardinality(Call) \in Nat \ {0}
      /\ IsFiniteSet(Hirers(r))
  BY HirersBounded
<1>c. Cardinality(Hirers(r)') \in Nat /\ Cardinality(Hirers(r)') <= Cardinality(Call)
  <2>1. IsFiniteSet(Call) /\ Hirers(r)' \subseteq Call
    BY CallAssumption DEF Hirers
  <2>2. QED
    BY <2>1, FS_Subset, FS_CardinalityType
<1>1. ASSUME NEW c \in Call, NEW q \in Plan!Resource, Plan!Count(c, q) PROVE Goal
  <2>1. CASE q = r
    <3>1. count'[r] = count[r] /\ count[r] <= PlanLimit - 1
      BY <1>1, <2>1, <1>a DEF Plan!Count, Plan!LimitReached
    <3>2. QED
      BY <3>1, <1>a, <1>b, <1>c
  <2>2. CASE q # r
    <3>1. Hirers(r)' = Hirers(r)
      BY <1>1, <2>2 DEF Plan!Count, Hirers, Plan!Idle, Plan!TypeOK, Plan!Resource
    <3>2. count'[r] = count[r]
      BY <1>1 DEF Plan!Count
    <3>3. QED
      BY <3>1, <3>2, <1>a
  <2>3. QED
    BY <2>1, <2>2
<1>2. ASSUME NEW c \in Call, NEW q \in Plan!Resource, Plan!Create(c, q) PROVE Goal
  <2>1. CASE q = r
    <3>1. count'[r] = count[r] + 1
      BY <1>2, <2>1 DEF Plan!Create, Plan!TypeOK
    <3>2. c \in Hirers(r) /\ Hirers(r)' = Hirers(r) \ {c}
      BY <1>2, <2>1 DEF Plan!Create, Hirers, Plan!TypeOK, Plan!Resource
    <3>3. Cardinality(Hirers(r)') = Cardinality(Hirers(r)) - 1
      BY <3>2, <1>b, FS_RemoveElement
    <3>4. QED
      BY <3>1, <3>3, <1>a, <1>b
  <2>2. CASE q # r
    <3>1. Hirers(r)' = Hirers(r)
      BY <1>2, <2>2 DEF Plan!Create, Hirers, Plan!TypeOK, Plan!Resource
    <3>2. count'[r] = count[r]
      BY <1>2, <2>2 DEF Plan!Create, Plan!TypeOK
    <3>3. QED
      BY <3>1, <3>2, <1>a
  <2>3. QED
    BY <2>1, <2>2
<1>3. ASSUME UNCHANGED Plan!planVars PROVE Goal
  <2>1. count' = count /\ Hirers(r)' = Hirers(r)
    BY <1>3 DEF Plan!planVars, Hirers
  <2>2. QED
    BY <2>1, <1>a
<1> HIDE DEF Goal
<1>4. QED
  BY <1>1, <1>2, <1>3
     DEF Plan!Next, Plan!vars, Plan!Delete, Plan!CreateRows, Plan!Lose, Plan!Duplicate, Plan!planVars, Goal

(* A save deletes before it creates, and who overlaps it is its rival. *)
LEMMA RowsStep == Plan!TypeOK /\ SaversAreRivals /\ Plan!RowsOfLastSave /\ [Plan!Next]_(Plan!vars)
                    => SaversAreRivals' /\ Plan!RowsOfLastSave'
<1> SUFFICES ASSUME Plan!TypeOK, SaversAreRivals, Plan!RowsOfLastSave, [Plan!Next]_(Plan!vars)
             PROVE  SaversAreRivals' /\ Plan!RowsOfLastSave'
  OBVIOUS
<1> DEFINE Goal == SaversAreRivals' /\ Plan!RowsOfLastSave'
<1> USE DEF Plan!TypeOK, SaversAreRivals, Plan!RowsOfLastSave
<1>1. ASSUME NEW c \in Call, NEW t \in Plan!RowSet, NEW some \in BOOLEAN, Plan!Delete(c, t, some)
      PROVE  Goal
  <2>1. SaversAreRivals'
    BY <1>1 DEF Plan!Delete, Plan!RowSet
  <2>2. Plan!RowsOfLastSave'
    BY <1>1 DEF Plan!Delete, Plan!Cleared
  <2>3. QED
    BY <2>1, <2>2
<1>2. ASSUME NEW c \in Call, NEW t \in Plan!RowSet, Plan!CreateRows(c, t) PROVE Goal
  <2>1. SaversAreRivals'
    BY <1>2 DEF Plan!CreateRows, Plan!Conclude, Plan!RowSet
  <2>2. Plan!RowsOfLastSave'
    BY <1>2 DEF Plan!CreateRows, Plan!Conclude
  <2>3. QED
    BY <2>1, <2>2
<1>3. ASSUME NEW c \in Call, NEW t \in Plan!RowSet, Plan!Conclude(c, t, "failed"),
             UNCHANGED <<rows, last, rivals>>
      PROVE  Goal
  BY <1>3 DEF Plan!Conclude, Plan!RowSet
<1>4. ASSUME UNCHANGED Plan!rowVars PROVE Goal
  BY <1>4 DEF Plan!rowVars
<1> HIDE DEF Goal
<1>5. QED
  BY <1>1, <1>2, <1>3, <1>4
     DEF Plan!Next, Plan!vars, Plan!Count, Plan!Create, Plan!Lose, Plan!Duplicate, Plan!rowVars, Plan!RowSet, Goal

LEMMA StaffStep == StaffInv /\ [Plan!Next]_(Plan!vars) => StaffInv'
BY StaffTypeStep, PlanToComeStep, RowsStep DEF StaffInv

LEMMA StaffBounds == StaffInv => Plan!WithinPlan
<1>0. Plan!Cardinality(Call) = Cardinality(Call)
  BY DEF Plan!Cardinality, Cardinality
<1> SUFFICES ASSUME StaffInv, NEW r \in Plan!Resource
             PROVE  count[r] <= PlanLimit + Cardinality(Call) - 1
  BY <1>0 DEF Plan!WithinPlan
<1>1. /\ count[r] \in Nat
      /\ count[r] + Cardinality(Hirers(r)) <= PlanLimit + Cardinality(Call) - 1
  BY DEF StaffInv, Plan!TypeOK, WithinPlanToCome
<1>2. QED
  BY <1>1, HirersBounded, PlanAssumption

-----------------------------------------------------------------------------
(* Only the switch of the owner changes what is listed once it was used. *)
LEMMA DirBridge ==
  /\ Dir!Init => DirInv
  /\ DirInv /\ Dir!Next => DirInv'
  /\ DirInv => Dir!OwnersChoiceStands
<1>1. Dir!Init => DirInv
  BY DEF Dir!Init, DirInv
<1>2. DirInv /\ Dir!Next => DirInv'
  <2> SUFFICES ASSUME DirInv, Dir!Next PROVE DirInv'
    OBVIOUS
  <2>1. ASSUME NEW on \in BOOLEAN, Dir!SetListing(on) PROVE DirInv'
    BY <2>1 DEF Dir!SetListing, DirInv
  <2>2. ASSUME NEW c \in Call, Dir!AutoList(c) PROVE DirInv'
    BY <2>2 DEF Dir!AutoList, Dir!MayList, DirInv
  <2>3. ASSUME UNCHANGED <<listed, byOwner, choice>> PROVE DirInv'
    BY <2>3 DEF DirInv
  <2>4. QED
    BY <2>1, <2>2, <2>3 DEF Dir!Next, Dir!Edit, Dir!LoadDashboard, Dir!Look
<1>3. DirInv => Dir!OwnersChoiceStands
  BY DEF DirInv, Dir!OwnersChoiceStands
<1>4. QED
  BY <1>1, <1>2, <1>3

-----------------------------------------------------------------------------
(* The end of a subscription is told, however its events and the writing   *)
(* of its claim and its metadata interleave.                               *)
LEMMA SubsStep == SubsInv /\ Org!Next => SubsInv'
<1> SUFFICES ASSUME SubsInv, Org!Next PROVE SubsInv'
  OBVIOUS
<1> USE DEF SubsInv, EndIsTold, Org!Sub, Org!row, Org!stripe
(* The row and what Stripe has stay as they are.                           *)
<1>0. ASSUME UNCHANGED <<churned, subId, paid, sub, meta, events, missed, signup>> PROVE SubsInv'
  BY <1>0
<1>1. ASSUME UNCHANGED <<churned, subId, paid, sub, meta, events, missed>>, signup' # "written"
      PROVE  SubsInv'
  BY <1>1
<1>2. CASE Org!WriteClaim
  <2>1. CASE paid
    <3>1. /\ subId' = "claimed" /\ (churned => churned')
          /\ UNCHANGED <<paid, sub, meta, events, missed>>
          /\ signup' = "written"
      BY <1>2, <2>1 DEF Org!WriteClaim, Org!UpdateSubscription
    <3>2. QED
      BY <2>1, <3>1
  <2>2. CASE ~paid
    BY <1>2, <2>2, <1>1 DEF Org!WriteClaim
  <2>3. QED
    BY <2>1, <2>2
<1>3. CASE Org!Backfill
  <2>1. /\ meta' = meta \cup {"claimed"}
        /\ events' = events \cup {[sub |-> "claimed", status |-> sub["claimed"], meta |-> TRUE]}
        /\ UNCHANGED <<churned, subId, paid, sub, missed>>
        /\ paid /\ signup' # "written"
    BY <1>3 DEF Org!Backfill, Org!Event
  <2>2. ASSUME NEW b \in Org!Sub, sub[b] \in {"unpaid", "canceled"} PROVE EndIsTold(b)'
    <3>1. CASE b = "claimed"
      <4> DEFINE e == [sub |-> "claimed", status |-> sub["claimed"], meta |-> TRUE]
      <4>1. e \in events' /\ e.sub = b /\ e.status \in {"unpaid", "canceled"} /\ e.meta
        BY <2>1, <2>2, <3>1
      <4> HIDE DEF e
      <4>2. QED
        BY <4>1
    <3>2. CASE b # "claimed"
      BY <2>1, <2>2, <3>2
    <3>3. QED
      BY <3>1, <3>2
  <2>3. QED
    BY <2>1, <2>2
<1>4. ASSUME NEW b \in Org!Sub, NEW s \in Org!StripeStatus, Org!ChangeStatus(b, s) PROVE SubsInv'
  <2>1. /\ sub[b] # "none" /\ s \in {"running", "unpaid", "canceled"}
        /\ sub' = [sub EXCEPT ![b] = s]
        /\ events' = events \cup {[sub |-> b, status |-> s, meta |-> b \in meta]}
        /\ UNCHANGED <<churned, subId, paid, meta, missed, signup>>
    BY <1>4 DEF Org!ChangeStatus, Org!Event, Org!Changes, Org!StripeStatus
  <2>2. ASSUME NEW d \in Org!Sub, sub'[d] \in {"unpaid", "canceled"} PROVE EndIsTold(d)'
    <3>1. CASE d = b
      <4> DEFINE e == [sub |-> b, status |-> s, meta |-> b \in meta]
      <4>1. /\ e \in events' /\ e.sub = d /\ e.status \in {"unpaid", "canceled"}
            /\ d \in meta' => e.meta
        BY <2>1, <2>2, <3>1
      <4> HIDE DEF e
      <4>2. QED
        BY <4>1
    <3>2. CASE d # b
      BY <2>1, <2>2, <3>2
    <3>3. QED
      BY <3>1, <3>2
  <2>3. sub' \in [Org!Sub -> Org!StripeStatus] /\ \A d \in Org!Sub : sub[d] # "none" => sub'[d] # "none"
    BY <2>1 DEF Org!StripeStatus
  <2>4. \A e \in events' : e.sub \in Org!Sub /\ sub'[e.sub] # "none"
    BY <2>1, <2>3
  <2>5. QED
    BY <2>1, <2>2, <2>3, <2>4
<1>5. CASE Org!Buy
  <2>1. /\ sub["bought"] = "none"
        /\ sub' = [sub EXCEPT !["bought"] = "running"]
        /\ meta' = meta \cup {"bought"}
        /\ events' = events \cup {[sub |-> "bought", status |-> "running", meta |-> TRUE]}
        /\ UNCHANGED <<churned, subId, paid, missed, signup>>
    BY <1>5 DEF Org!Buy, Org!Event
  <2>2. QED
    BY <2>1 DEF Org!StripeStatus
<1>6. ASSUME NEW e \in events, Org!Handle(e) PROVE SubsInv'
  <2>1. events' = events \ {e} /\ UNCHANGED <<paid, sub, meta, signup>>
    BY <1>6 DEF Org!Handle
  <2>2. CASE e.meta \/ subId = e.sub
    <3>1. /\ subId' = e.sub /\ UNCHANGED missed
          /\ churned' = (churned \/ (e.status # "running"))
      BY <1>6, <2>2
         DEF Org!Handle, Org!UpdateSubscription, Org!Churns, Org!MapStatus
    <3>2. QED
      BY <2>1, <3>1
  <2>3. CASE ~(e.meta \/ subId = e.sub)
    <3>1. /\ UNCHANGED <<churned, subId>>
          /\ missed' = (missed \/ e.status # "running")
      BY <1>6, <2>3 DEF Org!Handle, Org!MapStatus
    <3>2. ASSUME NEW b \in Org!Sub, sub[b] \in {"unpaid", "canceled"} PROVE EndIsTold(b)'
      BY <2>1, <2>3, <3>1, <3>2
    <3>3. QED
      BY <2>1, <3>1, <3>2
  <2>4. QED
    BY <2>2, <2>3
<1>7. CASE Org!SignupStep \/ Org!Submit \/ Org!Fail \/ Org!TrialEnds
  BY <1>7, <1>0, <1>1, <1>2, <1>3
     DEF Org!SignupStep, Org!Submit, Org!CreateRow, Org!SetGracePeriod, Org!WriteDetails,
         Org!Fail, Org!TrialEnds
<1> HIDE DEF SubsInv
<1>8. QED
  BY <1>4, <1>5, <1>6, <1>7 DEF Org!Next

(* Nobody writes for free once every event is handled. *)
LEMMA OrgBridge ==
  /\ Org!Init => SubsInv
  /\ SubsInv /\ Org!Next => SubsInv'
  /\ SubsInv => Org!NoFreeRide
<1>1. Org!Init => SubsInv
  BY DEF Org!Init, SubsInv, EndIsTold, Org!Sub, Org!StripeStatus
<1>2. SubsInv => Org!NoFreeRide
  <2> SUFFICES ASSUME SubsInv, events = {}, Org!MayWrite, trialOver,
                      \A b \in Org!Sub : sub[b] # "running"
               PROVE  Org!Overlooked
    BY DEF Org!NoFreeRide
  <2>1. ~churned /\ subId \in Org!Sub /\ sub[subId] # "none"
    BY DEF Org!MayWrite, Org!MayEnter, SubsInv
  <2>2. sub[subId] \in {"unpaid", "canceled"}
    BY <2>1 DEF SubsInv, Org!StripeStatus
  <2>3. EndIsTold(subId)
    BY <2>1, <2>2 DEF SubsInv
  <2>4. QED
    BY <2>1, <2>3 DEF EndIsTold, Org!Overlooked
<1>3. QED
  BY <1>1, <1>2, SubsStep

-----------------------------------------------------------------------------
(* A multiple of the granularity is not less than its factor, and the next *)
(* one is a granularity away.                                              *)
LEMMA Grid ==
  ASSUME NEW g \in Nat \ {0}, NEW j \in Nat, NEW k \in Nat
  PROVE  /\ k * g \in Nat /\ k * g >= k
         /\ (k + 1) * g = k * g + g
         /\ k * g >= j * g /\ k * g < j * g + g => k = j
<1>1. k * g \in Nat /\ j * g \in Nat /\ (k + 1) * g = k * g + g
  OBVIOUS
<1>2. k * g >= k
  <2>1. k * (g - 1) \in Nat
    BY g - 1 \in Nat
  <2>2. k * g = k * (g - 1) + k
    OBVIOUS
  <2>3. QED
    BY <2>1, <2>2
<1>3. ASSUME k > j PROVE k * g >= j * g + g
  <2>1. (k - j - 1) * g \in Nat
    BY <1>3, k - j - 1 \in Nat
  <2>2. k * g = j * g + g + (k - j - 1) * g
    OBVIOUS
  <2>3. QED
    BY <2>1, <2>2, <1>1
<1>4. ASSUME k < j PROVE k * g < j * g
  <2>1. (j - k - 1) * g \in Nat
    BY <1>4, j - k - 1 \in Nat
  <2>2. j * g = k * g + g + (j - k - 1) * g
    OBVIOUS
  <2>3. QED
    BY <2>1, <2>2, <1>1
<1>5. QED
  BY <1>1, <1>2, <1>3, <1>4

(* Midnights are moments. *)
LEMMA Days ==
  ASSUME NEW d \in Slots!Day
  PROVE  Slots!DayStart(d) \in Int /\ Slots!DayEnd(d) = Slots!DayStart(d) + DayLength
BY SlotAssumption DEF Slots!Day, Slots!DayStart, Slots!DayEnd

(* A shift is within its day. *)
LEMMA Shifts ==
  ASSUME NEW s \in Slots!Shift
  PROVE  s # Slots!NoShift /\ s.by \in Barber /\ s.from \in Nat /\ s.to \in Nat /\ s.to < DayLength
BY SlotAssumption DEF Slots!Shift, Slots!NoShift, Slots!Clock

(* Who is in the way of a slot of the day is found by day. *)
LEMMA FreeIsFound ==
  ASSUME SlotsType, NEW s \in Slots!Shift, NEW t \in Int,
         t >= Slots!DayStart(query.date), Slots!Fits(t, s)
  PROVE  Slots!Free(s.by, t) <=> \A r \in Slots!BusyOn(query.date) : s.by \in r.by => ~Slots!Overlaps(t, t + SlotLength, r)
<1>1. Slots!DayStart(query.date) \in Int /\ Slots!DayEnd(query.date) = Slots!DayStart(query.date) + DayLength
  BY Days DEF SlotsType
<1>2. t + SlotLength < Slots!DayEnd(query.date)
  BY <1>1, Shifts, SlotAssumption DEF Slots!Fits
<1>3. ASSUME NEW r \in busy, Slots!Overlaps(t, t + SlotLength, r) PROVE r \in Slots!BusyOn(query.date)
  <2>1. r.from \in Int /\ r.to \in Int
    BY SlotAssumption DEF SlotsType, Slots!Interval, Slots!Moment
  <2>2. QED
    BY <1>1, <1>2, <1>3, <2>1, SlotAssumption DEF Slots!Overlaps, Slots!BusyOn
<1>4. QED
  BY <1>3 DEF Slots!Free, Slots!BusyOn

(* A day that is out of reach has no slots. *)
LEMMA OutOfReach ==
  ASSUME SlotsType, NEW d \in Slots!Day, NEW staff, Slots!DayStart(d) > latest \/ Slots!DayEnd(d) < earliest
  PROVE  Slots!Offered(d, staff) = {}
<1>1. Slots!DayStart(d) \in Int /\ Slots!DayEnd(d) = Slots!DayStart(d) + DayLength
  BY Days
<1>2. ASSUME NEW free \in Slots!Offered(d, staff) PROVE FALSE
  <2>1. PICK s \in hours[d] : Slots!Start(d, s, free[1])
    BY <1>2 DEF Slots!Offered
  <2>2. s \in Slots!Shift
    BY DEF SlotsType
  <2>3. PICK k \in 0 .. DayLength : free[1] = Slots!DayStart(d) + s.from + k * Granularity
    BY <2>1 DEF Slots!Start
  <2>4. k * Granularity \in Nat
    BY Grid, SlotAssumption
  <2>5. free[1] \in Int /\ free[1] >= earliest /\ free[1] <= latest
    BY <1>2 DEF Slots!Offered, SlotsType
  <2>6. free[1] + SlotLength <= Slots!DayStart(d) + s.to
    BY <2>1 DEF Slots!Start
  <2>7. QED
    BY <1>1, <2>2, <2>3, <2>4, <2>5, <2>6, Shifts, SlotAssumption DEF SlotsType
<1>3. QED
  BY <1>2

(* What is offered depends on the input only. *)
LEMMA SameInput ==
  ASSUME UNCHANGED <<hours, busy, earliest, latest>>, NEW d, NEW staff
  PROVE  Slots!Offered(d, staff)' = Slots!Offered(d, staff)
BY DEF Slots!Offered, Slots!Free

(* A call of getAvailableSlots begins with nothing found. *)
LEMMA BeginInv ==
  ASSUME SlotsInv, NEW d \in Slots!Day, NEW staff \in SUBSET Barber, Slots!Begin(d, staff), shift = Slots!NoShift
  PROVE  SlotsInv'
<1>1. /\ query' = [date |-> d, staff |-> staff]
      /\ offer' = {}
      /\ UNCHANGED <<hours, busy, earliest, latest, shift, cursor>>
  BY DEF Slots!Begin, Slots!input
<1>2. SlotsType'
  BY <1>1 DEF SlotsInv, SlotsType
<1>3. CASE Slots!DayStart(d) > latest \/ Slots!DayEnd(d) < earliest
  <2>1. phase' = "listed"
    BY <1>3 DEF Slots!Begin
  <2>2. Slots!Offered(query.date, query.staff)' = {}
    <3>1. Slots!Offered(d, staff) = {}
      BY <1>3, OutOfReach DEF SlotsInv
    <3>2. Slots!Offered(d, staff)' = {}
      BY <1>1, <3>1, SameInput
    <3>3. QED
      BY <1>1, <3>2
  <2>3. QED
    BY <1>1, <1>2, <2>1, <2>2 DEF SlotsInv, Slots!OfferIsExact
<1>4. CASE ~(Slots!DayStart(d) > latest \/ Slots!DayEnd(d) < earliest)
  <2>1. phase' = "walking" /\ todo' = Asked' /\ loaded' = Slots!BusyOn(query.date)'
    BY <1>1, <1>4 DEF Slots!Begin, Asked, Slots!BusyOn, Slots!DayStart, Slots!DayEnd
  <2>2. WalkInv'
    BY <1>1, <2>1 DEF WalkInv
  <2>3. QED
    BY <1>1, <1>2, <2>1, <2>2 DEF SlotsInv, Slots!OfferIsExact
<1>5. QED
  BY <1>3, <1>4

(* One start is looked at, and the next one is a granularity away. *)
LEMMA WalkStep ==
  ASSUME SlotsInv, Slots!Walk
  PROVE  SlotsInv'
<1> DEFINE d == query.date
<1>1. /\ shift # Slots!NoShift /\ Slots!Fits(cursor, shift)
      /\ UNCHANGED <<hours, busy, earliest, latest, phase, query, loaded, todo, shift>>
      /\ cursor' = cursor + Granularity
      /\ offer' = IF Slots!Passes(cursor, shift) THEN offer \cup {<<cursor, shift.by>>} ELSE offer
  BY DEF Slots!Walk, Slots!input
<1>2. /\ phase = "walking" /\ WalkInv /\ SlotsType
      /\ shift \in Asked
  BY <1>1 DEF SlotsInv
<1>3. PICK n \in Nat : cursor = Slots!DayStart(d) + shift.from + n * Granularity
  BY <1>1 DEF SlotsInv
<1>4. /\ shift \in Slots!Shift /\ shift \in hours[d] /\ shift.by \in query.staff
      /\ d \in Slots!Day /\ Slots!DayStart(d) \in Int /\ cursor \in Int
  BY <1>2, Days DEF Asked, SlotsType
<1>5. n * Granularity \in Nat /\ n <= n * Granularity /\ (n + 1) * Granularity = n * Granularity + Granularity
  BY Grid, SlotAssumption
<1>6. cursor >= Slots!DayStart(d) /\ n \in 0 .. DayLength
  BY <1>1, <1>3, <1>4, <1>5, Shifts, SlotAssumption DEF Slots!Fits
<1>7. Slots!Start(d, shift, cursor)
  BY <1>1, <1>3, <1>6 DEF Slots!Start, Slots!Fits
<1>8. Slots!Passes(cursor, shift) <=> <<cursor, shift.by>> \in Slots!Offered(d, query.staff)
  <2>1. Slots!Free(shift.by, cursor) <=> \A r \in loaded : shift.by \in r.by => ~Slots!Overlaps(cursor, cursor + SlotLength, r)
    BY <1>1, <1>2, <1>4, <1>6, FreeIsFound DEF WalkInv
  <2>2. Slots!Passes(cursor, shift) => <<cursor, shift.by>> \in Slots!Offered(d, query.staff)
    BY <1>2, <1>4, <1>7, <2>1 DEF Slots!Passes, Slots!Offered, SlotsType
  <2>3. <<cursor, shift.by>> \in Slots!Offered(d, query.staff) => Slots!Passes(cursor, shift)
    BY <1>2, <1>4, <2>1 DEF Slots!Passes, Slots!Offered, SlotsType
  <2>4. QED
    BY <2>2, <2>3
<1>9. SlotsType' /\ cursor' = Slots!DayStart(d) + shift.from + (n + 1) * Granularity
  BY <1>1, <1>2, <1>3, <1>4, <1>5, Shifts, SlotAssumption DEF SlotsType
<1>10. WalkInv'
  <2>1. Slots!Offered(d, query.staff)' = Slots!Offered(d, query.staff)
    BY <1>1, SameInput
  <2>2. offer' \subseteq Slots!Offered(d, query.staff) /\ offer \subseteq offer'
    BY <1>1, <1>2, <1>8 DEF WalkInv
  <2>3. ASSUME NEW free \in Slots!Offered(d, query.staff), NEW s \in Asked,
               s.by = free[2], Slots!Start(d, s, free[1])
        PROVE  free \in offer' \/ s \in todo \/ (s = shift /\ free[1] >= cursor')
    <3>1. CASE free \in offer \/ s \in todo
      BY <2>2, <3>1
    <3>2. CASE s = shift /\ free[1] >= cursor
      <4>1. PICK k \in 0 .. DayLength : free[1] = Slots!DayStart(d) + s.from + k * Granularity
        BY <2>3 DEF Slots!Start
      <4>2. k * Granularity \in Nat /\ (k * Granularity >= n * Granularity
                  /\ k * Granularity < n * Granularity + Granularity => k = n)
        BY Grid, SlotAssumption
      <4>3. free[1] >= cursor' \/ k = n
        BY <1>1, <1>3, <1>4, <1>5, <3>2, <4>1, <4>2, Shifts, SlotAssumption
      <4>4. CASE k = n
        <5>1. free = <<cursor, shift.by>>
          BY <1>3, <2>3, <3>2, <4>1, <4>4 DEF Slots!Offered
        <5>2. QED
          BY <1>1, <1>8, <5>1
      <4>5. QED
        BY <3>2, <4>3, <4>4
    <3>3. QED
      BY <1>2, <2>3, <3>1, <3>2 DEF WalkInv
  <2>4. Asked' = Asked /\ Slots!BusyOn(d)' = Slots!BusyOn(d)
    BY <1>1 DEF Asked, Slots!BusyOn
  <2>5. \A s, t : Slots!Start(d, s, t)' = Slots!Start(d, s, t)
    BY <1>1 DEF Slots!Start
  <2>6. QED
    BY <1>1, <1>2, <2>1, <2>2, <2>3, <2>4, <2>5 DEF WalkInv
<1>11. Asked' = Asked /\ n + 1 \in Nat
  BY <1>1 DEF Asked
<1>12. QED
  BY <1>1, <1>2, <1>9, <1>10, <1>11 DEF SlotsInv, Slots!OfferIsExact

(* The loop keeps its invariant. *)
LEMMA SlotsStep == SlotsInv /\ Slots!Next => SlotsInv'
<1> SUFFICES ASSUME SlotsInv, Slots!Next PROVE SlotsInv'
  OBVIOUS
<1> DEFINE d == query.date
<1>0. SlotsType
  BY DEF SlotsInv
<1>1. ASSUME NEW staff \in SUBSET Barber, Slots!Ask(Slots!Today, staff) PROVE SlotsInv'
  <2>1. Slots!Begin(Slots!Today, staff) /\ shift = Slots!NoShift /\ Slots!Today \in Slots!Day
    BY <1>1 DEF Slots!Ask, SlotsInv, Slots!Today, Slots!Day
  <2>2. QED
    BY <2>1, BeginInv
<1>2. ASSUME NEW free \in offer, Slots!Confirm(free) PROVE SlotsInv'
  <2>1. Slots!Begin(Slots!UtcDate(free[1]), {free[2]}) /\ shift = Slots!NoShift /\ Slots!UtcDate(free[1]) \in Slots!Day
    BY <1>2 DEF Slots!Confirm, SlotsInv
  <2>2. {free[2]} \in SUBSET Barber
    BY <1>2 DEF Slots!Confirm, SlotsInv, SlotsType, Slots!OfferIsExact, Slots!Offered
  <2>3. QED
    BY <2>1, <2>2, BeginInv
<1>3. CASE Slots!Walk
  BY <1>3, WalkStep
<1>4. ASSUME NEW s \in todo, Slots!TakeShift(s) PROVE SlotsInv'
  <2>1. /\ phase = "walking" /\ WalkInv /\ shift = Slots!NoShift
        /\ UNCHANGED <<hours, busy, earliest, latest, phase, query, loaded, offer>>
        /\ todo' = todo \ {s} /\ shift' = s
        /\ cursor' = Slots!DayStart(d) + s.from
    BY <1>4 DEF Slots!TakeShift, SlotsInv, Slots!input
  <2>2. s \in Asked /\ s \in Slots!Shift /\ Slots!DayStart(d) \in Int
    BY <1>0, <2>1, Days DEF WalkInv, Asked, SlotsType
  <2>3. SlotsType' /\ cursor' = Slots!DayStart(d) + s.from + 0 * Granularity /\ 0 \in Nat
    BY <1>0, <2>1, <2>2, Shifts, SlotAssumption DEF SlotsType
  <2>4. Asked' = Asked /\ Slots!BusyOn(d)' = Slots!BusyOn(d) /\ Slots!Offered(d, query.staff)' = Slots!Offered(d, query.staff)
    BY <2>1, SameInput DEF Asked, Slots!BusyOn
  <2>5. ASSUME NEW free \in Slots!Offered(d, query.staff), Slots!Start(d, s, free[1]) PROVE free[1] >= cursor'
    <3>1. PICK k \in 0 .. DayLength : free[1] = Slots!DayStart(d) + s.from + k * Granularity
      BY <2>5 DEF Slots!Start
    <3>2. k * Granularity \in Nat
      BY Grid, SlotAssumption
    <3>3. QED
      BY <2>1, <2>2, <3>1, <3>2, Shifts
  <2>6. \A x, t : Slots!Start(d, x, t)' = Slots!Start(d, x, t)
    BY <2>1 DEF Slots!Start
  <2>7. \A x \in Asked : x # Slots!NoShift
    BY <1>0, Shifts DEF Asked, SlotsType
  <2>8. ASSUME NEW free \in Slots!Offered(d, query.staff), NEW x \in Asked,
               x.by = free[2], Slots!Start(d, x, free[1])
        PROVE  free \in offer \/ x \in todo' \/ (x = s /\ free[1] >= cursor')
    BY <2>1, <2>5, <2>7, <2>8 DEF WalkInv
  <2>9. WalkInv'
    BY <2>1, <2>2, <2>4, <2>6, <2>8 DEF WalkInv
  <2>10. QED
    BY <2>1, <2>2, <2>3, <2>4, <2>9 DEF SlotsInv, Slots!OfferIsExact
<1>5. CASE Slots!LeaveShift
  <2>1. /\ phase = "walking" /\ WalkInv /\ shift # Slots!NoShift /\ ~Slots!Fits(cursor, shift)
        /\ UNCHANGED <<hours, busy, earliest, latest, phase, query, loaded, todo, offer>>
        /\ shift' = Slots!NoShift /\ cursor' = 0 /\ shift \in Slots!Shift
    BY <1>0, <1>5 DEF Slots!LeaveShift, SlotsInv, Slots!input, Asked, SlotsType
  <2>2. SlotsType'
    BY <1>0, <2>1 DEF SlotsType
  <2>3. Asked' = Asked /\ Slots!BusyOn(d)' = Slots!BusyOn(d) /\ Slots!Offered(d, query.staff)' = Slots!Offered(d, query.staff)
    BY <2>1, SameInput DEF Asked, Slots!BusyOn
  <2>4. ASSUME NEW free \in Slots!Offered(d, query.staff), Slots!Start(d, shift, free[1]) PROVE ~(free[1] >= cursor)
    <3>1. free[1] + SlotLength <= Slots!DayStart(d) + shift.to
      BY <2>4 DEF Slots!Start
    <3>2. free[1] \in Int /\ Slots!DayStart(d) \in Int
      BY <1>0, <2>4, Days DEF Slots!Offered, SlotsType
    <3>3. QED
      BY <1>0, <2>1, <3>1, <3>2, Shifts, SlotAssumption DEF Slots!Fits, SlotsType
  <2>5. \A x, t : Slots!Start(d, x, t)' = Slots!Start(d, x, t)
    BY <2>1 DEF Slots!Start
  <2>6. WalkInv'
    BY <2>1, <2>3, <2>4, <2>5 DEF WalkInv
  <2>7. QED
    BY <2>1, <2>2, <2>6 DEF SlotsInv, Slots!OfferIsExact
<1>6. CASE Slots!Return
  <2>1. /\ phase = "walking" /\ WalkInv /\ todo = {} /\ shift = Slots!NoShift
        /\ phase' = "listed"
        /\ UNCHANGED <<hours, busy, earliest, latest, query, loaded, todo, shift, cursor, offer>>
    BY <1>6 DEF Slots!Return, SlotsInv, Slots!input
  <2>2. Slots!Offered(d, query.staff) \subseteq offer
    <3> SUFFICES ASSUME NEW free \in Slots!Offered(d, query.staff) PROVE free \in offer
      OBVIOUS
    <3>1. PICK s \in hours[d] : s.by = free[2] /\ Slots!Start(d, s, free[1])
      BY DEF Slots!Offered
    <3>2. s \in Asked /\ s # Slots!NoShift
      BY <1>0, <3>1, Shifts DEF Asked, Slots!Offered, SlotsType
    <3>3. QED
      BY <2>1, <3>1, <3>2 DEF WalkInv
  <2>3. Slots!Offered(d, query.staff)' = offer
    BY <2>1, <2>2, SameInput DEF WalkInv
  <2>4. SlotsType'
    BY <1>0, <2>1 DEF SlotsType
  <2>5. QED
    BY <2>1, <2>3, <2>4 DEF SlotsInv, Slots!OfferIsExact
<1>7. CASE Slots!Answer
  <2>1. /\ shift = Slots!NoShift /\ phase' \in {"booked", "refused"}
        /\ UNCHANGED <<hours, busy, earliest, latest, query, loaded, todo, shift, cursor, offer>>
    BY <1>7 DEF Slots!Answer, SlotsInv, Slots!input
  <2>2. QED
    BY <1>0, <2>1 DEF SlotsInv, SlotsType, Slots!OfferIsExact
<1>8. QED
  BY <1>1, <1>2, <1>3, <1>4, <1>5, <1>6, <1>7 DEF Slots!Next

(* The slots begin with the invariant, and it is about them only. *)
LEMMA SlotsBridge ==
  /\ Slots!Init => SlotsInv
  /\ SlotsInv /\ UNCHANGED Slots!vars => SlotsInv'
<1>1. Slots!Init => SlotsInv
  <2> SUFFICES ASSUME Slots!Init PROVE SlotsInv
    OBVIOUS
  <2>1. PICK regular \in Slots!Few(Slots!Regular), extra \in Slots!Few(Slots!Late) :
          hours = [x \in Slots!Day |-> IF x = Slots!Today THEN regular \cup extra ELSE regular]
    BY DEF Slots!Init
  <2>2. hours \in [Slots!Day -> SUBSET Slots!Shift]
    BY <2>1 DEF Slots!Few, Slots!Regular, Slots!Late
  <2>3. busy \in SUBSET Slots!Interval
    BY DEF Slots!Init, Slots!Few, Slots!Near
  <2>4. Slots!Today \in Slots!Day /\ Slots!DayStart(Slots!Today) \in Int /\ Slots!DayEnd(Slots!Today) \in Int
    BY Days, SlotAssumption DEF Slots!Today, Slots!Day
  <2>5. PICK lead \in Slots!Leads : earliest = lead[1] /\ latest = lead[2]
    BY DEF Slots!Init
  <2>6. earliest \in Int /\ latest \in Int
    BY <2>4, <2>5 DEF Slots!Leads
  <2>7. QED
    BY <2>2, <2>3, <2>4, <2>6 DEF Slots!Init, SlotsInv, SlotsType, Slots!OfferIsExact
<1>2. SlotsInv /\ UNCHANGED Slots!vars => SlotsInv'
  <2> SUFFICES ASSUME SlotsInv, UNCHANGED Slots!vars PROVE SlotsInv'
    OBVIOUS
  <2>1. UNCHANGED <<hours, busy, earliest, latest, phase, query, loaded, todo, shift, cursor, offer>>
    BY DEF Slots!vars, Slots!input
  <2>2. \A d, staff : Slots!Offered(d, staff)' = Slots!Offered(d, staff)
    BY <2>1, SameInput
  <2>3. \A d : Slots!BusyOn(d)' = Slots!BusyOn(d)
    BY <2>1 DEF Slots!BusyOn
  <2>4. \A d, s, t : Slots!Start(d, s, t)' = Slots!Start(d, s, t)
    BY DEF Slots!Start
  <2>5. Asked' = Asked
    BY <2>1 DEF Asked
  <2>6. WalkInv => WalkInv'
    BY <2>1, <2>2, <2>3, <2>4, <2>5 DEF WalkInv
  <2>7. QED
    BY <2>1, <2>2, <2>5, <2>6 DEF SlotsInv, SlotsType, Slots!OfferIsExact
<1>3. QED
  BY <1>1, <1>2

-----------------------------------------------------------------------------
(* A query under the parameters of its context reaches its tenant's rows.  *)
LEMMA ScopeBridge ==
  /\ Scope!Init => ScopeInv
  /\ ScopeInv /\ Scope!Next => ScopeInv'
  /\ ScopeInv => Scope!TenantIsolation
<1> USE DEF Scope!Use, Scope!Idle, Scope!Unset
<1>1. Scope!Init => ScopeInv
  <2> SUFFICES ASSUME Scope!Init PROVE ScopeInv
    OBVIOUS
  <2>1. contexts \in [Call -> Seq(Scope!Context)]
    BY DEF Scope!Init
  <2>2. \A k \in Scope!Conn : conn[k] = [context |-> "none", ready |-> FALSE,
                                         settings |-> [tenant |-> "none", bypass |-> FALSE]]
    BY DEF Scope!Init
  <2>3. DOMAIN conn = Scope!Conn /\ reached = {}
    BY DEF Scope!Init
  <2>4. [tenant |-> "none", bypass |-> FALSE] \in Scope!Settings
    BY DEF Scope!Settings
  <2>5. \A k \in Scope!Conn :
          /\ conn[k] \in [context : Scope!Context \cup {"none"}, ready : BOOLEAN, settings : Scope!Settings]
          /\ ~conn[k].ready /\ conn[k].settings = Scope!Unset
    <3> TAKE k \in Scope!Conn
    <3> DEFINE u == [context |-> "none", ready |-> FALSE, settings |-> Scope!Unset]
    <3>1. conn[k] = u
      BY <2>2
    <3>2. u \in [context : Scope!Context \cup {"none"}, ready : BOOLEAN, settings : Scope!Settings]
      BY <2>4
    <3>3. ~u.ready /\ u.settings = Scope!Unset
      OBVIOUS
    <3>4. QED
      BY <3>1, <3>2, <3>3
  <2>6. Scope!TenantIsolation
    BY <2>3 DEF Scope!TenantIsolation
  <2>7. \A k \in Scope!Conn :
          /\ conn[k].ready => conn[k].context # "none"
          /\ ~conn[k].ready => conn[k].settings = Scope!Unset
          /\ conn[k].ready /\ conn[k].context # "platform" =>
               conn[k].settings = [tenant |-> conn[k].context, bypass |-> FALSE]
    BY <2>5
  <2>8. QED
    BY <2>1, <2>3, <2>5, <2>6, <2>7 DEF ScopeInv
<1>2. ScopeInv /\ Scope!Next => ScopeInv'
  <2> SUFFICES ASSUME ScopeInv, Scope!Next PROVE ScopeInv'
    OBVIOUS
  <2>1. ASSUME NEW c \in Call, NEW x \in Scope!Context, Scope!Enter(c, x) PROVE ScopeInv'
    BY <2>1 DEF Scope!Enter, ScopeInv, Scope!TenantIsolation
  <2>2. ASSUME NEW c \in Call, Scope!Leave(c) PROVE ScopeInv'
    BY <2>2 DEF Scope!Leave, ScopeInv, Scope!TenantIsolation
  <2>3. ASSUME NEW c \in Call, NEW k \in Scope!Conn, Scope!Begin(c, k) PROVE ScopeInv'
    <3>1. Head(contexts[c]) \in Scope!Context
      BY <2>3 DEF Scope!Begin, ScopeInv
    <3>2. QED
      BY <2>3, <3>1 DEF Scope!Begin, ScopeInv, Scope!TenantIsolation
  <2>4. ASSUME NEW k \in Scope!Conn, Scope!Configure(k) PROVE ScopeInv'
    <3> DEFINE own == conn[k].context
               old == conn[k].settings
               after == Scope!Configured(own, old)
    <3>1. own \in Scope!Context \cup {"none"} /\ old \in Scope!Settings /\ own # "none"
      BY <2>4 DEF Scope!Configure, ScopeInv
    <3>2. conn' = [conn EXCEPT ![k] = [context |-> own, ready |-> TRUE, settings |-> after]] /\ UNCHANGED <<contexts, reached>>
      BY <2>4 DEF Scope!Configure
    <3> HIDE DEF own, old
    <3>3. own = "platform" => after \in Scope!Settings
      <4>1. [old EXCEPT !.bypass = TRUE] \in Scope!Settings
        BY <3>1 DEF Scope!Settings
      <4>2. QED
        BY <4>1 DEF Scope!Configured
    <3>4. own # "platform" => after \in Scope!Settings /\ after = [tenant |-> own, bypass |-> FALSE]
      <4>1. own # "platform" => own \in Scope!Tenant
        BY <3>1 DEF Scope!Context
      <4>2. own # "platform" => after = [tenant |-> own, bypass |-> FALSE]
        BY Zenon DEF Scope!Configured
      <4>3. own # "platform" => [tenant |-> own, bypass |-> FALSE] \in Scope!Settings
        BY <4>1 DEF Scope!Settings
      <4> HIDE DEF after
      <4>4. QED
        BY <4>2, <4>3
    <3> HIDE DEF after
    <3>5. DOMAIN conn' = Scope!Conn /\ \A m \in Scope!Conn : m # k => conn'[m] = conn[m]
      BY <3>2 DEF ScopeInv
    <3>6. conn'[k] = [context |-> own, ready |-> TRUE, settings |-> after]
      BY <3>2 DEF ScopeInv
    <3>7. conn'[k] \in [context : Scope!Context \cup {"none"}, ready : BOOLEAN, settings : Scope!Settings]
      BY <3>1, <3>3, <3>4, <3>6
    <3>8. conn'[k].ready /\ conn'[k].context = own /\ conn'[k].settings = after
      BY <3>6
    <3>9. QED
      BY <3>1, <3>2, <3>4, <3>5, <3>7, <3>8 DEF ScopeInv, Scope!TenantIsolation
  <2>5. ASSUME NEW k \in Scope!Conn, Scope!End(k) PROVE ScopeInv'
    BY <2>5 DEF Scope!End, Scope!Restored, ScopeInv, Scope!TenantIsolation, Scope!Settings
  <2>6. ASSUME NEW k \in Scope!Conn, NEW op \in Scope!Operation, Scope!Query(k, op) PROVE ScopeInv'
    <3> DEFINE x == conn[k].context
               o == Scope!Written(x, op)
    <3>1. x \in Scope!Context /\ conn[k].ready /\ UNCHANGED <<contexts, conn>>
      BY <2>6 DEF Scope!Query, ScopeInv
    <3>2. ASSUME x # "platform", NEW w, Scope!Admitted(conn[k].settings, w) PROVE w = x
      <4>1. conn[k].settings = [tenant |-> x, bypass |-> FALSE]
        BY <3>1, <3>2 DEF ScopeInv
      <4>2. QED
        BY <3>2, <4>1 DEF Scope!Admitted
    <3>3. CASE op.kind = "find"
      <4>1. reached' = reached \cup Scope!By(x, op.row)
        BY <2>6, <3>3 DEF Scope!Query
      <4>2. x # "platform" => op.row = x
        BY <2>6, <3>2, <3>3 DEF Scope!Query
      <4>3. QED
        BY <3>1, <4>1, <4>2 DEF ScopeInv, Scope!TenantIsolation, Scope!By
    <3>4. CASE op.kind # "find"
      <4>1. /\ reached' = reached \cup Scope!By(x, o) \cup ({<<o, op.parent>>} \ {<<o, "none">>})
            /\ Scope!Admitted(conn[k].settings, o) /\ Scope!Linked(x, o, op)
        BY <2>6, <3>4 DEF Scope!Query
      <4>2. \A r \in Scope!By(x, o) : r[1] = r[2]
        BY <3>2, <4>1 DEF Scope!By
      <4>3. \A r \in {<<o, op.parent>>} \ {<<o, "none">>} : r[1] = r[2]
        <5>1. CASE op.parent = "none" \/ op.parent = o
          BY <5>1
        <5>2. CASE x # "platform" /\ <<x, op.parent>> \in reached
          <6>1. o = x
            BY <3>2, <4>1, <5>2
          <6>2. x = op.parent
            BY <5>2 DEF ScopeInv, Scope!TenantIsolation
          <6>3. QED
            BY <6>1, <6>2
        <5>3. QED
          BY <4>1, <5>1, <5>2 DEF Scope!Linked
      <4>4. QED
        BY <3>1, <4>1, <4>2, <4>3 DEF ScopeInv, Scope!TenantIsolation
    <3>5. QED
      BY <3>3, <3>4
  <2>7. ASSUME NEW k \in Scope!Conn, NEW o \in Scope!Tenant, Scope!Plain(k, o) PROVE ScopeInv'
    <3>1. conn[k].settings.tenant # o /\ ~conn[k].settings.bypass
      BY <2>7 DEF Scope!Plain, ScopeInv, Scope!Tenant
    <3>2. QED
      BY <2>7, <3>1 DEF Scope!Plain, Scope!Admitted
  <2>8. QED
    BY <2>1, <2>2, <2>3, <2>4, <2>5, <2>6, <2>7 DEF Scope!Next
<1>3. ScopeInv => Scope!TenantIsolation
  BY DEF ScopeInv
<1>4. QED
  BY <1>1, <1>2, <1>3

-----------------------------------------------------------------------------
(* A rounded percentage of an amount is at most the amount up to 100 %.    *)
LEMMA Rounding ==
  ASSUME NEW a \in Nat, NEW v \in Nat
  PROVE  /\ Money!PercentOf(a, v) \in Nat
         /\ v <= 100 => Money!PercentOf(a, v) <= a
<1>1. \A b \in Nat : (2 * b + 100) \div 200 \in Nat /\ (b <= 100 * a => (2 * b + 100) \div 200 <= a)
  OBVIOUS
<1>2. a * v \in Nat /\ (v <= 100 => a * v <= 100 * a)
  <2>1. v <= 100 => a * (100 - v) \in Nat
    BY v <= 100 => 100 - v \in Nat
  <2>2. a * (100 - v) = 100 * a - a * v
    OBVIOUS
  <2>3. a * v \in Nat
    OBVIOUS
  <2>4. QED
    BY <2>1, <2>2, <2>3
<1>3. QED
  BY <1>1, <1>2 DEF Money!PercentOf

(* What a coupon or a fee is worth, in cents or percent. *)
LEMMA ValuesAreNat == \A v \in Money!Value : v \in Nat
<1>1. \A v \in Price : v \in Nat
  BY PriceAssumption
<1>2. \A v \in Percent : v \in Nat
  BY PriceAssumption
<1>3. QED
  BY <1>1, <1>2 DEF Money!Value

(* No coupon takes off more than the price. *)
LEMMA DiscountBounded ==
  ASSUME NEW p \in Nat, NEW c \in Money!Voucher
  PROVE  Money!Discount(c, p) \in Nat /\ Money!Discount(c, p) <= p
<1>1. c.value \in Nat
  BY ValuesAreNat DEF Money!Voucher
<1>2. Money!PercentOf(p, c.value) \in Nat
  BY <1>1, Rounding
<1>3. QED
  BY <1>1, <1>2 DEF Money!Discount, Money!AtMost

(* No mode of payment charges more than is left of it. *)
LEMMA ChargeBounded ==
  ASSUME NEW p \in Nat, NEW m \in Money!Mode, NEW d \in Percent \cup {0}
  PROVE  Money!ChargeAmount(p, m, d) \in Nat /\ Money!ChargeAmount(p, m, d) <= p
<1>1. d \in Nat /\ d <= 100
  BY PriceAssumption
<1>2. QED
  BY <1>1, Rounding DEF Money!ChargeAmount

(* No rule asks a fee of more than that. *)
LEMMA FeeBounded ==
  ASSUME NEW p \in Nat, NEW r \in Money!Fee
  PROVE  Money!FeeInCents(p, r) \in Nat /\ Money!FeeInCents(p, r) <= p
<1>1. r.value \in Nat
  BY ValuesAreNat DEF Money!Fee
<1>2. Money!AtMost(r.value, 100) \in Nat /\ Money!AtMost(r.value, 100) <= 100 /\ Money!AtMost(r.value, p) \in Nat /\ Money!AtMost(r.value, p) <= p
  BY <1>1 DEF Money!AtMost
<1>3. Money!PercentOf(p, Money!AtMost(r.value, 100)) \in Nat /\ Money!PercentOf(p, Money!AtMost(r.value, 100)) <= p
  BY <1>2, Rounding
<1>4. QED
  BY <1>2, <1>3 DEF Money!FeeInCents

(* No edit, reading, payment or cancellation breaks the amounts.           *)
LEMMA MoneyStep == MoneyInv /\ Money!Next => MoneyInv'
<1> SUFFICES ASSUME MoneyInv, Money!Next PROVE MoneyInv'
  OBVIOUS
<1>0. /\ price \in Nat /\ preview.price \in Nat /\ preview.discount \in Nat
      /\ preview \in [price : Price, coupon : BOOLEAN, discount : Nat]
  BY PriceAssumption DEF MoneyInv, Money!TypeOK
<1> USE DEF Money!Unbooked, Money!Unread, Money!paid
<1>1. ASSUME NEW p \in Price, Money!UpdateService(p) PROVE MoneyInv'
  BY <1>1, <1>0 DEF Money!UpdateService, MoneyInv, Money!TypeOK, Money!WithinPrice, Money!ChargedAsShown, Money!Shown, Money!Payable
<1>2. ASSUME NEW c \in Money!Voucher, Money!UpdateCoupon(c) PROVE MoneyInv'
  BY <1>2, <1>0 DEF Money!UpdateCoupon, MoneyInv, Money!TypeOK, Money!WithinPrice, Money!ChargedAsShown, Money!Shown, Money!Payable
<1>3. ASSUME Money!LoadPage PROVE MoneyInv'
  BY <1>3, <1>0 DEF Money!LoadPage, MoneyInv, Money!TypeOK, Money!WithinPrice, Money!ChargedAsShown, Money!Shown, Money!Payable
<1>4. ASSUME Money!ApplyCoupon PROVE MoneyInv'
  <2>1. Money!Discount(voucher, price) \in Nat
    BY <1>0, DiscountBounded DEF MoneyInv, Money!TypeOK
  <2>2. QED
    BY <1>4, <1>0, <2>1 DEF Money!ApplyCoupon, MoneyInv, Money!TypeOK, Money!WithinPrice, Money!ChargedAsShown, Money!Shown, Money!Payable
<1>5. ASSUME NEW m \in Money!Mode, NEW d \in Percent \cup {0}, NEW o \in BOOLEAN, Money!ReadService(m, d, o) PROVE MoneyInv'
  BY <1>5, <1>0 DEF Money!ReadService, MoneyInv, Money!TypeOK, Money!WithinPrice, Money!ChargedAsShown, Money!Shown, Money!Payable
<1>6. ASSUME Money!Throw PROVE MoneyInv'
  BY <1>6, <1>0 DEF Money!Throw, MoneyInv, Money!TypeOK, Money!WithinPrice, Money!ChargedAsShown, Money!Shown, Money!Payable
<1>7. ASSUME Money!Insert PROVE MoneyInv'
  <2> DEFINE discount == IF preview.coupon THEN Money!Discount(voucher, inHand.price) ELSE 0
             rest == inHand.price - discount
             charge == Money!ChargeAmount(rest, inHand.mode, inHand.deposit)
  <2>0. inHand \in [reading : {TRUE}, price : Price, mode : Money!Mode, deposit : Percent \cup {0}, online : BOOLEAN]
        /\ account = Money!Unbooked
    BY <1>7 DEF Money!Insert, MoneyInv, Money!TypeOK
  <2>1. inHand.price \in Price /\ inHand.price \in Nat /\ inHand.mode \in Money!Mode /\ inHand.deposit \in Percent \cup {0}
    BY <2>0, PriceAssumption
  <2>2. discount \in Nat /\ discount <= inHand.price
    BY <2>1, DiscountBounded DEF MoneyInv, Money!TypeOK
  <2>3. rest \in Nat
    BY <2>1, <2>2
  <2>4. charge \in Nat /\ charge <= rest
    BY <2>1, <2>3, ChargeBounded
  <2> HIDE DEF discount, charge
  <2>5. account' = [status |-> IF inHand.online THEN "PENDING_PAYMENT" ELSE "CONFIRMED",
                    price |-> inHand.price, discount |-> discount,
                    online |-> IF inHand.online THEN charge ELSE 0, received |-> 0, fee |-> 0]
    BY <1>7 DEF Money!Insert, discount, charge
  <2>6a. collected' = 0
    BY <1>7, <2>0 DEF Money!Insert, MoneyInv
  <2>6. account' \in Money!Amount /\ Money!WithinPrice' /\ Money!Payable' = rest
    BY <2>1, <2>2, <2>3, <2>4, <2>5, <2>6a DEF Money!Amount, Money!WithinPrice, Money!Payable
  <2>7. ~moved => rest = agreed
    <3>1. CASE ~moved /\ preview.coupon
      BY <2>0, <2>1, <2>2, <3>1, <1>0, <1>7 DEF Money!Insert, MoneyInv, Money!Shown, discount
    <3>2. CASE ~moved /\ ~preview.coupon
      BY <2>0, <2>1, <3>2, <1>0, <1>7 DEF Money!Insert, MoneyInv, Money!Shown, discount
    <3>3. QED
      BY <3>1, <3>2
  <2>8. account' # Money!Unbooked
    BY <2>5
  <2>9. UNCHANGED <<price, voucher, preview, shownStatus, hoursLeft, agreed, moved, collected, overwritten>> /\ inHand' = Money!Unread
    BY <1>7 DEF Money!Insert
  <2>10. Money!ChargedAsShown'
    BY <2>6, <2>7, <2>9 DEF Money!ChargedAsShown
  <2>11. Money!TypeOK'
    BY <2>6, <2>9 DEF MoneyInv, Money!TypeOK
  <2>12. QED
    BY <2>6, <2>8, <2>9, <2>10, <2>11 DEF MoneyInv
<1>8. ASSUME NEW kept \in Money!Amount, account # Money!Unbooked, Money!Change(kept), kept.price = account.price, kept.discount = account.discount,
             kept.online <= Money!Payable, kept.received <= Money!Payable, kept.fee <= Money!Payable,
             collected' \in Nat, overwritten' \in BOOLEAN, ~overwritten' => collected' = kept.received
      PROVE MoneyInv'
  <2>1. account' = kept /\ account \in Money!Amount
        /\ UNCHANGED <<price, voucher, preview, inHand, shownStatus, hoursLeft, agreed, moved>>
    BY <1>8 DEF Money!Change, MoneyInv, Money!TypeOK
  <2>2. kept # Money!Unbooked
    BY DEF Money!Amount
  <2>3. Money!WithinPrice' /\ Money!Payable' = Money!Payable
    BY <1>8, <2>1 DEF Money!WithinPrice, Money!Payable, MoneyInv
  <2>4. Money!ChargedAsShown'
    BY <1>8, <2>1, <2>3 DEF Money!ChargedAsShown, MoneyInv
  <2>5. Money!TypeOK'
    BY <1>8, <2>1 DEF Money!TypeOK, MoneyInv
  <2>6. QED
    BY <2>1, <2>2, <2>3, <2>4, <2>5 DEF MoneyInv
<1>9. ASSUME account \in Money!Amount, account # Money!Unbooked
      PROVE  /\ Money!Payable \in Nat
             /\ account.online <= Money!Payable /\ account.received <= Money!Payable /\ account.fee <= Money!Payable
             /\ ~overwritten => collected = account.received
             /\ collected \in Nat /\ account.received \in Nat /\ account.online \in Nat
  <2>1. account.price \in Nat /\ account.discount \in Nat
    BY <1>9, PriceAssumption DEF Money!Amount
  <2>2. account.discount <= account.price /\ account.online <= Money!Payable /\ account.received <= Money!Payable /\ account.fee <= Money!Payable
    BY <1>9 DEF MoneyInv, Money!WithinPrice
  <2>3. ~overwritten => collected = account.received
    BY <1>9 DEF MoneyInv, Money!WithinPrice
  <2>4. collected \in Nat /\ account.received \in Nat /\ account.online \in Nat
    BY <1>9 DEF MoneyInv, Money!TypeOK, Money!Amount
  <2>5. QED
    BY <2>1, <2>2, <2>3, <2>4 DEF Money!Payable
<1>9a. overwritten \in BOOLEAN
  BY DEF MoneyInv, Money!TypeOK
<1>17. account.status \in Money!Cancellable => account \in Money!Amount /\ account # Money!Unbooked
  BY DEF Money!Cancellable, MoneyInv, Money!TypeOK
<1>10. ASSUME Money!PayOnline PROVE MoneyInv'
  <2> DEFINE kept == [account EXCEPT !.status = "CONFIRMED", !.received = account.online]
  <2>1. account \in Money!Amount /\ account # Money!Unbooked /\ account.online <= Money!Payable /\ account.fee <= Money!Payable
    BY <1>10, <1>9, <1>17 DEF Money!PayOnline, Money!Cancellable
  <2>2. kept \in Money!Amount /\ kept.price = account.price /\ kept.discount = account.discount
        /\ kept.online <= Money!Payable /\ kept.received <= Money!Payable /\ kept.fee <= Money!Payable
    BY <2>1 DEF Money!Amount
  <2>3. collected' = collected + account.online /\ overwritten' = (overwritten \/ account.received > 0) /\ Money!Change(kept)
    BY <1>10 DEF Money!PayOnline
  <2>4. collected \in Nat /\ account.received \in Nat /\ account.online \in Nat
    BY <2>1, <1>9
  <2>5. kept.received = account.online
    BY <2>1 DEF Money!Amount
  <2>6. collected' \in Nat
    BY <2>3, <2>4
  <2>6a. overwritten' \in BOOLEAN
    <3>1. overwritten' = TRUE \/ overwritten' = FALSE
      BY <2>3
    <3>2. QED
      BY <3>1
  <2>7. ~overwritten' => collected' = kept.received
    <3>1. ~overwritten => collected = account.received
      BY <1>9, <2>1
    <3>2. ~overwritten' => ~overwritten /\ ~(account.received > 0)
      BY <2>3
    <3>3. ~(account.received > 0) => account.received = 0
      BY <2>4
    <3>4. QED
      BY <2>3, <2>4, <2>5, <3>1, <3>2, <3>3
  <2>9. Money!Change(kept)
    BY <2>3
  <2> HIDE DEF kept
  <2>8. QED
    BY <1>8, <2>1, <2>2, <2>6, <2>6a, <2>7, <2>9
<1>11. ASSUME Money!HoldRunsOut PROVE MoneyInv'
  <2> DEFINE kept == [account EXCEPT !.status = "CANCELLED"]
  <2>1. account \in Money!Amount /\ account # Money!Unbooked /\ account.online <= Money!Payable /\ account.received <= Money!Payable
        /\ account.fee <= Money!Payable
    BY <1>11, <1>9, <1>17 DEF Money!HoldRunsOut, Money!Cancellable
  <2>2. kept \in Money!Amount /\ kept.price = account.price /\ kept.discount = account.discount
        /\ kept.online <= Money!Payable /\ kept.received <= Money!Payable /\ kept.fee <= Money!Payable
    BY <2>1 DEF Money!Amount
  <2>3. Money!Change(kept) /\ UNCHANGED <<collected, overwritten>> /\ kept.received = account.received
    BY <1>11, <2>1 DEF Money!HoldRunsOut, Money!Amount
  <2>4. QED
    BY <1>8, <1>9, <1>9a, <2>1, <2>2, <2>3
<1>12. ASSUME Money!RecordOnSitePayment PROVE MoneyInv'
  <2> DEFINE kept == [account EXCEPT !.received = @ + Money!Outstanding]
  <2>1. account \in Money!Amount /\ account # Money!Unbooked /\ account.online <= Money!Payable /\ account.received <= Money!Payable
        /\ account.fee <= Money!Payable /\ Money!Payable \in Nat
    BY <1>12, <1>9, <1>17 DEF Money!RecordOnSitePayment
  <2>2. account.received + Money!Outstanding \in Nat /\ account.received + Money!Outstanding <= Money!Payable
    BY <2>1 DEF Money!Outstanding, Money!Amount
  <2>3. kept \in Money!Amount /\ kept.price = account.price /\ kept.discount = account.discount
        /\ kept.online <= Money!Payable /\ kept.received <= Money!Payable /\ kept.fee <= Money!Payable
    BY <2>1, <2>2 DEF Money!Amount
  <2>4. /\ Money!Change(kept) /\ collected' = collected + Money!Outstanding /\ UNCHANGED overwritten
        /\ kept.received = account.received + Money!Outstanding
    BY <1>12, <2>1 DEF Money!RecordOnSitePayment, Money!Amount
  <2>5. Money!Outstanding \in Nat
    BY <2>1, <1>9 DEF Money!Outstanding
  <2>6. collected' \in Nat /\ (~overwritten' => collected' = kept.received)
    BY <1>9, <2>1, <2>4, <2>5
  <2>7. QED
    BY <1>8, <1>9a, <2>1, <2>3, <2>4, <2>6
<1>13. ASSUME Money!ListBookings \/ Money!HourPasses PROVE MoneyInv'
  <2>1. UNCHANGED <<price, voucher, preview, inHand, account, agreed, moved, collected, overwritten>>
    BY <1>13 DEF Money!ListBookings, Money!HourPasses
  <2>2. shownStatus' \in {"none", "PENDING_PAYMENT", "CONFIRMED", "CANCELLED"} /\ (account = Money!Unbooked => shownStatus' = "none")
    BY <1>13 DEF Money!ListBookings, Money!HourPasses, MoneyInv, Money!TypeOK, Money!Amount
  <2>3. hoursLeft' \in 0 .. Money!Horizon
    BY <1>13 DEF Money!ListBookings, Money!HourPasses, MoneyInv, Money!TypeOK, Money!Horizon
  <2>4. Money!TypeOK'
    BY <2>1, <2>2, <2>3 DEF MoneyInv, Money!TypeOK
  <2>5. Money!Shown' = Money!Shown /\ Money!Payable' = Money!Payable
    BY <2>1 DEF Money!Shown, Money!Payable
  <2>6. Money!WithinPrice' /\ Money!ChargedAsShown'
    BY <2>1, <2>5 DEF MoneyInv, Money!WithinPrice, Money!ChargedAsShown
  <2>7. QED
    BY <2>1, <2>2, <2>4, <2>5, <2>6 DEF MoneyInv
<1>14. ASSUME NEW r \in Money!Fee, Money!Cancel(r) PROVE MoneyInv'
  <2> DEFINE fee == IF hoursLeft >= r.free THEN 0 ELSE Money!FeeInCents(Money!Payable, r)
             kept == [account EXCEPT !.status = "CANCELLED", !.fee = fee]
  <2>1. account \in Money!Amount /\ account # Money!Unbooked
    BY <1>14 DEF MoneyInv, Money!TypeOK, Money!Cancel, Money!Cancellable
  <2>2. account.online <= Money!Payable /\ account.received <= Money!Payable /\ Money!Payable \in Nat
    BY <2>1, <1>9
  <2>3. fee \in Nat /\ fee <= Money!Payable
    <3>1. Money!FeeInCents(Money!Payable, r) \in Nat /\ Money!FeeInCents(Money!Payable, r) <= Money!Payable
      BY <2>2, FeeBounded
    <3>2. QED
      BY <2>2, <3>1
  <2> HIDE DEF fee
  <2>4. kept \in Money!Amount /\ kept.price = account.price /\ kept.discount = account.discount
        /\ kept.online <= Money!Payable /\ kept.received <= Money!Payable /\ kept.fee <= Money!Payable
    BY <2>1, <2>2, <2>3 DEF Money!Amount
  <2>5. Money!Change(kept) /\ UNCHANGED <<collected, overwritten>> /\ kept.received = account.received
    BY <1>14, <2>1 DEF Money!Cancel, fee, Money!Amount
  <2>6. QED
    BY <1>8, <1>9, <1>9a, <2>1, <2>4, <2>5
<1>16. QED
  BY <1>1, <1>2, <1>3, <1>4, <1>5, <1>6, <1>7, <1>10, <1>11, <1>12, <1>13, <1>14 DEF Money!Next

(* The amounts begin with the invariant. *)
LEMMA MoneyBridge ==
  /\ Money!Init => MoneyInv
  /\ MoneyInv /\ UNCHANGED money => MoneyInv'
<1>1. Money!Init => MoneyInv
  <2> SUFFICES ASSUME Money!Init PROVE MoneyInv
    OBVIOUS
  <2>1. preview \in [price : Price, coupon : BOOLEAN, discount : Nat]
    BY DEF Money!Init
  <2>2. Money!TypeOK
    <3>1. /\ price \in Price /\ voucher \in Money!Voucher /\ shownStatus = "none"
          /\ inHand = Money!Unread /\ account = Money!Unbooked
      BY DEF Money!Init
    <3>2. hoursLeft = Money!Horizon /\ agreed = 0 /\ moved = FALSE
      BY DEF Money!Init
    <3>3. hoursLeft \in 0 .. Money!Horizon /\ agreed \in Nat
      BY <3>2 DEF Money!Horizon
    <3>4. moved \in BOOLEAN
      BY <3>2
    <3>6. collected = 0 /\ overwritten = FALSE
      BY DEF Money!Init
    <3>7. collected \in Nat
      BY <3>6
    <3>8. overwritten \in BOOLEAN
      BY <3>6
    <3>5. QED
      BY <2>1, <3>1, <3>3, <3>4, <3>7, <3>8 DEF Money!TypeOK
  <2>3. ~preview.coupon /\ preview.discount = 0 /\ preview.price = price
    BY DEF Money!Init
  <2>4. QED
    BY <2>2, <2>3 DEF Money!Init, MoneyInv, Money!WithinPrice, Money!ChargedAsShown
<1>2. MoneyInv /\ UNCHANGED money => MoneyInv'
  <2> SUFFICES ASSUME MoneyInv, UNCHANGED money PROVE MoneyInv'
    OBVIOUS
  <2>1. UNCHANGED <<price, voucher, preview, inHand, account, shownStatus, hoursLeft, agreed, moved, collected, overwritten>>
    BY DEF money
  <2>2. Money!TypeOK' /\ Money!Shown' = Money!Shown /\ Money!Payable' = Money!Payable
    BY <2>1 DEF MoneyInv, Money!TypeOK, Money!Shown, Money!Payable
  <2>3. Money!WithinPrice' /\ Money!ChargedAsShown'
    BY <2>1, <2>2 DEF MoneyInv, Money!WithinPrice, Money!ChargedAsShown
  <2>4. QED
    BY <2>1, <2>2, <2>3 DEF MoneyInv
<1>3. QED
  BY <1>1, <1>2

-----------------------------------------------------------------------------
(* A control is pending while it awaits a call. *)
LEMMA PendingIs ==
  PanelType => \A k : Panel!Pending(k) <=> \E i \in 1 .. Len(jobs) : jobs[i].control = k /\ jobs[i].from = "own"
BY DEF PanelType, Panel!Pending

(* A control is used. *)
LEMMA ExecuteInv ==
  ASSUME PanelInv, NEW k \in Panel!Control, NEW v \in Panel!Value, Panel!Execute(k, v),
         Panel!Pending(k) => k = "cover",
         k = "listed" => v = 1 - chosen["listed"],
         uploads' \subseteq uploads, UNCHANGED <<stored, prop, setByOwner, elsewhere, astray>>
  PROVE  PanelInv'
<1> DEFINE n == Len(jobs)
           new == [control |-> k, value |-> v, from |-> "own"]
<1>0. PanelType /\ jobs \in Seq(Job) /\ n \in Nat /\ new \in Job
  BY DEF PanelInv, PanelType, Job
<1>1. /\ Len(jobs') = n + 1
      /\ jobs' \in Seq(Job)
      /\ \A i \in 1 .. n : jobs'[i] = jobs[i]
      /\ jobs'[n + 1] = new
  BY <1>0 DEF Panel!Execute
<1>2. /\ chosen' \in [Panel!Control -> Panel!Value] /\ chosen'[k] = v
      /\ \A c \in Panel!Control : c # k => chosen'[c] = chosen[c]
  BY <1>0 DEF Panel!Execute, PanelType, Panel!TypeOK
<1>t. setByOwner' \in BOOLEAN
  BY <1>0 DEF PanelType, Panel!TypeOK
<1>3. PanelType'
  BY <1>0, <1>1, <1>2, <1>t DEF PanelType, Panel!TypeOK, Job
<1>4. \A i \in 1 .. n : jobs[i] \in Job
  BY <1>0
<1>n. new.control = k /\ new.from = "own" /\ new.value = v
  OBVIOUS
<1>5. \A c : (\E i \in 1 .. n + 1 : jobs'[i].control = c /\ jobs'[i].from = "own")
               <=> c = k \/ \E i \in 1 .. n : jobs[i].control = c /\ jobs[i].from = "own"
  <2> HIDE DEF new, n
  <2>2. QED
    BY <1>0, <1>1, <1>n
<1>6. \A c : Panel!Pending(c)' <=> c = k \/ Panel!Pending(c)
  BY <1>0, <1>1, <1>3, <1>5, PendingIs DEF PanelType, Panel!Pending
<1> HIDE DEF new
<1>7. \A i, j \in 1 .. Len(jobs') :
        jobs'[i].from = "own" /\ jobs'[j].from = "own" /\ jobs'[i].control = jobs'[j].control => i = j \/ jobs'[i].control = "cover"
  <2>1. \A i \in 1 .. n : jobs[i].control = k /\ jobs[i].from = "own" => k = "cover"
    BY <1>0, PendingIs
  <2>2. \A i, j \in 1 .. n :
          jobs[i].from = "own" /\ jobs[j].from = "own" /\ jobs[i].control = jobs[j].control => i = j \/ jobs[i].control = "cover"
    BY DEF PanelInv
  <2>3. QED
    BY <1>0, <1>1, <1>n, <2>1, <2>2
<1>8. \A i \in 1 .. Len(jobs') : jobs'[i].from = "own" /\ LastOf(i)' => jobs'[i].value = chosen'[jobs'[i].control]
  <2> SUFFICES ASSUME NEW i \in 1 .. n + 1, jobs'[i].from = "own", LastOf(i)' PROVE jobs'[i].value = chosen'[jobs'[i].control]
    BY <1>1
  <2>1. CASE i = n + 1
    BY <1>1, <1>2, <1>n, <2>1
  <2>2. CASE i # n + 1
    <3>1. i \in 1 .. n /\ jobs'[i] = jobs[i]
      BY <1>0, <1>1, <2>2
    <3>2. jobs[i].control # k
      BY <1>0, <1>1, <1>n, <3>1 DEF LastOf
    <3>3. LastOf(i)
      BY <1>0, <1>1, <3>1 DEF LastOf
    <3>4. QED
      BY <1>2, <1>4, <3>1, <3>2, <3>3 DEF PanelInv, Job
  <2>3. QED
    BY <2>1, <2>2
<1>9. Panel!Pending("listed")' => "listed" \in elsewhere' \cup astray' \/ chosen'["listed"] = 1 - stored'["listed"]
  <2>1. CASE k = "listed"
    <3>1. "listed" \in elsewhere \cup astray \/ chosen["listed"] = stored["listed"]
      BY <2>1 DEF PanelInv, Panel!ShownIsStored, Panel!Control
    <3>2. QED
      BY <1>2, <2>1, <3>1
  <2>2. CASE k # "listed"
    BY <1>2, <1>6, <2>2 DEF PanelInv, Panel!Control
  <2>3. QED
    BY <2>1, <2>2
<1>10. Panel!ShownIsStored'
  BY <1>2, <1>6 DEF PanelInv, Panel!ShownIsStored
<1>11. \A i \in 1 .. Len(jobs') : jobs'[i].from = "left" => jobs'[i].control \in astray'
  BY <1>0, <1>1, <1>n DEF PanelInv
<1>12. QED
  BY <1>3, <1>7, <1>8, <1>9, <1>10, <1>11 DEF PanelInv

(* The image of a form that has been left arrives. *)
LEMMA LeftInv ==
  ASSUME PanelInv, "left" \in uploads, uploads' = uploads \ {"left"},
         jobs' = Append(jobs, [control |-> "cover", value |-> 1, from |-> "left"]),
         UNCHANGED <<stored, chosen, prop, setByOwner, elsewhere, astray>>
  PROVE  PanelInv'
<1> DEFINE n == Len(jobs)
           new == [control |-> "cover", value |-> 1, from |-> "left"]
<1>0. PanelType /\ jobs \in Seq(Job) /\ n \in Nat /\ new \in Job
  BY DEF PanelInv, PanelType, Job, Panel!Control, Panel!Value
<1>1. /\ Len(jobs') = n + 1
      /\ jobs' \in Seq(Job)
      /\ \A i \in 1 .. n : jobs'[i] = jobs[i]
      /\ jobs'[n + 1] = new
  BY <1>0
<1>n. new.control = "cover" /\ new.from = "left"
  OBVIOUS
<1> HIDE DEF new
<1>t. setByOwner' \in BOOLEAN
  BY <1>0 DEF PanelType, Panel!TypeOK
<1>2. PanelType'
  BY <1>0, <1>1, <1>t DEF PanelType, Panel!TypeOK, Job
<1>3. \A c : (\E i \in 1 .. n + 1 : jobs'[i].control = c /\ jobs'[i].from = "own")
               <=> \E i \in 1 .. n : jobs[i].control = c /\ jobs[i].from = "own"
  <2> HIDE DEF n
  <2>1. QED
    BY <1>0, <1>1, <1>n
<1>4. \A c : Panel!Pending(c)' <=> Panel!Pending(c)
  BY <1>0, <1>1, <1>2, <1>3, PendingIs DEF PanelType, Panel!Pending
<1>5. \A i, j \in 1 .. Len(jobs') :
        jobs'[i].from = "own" /\ jobs'[j].from = "own" /\ jobs'[i].control = jobs'[j].control => i = j \/ jobs'[i].control = "cover"
  BY <1>0, <1>1, <1>n DEF PanelInv
<1>6. \A i \in 1 .. Len(jobs') : jobs'[i].from = "own" /\ LastOf(i)' => jobs'[i].value = chosen'[jobs'[i].control]
  <2> SUFFICES ASSUME NEW i \in 1 .. n + 1, jobs'[i].from = "own", LastOf(i)' PROVE jobs'[i].value = chosen[jobs'[i].control]
    BY <1>1
  <2>1. i \in 1 .. n /\ jobs'[i] = jobs[i]
    BY <1>0, <1>1, <1>n
  <2>2. LastOf(i)
    BY <1>0, <1>1, <2>1 DEF LastOf
  <2>3. QED
    BY <2>1, <2>2 DEF PanelInv
<1>7. \A i \in 1 .. Len(jobs') : jobs'[i].from = "left" => jobs'[i].control \in astray'
  BY <1>0, <1>1, <1>n DEF PanelInv
<1>8. Panel!ShownIsStored'
  BY <1>4 DEF PanelInv, Panel!ShownIsStored
<1>9. QED
  BY <1>2, <1>4, <1>5, <1>6, <1>7, <1>8 DEF PanelInv

(* A panel is left and opened again. *)
LEMMA ReturnInv ==
  ASSUME PanelInv, NEW panel_ \in Panel!Panels, Panel!Return(panel_)
  PROVE  PanelInv'
<1> DEFINE n == Len(jobs)
           p == panel_
<1>0. PanelType /\ jobs \in Seq(Job) /\ n \in Nat /\ DOMAIN jobs = 1 .. n /\ p \subseteq Panel!Control
  BY DEF PanelInv, PanelType, Panel!Panels, Panel!Control
<1> HIDE DEF n, p
<1>1. /\ chosen' = [k \in Panel!Control |-> IF k \in p THEN prop[k] ELSE chosen[k]]
      /\ jobs' = [i \in 1 .. n |-> IF jobs[i].control \in p THEN [jobs[i] EXCEPT !.from = "left"] ELSE jobs[i]]
      /\ uploads' = IF "cover" \in p /\ uploads # {} THEN {"left"} ELSE uploads
      /\ astray' = (astray \ p) \cup {k \in p : (\E i \in 1 .. n : jobs[i].control = k) \/ (k = "cover" /\ uploads # {})}
      /\ UNCHANGED <<stored, prop, setByOwner, elsewhere>>
  BY <1>0 DEF Panel!Return, p
<1>2. \A i \in 1 .. n :
        /\ jobs[i] \in Job /\ jobs'[i] \in Job
        /\ jobs'[i].control = jobs[i].control /\ jobs'[i].value = jobs[i].value
        /\ jobs'[i].from = "own" <=> jobs[i].from = "own" /\ jobs[i].control \notin p
  <2> SUFFICES ASSUME NEW i \in 1 .. n
               PROVE  /\ jobs[i] \in Job /\ jobs'[i] \in Job
                      /\ jobs'[i].control = jobs[i].control /\ jobs'[i].value = jobs[i].value
                      /\ jobs'[i].from = "own" <=> jobs[i].from = "own" /\ jobs[i].control \notin p
    OBVIOUS
  <2>1. jobs[i] \in Job
    BY <1>0 DEF n
  <2>2. jobs'[i] = IF jobs[i].control \in p THEN [jobs[i] EXCEPT !.from = "left"] ELSE jobs[i]
    BY <1>1
  <2>3. QED
    BY <2>1, <2>2 DEF Job
<1>3. jobs' \in Seq(Job) /\ Len(jobs') = n /\ DOMAIN jobs' = 1 .. n
  <2>1. jobs' \in [1 .. n -> Job]
    BY <1>1, <1>2
  <2>2. QED
    BY <1>0, <2>1
<1>t. setByOwner' \in BOOLEAN
  BY <1>0, <1>1 DEF PanelType, Panel!TypeOK
<1>c. chosen' \in [Panel!Control -> Panel!Value] /\ \A k \in Panel!Control : chosen'[k] = IF k \in p THEN prop[k] ELSE chosen[k]
  BY <1>0, <1>1 DEF PanelType, Panel!TypeOK
<1>4. PanelType'
  <2>1. jobs' \in Seq([control : Panel!Control, value : Panel!Value, from : {"own", "left"}])
    BY <1>3 DEF Job
  <2>2. uploads' \in SUBSET {"own", "left"} /\ astray' \in SUBSET Panel!Control
    BY <1>0, <1>1 DEF PanelType, Panel!TypeOK
  <2>3. QED
    BY <1>0, <1>1, <1>3, <1>t, <1>c, <2>1, <2>2 DEF PanelType, Panel!TypeOK
<1>5. \A c : Panel!Pending(c)' <=> c \notin p /\ Panel!Pending(c)
  BY <1>0, <1>2, <1>3 DEF Panel!Pending
<1>6. \A i, j \in 1 .. n :
        jobs'[i].from = "own" /\ jobs'[j].from = "own" /\ jobs'[i].control = jobs'[j].control => i = j \/ jobs'[i].control = "cover"
  BY <1>2 DEF PanelInv, n
<1>7. \A i \in 1 .. n : jobs'[i].from = "own" /\ LastOf(i)' => jobs'[i].value = chosen'[jobs'[i].control]
  <2> SUFFICES ASSUME NEW i \in 1 .. n, jobs'[i].from = "own", LastOf(i)' PROVE jobs'[i].value = chosen'[jobs'[i].control]
    OBVIOUS
  <2>1. jobs[i].from = "own" /\ jobs[i].control \notin p /\ jobs[i].control \in Panel!Control
    BY <1>2 DEF Job
  <2>2. LastOf(i)
    <3> SUFFICES ASSUME NEW j \in 1 .. n, j > i, jobs[j].control = jobs[i].control PROVE jobs[j].from = "left"
      BY DEF LastOf, n
    <3>1. jobs'[j].from = "left"
      BY <1>2, <1>3 DEF LastOf
    <3>2. QED
      BY <1>2, <2>1, <3>1 DEF Job
  <2>3. QED
    BY <1>2, <1>c, <2>1, <2>2 DEF PanelInv, n
<1>8. \A i \in 1 .. n : jobs'[i].from = "left" => jobs'[i].control \in astray'
  <2> SUFFICES ASSUME NEW i \in 1 .. n, jobs'[i].from = "left" PROVE jobs[i].control \in astray'
    BY <1>2
  <2>1. CASE jobs[i].control \in p
    BY <1>1, <2>1
  <2>2. CASE jobs[i].control \notin p
    <3>1. jobs[i].from = "left"
      BY <1>2, <2>2 DEF Job
    <3>2. QED
      BY <1>1, <2>2, <3>1 DEF PanelInv, n
  <2>3. QED
    BY <2>1, <2>2
<1>9. "left" \in uploads' => "cover" \in astray'
  <2>1. CASE "cover" \in p
    BY <1>1, <2>1
  <2>2. CASE "cover" \notin p
    BY <1>1, <2>2 DEF PanelInv
  <2>3. QED
    BY <2>1, <2>2
<1>10. Panel!Pending("listed")' => "listed" \in elsewhere' \cup astray' \/ chosen'["listed"] = 1 - stored'["listed"]
  BY <1>1, <1>5, <1>c DEF PanelInv, Panel!Control
<1>11. Panel!ShownIsStored'
  <2> SUFFICES ASSUME NEW k \in Panel!Control, ~Panel!Pending(k)', k \notin elsewhere, k \notin astray' PROVE chosen'[k] = stored[k]
    BY <1>1 DEF Panel!ShownIsStored
  <2>1. CASE k \in p
    BY <1>c, <2>1 DEF PanelInv
  <2>2. CASE k \notin p
    <3>1. ~Panel!Pending(k) /\ k \notin astray
      BY <1>1, <1>5, <2>2
    <3>2. QED
      BY <1>c, <2>2, <3>1 DEF PanelInv, Panel!ShownIsStored
  <2>3. QED
    BY <2>1, <2>2
<1>12. QED
  BY <1>1, <1>3, <1>4, <1>6, <1>7, <1>8, <1>9, <1>10, <1>11 DEF PanelInv

(* The oldest answer is taken off the queue. *)
LEMMA AnswerTaken ==
  ASSUME PanelInv, jobs # <<>>, jobs' = Tail(jobs)
  PROVE  LET k == Head(jobs).control
             own == Head(jobs).from = "own"
         IN  /\ Head(jobs) \in Job /\ jobs' \in Seq(Job)
             /\ \A c : Panel!Pending(c)' => Panel!Pending(c)
             /\ \A c : c # k \/ ~own => (Panel!Pending(c)' <=> Panel!Pending(c))
             /\ own => Panel!Pending(k)
             /\ \A c : own /\ c = k /\ c # "cover" => ~Panel!Pending(c)'
             /\ \A c : own /\ c = k /\ ~Panel!Pending(c)' => Head(jobs).value = chosen[c]
             /\ ~own => k \in astray
             /\ \A i, j \in 1 .. Len(jobs') :
                  jobs'[i].from = "own" /\ jobs'[j].from = "own" /\ jobs'[i].control = jobs'[j].control
                    => i = j \/ jobs'[i].control = "cover"
             /\ \A i \in 1 .. Len(jobs') : jobs'[i].from = "own" /\ LastOf(i)' => jobs'[i].value = chosen[jobs'[i].control]
             /\ \A i \in 1 .. Len(jobs') :
                  /\ jobs'[i].control \in Panel!Control
                  /\ \A c : c = jobs'[i].control /\ jobs'[i].from = "own" => Panel!Pending(c)'
                  /\ \E j \in DOMAIN jobs : jobs'[i] = jobs[j]
<1> DEFINE n == Len(jobs)
           k == Head(jobs).control
           own == Head(jobs).from = "own"
<1>0. PanelType /\ jobs \in Seq(Job) /\ n \in Nat \ {0} /\ Head(jobs) = jobs[1] /\ jobs[1] \in Job /\ DOMAIN jobs = 1 .. n
  BY DEF PanelInv, PanelType
<1>1. /\ jobs' \in Seq(Job) /\ Len(jobs') = n - 1
      /\ \A i \in 1 .. n - 1 : jobs'[i] = jobs[i + 1] /\ i + 1 \in 1 .. n
  BY <1>0
<1>2. \A j \in 1 .. n : j = 1 \/ (j - 1 \in 1 .. n - 1 /\ jobs'[j - 1] = jobs[j])
  BY <1>0, <1>1
<1>3. \A c : Panel!Pending(c) <=> \E i \in 1 .. n : jobs[i].control = c /\ jobs[i].from = "own"
  BY <1>0, PendingIs
<1>4. \A c : Panel!Pending(c)' <=> \E i \in 1 .. n - 1 : jobs'[i].control = c /\ jobs'[i].from = "own"
  <2>1. DOMAIN jobs' = 1 .. n - 1
    BY <1>1
  <2>2. QED
    BY <2>1 DEF Panel!Pending
<1>f. k = jobs[1].control /\ (own <=> jobs[1].from = "own") /\ 1 \in 1 .. n
  BY <1>0
<1>g. n \in Nat \ {0} /\ \A i \in 1 .. n : jobs[i] \in Job
  BY <1>0
<1> HIDE DEF n, k, own
<1>5. /\ \A c : Panel!Pending(c)' => Panel!Pending(c)
      /\ \A c : c # k \/ ~own => (Panel!Pending(c)' <=> Panel!Pending(c))
  <2>1. ASSUME NEW c, Panel!Pending(c)' PROVE Panel!Pending(c)
    <3>1. PICK i \in 1 .. n - 1 : jobs'[i].control = c /\ jobs'[i].from = "own"
      BY <1>4, <2>1
    <3>2. QED
      BY <1>1, <1>3, <3>1
  <2>2. ASSUME NEW c, Panel!Pending(c), c # k \/ ~own PROVE Panel!Pending(c)'
    <3>1. PICK i \in 1 .. n : jobs[i].control = c /\ jobs[i].from = "own"
      BY <1>3, <2>2
    <3>2. i # 1
      BY <1>f, <2>2, <3>1
    <3>3. i - 1 \in 1 .. n - 1 /\ jobs'[i - 1] = jobs[i]
      BY <1>2, <3>2
    <3>4. QED
      BY <1>4, <3>1, <3>3
  <2>3. QED
    BY <2>1, <2>2
<1>6. own => Panel!Pending(k)
  BY <1>3, <1>f
<1>7. \A c : own /\ c = k /\ c # "cover" => ~Panel!Pending(c)'
  <2>a. ASSUME NEW c, own, c = k, c # "cover", NEW i \in 1 .. n - 1, jobs'[i].control = c, jobs'[i].from = "own" PROVE FALSE
    <3>1. jobs'[i] = jobs[i + 1] /\ i + 1 \in 1 .. n
      BY <1>1
    <3>2. i + 1 # 1
      BY <1>g
    <3>3. jobs[i + 1].control = jobs[1].control /\ jobs[i + 1].from = "own"
      BY <1>f, <2>a, <3>1
    <3>4. jobs[1].from = "own" /\ jobs[1].control # "cover"
      BY <1>f, <2>a
    <3>5. \A x, y \in 1 .. n :
            jobs[x].from = "own" /\ jobs[y].from = "own" /\ jobs[x].control = jobs[y].control => x = y \/ jobs[x].control = "cover"
      BY DEF PanelInv, n
    <3>6. QED
      BY <1>f, <3>1, <3>2, <3>3, <3>4, <3>5
  <2>1. QED
    BY <1>4, <2>a
<1>8. \A c : own /\ c = k /\ ~Panel!Pending(c)' => Head(jobs).value = chosen[c]
  <2>a. ASSUME NEW c, own, c = k, ~Panel!Pending(c)' PROVE jobs[1].value = chosen[jobs[1].control]
    <3>n. \A i \in 1 .. n - 1 : ~(jobs'[i].control = c /\ jobs'[i].from = "own")
      BY <1>4, <2>a
    <3>1. ASSUME NEW j \in 1 .. n, j > 1 PROVE jobs[j].control # jobs[1].control \/ jobs[j].from = "left"
      <4>n. n \in Nat
        BY <1>g
      <4>j. j # 1
        BY <3>1, <4>n
      <4>1. j - 1 \in 1 .. n - 1 /\ jobs'[j - 1] = jobs[j]
        BY <1>2, <4>j
      <4>2. jobs[j].control # c \/ jobs[j].from # "own"
        BY <3>n, <4>1
      <4>3. jobs[j].from \in {"own", "left"}
        BY <1>g DEF Job
      <4>4. QED
        BY <1>f, <2>a, <4>2, <4>3
    <3>2. LastOf(1)
      BY <3>1 DEF LastOf, n
    <3>3. QED
      BY <1>f, <2>a, <3>2 DEF PanelInv, n
  <2>1. QED
    BY <1>0, <1>f, <2>a
<1>s. ~own => k \in astray
  BY <1>f, <1>g DEF PanelInv, n, Job
<1>9. \A i, j \in 1 .. n - 1 :
        jobs'[i].from = "own" /\ jobs'[j].from = "own" /\ jobs'[i].control = jobs'[j].control => i = j \/ jobs'[i].control = "cover"
  BY <1>0, <1>1 DEF PanelInv, n
<1>10. ASSUME NEW i \in 1 .. n - 1, jobs'[i].from = "own", LastOf(i)' PROVE jobs'[i].value = chosen[jobs'[i].control]
  <2>1. \A j \in 1 .. n : j > i + 1 => jobs[j].control # jobs[i + 1].control \/ jobs[j].from = "left"
    <3> SUFFICES ASSUME NEW j \in 1 .. n, j > i + 1 PROVE jobs[j].control # jobs[i + 1].control \/ jobs[j].from = "left"
      OBVIOUS
    <3>1. j - 1 \in 1 .. n - 1 /\ j - 1 > i /\ jobs'[j - 1] = jobs[j] /\ jobs'[i] = jobs[i + 1]
      BY <1>1, <1>2
    <3>2. \A x \in 1 .. n - 1 : x > i => jobs'[x].control # jobs'[i].control \/ jobs'[x].from = "left"
      BY <1>1, <1>10 DEF LastOf
    <3>3. QED
      BY <3>1, <3>2
  <2>2. LastOf(i + 1)
    BY <2>1 DEF LastOf, n
  <2>3. QED
    BY <1>1, <1>10, <2>2 DEF PanelInv, n
<1>11. \A i \in 1 .. n - 1 : /\ jobs'[i].control \in Panel!Control
                             /\ \A c : c = jobs'[i].control /\ jobs'[i].from = "own" => Panel!Pending(c)'
                             /\ \E j \in DOMAIN jobs : jobs'[i] = jobs[j]
  <2>1. \A i \in 1 .. n - 1 : jobs'[i] \in Job
    BY <1>1
  <2>2. \A i \in 1 .. n - 1 : \A c : c = jobs'[i].control /\ jobs'[i].from = "own" => Panel!Pending(c)'
    BY <1>4
  <2>3. QED
    BY <1>0, <1>1, <2>1, <2>2 DEF Job
<1>12. Head(jobs) \in Job
  BY <1>0
<1>13. 1 .. Len(jobs') = 1 .. n - 1 /\ jobs' \in Seq(Job)
  BY <1>1
<1>14. QED
  BY <1>5, <1>6, <1>7, <1>8, <1>s, <1>9, <1>10, <1>11, <1>12, <1>13 DEF k, own

(* No use, tab, answer, refusal or other browser breaks the controls. *)
LEMMA PanelStep == PanelInv /\ Panel!Next => PanelInv'
<1> SUFFICES ASSUME PanelInv, Panel!Next PROVE PanelInv'
  OBVIOUS
<1>0. PanelType
  BY DEF PanelInv
<1>1. CASE Panel!ToggleListed
  <2>1. 1 - chosen["listed"] \in Panel!Value
    BY <1>0 DEF PanelType, Panel!TypeOK, Panel!Control, Panel!Value
  <2>2. QED
    BY <1>1, <2>1, ExecuteInv DEF Panel!ToggleListed, Panel!Control
<1>2. ASSUME NEW v \in Panel!Value, Panel!ChangeCategory(v) \/ Panel!ChangeStatus(v) PROVE PanelInv'
  BY <1>2, ExecuteInv DEF Panel!ChangeCategory, Panel!ChangeStatus, Panel!Control
<1>3. CASE Panel!CoverUploaded \/ Panel!RemoveCover
  <2>1. UNCHANGED <<stored, prop, setByOwner, elsewhere, astray>>
    BY <1>3 DEF Panel!CoverUploaded, Panel!RemoveCover
  <2>2. CASE \E v \in Panel!Value : Panel!Execute("cover", v) /\ uploads' \subseteq uploads
    BY <2>1, <2>2, ExecuteInv DEF Panel!Control
  <2>3. CASE ~\E v \in Panel!Value : Panel!Execute("cover", v) /\ uploads' \subseteq uploads
    <3>1. /\ "left" \in uploads /\ uploads' = uploads \ {"left"} /\ UNCHANGED chosen
          /\ jobs' = Append(jobs, [control |-> "cover", value |-> 1, from |-> "left"])
      BY <1>3, <2>3 DEF Panel!CoverUploaded, Panel!RemoveCover, Panel!Value
    <3>2. QED
      BY <2>1, <3>1, LeftInv
  <2>4. QED
    BY <2>2, <2>3
<1>4. CASE Panel!UploadCover \/ Panel!UploadFails
  <2>1. /\ UNCHANGED <<stored, chosen, prop, setByOwner, jobs, elsewhere, astray>>
        /\ uploads' \in SUBSET {"own", "left"} /\ ("left" \in uploads' => "left" \in uploads)
    BY <1>0, <1>4 DEF Panel!UploadCover, Panel!UploadFails, PanelType, Panel!TypeOK
  <2>2. setByOwner' \in BOOLEAN
    BY <1>0, <2>1 DEF PanelType, Panel!TypeOK
  <2>3. PanelType'
    BY <1>0, <2>1, <2>2 DEF PanelType, Panel!TypeOK
  <2>4. QED
    BY <2>1, <2>3 DEF PanelInv, Panel!ShownIsStored, Panel!Pending, LastOf
<1>5. CASE Panel!Done
  <2> DEFINE first == Head(jobs)
             k == first.control
             values == [stored EXCEPT ![k] = first.value]
  <2>1. /\ jobs # <<>> /\ jobs' = Tail(jobs)
        /\ stored' = values \/ stored' = [values EXCEPT !["listed"] = 1]
        /\ prop' \in {values, stored'}
        /\ elsewhere' = (elsewhere \ {k}) \cup {c \in Panel!Control : stored'[c] # values[c]}
        /\ UNCHANGED <<chosen, uploads>>
    BY <1>5 DEF Panel!Done, Panel!Render, Panel!AutoList
  <2>a. /\ astray' = astray \/ astray' = astray \ {k}
        /\ astray' # astray =>
             /\ ~("left" \in uploads /\ k = "cover")
             /\ \A i \in DOMAIN jobs : jobs[i].control = k => jobs[i].from # "left"
    BY <1>5 DEF Panel!Done
  <2>2. /\ first \in Job /\ jobs' \in Seq(Job)
        /\ \A c : Panel!Pending(c)' => Panel!Pending(c)
        /\ \A c : c # k \/ first.from # "own" => (Panel!Pending(c)' <=> Panel!Pending(c))
        /\ \A c : first.from = "own" /\ c = k /\ c # "cover" => ~Panel!Pending(c)'
        /\ \A c : first.from = "own" /\ c = k /\ ~Panel!Pending(c)' => first.value = chosen[c]
        /\ first.from # "own" => k \in astray
        /\ \A i, j \in 1 .. Len(jobs') :
             jobs'[i].from = "own" /\ jobs'[j].from = "own" /\ jobs'[i].control = jobs'[j].control => i = j \/ jobs'[i].control = "cover"
        /\ \A i \in 1 .. Len(jobs') : jobs'[i].from = "own" /\ LastOf(i)' => jobs'[i].value = chosen[jobs'[i].control]
        /\ \A i \in 1 .. Len(jobs') : \E j \in DOMAIN jobs : jobs'[i] = jobs[j]
    BY <2>1, AnswerTaken
  <2>b. first = jobs[1] /\ 1 \in DOMAIN jobs /\ DOMAIN jobs = 1 .. Len(jobs)
    BY <1>0, <2>1 DEF PanelType
  <2> HIDE DEF first
  <2>3. k \in Panel!Control /\ first.value \in Panel!Value
    BY <2>2 DEF Job
  <2>v. values \in [Panel!Control -> Panel!Value] /\ values[k] = first.value /\ \A c \in Panel!Control : c # k => values[c] = stored[c]
    BY <1>0, <2>3 DEF PanelType, Panel!TypeOK
  <2> HIDE DEF values
  <2>4. /\ stored' \in [Panel!Control -> Panel!Value] /\ prop' \in [Panel!Control -> Panel!Value]
        /\ \A c \in Panel!Control : c \notin elsewhere' => stored'[c] = values[c] /\ prop'[c] = values[c]
    BY <2>1, <2>v DEF Panel!Value
  <2>t. setByOwner' \in BOOLEAN
    BY <1>5 DEF Panel!Done
  <2>5. PanelType'
    <3>1. elsewhere' \in SUBSET Panel!Control /\ astray' \in SUBSET Panel!Control
      BY <1>0, <2>1, <2>a DEF PanelType, Panel!TypeOK
    <3>2. jobs' \in Seq([control : Panel!Control, value : Panel!Value, from : {"own", "left"}])
      BY <2>2 DEF Job
    <3>3. QED
      BY <1>0, <2>1, <2>2, <2>4, <2>t, <3>1, <3>2 DEF PanelType, Panel!TypeOK
  <2>c. \A c \in Panel!Control : c # k /\ c \notin elsewhere' \cup astray' => stored'[c] = stored[c] /\ c \notin elsewhere \cup astray
    BY <2>1, <2>a, <2>4, <2>v
  <2>6. Panel!Pending("listed")' => "listed" \in elsewhere' \cup astray' \/ chosen'["listed"] = 1 - stored'["listed"]
    <3> SUFFICES ASSUME Panel!Pending("listed")', "listed" \notin elsewhere' \cup astray' PROVE chosen["listed"] = 1 - stored'["listed"]
      BY <2>1
    <3>1. CASE k = "listed"
      <4>1. first.from # "own"
        BY <2>2, <3>1
      <4>2. astray' # astray /\ first.from = "left"
        BY <2>2, <3>1, <4>1 DEF Job
      <4>3. QED
        BY <2>a, <2>b, <4>2
    <3>2. CASE k # "listed"
      BY <2>2, <2>c, <3>2 DEF PanelInv, Panel!Control
    <3>3. QED
      BY <3>1, <3>2
  <2>7. Panel!ShownIsStored'
    <3> SUFFICES ASSUME NEW c \in Panel!Control, ~Panel!Pending(c)', c \notin elsewhere' \cup astray' PROVE chosen[c] = stored'[c]
      BY <2>1 DEF Panel!ShownIsStored
    <3>1. CASE c = k
      <4>1. first.from = "own"
        <5> SUFFICES ASSUME first.from # "own" PROVE FALSE
          OBVIOUS
        <5>1. first.from = "left" /\ astray' # astray
          BY <2>2, <3>1 DEF Job
        <5>2. QED
          BY <2>a, <2>b, <5>1
      <4>2. QED
        BY <2>2, <2>4, <2>v, <3>1, <4>1
    <3>2. CASE c # k
      <4>1. ~Panel!Pending(c)
        BY <2>2, <3>2
      <4>2. QED
        BY <2>c, <3>2, <4>1 DEF PanelInv, Panel!ShownIsStored
    <3>3. QED
      BY <3>1, <3>2
  <2>8. \A c \in Panel!Control : c \in elsewhere' \/ prop'[c] = stored'[c]
    BY <2>4
  <2>9. \A i \in 1 .. Len(jobs') : jobs'[i].from = "left" => jobs'[i].control \in astray'
    <3> SUFFICES ASSUME NEW i \in 1 .. Len(jobs'), jobs'[i].from = "left" PROVE jobs'[i].control \in astray'
      OBVIOUS
    <3>1. PICK j \in DOMAIN jobs : jobs'[i] = jobs[j]
      BY <2>2
    <3>2. jobs[j].control \in astray
      BY <2>b, <3>1 DEF PanelInv
    <3>3. QED
      BY <2>a, <3>1, <3>2
  <2>10. "left" \in uploads' => "cover" \in astray'
    BY <2>1, <2>a DEF PanelInv
  <2>11. QED
    BY <2>1, <2>2, <2>5, <2>6, <2>7, <2>8, <2>9, <2>10 DEF PanelInv
<1>6. CASE Panel!Refused
  <2> DEFINE first == Head(jobs)
             k == first.control
  <2>1. jobs # <<>> /\ jobs' = Tail(jobs) /\ UNCHANGED <<stored, prop, setByOwner, uploads, elsewhere>>
    BY <1>6 DEF Panel!Refused
  <2>2. /\ first \in Job /\ jobs' \in Seq(Job)
        /\ \A c : Panel!Pending(c)' => Panel!Pending(c)
        /\ \A c : c # k \/ first.from # "own" => (Panel!Pending(c)' <=> Panel!Pending(c))
        /\ first.from = "own" => Panel!Pending(k)
        /\ \A c : first.from = "own" /\ c = k /\ c # "cover" => ~Panel!Pending(c)'
        /\ \A i, j \in 1 .. Len(jobs') :
             jobs'[i].from = "own" /\ jobs'[j].from = "own" /\ jobs'[i].control = jobs'[j].control => i = j \/ jobs'[i].control = "cover"
        /\ \A i \in 1 .. Len(jobs') : jobs'[i].from = "own" /\ LastOf(i)' => jobs'[i].value = chosen[jobs'[i].control]
        /\ \A i \in 1 .. Len(jobs') : /\ jobs'[i].control \in Panel!Control
                                      /\ \A c : c = jobs'[i].control /\ jobs'[i].from = "own" => Panel!Pending(c)'
                                      /\ \E j \in DOMAIN jobs : jobs'[i] = jobs[j]
    BY <2>1, AnswerTaken
  <2>b. DOMAIN jobs = 1 .. Len(jobs)
    BY <1>0 DEF PanelType
  <2>c. \/ first.from = "left" /\ UNCHANGED <<chosen, astray>>
        \/ first.from = "own" /\ k = "listed" /\ chosen' = [chosen EXCEPT !["listed"] = 1 - @] /\ UNCHANGED astray
        \/ first.from = "own" /\ k = "status" /\ chosen' = [chosen EXCEPT !["status"] = prop["status"]] /\ UNCHANGED astray
        \/ first.from = "own" /\ k \in {"category", "cover"} /\ astray' = astray \cup {k} /\ UNCHANGED chosen
    BY <1>6, <2>2 DEF Panel!Refused, Job, Panel!Control
  <2> HIDE DEF first
  <2>3. k \in Panel!Control
    BY <2>2 DEF Job
  <2>4. /\ chosen' \in [Panel!Control -> Panel!Value]
        /\ \A c \in Panel!Control : c # k \/ first.from = "left" => chosen'[c] = chosen[c]
        /\ k = "cover" => chosen'[k] = chosen[k]
        /\ first.from = "own" /\ k = "listed" => chosen'[k] = 1 - chosen[k]
        /\ first.from = "own" /\ k = "status" => chosen'[k] = prop[k]
    <3>1. chosen \in [Panel!Control -> 0 .. 1] /\ prop \in [Panel!Control -> 0 .. 1] /\ 1 - chosen["listed"] \in 0 .. 1
      BY <1>0 DEF PanelType, Panel!TypeOK, Panel!Control, Panel!Value
    <3>2. CASE first.from = "left" /\ chosen' = chosen
      BY <3>1, <3>2 DEF Panel!Value
    <3>3. CASE first.from = "own" /\ k \in {"category", "cover"} /\ chosen' = chosen
      BY <3>1, <3>3 DEF Panel!Value
    <3>4. CASE first.from = "own" /\ k = "listed" /\ chosen' = [chosen EXCEPT !["listed"] = 1 - chosen["listed"]]
      BY <3>1, <3>4 DEF Panel!Value, Panel!Control
    <3>5. CASE first.from = "own" /\ k = "status" /\ chosen' = [chosen EXCEPT !["status"] = prop["status"]]
      BY <3>1, <3>5 DEF Panel!Value, Panel!Control
    <3>6. QED
      BY <2>c, <3>2, <3>3, <3>4, <3>5
  <2>d. /\ astray \subseteq astray' /\ astray' \subseteq Panel!Control
        /\ first.from = "own" /\ k \in {"category", "cover"} => k \in astray'
    BY <1>0, <2>c, <2>3 DEF PanelType, Panel!TypeOK
  <2>t. setByOwner' \in BOOLEAN
    BY <1>0, <2>1 DEF PanelType, Panel!TypeOK
  <2>5. PanelType'
    <3>1. jobs' \in Seq([control : Panel!Control, value : Panel!Value, from : {"own", "left"}])
      BY <2>2 DEF Job
    <3>2. QED
      BY <1>0, <2>1, <2>2, <2>4, <2>d, <2>t, <3>1 DEF PanelType, Panel!TypeOK
  <2>6. \A i \in 1 .. Len(jobs') : jobs'[i].from = "own" /\ LastOf(i)' => jobs'[i].value = chosen'[jobs'[i].control]
    <3> SUFFICES ASSUME NEW i \in 1 .. Len(jobs'), jobs'[i].from = "own", LastOf(i)' PROVE jobs'[i].value = chosen'[jobs'[i].control]
      OBVIOUS
    <3>1. jobs'[i].control \in Panel!Control /\ jobs'[i].value = chosen[jobs'[i].control]
      BY <2>2
    <3>2. jobs'[i].control # k \/ first.from = "left" \/ k = "cover"
      <4>1. \A c : c = jobs'[i].control => Panel!Pending(c)'
        BY <2>2
      <4>2. \A c : first.from = "own" /\ c = k /\ c # "cover" => ~Panel!Pending(c)'
        BY <2>2
      <4>3. first.from \in {"own", "left"}
        BY <2>2 DEF Job
      <4>4. QED
        BY <4>1, <4>2, <4>3
    <3>3. QED
      BY <2>4, <2>d, <3>1, <3>2
  <2>7. Panel!Pending("listed")' => "listed" \in elsewhere' \cup astray' \/ chosen'["listed"] = 1 - stored'["listed"]
    <3> SUFFICES ASSUME Panel!Pending("listed")', "listed" \notin elsewhere \cup astray' PROVE chosen'["listed"] = 1 - stored["listed"]
      BY <2>1
    <3>1. k # "listed" \/ first.from = "left"
      BY <2>2 DEF Job
    <3>2. Panel!Pending("listed") /\ "listed" \notin astray /\ chosen'["listed"] = chosen["listed"]
      BY <2>2, <2>4, <2>d, <3>1 DEF Panel!Control
    <3>3. QED
      BY <3>2 DEF PanelInv
  <2>8. Panel!ShownIsStored'
    <3> SUFFICES ASSUME NEW c \in Panel!Control, ~Panel!Pending(c)', c \notin elsewhere \cup astray' PROVE chosen'[c] = stored[c]
      BY <2>1 DEF Panel!ShownIsStored
    <3>1. CASE c # k \/ first.from = "left"
      <4>1. ~Panel!Pending(c) /\ c \notin astray /\ chosen'[c] = chosen[c]
        BY <2>2, <2>4, <2>d, <3>1
      <4>2. QED
        BY <4>1 DEF PanelInv, Panel!ShownIsStored
    <3>2. CASE c = k /\ first.from # "left"
      <4>1. first.from = "own" /\ k \in {"listed", "status"} /\ Panel!Pending(k) /\ k \notin astray /\ k \notin elsewhere
        BY <2>2, <2>4, <2>d, <3>2 DEF Job, Panel!Control
      <4>2. CASE k = "listed"
        <5>1. chosen["listed"] = 1 - stored["listed"]
          BY <4>1, <4>2 DEF PanelInv
        <5>2. chosen'[c] = 1 - chosen["listed"] /\ stored["listed"] \in 0 .. 1
          BY <1>0, <2>4, <2>d, <3>2, <4>1, <4>2 DEF PanelType, Panel!TypeOK, Panel!Value, Panel!Control
        <5>3. QED
          BY <3>2, <4>2, <5>1, <5>2
      <4>3. CASE k = "status"
        BY <2>3, <2>4, <2>d, <3>2, <4>1, <4>3 DEF PanelInv
      <4>4. QED
        BY <4>1, <4>2, <4>3
    <3>3. QED
      BY <3>1, <3>2
  <2>9. \A i \in 1 .. Len(jobs') : jobs'[i].from = "left" => jobs'[i].control \in astray'
    BY <2>2, <2>b, <2>4, <2>d DEF PanelInv
  <2>10. QED
    BY <2>1, <2>2, <2>4, <2>d, <2>5, <2>6, <2>7, <2>8, <2>9 DEF PanelInv
<1>7. ASSUME NEW k \in Panel!Control, NEW v \in Panel!Value, Panel!ChangeElsewhere(k, v) PROVE PanelInv'
  <2>1. /\ stored' = [stored EXCEPT ![k] = v] /\ elsewhere' = elsewhere \cup {k}
        /\ UNCHANGED <<chosen, prop, jobs, uploads, astray>>
    BY <1>7 DEF Panel!ChangeElsewhere
  <2>2. stored' \in [Panel!Control -> Panel!Value] /\ \A c \in Panel!Control : c # k => stored'[c] = stored[c]
    BY <1>0, <2>1 DEF PanelType, Panel!TypeOK
  <2>t. setByOwner' \in BOOLEAN
    <3>1. setByOwner \in BOOLEAN
      BY <1>0 DEF PanelType, Panel!TypeOK
    <3>2. setByOwner' \in IF k = "listed" /\ v = 1 THEN {TRUE, setByOwner} ELSE {setByOwner \/ k = "listed"}
      BY <1>7 DEF Panel!ChangeElsewhere
    <3>3. QED
      BY <3>1, <3>2
  <2>3. PanelType'
    BY <1>0, <2>1, <2>2, <2>t DEF PanelType, Panel!TypeOK
  <2>4. QED
    BY <2>1, <2>2, <2>3 DEF PanelInv, Panel!ShownIsStored, Panel!Pending, LastOf, Panel!Control
<1>8. CASE Panel!Reload
  <2>1. /\ jobs = <<>> /\ uploads = {} /\ UNCHANGED <<setByOwner, jobs, uploads>> /\ astray' = {}
        /\ stored' = stored \/ stored' = [stored EXCEPT !["listed"] = 1]
        /\ prop' \in {stored, stored'} /\ chosen' = prop'
        /\ elsewhere' = {c \in Panel!Control : prop'[c] # stored'[c]}
    BY <1>8 DEF Panel!Reload, Panel!Render, Panel!AutoList
  <2>2. stored' \in [Panel!Control -> Panel!Value] /\ prop' \in [Panel!Control -> Panel!Value]
    BY <1>0, <2>1 DEF PanelType, Panel!TypeOK, Panel!Value
  <2>t. setByOwner' \in BOOLEAN
    BY <1>0, <2>1 DEF PanelType, Panel!TypeOK
  <2>3. PanelType'
    BY <1>0, <2>1, <2>2, <2>t DEF PanelType, Panel!TypeOK
  <2>4. \A c : ~Panel!Pending(c)'
    BY <2>1 DEF Panel!Pending
  <2>5. Len(jobs') = 0
    BY <2>1
  <2>6. Panel!ShownIsStored' /\ \A c \in Panel!Control : c \in elsewhere' \/ prop'[c] = stored'[c]
    BY <2>1 DEF Panel!ShownIsStored
  <2>7. QED
    BY <2>1, <2>3, <2>4, <2>5, <2>6 DEF PanelInv
<1>9. ASSUME NEW panel_ \in Panel!Panels, Panel!Return(panel_) PROVE PanelInv'
  BY <1>9, ReturnInv
<1>10. QED
  BY <1>1, <1>2, <1>3, <1>4, <1>5, <1>6, <1>7, <1>8, <1>9 DEF Panel!Next

(* The controls begin with the invariant. *)
LEMMA PanelBridge ==
  /\ Panel!Init => PanelInv
  /\ PanelInv /\ UNCHANGED panel => PanelInv'
<1>1. Panel!Init => PanelInv
  <2> SUFFICES ASSUME Panel!Init PROVE PanelInv
    OBVIOUS
  <2>1. jobs = <<>> /\ Len(jobs) = 0 /\ jobs \in Seq(Job) /\ jobs \in Seq([control : Panel!Control, value : Panel!Value, from : {"own", "left"}])
    BY DEF Panel!Init
  <2>2. PanelType
    <3>1. stored \in [Panel!Control -> Panel!Value] /\ chosen = stored /\ prop = stored
      BY DEF Panel!Init, Panel!Value
    <3>2. uploads = {} /\ elsewhere = {} /\ astray = {}
      BY DEF Panel!Init
    <3>3. setByOwner \in BOOLEAN
      BY DEF Panel!Init
    <3>4. QED
      BY <2>1, <3>1, <3>2, <3>3 DEF PanelType, Panel!TypeOK
  <2>3. QED
    BY <2>1, <2>2 DEF Panel!Init, PanelInv, Panel!ShownIsStored, Panel!Pending, Panel!Control
<1>2. PanelInv /\ UNCHANGED panel => PanelInv'
  <2> SUFFICES ASSUME PanelInv, UNCHANGED panel PROVE PanelInv'
    OBVIOUS
  <2>1. UNCHANGED <<stored, chosen, prop, setByOwner, jobs, uploads, elsewhere, astray>>
    BY DEF panel
  <2>2. PanelType'
    <3>1. setByOwner' \in BOOLEAN
      BY <2>1 DEF PanelInv, PanelType, Panel!TypeOK
    <3>2. QED
      BY <2>1, <3>1 DEF PanelInv, PanelType, Panel!TypeOK
  <2>3. QED
    BY <2>1, <2>2 DEF PanelInv, LastOf, Panel!ShownIsStored, Panel!Pending
<1>3. QED
  BY <1>1, <1>2

-----------------------------------------------------------------------------
(* The directory, the organization, the slots and the scope keep their     *)
(* types.                                                                  *)
LEMMA DirTypes ==
  /\ Dir!Init => Dir!TypeOK
  /\ Dir!TypeOK /\ Dir!Next => Dir!TypeOK'
  /\ Dir!TypeOK /\ UNCHANGED dir => Dir!TypeOK'
<1>1. Dir!Init => Dir!TypeOK
  <2> SUFFICES ASSUME Dir!Init PROVE Dir!TypeOK
    OBVIOUS
  <2>1. listed \in BOOLEAN /\ byOwner \in BOOLEAN
    BY DEF Dir!Init
  <2>2. setup = {} /\ loads = {} /\ choice = "none" /\ found \in [Call -> SUBSET Dir!Part]
    BY DEF Dir!Init
  <2>3. QED
    BY <2>1, <2>2 DEF Dir!TypeOK
<1>2. ASSUME Dir!TypeOK, Dir!Next PROVE Dir!TypeOK'
  <2>t. setup \in SUBSET Dir!Part /\ loads \in SUBSET Call /\ found \in [Call -> SUBSET Dir!Part]
        /\ choice \in {"none", "listed", "unlisted"}
    BY <1>2 DEF Dir!TypeOK
  <2>b. listed \in BOOLEAN /\ byOwner \in BOOLEAN
    BY <1>2 DEF Dir!TypeOK
  <2>T. ASSUME setup' \in SUBSET Dir!Part, loads' \in SUBSET Call, found' \in [Call -> SUBSET Dir!Part],
               choice' \in {"none", "listed", "unlisted"}, listed' \in BOOLEAN, byOwner' \in BOOLEAN
        PROVE  Dir!TypeOK'
    BY <2>T DEF Dir!TypeOK
  <2>1. ASSUME NEW p \in Dir!Part, Dir!Edit(p) PROVE Dir!TypeOK'
    BY <2>1, <2>t, <2>b, <2>T DEF Dir!Edit
  <2>2. ASSUME NEW c \in Call, Dir!LoadDashboard(c) PROVE Dir!TypeOK'
    BY <2>2, <2>t, <2>b, <2>T DEF Dir!LoadDashboard
  <2>3. ASSUME NEW c \in Call, Dir!AutoList(c) PROVE Dir!TypeOK'
    <3>1. listed' \in BOOLEAN
      BY <2>3, <2>b DEF Dir!AutoList
    <3>2. loads' \in SUBSET Call /\ found' \in [Call -> SUBSET Dir!Part] /\ UNCHANGED <<setup, byOwner, choice>>
      BY <2>3, <2>t DEF Dir!AutoList
    <3>3. QED
      BY <2>t, <2>b, <2>T, <3>1, <3>2
  <2>4. ASSUME NEW c \in Call, NEW p \in Dir!Part, Dir!Look(c, p) PROVE Dir!TypeOK'
    <3>1. loads' \in SUBSET Call /\ found' \in [Call -> SUBSET Dir!Part] /\ UNCHANGED <<setup, listed, byOwner, choice>>
      BY <2>4, <2>t DEF Dir!Look
    <3>2. QED
      BY <2>t, <2>b, <2>T, <3>1
  <2>5. ASSUME NEW on \in BOOLEAN, Dir!SetListing(on) PROVE Dir!TypeOK'
    <3>1. listed' \in BOOLEAN /\ byOwner' \in BOOLEAN
      BY <2>5 DEF Dir!SetListing
    <3>2. choice' \in {"listed", "unlisted"} /\ UNCHANGED <<setup, loads, found>>
      BY <2>5 DEF Dir!SetListing
    <3>3. QED
      BY <2>t, <2>T, <3>1, <3>2
  <2>6. QED
    BY <1>2, <2>1, <2>2, <2>3, <2>4, <2>5 DEF Dir!Next
<1>3. Dir!TypeOK /\ UNCHANGED dir => Dir!TypeOK'
  BY DEF dir, Dir!TypeOK
<1>4. QED
  BY <1>1, <1>2, <1>3

LEMMA OrgTypes ==
  /\ Org!Init => Org!TypeOK
  /\ Org!TypeOK /\ Org!Next => Org!TypeOK'
  /\ Org!TypeOK /\ UNCHANGED <<org, faults>> => Org!TypeOK'
<1> DEFINE SignupStage == {"form", "checked", "created", "written", "backfilled", "graced", "located",
                           "published", "done", "failed"}
           StripeEvent == [sub : Org!Sub, status : Org!StripeStatus, meta : BOOLEAN]
<1>s. \A s : Org!MapStatus(s) \in Org!OurStatus
  BY DEF Org!MapStatus, Org!OurStatus
<1>1. Org!Init => Org!TypeOK
  <2> SUFFICES ASSUME Org!Init PROVE Org!TypeOK
    OBVIOUS
  <2>1. exists \in BOOLEAN /\ churned \in BOOLEAN /\ trialOver \in BOOLEAN /\ paid \in BOOLEAN /\ missed \in BOOLEAN
    BY DEF Org!Init
  <2>2. /\ subId = "none" /\ subStatus \in Org!OurStatus /\ signup = "form" /\ read \in Org!StripeStatus
        /\ sub \in [Org!Sub -> Org!StripeStatus] /\ meta = {} /\ events = {} /\ faults \in 0 .. MaxFaults
    BY FaultAssumption DEF Org!Init, Org!OurStatus, Org!StripeStatus
  <2>3. QED
    BY <2>1, <2>2 DEF Org!TypeOK
<1>2. ASSUME Org!TypeOK, Org!Next PROVE Org!TypeOK'
  <2>t. /\ subId \in Org!Sub \cup {"none"} /\ subStatus \in Org!OurStatus /\ signup \in SignupStage /\ read \in Org!StripeStatus
        /\ sub \in [Org!Sub -> Org!StripeStatus] /\ meta \in SUBSET Org!Sub /\ events \in SUBSET StripeEvent
        /\ faults \in 0 .. MaxFaults
    BY <1>2 DEF Org!TypeOK
  <2>b. exists \in BOOLEAN /\ churned \in BOOLEAN /\ trialOver \in BOOLEAN /\ paid \in BOOLEAN /\ missed \in BOOLEAN
    BY <1>2 DEF Org!TypeOK
  <2>T. ASSUME subId' \in Org!Sub \cup {"none"}, subStatus' \in Org!OurStatus, signup' \in SignupStage,
               read' \in Org!StripeStatus, sub' \in [Org!Sub -> Org!StripeStatus], meta' \in SUBSET Org!Sub,
               events' \in SUBSET StripeEvent, faults' \in 0 .. MaxFaults,
               exists' \in BOOLEAN, churned' \in BOOLEAN, trialOver' \in BOOLEAN, paid' \in BOOLEAN, missed' \in BOOLEAN
        PROVE  Org!TypeOK'
    BY <2>T DEF Org!TypeOK
  <2>n. "none" \in Org!StripeStatus /\ "running" \in Org!StripeStatus /\ "claimed" \in Org!Sub /\ "bought" \in Org!Sub
    BY DEF Org!StripeStatus, Org!Sub
  <2>1. CASE \/ Org!Submit \/ Org!CreateRow \/ Org!SetGracePeriod \/ Org!TrialEnds \/ Org!Fail
             \/ Org!WriteDetails("graced", "located") \/ Org!WriteDetails("located", "published")
             \/ Org!WriteDetails("published", "done")
    <3>1. exists' \in BOOLEAN /\ churned' = churned /\ trialOver' \in BOOLEAN /\ paid' = paid /\ missed' = missed
      BY <2>1, <2>b DEF Org!Submit, Org!CreateRow, Org!SetGracePeriod, Org!TrialEnds, Org!Fail, Org!WriteDetails, Org!row
    <3>2. signup' \in SignupStage /\ UNCHANGED <<subId, subStatus, sub, meta, events>>
      BY <2>1, <2>t DEF Org!Submit, Org!CreateRow, Org!SetGracePeriod, Org!TrialEnds, Org!Fail, Org!WriteDetails, Org!row, Org!stripe
    <3>3. read' \in Org!StripeStatus /\ faults' \in 0 .. MaxFaults
      BY <2>1, <2>t, <2>n, FaultAssumption DEF Org!Submit, Org!CreateRow, Org!SetGracePeriod, Org!TrialEnds, Org!Fail, Org!WriteDetails
    <3>4. QED
      BY <2>t, <2>b, <2>T, <3>1, <3>2, <3>3
  <2>2. CASE Org!WriteClaim
    <3>1. churned' \in BOOLEAN
      BY <2>2, <2>b DEF Org!WriteClaim, Org!UpdateSubscription, Org!row
    <3>2. /\ signup' \in SignupStage /\ subId' \in Org!Sub \cup {"none"} /\ subStatus' \in Org!OurStatus
          /\ read' = "none" /\ UNCHANGED <<exists, trialOver, paid, sub, meta, events, missed, faults>>
      BY <2>2, <2>t, <2>n, <1>s DEF Org!WriteClaim, Org!UpdateSubscription, Org!row, Org!stripe
    <3>3. QED
      BY <2>t, <2>b, <2>n, <2>T, <3>1, <3>2
  <2>e. ASSUME NEW b \in Org!Sub, NEW s \in Org!StripeStatus PROVE Org!Event(b, s) \in StripeEvent
    BY DEF Org!Event
  <2>3. CASE Org!Backfill
    <3>1. /\ signup' = "backfilled" /\ meta' = meta \cup {"claimed"} /\ events' = events \cup {Org!Event("claimed", sub["claimed"])}
          /\ UNCHANGED <<exists, churned, subId, subStatus, trialOver, paid, read, sub, missed, faults>>
      BY <2>3 DEF Org!Backfill, Org!row
    <3>2. sub["claimed"] \in Org!StripeStatus
      BY <2>t, <2>n
    <3>3. QED
      BY <2>t, <2>b, <2>n, <2>e, <2>T, <3>1, <3>2
  <2>4. ASSUME NEW b \in Org!Sub, NEW s \in Org!StripeStatus, Org!ChangeStatus(b, s) PROVE Org!TypeOK'
    <3>1. /\ sub' = [sub EXCEPT ![b] = s] /\ events' = events \cup {Org!Event(b, s)}
          /\ UNCHANGED <<exists, churned, subId, subStatus, trialOver, signup, paid, read, meta, missed, faults>>
      BY <2>4 DEF Org!ChangeStatus, Org!row
    <3>2. QED
      BY <2>t, <2>b, <2>e, <2>T, <3>1
  <2>5. CASE Org!Buy
    <3>1. /\ sub' = [sub EXCEPT !["bought"] = "running"] /\ meta' = meta \cup {"bought"}
          /\ events' = events \cup {Org!Event("bought", "running")}
          /\ UNCHANGED <<exists, churned, subId, subStatus, trialOver, signup, paid, read, missed, faults>>
      BY <2>5 DEF Org!Buy, Org!row
    <3>2. QED
      BY <2>t, <2>b, <2>n, <2>e, <2>T, <3>1
  <2>6. ASSUME NEW e \in events, Org!Handle(e) PROVE Org!TypeOK'
    <3>1. churned' \in BOOLEAN /\ missed' \in BOOLEAN
      BY <2>6, <2>b DEF Org!Handle, Org!UpdateSubscription, Org!row
    <3>2. e.sub \in Org!Sub
      BY <2>t
    <3>3. /\ events' = events \ {e} /\ subId' \in Org!Sub \cup {"none"} /\ subStatus' \in Org!OurStatus
          /\ UNCHANGED <<exists, trialOver, signup, paid, read, sub, meta, faults>>
      BY <2>6, <2>t, <3>2, <1>s DEF Org!Handle, Org!UpdateSubscription, Org!row
    <3>4. QED
      BY <2>t, <2>b, <2>T, <3>1, <3>3
  <2>7. QED
    BY <1>2, <2>1, <2>2, <2>3, <2>4, <2>5, <2>6 DEF Org!Next, Org!SignupStep
<1>3. Org!TypeOK /\ UNCHANGED <<org, faults>> => Org!TypeOK'
  BY DEF org, Org!TypeOK
<1>4. QED
  BY <1>1, <1>2, <1>3

LEMMA SlotsTypes ==
  /\ Slots!Init => Slots!TypeOK
  /\ Slots!TypeOK /\ Slots!Next => Slots!TypeOK'
  /\ Slots!TypeOK /\ UNCHANGED Slots!vars => Slots!TypeOK'
<1> DEFINE Phase == {"idle", "walking", "listed", "booked", "refused"}
           Placed(x) == x[1] \in Int /\ x[2] \in Barber
<1>1. ASSUME Slots!Init PROVE Slots!TypeOK
  <2>1. SlotsType
    BY <1>1, SlotsBridge DEF SlotsInv
  <2>2. /\ phase = "idle" /\ query = [date |-> Slots!Today, staff |-> {}] /\ loaded = {} /\ todo = {} /\ shift = Slots!NoShift
        /\ offer = {} /\ wanted = Slots!NoSlot
    BY <1>1 DEF Slots!Init
  <2>3. query \in [date : Slots!Day, staff : SUBSET Barber]
    BY <2>1, <2>2 DEF SlotsType
  <2>4. QED
    BY <2>1, <2>2, <2>3 DEF SlotsType, Slots!TypeOK
<1>2. ASSUME Slots!TypeOK, Slots!Next PROVE Slots!TypeOK'
  <2>t. /\ hours \in [Slots!Day -> SUBSET Slots!Shift] /\ busy \in SUBSET Slots!Interval /\ earliest \in Int /\ latest \in Int
        /\ phase \in Phase /\ query \in [date : Slots!Day, staff : SUBSET Barber]
        /\ loaded \in SUBSET busy /\ todo \in SUBSET Slots!Shift /\ shift \in Slots!Shift \cup {Slots!NoShift} /\ cursor \in Int
        /\ (\A x \in offer : Placed(x)) /\ (wanted # Slots!NoSlot => Placed(wanted))
    BY <1>2 DEF Slots!TypeOK
  <2>T. ASSUME UNCHANGED Slots!input, phase' \in Phase, query' \in [date : Slots!Day, staff : SUBSET Barber],
               loaded' \in SUBSET busy, todo' \in SUBSET Slots!Shift, shift' \in Slots!Shift \cup {Slots!NoShift}, cursor' \in Int,
               \A x \in offer' : Placed(x), wanted' # Slots!NoSlot => wanted'[1] \in Int /\ wanted'[2] \in Barber
        PROVE  Slots!TypeOK'
    BY <2>T, <2>t DEF Slots!TypeOK, Slots!input
  <2>1. ASSUME NEW d \in Slots!Day, NEW staff \in SUBSET Barber, Slots!Begin(d, staff),
               wanted' # Slots!NoSlot => wanted'[1] \in Int /\ wanted'[2] \in Barber
        PROVE  Slots!TypeOK'
    <3>1. /\ query' = [date |-> d, staff |-> staff] /\ offer' = {} /\ UNCHANGED <<Slots!input, shift, cursor>>
          /\ \/ phase' = "listed" /\ todo' = {} /\ loaded' = {}
             \/ phase' = "walking" /\ todo' = {s \in hours[d] : s.by \in staff} /\ loaded' = Slots!BusyOn(d)
      BY <2>1 DEF Slots!Begin
    <3>2. phase' \in Phase /\ todo' \in SUBSET Slots!Shift /\ loaded' \in SUBSET busy
      BY <2>t, <3>1 DEF Slots!BusyOn
    <3>3. QED
      BY <2>t, <2>T, <2>1, <3>1, <3>2
  <2>2. ASSUME NEW staff \in {Barber} \cup {{b} : b \in Barber}, Slots!Ask(Slots!Today, staff) PROVE Slots!TypeOK'
    <3>1. staff \in SUBSET Barber /\ Slots!Today \in Slots!Day
      BY DEF Slots!Today, Slots!Day
    <3>2. QED
      BY <2>t, <2>1, <2>2, <3>1 DEF Slots!Ask
  <2>3. ASSUME NEW x \in offer, Slots!Confirm(x) PROVE Slots!TypeOK'
    <3>1. /\ Slots!UtcDate(x[1]) \in Slots!Day /\ wanted' = x /\ Slots!Begin(Slots!UtcDate(x[1]), {x[2]})
          /\ Placed(x)
      BY <2>t, <2>3 DEF Slots!Confirm
    <3>2. QED
      BY <2>1, <3>1
  <2>4. ASSUME NEW s \in todo, Slots!TakeShift(s) PROVE Slots!TypeOK'
    <3>1. /\ s \in Slots!Shift /\ todo' = todo \ {s} /\ shift' = s /\ cursor' = Slots!DayStart(query.date) + s.from
          /\ UNCHANGED <<Slots!input, phase, query, loaded, offer, wanted>>
      BY <2>t, <2>4 DEF Slots!TakeShift
    <3>2. cursor' \in Int
      BY <2>t, <3>1, Days, Shifts, SlotAssumption
    <3>3. QED
      BY <2>t, <2>T, <3>1, <3>2
  <2>5. CASE Slots!Walk
    <3>1. /\ shift # Slots!NoShift /\ cursor' = cursor + Granularity
          /\ offer' \in {offer, offer \cup {<<cursor, shift.by>>}}
          /\ UNCHANGED <<Slots!input, phase, query, loaded, todo, shift, wanted>>
      BY <2>5 DEF Slots!Walk
    <3>2. shift.by \in Barber /\ cursor' \in Int
      BY <2>t, <3>1, SlotAssumption DEF Slots!Shift
    <3>3. QED
      BY <2>t, <2>T, <3>1, <3>2
  <2>6. CASE Slots!LeaveShift \/ Slots!Return \/ Slots!Answer
    <3>1. /\ phase' \in Phase /\ shift' \in {shift, Slots!NoShift} /\ cursor' \in {cursor, 0}
          /\ UNCHANGED <<Slots!input, query, loaded, todo, offer, wanted>>
      BY <2>6, <2>t DEF Slots!LeaveShift, Slots!Return, Slots!Answer
    <3>2. QED
      BY <2>t, <2>T, <3>1
  <2>7. QED
    BY <1>2, <2>2, <2>3, <2>4, <2>5, <2>6 DEF Slots!Next
<1>3. Slots!TypeOK /\ UNCHANGED Slots!vars => Slots!TypeOK'
  BY DEF Slots!vars, Slots!input, Slots!TypeOK
<1>4. QED
  BY <1>1, <1>2, <1>3

LEMMA ScopeTypes ==
  /\ Scope!Init => Scope!TypeOK
  /\ ScopeInv /\ Scope!TypeOK /\ Scope!Next => Scope!TypeOK'
  /\ Scope!TypeOK /\ UNCHANGED scoped => Scope!TypeOK'
<1> DEFINE Used == [context : Scope!Context \cup {"none"}, ready : BOOLEAN, settings : Scope!Settings]
           Pair == (Scope!Tenant \cup {"plain"}) \X Scope!Tenant
<1>u. /\ \A x \in Scope!Context \cup {"none"}, r \in BOOLEAN, s \in Scope!Settings : Scope!Use(x, r, s) \in Used
      /\ Scope!Unset \in Scope!Settings
  BY DEF Scope!Use, Scope!Unset, Scope!Settings
<1>1. ASSUME Scope!Init PROVE Scope!TypeOK
  <2>1. contexts \in [Call -> Seq(Scope!Context)] /\ reached = {} /\ conn = [k \in Scope!Conn |-> Scope!Use("none", FALSE, Scope!Unset)]
    BY <1>1 DEF Scope!Init
  <2>2. Scope!Use("none", FALSE, Scope!Unset) \in Used
    BY <1>u
  <2>3. QED
    BY <2>1, <2>2 DEF Scope!TypeOK
<1>2. ASSUME ScopeInv, Scope!TypeOK, Scope!Next PROVE Scope!TypeOK'
  <2>t. contexts \in [Call -> Seq(Scope!Context)] /\ conn \in [Scope!Conn -> Used] /\ reached \in SUBSET Pair
    BY <1>2 DEF Scope!TypeOK
  <2>n. contexts' \in [Call -> Seq(Scope!Context)]
    BY <1>2, ScopeBridge DEF ScopeInv
  <2>T. ASSUME conn' \in [Scope!Conn -> Used], reached' \in SUBSET Pair PROVE Scope!TypeOK'
    BY <2>n, <2>T DEF Scope!TypeOK
  <2>1. CASE UNCHANGED <<conn, reached>>
    BY <2>t, <2>T, <2>1
  <2>2. ASSUME NEW k \in Scope!Conn, NEW u \in Used, conn' = [conn EXCEPT ![k] = u], reached' = reached PROVE Scope!TypeOK'
    BY <2>t, <2>T, <2>2
  <2>3. ASSUME NEW c \in Call, NEW k \in Scope!Conn, Scope!Begin(c, k) PROVE Scope!TypeOK'
    <3>1. Head(contexts[c]) \in Scope!Context /\ conn' = [conn EXCEPT ![k].context = Head(contexts[c])] /\ reached' = reached
      BY <2>t, <2>3 DEF Scope!Begin
    <3>2. conn' \in [Scope!Conn -> Used]
      BY <2>t, <3>1
    <3>3. QED
      BY <2>t, <2>T, <3>1, <3>2
  <2>4. ASSUME NEW k \in Scope!Conn, Scope!Configure(k) PROVE Scope!TypeOK'
    <3>1. /\ conn' = [conn EXCEPT ![k] = Scope!Use(conn[k].context, TRUE, Scope!Configured(conn[k].context, conn[k].settings))]
          /\ reached' = reached /\ conn[k].context # "none" /\ conn[k].context \in Scope!Context \cup {"none"}
          /\ conn[k].settings \in Scope!Settings
      BY <2>t, <2>4 DEF Scope!Configure, Scope!Idle
    <3>2. Scope!Configured(conn[k].context, conn[k].settings) \in Scope!Settings
      BY <3>1 DEF Scope!Configured, Scope!Settings, Scope!Context
    <3>3. QED
      BY <1>u, <2>2, <3>1, <3>2
  <2>5. ASSUME NEW k \in Scope!Conn, Scope!End(k) PROVE Scope!TypeOK'
    BY <1>u, <2>2, <2>5 DEF Scope!End, Scope!Restored
  <2>6. ASSUME NEW k \in Scope!Conn, NEW op \in Scope!Operation, Scope!Query(k, op) PROVE Scope!TypeOK'
    <3> DEFINE x == conn[k].context
               o == Scope!Written(x, op)
    <3>1. x \in Scope!Context /\ conn[k].ready /\ UNCHANGED <<contexts, conn>>
      BY <1>2, <2>6 DEF Scope!Query, ScopeInv
    <3>2. /\ op.row \in Scope!Tenant /\ op.data \in Scope!Tenant \cup {"none"} /\ op.parent \in Scope!Tenant \cup {"none"}
      BY DEF Scope!Operation
    <3>3. x = "platform" \/ x \in Scope!Tenant
      BY <3>1 DEF Scope!Context
    <3>4. o \in Scope!Tenant
      BY <3>2, <3>3 DEF Scope!Written
    <3>5. \A w \in Scope!Tenant : Scope!By(x, w) \subseteq Pair
      BY <3>3 DEF Scope!By
    <3>6. {<<o, op.parent>>} \ {<<o, "none">>} \subseteq Pair
      BY <3>2, <3>4
    <3>7. \/ reached' = reached \cup Scope!By(x, op.row)
          \/ reached' = reached \cup Scope!By(x, o) \cup ({<<o, op.parent>>} \ {<<o, "none">>})
      BY <2>6 DEF Scope!Query
    <3> HIDE DEF x, o
    <3>8. reached' \in SUBSET Pair
      BY <2>t, <3>2, <3>4, <3>5, <3>6, <3>7
    <3>9. QED
      BY <2>t, <2>T, <3>1, <3>8
  <2>7. ASSUME NEW k \in Scope!Conn, NEW o \in Scope!Tenant, Scope!Plain(k, o) PROVE Scope!TypeOK'
    BY <2>t, <2>T, <2>7 DEF Scope!Plain
  <2>8. QED
    BY <1>2, <2>1, <2>3, <2>4, <2>5, <2>6, <2>7 DEF Scope!Next, Scope!Enter, Scope!Leave
<1>3. Scope!TypeOK /\ UNCHANGED scoped => Scope!TypeOK'
  BY DEF scoped, Scope!TypeOK
<1>4. QED
  BY <1>1, <1>2, <1>3

(* What the modules of proofs call a type is one of the office.            *)
LEMMA InstancedTypes ==
  /\ CouponP!IInv => Coupon!TypeOK
  /\ CustP!IInv => Cust!TypeOK
<1>1. CouponP!IInv => Coupon!TypeOK
  BY DEF CouponP!IInv, CouponP!TypeOK, Coupon!TypeOK, Coupon!Scope, CouponP!Scope, Coupon!Service, CouponP!Service,
         Coupon!Stage, CouponP!Stage, Coupon!Goals, CouponP!Goals
<1>2. CustP!IInv => Cust!TypeOK
  BY DEF CustP!IInv, CustP!TypeOK, Cust!TypeOK, Cust!Account, CustP!Account, Cust!Row, CustP!Row, Cust!Booking, CustP!Booking
<1>3. QED
  BY <1>1, <1>2

-----------------------------------------------------------------------------
(* One part runs, and keeps its invariant. *)
LEMMA Invariant == Spec => []IInv
<1>1. Init => IInv
  BY StaffInit, CouponBridge, CustBridge, DirBridge, OrgBridge, SlotsBridge, ScopeBridge, MoneyBridge,
     PanelBridge, WizardBridge, SheetBridge, DetailBridge, SigningBridge, EditBridge, FrontBridge, VisitBridge,
     GateBridge, DirTypes, OrgTypes, SlotsTypes, ScopeTypes
     DEF Init, IInv
<1>2. IInv /\ [Next]_vars => IInv'
  <2> SUFFICES ASSUME IInv, [Next]_vars PROVE IInv'
    OBVIOUS
  <2>1. CASE part = "dir" /\ Dir!Next /\ DirOnly
    BY <2>1, DirBridge, DirTypes DEF IInv, DirOnly
  <2>2. CASE part = "plan" /\ Plan!Next /\ PlanOnly
    BY <2>2, StaffStep DEF IInv, PlanOnly
  <2>3. CASE part = "coupon" /\ Coupon!Next /\ CouponOnly
    BY <2>3, CouponBridge DEF IInv, CouponOnly
  <2>4. CASE part = "org" /\ Org!Next /\ OrgOnly
    BY <2>4, OrgBridge, OrgTypes DEF IInv, OrgOnly
  <2>5. CASE part = "cust" /\ Cust!Next /\ CustOnly
    BY <2>5, CustBridge DEF IInv, CustOnly
  <2>6. CASE part = "wizard" /\ Wizard!Next /\ WizardOnly
    BY <2>6, WizardStep DEF IInv, WizardOnly
  <2>7. CASE part = "slots" /\ Slots!Next /\ SlotsOnly
    BY <2>7, SlotsStep, SlotsTypes DEF IInv, SlotsOnly
  <2>8. CASE part = "scope" /\ Scope!Next /\ ScopeOnly
    BY <2>8, ScopeBridge, ScopeTypes DEF IInv, ScopeOnly
  <2>11. CASE part = "sheet" /\ Sheet!Next /\ SheetOnly
    BY <2>11, SheetStep DEF IInv, SheetOnly, office
  <2>12. CASE part = "edit" /\ Edit!Next /\ EditOnly
    BY <2>12, EditStep DEF IInv, EditOnly, office
  <2>13. CASE part = "panel" /\ Panel!Next /\ PanelOnly
    BY <2>13, PanelStep DEF IInv, PanelOnly, office
  <2>14. CASE part = "visit" /\ Visit!Next /\ VisitOnly
    BY <2>14, VisitStep DEF IInv, VisitOnly, office
  <2>15. CASE part = "gate" /\ Gate!Next /\ GateOnly
    BY <2>15, GateStep DEF IInv, GateOnly, office
  <2>16. CASE part = "signing" /\ Found!Next /\ SigningOnly
    BY <2>16, SigningStep DEF IInv, SigningOnly, office
  <2>17. CASE part = "front" /\ Front!Next /\ FrontOnly
    BY <2>17, FrontStep DEF IInv, FrontOnly, office
  <2>18. CASE part = "detail" /\ Detail!Next /\ DetailOnly
    BY <2>18, DetailStep DEF IInv, DetailOnly, office
  <2>19. CASE part = "money" /\ Money!Next /\ MoneyOnly
    BY <2>19, MoneyStep DEF IInv, MoneyOnly, office
  <2>9. CASE UNCHANGED vars
    <3>1. UNCHANGED <<part, faults, dir, org, wizard, scoped>>
      BY <2>9 DEF vars
    <3>2. DirInv => DirInv'
      BY <3>1 DEF DirInv, dir
    <3>3. SubsInv => SubsInv'
      BY <3>1 DEF SubsInv, EndIsTold, org
    <3>4. StaffInv => StaffInv'
      <4>1. UNCHANGED Plan!vars
        BY <2>9 DEF vars, plan, Plan!vars
      <4>2. QED
        BY <4>1, StaffStep
    <3>5. CouponP!IInv => CouponP!IInv'
      <4>1. UNCHANGED CouponP!vars
        BY <2>9 DEF vars, coupon, CouponP!vars, CouponP!couponVars
      <4>2. QED
        BY <4>1, CouponP!StepIInv, CouponFinite, CallAssumption, CouponAssumption, PlanAssumption,
           RateAssumption, MailAssumption, FaultAssumption, SlotAssumption, PriceAssumption, ScreenAssumption
    <3>6. CustP!IInv => CustP!IInv'
      <4>1. UNCHANGED CustP!vars
        BY <2>9 DEF vars, cust, CustP!vars
      <4>2. QED
        BY <4>1, CustP!StepIInv, CustFinite, CallAssumption, CouponAssumption, PlanAssumption,
           RateAssumption, MailAssumption, FaultAssumption, SlotAssumption, PriceAssumption, ScreenAssumption
    <3>7. SlotsInv => SlotsInv'
      <4>1. UNCHANGED Slots!vars
        BY <2>9 DEF vars, slots, Slots!vars, Slots!input
      <4>2. QED
        BY <4>1, SlotsBridge
    <3>8. ScopeInv => ScopeInv'
      BY <2>9 DEF vars, scoped, ScopeInv, Scope!TenantIsolation
    <3>9. MoneyInv => MoneyInv'
      BY <2>9, MoneyBridge DEF vars, screen, public
    <3>10. PanelInv => PanelInv'
      BY <2>9, PanelBridge DEF vars, screen
    <3>11. UNCHANGED <<sheet, edit, visit, gate, signing, front, detail>>
      BY <2>9 DEF vars, screen, public
    <3>12. /\ WizardInv => WizardInv'
           /\ SheetInv => SheetInv'
           /\ DetailInv => DetailInv'
           /\ SigningInv => SigningInv'
           /\ EditInv => EditInv'
           /\ FrontInv => FrontInv'
           /\ VisitInv => VisitInv'
           /\ GateInv => GateInv'
      BY <3>1, <3>11, WizardBridge, SheetBridge, DetailBridge, SigningBridge, EditBridge, FrontBridge, VisitBridge, GateBridge
    <3>13. /\ Dir!TypeOK => Dir!TypeOK'
           /\ Org!TypeOK => Org!TypeOK'
           /\ Slots!TypeOK => Slots!TypeOK'
           /\ Scope!TypeOK => Scope!TypeOK'
      <4>1. UNCHANGED Slots!vars
        BY <2>9 DEF vars, slots, Slots!vars, Slots!input
      <4>2. QED
        BY <3>1, <4>1, DirTypes, OrgTypes, SlotsTypes, ScopeTypes
    <3>14. QED
      BY <3>1, <3>2, <3>3, <3>4, <3>5, <3>6, <3>7, <3>8, <3>9, <3>10, <3>12, <3>13 DEF IInv
  <2>10. QED
    BY <2>1, <2>2, <2>3, <2>4, <2>5, <2>6, <2>7, <2>8, <2>9, <2>11, <2>12, <2>13, <2>14, <2>15, <2>16, <2>17, <2>18, <2>19 DEF Next
<1>3. QED
  BY <1>1, <1>2, PTL DEF Spec

-----------------------------------------------------------------------------
(* However many calls count and create at the same time, the rows of a     *)
(* resource pass the limit of the plan by less than their number.          *)
THEOREM PlanIsKept == Plan!Spec => []Plan!WithinPlan
BY StaffInit, StaffStep, StaffBounds, PTL DEF Plan!Spec

(* No row of a save outlives a later save that it has not overlapped.      *)
THEOREM LastSaveStands == Plan!Spec => []Plan!RowsOfLastSave
<1>1. StaffInv => Plan!RowsOfLastSave
  BY DEF StaffInv
<1>2. QED
  BY <1>1, StaffInit, StaffStep, PTL DEF Plan!Spec

(* Concurrent creations exceed the plan by less than the number of calls,  *)
(* for any number of calls and any plan.                                   *)
THEOREM OfficeWithinPlan == Spec => []WithinPlan
<1>1. IInv => WithinPlan
  BY StaffBounds DEF IInv, WithinPlan
<1>2. QED
  BY <1>1, Invariant, PTL

(* No row of an earlier save of hours or services outlives a later one.    *)
THEOREM OfficeRowsOfLastSave == Spec => []RowsOfLastSave
<1>1. IInv => RowsOfLastSave
  BY DEF IInv, StaffInv, RowsOfLastSave
<1>2. QED
  BY <1>1, Invariant, PTL

(* Concurrent bookings and closings exceed a coupon's limit by less than   *)
(* the number of calls, for any limit.                                     *)
THEOREM OfficeRedemptions == Spec => []RedemptionsBounded
<1>1. IInv => RedemptionsBounded
  BY CouponBridge DEF IInv, RedemptionsBounded
<1>2. QED
  BY <1>1, Invariant, PTL

(* A coupon admits a service only if a save names it that had a say in the *)
(* coupon since its row was read, however the statements of editors mix.   *)
THEOREM OfficeAcceptsAsSaved == Spec => []AcceptedWasMeant
<1>1. IInv => AcceptedWasMeant
  BY CouponBridge DEF IInv, AcceptedWasMeant
<1>2. QED
  BY <1>1, Invariant, PTL

(* The bookings an account shows are its own or of its verified address.   *)
THEOREM OfficeBookingsAreOwn == Spec => []BookingsFollowIdentity
<1>1. IInv => BookingsFollowIdentity
  BY CustBridge DEF IInv, BookingsFollowIdentity
<1>2. QED
  BY <1>1, Invariant, PTL

(* No load of a dashboard overrules what the owner chose with the switch.  *)
THEOREM OfficeChoiceStands == Spec => []OwnersChoiceStands
<1>1. IInv => OwnersChoiceStands
  BY DirBridge DEF IInv, OwnersChoiceStands
<1>2. QED
  BY <1>1, Invariant, PTL

(* With every event handled, who may write after the trial has a           *)
(* subscription that runs, but for the end that was told before the claim. *)
THEOREM OfficeNoFreeRide == Spec => []NoFreeRide
<1>1. IInv => NoFreeRide
  BY OrgBridge DEF IInv, NoFreeRide
<1>2. QED
  BY <1>1, Invariant, PTL

(* The slots listed are the slots of the day, for any hours, busy          *)
(* intervals, lead times, time zone, granularity and length of a slot.     *)
THEOREM OfficeOffersExactly == Spec => []OfferIsExact
<1>1. IInv => OfferIsExact
  BY DEF IInv, SlotsInv, OfferIsExact
<1>2. QED
  BY <1>1, Invariant, PTL

(* No query reaches or links the rows of another organization, for any     *)
(* number of calls: the composite keys see to all links but a booking's    *)
(* coupon, whose key names no organization and which is linked only as it  *)
(* was found in the same context.                                          *)
THEOREM OfficeIsolates == Spec => []TenantIsolation
<1>1. IInv => TenantIsolation
  BY ScopeBridge DEF IInv, TenantIsolation
<1>2. QED
  BY <1>1, Invariant, PTL

(* A booking costs what was confirmed, if neither price nor coupon were    *)
(* edited meanwhile, and is charged, recorded as paid and fined within its *)
(* price, for all prices, coupons, deposits and fees.  What the customer   *)
(* has paid is what is recorded unless an online payment was written over  *)
(* one on site: only then is more taken than the price.                    *)
THEOREM OfficeChargesWithinPrice == Spec => [](part = "money" => Money!ChargedAsShown /\ Money!WithinPrice)
<1>1. IInv => (part = "money" => Money!ChargedAsShown /\ Money!WithinPrice)
  BY DEF IInv, MoneyInv
<1>2. QED
  BY <1>1, Invariant, PTL

(* A control of the settings at rest shows what is stored, in whatever     *)
(* order its actions are called, answered and refused, however many wait,  *)
(* but for three cases: its value was changed elsewhere or listed by the   *)
(* layout, it keeps a change that was refused, or its tab was left and     *)
(* opened again while a change was under way.                              *)
THEOREM OfficeShowsStored == Spec => []ShownIsStored
<1>1. IInv => ShownIsStored
  BY DEF IInv, PanelInv, ShownIsStored
<1>2. QED
  BY <1>1, Invariant, PTL

(* Every part of the office keeps to the types its code declares.          *)
THEOREM OfficeTypeCorrect == Spec => []TypeOK
<1>1. IInv => TypeOK
  BY InstancedTypes, WizardBridge, SheetBridge, DetailBridge, SigningBridge, EditBridge, FrontBridge, VisitBridge,
     GateBridge
     DEF IInv, TypeOK, StaffInv, MoneyInv, PanelInv, PanelType
<1>2. QED
  BY <1>1, Invariant, PTL

(* However its buttons are pressed while answers are awaited, an opening   *)
(* of the wizard or of a booking sheet makes one booking, unless its       *)
(* checkout could not be created, and the wizard of the sign-up one shop.  *)
THEOREM OfficeBooksOnce == Spec => []OncePerOpening
<1>1. IInv => OncePerOpening
  BY WizardBridge, SheetBridge, SigningBridge DEF IInv, OncePerOpening
<1>2. QED
  BY <1>1, Invariant, PTL

(* What is booked is what the summary shows: the slot is of the date and   *)
(* the service chosen, the coupon and the photos are those entered, the    *)
(* amount is the one shown, in whatever order the answers come.  Excepted  *)
(* are the sheets whose choice was changed with a confirmation unsettled   *)
(* or a list still loading, a code that was typed over, and amounts edited *)
(* meanwhile or written over by an online payment (mixed, restated,        *)
(* typedOver, moved, overwritten).                                         *)
THEOREM OfficeBooksTheSummary == Spec => []SummaryIsBooked
<1>1. IInv => SummaryIsBooked
  BY WizardBridge, SheetBridge, DetailBridge DEF IInv, SummaryIsBooked, MoneyInv
<1>2. QED
  BY <1>1, Invariant, PTL

(* A row holds in each column what was said of it last by the forms that   *)
(* show it, however many browsers save, but for the texts that the staff   *)
(* and the Impressum form empty in vain.                                   *)
THEOREM OfficeSavesAsSaid == Spec => []SavedAsSaid
<1>1. IInv => SavedAsSaid
  BY DEF IInv, EditInv, SavedAsSaid
<1>2. QED
  BY <1>1, Invariant, PTL

(* As things stand, no page redirects to one that has redirected before,   *)
(* whoever is signed in, but for the superadmin who is a professional or   *)
(* receptionist and whose second factor is overdue.                        *)
THEOREM OfficeRedirectsEnd == Spec => []NoRedirectLoop
<1>1. IInv => NoRedirectLoop
  BY VisitBridge DEF IInv, NoRedirectLoop
<1>2. QED
  BY <1>1, Invariant, PTL

(* The page to which a form that has succeeded leads knows the person, but *)
(* for the forms that claim an account or accept an invitation.            *)
THEOREM OfficeSeesSignedIn == Spec => []SignedInIsSeen
<1>1. IInv => SignedInIsSeen
  BY VisitBridge DEF IInv, SignedInIsSeen
<1>2. QED
  BY <1>1, Invariant, PTL

(* What a page offers to the member or the visitor it was rendered for,    *)
(* the actions permit, unless the role or the shop has changed meanwhile,  *)
(* but for the catalog, the first agenda of a professional without a link, *)
(* customers with a session, and the area of a shop past its trial or      *)
(* churned; while a German location of the sign-up has no Impressum the    *)
(* public page takes nothing.                                              *)
THEOREM OfficePermitsOffered == Spec => []OfferedIsPermitted
<1>1. IInv => OfferedIsPermitted
  BY GateBridge, FrontBridge DEF IInv, OfferedIsPermitted
<1>2. QED
  BY <1>1, Invariant, PTL

(* The owner of a shop that has not churned can always open the page that  *)
(* puts right what it is barred for, and use it.                           *)
THEOREM OfficeLocksNobodyOut == Spec => []NoLockout
<1>1. IInv => NoLockout
  BY GateBridge DEF IInv, NoLockout
<1>2. QED
  BY <1>1, Invariant, PTL
=============================================================================
