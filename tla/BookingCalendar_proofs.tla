----------------------- MODULE BookingCalendar_proofs -----------------------
(***************************************************************************)
(* Proofs about the calendar for any number of bookings, slots, concurrent *)
(* requests and operations: that the exclusion constraint, met by inserts  *)
(* only, keeps active bookings apart; that the sweep's stale list cuts no  *)
(* hold short; and that the unguarded writes keep to BookingLifecycle.     *)
(***************************************************************************)
EXTENDS BookingCalendar, TLAPS

(* What the ids that an operation or the sweep has in hand still mean when *)
(* it writes: a booking that exists, and for the sweep one out of time.    *)
InHand == /\ \A o \in ops : status[o.on] # "ABSENT"
          /\ \A b \in stale : status[b] # "ABSENT" /\ left[b] < 0

IInv == TypeOK /\ InHand /\ NoOverlap

-----------------------------------------------------------------------------
(* Overlap does not depend on the order of the two slots. *)
LEMMA OverlapSymmetric ==
  ASSUME NEW s, NEW t
  PROVE  Overlap(s, t) <=> Overlap(t, s)
BY DEF Overlap

(* Every step keeps the state well typed. *)
LEMMA TypeStep == TypeOK /\ [Next]_vars => TypeOK'
<1> SUFFICES ASSUME TypeOK, [Next]_vars PROVE TypeOK'
  OBVIOUS
<1> USE HoldTimeAssumption, BoundAssumption DEF TypeOK, Active, Terminal, rowVars
<1>1. ASSUME NEW r \in Request, NEW s \in Offer, CheckSlot(r, s) PROVE TypeOK'
  BY <1>1 DEF CheckSlot, Call
<1>2. ASSUME NEW p \in pending, NEW online \in BOOLEAN, Insert(p, online) PROVE TypeOK'
  BY <1>2 DEF Insert, Call
<1>3. ASSUME NEW b \in Booking, ConfirmBooking(b) \/ CancelPending(b) PROVE TypeOK'
  BY <1>3 DEF ConfirmBooking, CancelPending
<1>4. ASSUME NEW a \in Actor, NEW b \in Booking, NEW to \in Terminal, ReadToClose(a, b, to) PROVE TypeOK'
  BY <1>4 DEF ReadToClose, Op
<1>5. ASSUME NEW o \in ops, WriteClosed(o) PROVE TypeOK'
  BY <1>5 DEF WriteClosed, Op
<1>6. ASSUME Sweep \/ WorkerCrash PROVE TypeOK'
  <2>1. ASSUME SweepFind PROVE TypeOK'
    BY <2>1 DEF SweepFind, Overdue
  <2>2. ASSUME SweepCancel PROVE TypeOK'
    BY <2>2 DEF SweepCancel
  <2>3. ASSUME WorkerCrash PROVE TypeOK'
    <3>1. crashes' \in 0..MaxCrashes
      BY <2>3 DEF WorkerCrash
    <3>2. UNCHANGED <<status, slot, left, now, pending, ops>> /\ sweeping' = FALSE /\ stale' = {}
      BY <2>3 DEF WorkerCrash
    <3>3. QED
      BY <3>1, <3>2
  <2>4. QED
    BY <1>6, <2>1, <2>2, <2>3 DEF Sweep
<1>7. ASSUME Tick PROVE TypeOK'
  BY <1>7 DEF Tick
<1>8. CASE UNCHANGED vars
  BY <1>8 DEF vars
<1>9. QED
  BY <1>1, <1>2, <1>3, <1>4, <1>5, <1>6, <1>7, <1>8 DEF Next

(* What operations and the sweep have in hand does not lose its meaning: a *)
(* booking never disappears, and time given up is not given back.          *)
LEMMA InHandStep == TypeOK /\ InHand /\ [Next]_vars => InHand'
<1> SUFFICES ASSUME TypeOK, InHand, [Next]_vars PROVE InHand'
  OBVIOUS
<1> USE DEF TypeOK, InHand, rowVars
<1>1. ASSUME NEW r \in Request, NEW s \in Offer, CheckSlot(r, s) PROVE InHand'
  BY <1>1 DEF CheckSlot
<1>2. ASSUME NEW p \in pending, NEW online \in BOOLEAN, Insert(p, online) PROVE InHand'
  BY <1>2 DEF Insert, Op
<1>3. ASSUME NEW b \in Booking, ConfirmBooking(b) \/ CancelPending(b) PROVE InHand'
  BY <1>3 DEF ConfirmBooking, CancelPending, Op
<1>4. ASSUME NEW a \in Actor, NEW b \in Booking, NEW to \in Terminal, ReadToClose(a, b, to) PROVE InHand'
  BY <1>4 DEF ReadToClose, MayClose
<1>5. ASSUME NEW o \in ops, WriteClosed(o) PROVE InHand'
  BY <1>5 DEF WriteClosed, Op, Terminal
<1>6. ASSUME Sweep \/ WorkerCrash PROVE InHand'
  BY <1>6 DEF Sweep, SweepFind, SweepCancel, WorkerCrash, Overdue, Op
<1>7. ASSUME Tick PROVE InHand'
  BY <1>7 DEF Tick
<1>8. CASE UNCHANGED vars
  BY <1>8 DEF vars
<1>9. QED
  BY <1>1, <1>2, <1>3, <1>4, <1>5, <1>6, <1>7, <1>8 DEF Next

(* No step brings two active bookings together: an insert meets the        *)
(* constraint, and no update makes an inactive booking active.             *)
LEMMA NoOverlapStep == TypeOK /\ InHand /\ NoOverlap /\ [Next]_vars => NoOverlap'
<1> SUFFICES ASSUME TypeOK, InHand, NoOverlap, [Next]_vars PROVE NoOverlap'
  OBVIOUS
<1> USE DEF TypeOK, NoOverlap
<1>1. ASSUME slot' = slot, \A b \in Booking : status'[b] \in Active => status[b] \in Active
      PROVE NoOverlap'
  BY <1>1 DEF Overlap
<1>2. ASSUME NEW p \in pending, NEW online \in BOOLEAN, Insert(p, online) PROVE NoOverlap'
  <2>1. CASE UNCHANGED rowVars
    BY <1>1, <2>1 DEF rowVars
  <2>2. CASE Admits(p.for) /\ ~UNCHANGED rowVars
    <3>1. PICK b \in Booking : /\ slot' = [slot EXCEPT ![b] = p.for]
                               /\ \A c \in Booking \ {b} : status'[c] = status[c]
      BY <1>2, <2>2 DEF Insert, rowVars
    <3>2. slot'[b] = p.for /\ \A c \in Booking \ {b} : slot'[c] = slot[c]
      BY <3>1
    <3>3. \A c \in Booking \ {b} : status'[c] \in Active => ~Overlap(slot'[c], slot'[b])
      BY <2>2, <3>1, <3>2 DEF Admits
    <3>4. \A c \in Booking \ {b} : status'[c] \in Active => ~Overlap(slot'[b], slot'[c])
      BY <3>3, OverlapSymmetric
    <3>5. \A c, d \in Booking \ {b} :
            c # d /\ status'[c] \in Active /\ status'[d] \in Active => ~Overlap(slot'[c], slot'[d])
      BY <3>1, <3>2
    <3>6. \A c, d \in Booking :
            c # d /\ status'[c] \in Active /\ status'[d] \in Active => ~Overlap(slot'[c], slot'[d])
      BY <3>3, <3>4, <3>5
    <3>7. QED
      BY <3>6 DEF Overlap
  <2>3. QED
    BY <1>2, <2>1, <2>2 DEF Insert
<1>3. ASSUME NEW r \in Request, NEW s \in Offer, CheckSlot(r, s) PROVE NoOverlap'
  BY <1>1, <1>3 DEF CheckSlot
<1>4. ASSUME NEW b \in Booking, ConfirmBooking(b) \/ CancelPending(b) PROVE NoOverlap'
  BY <1>1, <1>4 DEF ConfirmBooking, CancelPending, Active
<1>5. ASSUME NEW a \in Actor, NEW b \in Booking, NEW to \in Terminal, ReadToClose(a, b, to) PROVE NoOverlap'
  BY <1>1, <1>5 DEF ReadToClose
<1>6. ASSUME NEW o \in ops, WriteClosed(o) PROVE NoOverlap'
  BY <1>1, <1>6 DEF WriteClosed, Op, Active, Terminal
<1>7. ASSUME Sweep \/ WorkerCrash \/ Tick \/ UNCHANGED vars PROVE NoOverlap'
  BY <1>1, <1>7 DEF Sweep, SweepFind, SweepCancel, WorkerCrash, Tick, vars, Active
<1>8. QED
  BY <1>2, <1>3, <1>4, <1>5, <1>6, <1>7 DEF Next

(* The invariant behind the theorems. *)
LEMMA Invariant == Spec => []IInv
<1>1. Init => IInv
  <2>1. ASSUME Init PROVE TypeOK
    <3>1. (CHOOSE s \in Offer : TRUE) \in Offer
      BY OfferAssumption
    <3>2. slot \in [Booking -> Offer]
      BY <2>1, <3>1 DEF Init
    <3>3. left \in [Booking -> -1..HoldTime] /\ now \in 0..MaxNow /\ crashes \in 0..MaxCrashes
      BY <2>1, HoldTimeAssumption, BoundAssumption DEF Init
    <3>4. QED
      BY <2>1, <3>2, <3>3 DEF Init, TypeOK
  <2>2. QED
    BY <2>1 DEF Init, IInv, InHand, NoOverlap, Active
<1>2. IInv /\ [Next]_vars => IInv'
  BY TypeStep, InHandStep, NoOverlapStep DEF IInv
<1>3. QED
  BY <1>1, <1>2, PTL DEF Spec

-----------------------------------------------------------------------------
(* The calendar is well typed, for any number of bookings and actors.      *)
THEOREM TypeCorrect == Spec => []TypeOK
<1>1. IInv => TypeOK
  BY DEF IInv
<1>2. QED
  BY <1>1, Invariant, PTL

(* No two active bookings ever claim the same time of the same staff,      *)
(* however many stale updates are in flight.                               *)
THEOREM NoDoubleBooking == Spec => []NoOverlap
<1>1. IInv => NoOverlap
  BY DEF IInv
<1>2. QED
  BY <1>1, Invariant, PTL

(* The sweep never cancels a hold that has time left, however long its     *)
(* list of ids is out of date when it writes.                              *)
THEOREM SweepCutsNoHoldShort == Spec => HoldNotCutShort
<1> DEFINE Cut == \A b \in Booking :
             status[b] = "PENDING_PAYMENT" /\ status'[b] # status[b] /\ sweeping /\ ~sweeping' => left[b] < 0
<1>1. IInv /\ [Next]_vars => Cut
  <2> SUFFICES ASSUME IInv, [Next]_vars, NEW b \in Booking, status'[b] # status[b], sweeping, ~sweeping'
               PROVE left[b] < 0
    BY DEF Cut
  <2>1. SweepCancel
    BY DEF Next, CheckSlot, Insert, ConfirmBooking, CancelPending, ReadToClose, WriteClosed,
           Sweep, SweepFind, WorkerCrash, Tick, vars
  <2>2. b \in stale
    BY <2>1 DEF SweepCancel
  <2>3. QED
    BY <2>2 DEF IInv, InHand
<1>2. QED
  BY <1>1, Invariant, PTL DEF Spec, HoldNotCutShort

-----------------------------------------------------------------------------
(* Every step of the calendar is one of the lifecycle or leaves the status *)
(* of every booking alone.                                                 *)
LEMMA LifecycleStep == IInv /\ [Next]_vars => [Lifecycle!Next]_status
<1> SUFFICES ASSUME IInv, [Next]_vars PROVE [Lifecycle!Next]_status
  OBVIOUS
<1> USE DEF IInv, TypeOK
<1>1. ASSUME NEW p \in pending, NEW online \in BOOLEAN, Insert(p, online) PROVE [Lifecycle!Next]_status
  BY <1>1 DEF Insert, rowVars, Lifecycle!Next, Lifecycle!Open, Lifecycle!Active
<1>2. ASSUME NEW b \in Booking, ConfirmBooking(b) PROVE Lifecycle!Next
  BY <1>2 DEF ConfirmBooking, Lifecycle!Next, Lifecycle!Confirm
<1>3. ASSUME NEW B \in SUBSET Booking, NEW s \in Terminal, \A b \in B : status[b] # "ABSENT",
             status' = [b \in Booking |-> IF b \in B THEN s ELSE status[b]]
      PROVE Lifecycle!Next
  BY <1>3 DEF Lifecycle!Next, Lifecycle!Close, Terminal, Lifecycle!Terminal
<1>4. ASSUME NEW b \in Booking, NEW s \in Terminal, status[b] # "ABSENT", status' = [status EXCEPT ![b] = s]
      PROVE Lifecycle!Next
  <2>1. status' = [c \in Booking |-> IF c \in {b} THEN s ELSE status[c]]
    BY <1>4
  <2>2. Lifecycle!Close({b})
    BY <1>4, <2>1 DEF Lifecycle!Close, Terminal, Lifecycle!Terminal
  <2>3. QED
    BY <2>2 DEF Lifecycle!Next
<1>5. ASSUME NEW b \in Booking, CancelPending(b) PROVE Lifecycle!Next
  BY <1>4, <1>5 DEF CancelPending, Terminal
<1>6. ASSUME NEW o \in ops, WriteClosed(o) PROVE Lifecycle!Next
  BY <1>4, <1>6 DEF WriteClosed, Op, InHand
<1>7. ASSUME SweepCancel PROVE Lifecycle!Next
  BY <1>3, <1>7 DEF SweepCancel, InHand, Terminal
<1>8. QED
  BY <1>1, <1>2, <1>5, <1>6, <1>7
     DEF Next, CheckSlot, ReadToClose, Sweep, SweepFind, WorkerCrash, Tick, vars

(* Whatever their writers have read before, the updates of the calendar's  *)
(* bookings keep to the lifecycle: opened once, confirmed only as a hold,  *)
(* closed for good.                                                        *)
THEOREM CalendarKeepsLifecycle == Spec => LifecycleSpec
<1>1. Init => Lifecycle!Init
  BY DEF Init, Lifecycle!Init
<1>2. QED
  BY <1>1, Invariant, LifecycleStep, PTL DEF Spec, LifecycleSpec, Lifecycle!Spec
=============================================================================
