----------------------- MODULE BookingPayments_proofs -----------------------
(***************************************************************************)
(* Proofs about the payments of any number of bookings, sessions, calls    *)
(* and failures.  The step of an event says how far its deliveries have    *)
(* come, and a hold is never entered twice: from these two follows what a  *)
(* concluded event has left in the row it names.                           *)
(***************************************************************************)
EXTENDS BookingPayments, TLAPS

(* The step of an event says whether a delivery holds it. *)
StepOfPhase == \A e \in Event :
  /\ phase[e] # "open" => e \in emitted
  /\ phase[e] = "open" => step[e] = "start"
  /\ phase[e] = "concluded" => step[e] = "done"

(* What Stripe has told of a session is what has become of it. *)
EmittedOfSession == \A s \in Session :
  /\ Completed(s) \in emitted => sess[s] \in {"delayed", "paid", "failed"}
  /\ Ended(s) \in emitted => sess[s] \in {"expired", "failed"}

(* The session and the intent of a row are of its own booking, which is to *)
(* be paid online; an intent is known when its session is completed.       *)
OwnSession == \A b \in Booking :
  /\ session[b] # NoSession =>
       BookingOf[session[b]] = b /\ sess[session[b]] # "none" /\ Charge[b] > 0
  /\ intent[b] # NoSession =>
       BookingOf[intent[b]] = b /\ Completed(intent[b]) \in emitted

(* A hold is to be paid online and has no intent; once confirmed it has.   *)
OneHold ==
  /\ \A b \in Booking : status[b] = "PENDING_PAYMENT" => Charge[b] > 0 /\ intent[b] = NoSession
  /\ \A b \in Booking : status[b] = "CONFIRMED" /\ Charge[b] > 0 => intent[b] # NoSession
  /\ \A p \in paying : Charge[p.for] > 0

(* A delivery that has made its first call leaves no hold of its session.  *)
HandledLeavesNoHold == \A s \in Session, b \in Booking :
  session[b] = s /\ (step[Completed(s)] # "start" \/ step[Ended(s)] # "start")
    => status[b] # "PENDING_PAYMENT"

(* What the deliveries of a completed session have written, at each step.  *)
Written == \A s \in Session, b \in Booking :
  intent[b] = s /\ Completed(s) \notin failed =>
    LET at == step[Completed(s)] IN
    /\ at # "start"
    /\ at \in {"notify", "remind", "done"} => received[b] >= Charge[b]
    /\ at \in {"remind", "done"} => JobsOf(b, {"confirmation"}) \subseteq jobs
    /\ at = "done" => JobsOf(b, {"reminder"}) \subseteq jobs

(* A row without an intent shows no refund. *)
NoIntentNoRefund ==
  \A b \in Booking : intent[b] = NoSession => refunded[b] = 0 /\ pay[b] \notin Refunded

IInv == /\ TypeOK /\ StepOfPhase /\ EmittedOfSession /\ OwnSession /\ OneHold
        /\ HandledLeavesNoHold /\ Written /\ NoIntentNoRefund /\ RefundStands

-----------------------------------------------------------------------------
(* Every step keeps the state well typed. *)
LEMMA TypeStep == TypeOK /\ [Next]_vars => TypeOK'
<1> SUFFICES ASSUME TypeOK, [Next]_vars PROVE TypeOK'
  OBVIOUS
<1> USE AmountAssumption, BoundAssumption, SessionAssumption DEF TypeOK, Active, Terminal, Refunded, Does, Event, Refunds, Job, JobsOf, Completed, Ended, Goto, At, NothingElse, rowVars, stripeVars, opVars, sweepVars, eventVars
<1>1. ASSUME NEW b \in Booking, HoldRunsOut(b) PROVE TypeOK'
  BY <1>1 DEF HoldRunsOut
<1>2. ASSUME NEW b \in Booking, SweepNotify(b) PROVE TypeOK'
  BY <1>2 DEF SweepNotify
<1>3. ASSUME NEW b \in Booking, NEW c \in Client, CheckoutRead(c, b) PROVE TypeOK'
  BY <1>3 DEF CheckoutRead
<1>4. ASSUME NEW b \in Booking, NEW a \in Actor, NEW does \in Does, OpRead(a, b, does) PROVE TypeOK'
  BY <1>4 DEF OpRead, Op, Outstanding
<1>5. ASSUME NEW p \in paying, NEW s \in Session, CheckoutWrite(p, s) PROVE TypeOK'
  BY <1>5 DEF CheckoutWrite
<1>6. ASSUME NEW s \in Session, Stripe(s) PROVE TypeOK'
  BY <1>6 DEF Stripe, Happens, Lease!Emit
<1>7. ASSUME NEW s \in Session, NEW e \in Event, Refund(s, e) PROVE TypeOK'
  <2>1. e.amount \in Nat
    BY <1>7 DEF Refund
  <2>2. repaid' \in [Session -> Nat]
    BY <1>7, <2>1 DEF Refund
  <2>3. QED
    BY <1>7, <2>2 DEF Refund, Lease!Emit
<1>8. ASSUME NEW e \in Event, TakeEvent(e) PROVE TypeOK'
  BY <1>8 DEF TakeEvent, Lease!Acquire
<1>9. ASSUME NEW e \in Event, FailEvent(e) PROVE TypeOK'
  BY <1>9 DEF FailEvent, Lease!Release
<1>10. ASSUME NEW e \in Event, ConcludeEvent(e) PROVE TypeOK'
  BY <1>10 DEF ConcludeEvent, Lease!Conclude
<1>11. ASSUME NEW e \in Event, ConfirmBooking(e) PROVE TypeOK'
  <2>1. CASE Confirms(e, BookingOf[e.session])
    <3>1. e.session \in Session /\ BookingOf[e.session] \in Booking
      OBVIOUS
    <3>2. status' \in [Booking -> Active \cup Terminal] /\ overdue' \subseteq Booking
      BY <1>11, <2>1, <3>1 DEF ConfirmBooking
    <3>3. pay' \in [Booking -> {"NONE", "PENDING", "PAID"} \cup Refunded] /\ intent' \in [Booking -> Session \cup {NoSession}]
      BY <1>11, <2>1, <3>1 DEF ConfirmBooking
    <3>4. step' \in [Event -> {"start", "received", "notify", "remind", "done"}]
      BY <1>11, <2>1 DEF ConfirmBooking
    <3>5. UNCHANGED <<session, received, refunded, jobs, noShows, stripeVars, paying, opVars, sweepVars, phase, emitted, faults, failed>>
      BY <1>11 DEF ConfirmBooking
    <3>6. QED
      BY <3>2, <3>3, <3>4, <3>5
  <2>2. CASE ~Confirms(e, BookingOf[e.session])
    BY <1>11, <2>2 DEF ConfirmBooking
  <2>3. QED
    BY <2>1, <2>2
<1>12. ASSUME NEW e \in Event, RecordReceived(e) PROVE TypeOK'
  BY <1>12 DEF RecordReceived
<1>13. ASSUME NEW e \in Event, NotifyConfirmed(e) PROVE TypeOK'
  BY <1>13 DEF NotifyConfirmed
<1>14. ASSUME NEW e \in Event, CancelPending(e) PROVE TypeOK'
  BY <1>14 DEF CancelPending, Releases
<1>15. ASSUME NEW e \in Event, NotifyExpired(e) PROVE TypeOK'
  BY <1>15 DEF NotifyExpired
<1>16. ASSUME NEW e \in Event, ApplyRefund(e) PROVE TypeOK'
  BY <1>16 DEF ApplyRefund
<1>17. ASSUME SweepFind PROVE TypeOK'
  BY <1>17 DEF SweepFind
<1>18. ASSUME SweepCancel PROVE TypeOK'
  BY <1>18 DEF SweepCancel
<1>19. ASSUME WorkerCrash PROVE TypeOK'
  BY <1>19 DEF WorkerCrash
<1>20. ASSUME NEW o \in ops, OpWrite(o) PROVE TypeOK'
  BY <1>20 DEF OpWrite, Op, NewStatus
<1>21. CASE UNCHANGED vars
  BY <1>21 DEF vars, eventVars, rowVars, stripeVars, opVars, sweepVars
<1> HIDE DEF TypeOK, Event, Does, rowVars, stripeVars, opVars, sweepVars, eventVars, At, Goto, NothingElse
<1>22. QED
  BY <1>1, <1>2, <1>3, <1>4, <1>5, <1>6, <1>7, <1>8, <1>9, <1>10, <1>11, <1>12, <1>13, <1>14, <1>15, <1>16, <1>17, <1>18, <1>19, <1>20, <1>21 DEF Next, HandleEvent

(* The events of a session, and what an event can be.                      *)
LEMMA Events ==
  /\ \A s \in Session : /\ Completed(s) \in Event /\ Completed(s).type = "completed" /\ Completed(s).session = s
                        /\ Ended(s) \in Event /\ Ended(s).type = "ended" /\ Ended(s).session = s
  /\ \A e \in Event : /\ e.session \in Session /\ e.amount \in Nat
                      /\ e.type \in {"completed", "ended", "refund1", "refund2"}
                      /\ e.type = "completed" => e = Completed(e.session)
                      /\ e.type = "ended" => e = Ended(e.session)
<1>1. ASSUME NEW s \in Session
      PROVE  /\ Completed(s) \in Event /\ Completed(s).type = "completed" /\ Completed(s).session = s
             /\ Ended(s) \in Event /\ Ended(s).type = "ended" /\ Ended(s).session = s
  BY DEF Completed, Ended, Event
<1>2. ASSUME NEW e \in Event
      PROVE  /\ e.session \in Session /\ e.amount \in Nat
             /\ e.type \in {"completed", "ended", "refund1", "refund2"}
             /\ e.type = "completed" => e = Completed(e.session)
             /\ e.type = "ended" => e = Ended(e.session)
  <2>1. CASE e \in [type : {"completed", "ended"}, session : Session, amount : {0}]
    BY <2>1 DEF Completed, Ended
  <2>2. CASE e \in [type : Refunds, session : Session, amount : RefundAmounts]
    <3>1. e.amount \in RefundAmounts
      BY <2>2
    <3>2. e.amount \in Nat
      BY <3>1, AmountAssumption
    <3>3. QED
      BY <2>2, <3>2 DEF Refunds
  <2>3. QED
    BY <2>1, <2>2 DEF Event
<1>3. QED
  BY <1>1, <1>2

(* An event is held from its taking to its failing or its end. *)
LEMMA StepOfPhaseStep == TypeOK /\ StepOfPhase /\ [Next]_vars => StepOfPhase'
<1> SUFFICES ASSUME TypeOK, StepOfPhase, [Next]_vars PROVE StepOfPhase'
  OBVIOUS
<1> USE Events DEF TypeOK, StepOfPhase, At, Goto, NothingElse, rowVars, stripeVars, opVars, sweepVars, eventVars
<1>1. ASSUME UNCHANGED <<phase, emitted, step>> PROVE StepOfPhase'
  BY <1>1
<1>2. ASSUME NEW s \in Session, Stripe(s) PROVE StepOfPhase'
  BY <1>2 DEF Stripe, Happens, Lease!Emit
<1>3. ASSUME NEW s \in Session, NEW e \in Event, Refund(s, e) PROVE StepOfPhase'
  BY <1>3 DEF Refund, Lease!Emit
<1>4. ASSUME NEW e \in Event, TakeEvent(e) PROVE StepOfPhase'
  BY <1>4 DEF TakeEvent, Lease!Acquire
<1>5. ASSUME NEW e \in Event, FailEvent(e) PROVE StepOfPhase'
  BY <1>5 DEF FailEvent, Lease!Release
<1>6. ASSUME NEW e \in Event, ConcludeEvent(e) PROVE StepOfPhase'
  BY <1>6 DEF ConcludeEvent, Lease!Conclude
<1>7. ASSUME NEW e \in Event, ConfirmBooking(e) PROVE StepOfPhase'
  BY <1>7 DEF ConfirmBooking, Confirms
<1>8. ASSUME NEW e \in Event, RecordReceived(e) PROVE StepOfPhase'
  BY <1>8 DEF RecordReceived
<1>9. ASSUME NEW e \in Event, NotifyConfirmed(e) PROVE StepOfPhase'
  BY <1>9 DEF NotifyConfirmed
<1>10. ASSUME NEW e \in Event, CancelPending(e) PROVE StepOfPhase'
  BY <1>10 DEF CancelPending, Releases
<1>11. ASSUME NEW e \in Event, NotifyExpired(e) PROVE StepOfPhase'
  BY <1>11 DEF NotifyExpired
<1>12. ASSUME NEW e \in Event, ApplyRefund(e) PROVE StepOfPhase'
  BY <1>12 DEF ApplyRefund
<1> HIDE DEF StepOfPhase
<1>13. QED
  BY <1>1, <1>2, <1>3, <1>4, <1>5, <1>6, <1>7, <1>8, <1>9, <1>10, <1>11, <1>12
     DEF Next, HandleEvent, vars, rowVars, stripeVars, opVars, sweepVars, eventVars, At, Goto, NothingElse,
         HoldRunsOut, SweepNotify, CheckoutRead, OpRead, CheckoutWrite, SweepFind, SweepCancel, WorkerCrash, OpWrite

(* A session that has come to an end stays there. *)
LEMMA EmittedStep == TypeOK /\ EmittedOfSession /\ [Next]_vars => EmittedOfSession'
<1> SUFFICES ASSUME TypeOK, EmittedOfSession, [Next]_vars PROVE EmittedOfSession'
  OBVIOUS
<1> USE Events DEF TypeOK, EmittedOfSession, rowVars, stripeVars, opVars, sweepVars, eventVars
<1>1. ASSUME UNCHANGED <<emitted, sess>> PROVE EmittedOfSession'
  BY <1>1
<1>2. ASSUME NEW p \in paying, NEW s \in Session, CheckoutWrite(p, s) PROVE EmittedOfSession'
  BY <1>2 DEF CheckoutWrite
<1>3. ASSUME NEW s \in Session, Stripe(s) PROVE EmittedOfSession'
  BY <1>3 DEF Stripe, Happens, Lease!Emit
<1>4. ASSUME NEW s \in Session, NEW e \in Event, Refund(s, e) PROVE EmittedOfSession'
  BY <1>4 DEF Refund, Lease!Emit, Refunds
<1> HIDE DEF EmittedOfSession
<1>5. QED
  BY <1>1, <1>2, <1>3, <1>4
     DEF Next, HandleEvent, vars, rowVars, stripeVars, opVars, sweepVars, eventVars, At, Goto, NothingElse,
         HoldRunsOut, SweepNotify, CheckoutRead, OpRead, TakeEvent, Lease!Acquire, FailEvent, Lease!Release, ConcludeEvent, Lease!Conclude, ConfirmBooking, Confirms, RecordReceived, NotifyConfirmed, CancelPending, Releases, NotifyExpired, ApplyRefund, SweepFind, SweepCancel, WorkerCrash, OpWrite

(* What a row names is of its own booking. *)
LEMMA OwnSessionStep == TypeOK /\ StepOfPhase /\ OneHold /\ OwnSession /\ [Next]_vars => OwnSession'
<1> SUFFICES ASSUME TypeOK, StepOfPhase, OneHold, OwnSession, [Next]_vars PROVE OwnSession'
  OBVIOUS
<1> USE SessionAssumption, Events DEF TypeOK, StepOfPhase, OneHold, OwnSession, At, Goto, NothingElse, rowVars, stripeVars, opVars, sweepVars, eventVars
<1>1. ASSUME UNCHANGED <<session, intent, sess, emitted>> PROVE OwnSession'
  BY <1>1
<1>2. ASSUME NEW p \in paying, NEW s \in Session, CheckoutWrite(p, s) PROVE OwnSession'
  BY <1>2 DEF CheckoutWrite
<1>3. ASSUME NEW s \in Session, Stripe(s) PROVE OwnSession'
  BY <1>3 DEF Stripe, Happens, Lease!Emit
<1>4. ASSUME NEW s \in Session, NEW e \in Event, Refund(s, e) PROVE OwnSession'
  BY <1>4 DEF Refund, Lease!Emit
<1>5. ASSUME NEW e \in Event, ConfirmBooking(e) PROVE OwnSession'
  BY <1>5 DEF ConfirmBooking, Confirms
<1> HIDE DEF OwnSession
<1>6. QED
  BY <1>1, <1>2, <1>3, <1>4, <1>5
     DEF Next, HandleEvent, vars, rowVars, stripeVars, opVars, sweepVars, eventVars, At, Goto, NothingElse,
         HoldRunsOut, SweepNotify, CheckoutRead, OpRead, TakeEvent, Lease!Acquire, FailEvent, Lease!Release, ConcludeEvent, Lease!Conclude, RecordReceived, NotifyConfirmed, CancelPending, Releases, NotifyExpired, ApplyRefund, SweepFind, SweepCancel, WorkerCrash, OpWrite

(* No update makes a hold of a booking that is none. *)
LEMMA OneHoldStep == TypeOK /\ OwnSession /\ OneHold /\ [Next]_vars => OneHold'
<1> SUFFICES ASSUME TypeOK, OwnSession, OneHold, [Next]_vars PROVE OneHold'
  OBVIOUS
<1> USE SessionAssumption, AmountAssumption, Events DEF TypeOK, OneHold, OwnSession, At, Goto, NothingElse, rowVars, stripeVars, opVars, sweepVars, eventVars
<1>1. ASSUME UNCHANGED <<status, intent, paying>> PROVE OneHold'
  BY <1>1
<1>2. ASSUME NEW b \in Booking, NEW c \in Client, CheckoutRead(c, b) PROVE OneHold'
  BY <1>2 DEF CheckoutRead
<1>3. ASSUME NEW p \in paying, NEW s \in Session, CheckoutWrite(p, s) PROVE OneHold'
  BY <1>3 DEF CheckoutWrite
<1>4. ASSUME NEW e \in Event, ConfirmBooking(e) PROVE OneHold'
  <2>1. CASE Confirms(e, BookingOf[e.session])
    BY <1>4, <2>1 DEF ConfirmBooking, Confirms
  <2>2. CASE ~Confirms(e, BookingOf[e.session])
    BY <1>4, <2>2 DEF ConfirmBooking
  <2>3. QED
    BY <2>1, <2>2
<1>5. ASSUME NEW e \in Event, CancelPending(e) PROVE OneHold'
  BY <1>5 DEF CancelPending, Releases
<1>6. ASSUME SweepCancel PROVE OneHold'
  BY <1>6 DEF SweepCancel
<1>7. ASSUME NEW o \in ops, OpWrite(o) PROVE OneHold'
  BY <1>7 DEF OpWrite, Op, Does, NewStatus
<1> HIDE DEF OneHold
<1>8. QED
  BY <1>1, <1>2, <1>3, <1>4, <1>5, <1>6, <1>7
     DEF Next, HandleEvent, vars, rowVars, stripeVars, opVars, sweepVars, eventVars, At, Goto, NothingElse,
         HoldRunsOut, SweepNotify, OpRead, Stripe, Happens, Lease!Emit, Refund, TakeEvent, Lease!Acquire, FailEvent, Lease!Release, ConcludeEvent, Lease!Conclude, RecordReceived, NotifyConfirmed, NotifyExpired, ApplyRefund, SweepFind, WorkerCrash

(* A delivery of a session confirms or cancels its hold, or finds none. *)
LEMMA NoHoldStep == TypeOK /\ StepOfPhase /\ EmittedOfSession /\ OwnSession /\ HandledLeavesNoHold /\ [Next]_vars => HandledLeavesNoHold'
<1> SUFFICES ASSUME TypeOK, StepOfPhase, EmittedOfSession, OwnSession, HandledLeavesNoHold, [Next]_vars PROVE HandledLeavesNoHold'
  OBVIOUS
<1> USE SessionAssumption, Events DEF TypeOK, StepOfPhase, EmittedOfSession, OwnSession, HandledLeavesNoHold, At, Goto, NothingElse, rowVars, stripeVars, opVars, sweepVars, eventVars
<1>1. ASSUME UNCHANGED <<session, status, step>> PROVE HandledLeavesNoHold'
  BY <1>1
<1>2. ASSUME NEW p \in paying, NEW s \in Session, CheckoutWrite(p, s) PROVE HandledLeavesNoHold'
  BY <1>2 DEF CheckoutWrite
<1>3. ASSUME NEW e \in Event, TakeEvent(e) PROVE HandledLeavesNoHold'
  BY <1>3 DEF TakeEvent, Lease!Acquire
<1>4. ASSUME NEW e \in Event, FailEvent(e) PROVE HandledLeavesNoHold'
  BY <1>4 DEF FailEvent, Lease!Release
<1>5. ASSUME NEW e \in Event, ConfirmBooking(e) PROVE HandledLeavesNoHold'
  <2>1. CASE Confirms(e, BookingOf[e.session])
    BY <1>5, <2>1 DEF ConfirmBooking, Confirms
  <2>2. CASE ~Confirms(e, BookingOf[e.session])
    <3>1. step' = [step EXCEPT ![e] = "done"] /\ UNCHANGED <<session, status>> /\ e = Completed(e.session)
      BY <1>5, <2>2 DEF ConfirmBooking
    <3>2. ASSUME NEW b \in Booking, session[b] = e.session PROVE status[b] # "PENDING_PAYMENT"
      BY <2>2, <3>2 DEF Confirms
    <3>3. ASSUME NEW f \in Event, f # e PROVE step'[f] = step[f]
      BY <3>1, <3>3
    <3>4. \A s \in Session : Ended(s) # e
      BY <1>5 DEF ConfirmBooking
    <3>5. ASSUME NEW s \in Session, NEW b \in Booking, session'[b] = s,
                 step'[Completed(s)] # "start" \/ step'[Ended(s)] # "start"
          PROVE  status'[b] # "PENDING_PAYMENT"
      <4>1. CASE Completed(s) = e
        BY <3>1, <3>2, <3>5, <4>1
      <4>2. CASE Completed(s) # e
        BY <3>1, <3>3, <3>4, <3>5, <4>2
      <4>3. QED
        BY <4>1, <4>2
    <3>6. QED
      BY <3>5
  <2>3. QED
    BY <2>1, <2>2
<1>6. ASSUME NEW e \in Event, RecordReceived(e) PROVE HandledLeavesNoHold'
  BY <1>6 DEF RecordReceived
<1>7. ASSUME NEW e \in Event, NotifyConfirmed(e) PROVE HandledLeavesNoHold'
  BY <1>7 DEF NotifyConfirmed
<1>8. ASSUME NEW e \in Event, CancelPending(e) PROVE HandledLeavesNoHold'
  BY <1>8 DEF CancelPending, Releases
<1>9. ASSUME NEW e \in Event, NotifyExpired(e) PROVE HandledLeavesNoHold'
  BY <1>9 DEF NotifyExpired
<1>10. ASSUME NEW e \in Event, ApplyRefund(e) PROVE HandledLeavesNoHold'
  BY <1>10 DEF ApplyRefund, Refunds
<1>11. ASSUME SweepCancel PROVE HandledLeavesNoHold'
  BY <1>11 DEF SweepCancel
<1>12. ASSUME NEW o \in ops, OpWrite(o) PROVE HandledLeavesNoHold'
  BY <1>12 DEF OpWrite, Op, Does, NewStatus
<1> HIDE DEF HandledLeavesNoHold
<1>13. QED
  BY <1>1, <1>2, <1>3, <1>4, <1>5, <1>6, <1>7, <1>8, <1>9, <1>10, <1>11, <1>12
     DEF Next, HandleEvent, vars, rowVars, stripeVars, opVars, sweepVars, eventVars, At, Goto, NothingElse,
         HoldRunsOut, SweepNotify, CheckoutRead, OpRead, Stripe, Happens, Lease!Emit, Refund, ConcludeEvent, Lease!Conclude, SweepFind, WorkerCrash

(* A delivery that does not fail writes one thing after the other. *)
LEMMA WrittenStep == TypeOK /\ StepOfPhase /\ OwnSession /\ OneHold /\ Written /\ [Next]_vars => Written'
<1> SUFFICES ASSUME TypeOK, StepOfPhase, OwnSession, OneHold, Written, [Next]_vars PROVE Written'
  OBVIOUS
<1> USE SessionAssumption, AmountAssumption, Events DEF TypeOK, StepOfPhase, OwnSession, OneHold, Written, At, Goto, NothingElse, rowVars, stripeVars, opVars, sweepVars, eventVars
<1>1. ASSUME UNCHANGED <<intent, failed, step, received, jobs>> PROVE Written'
  BY <1>1
<1>2. ASSUME NEW b \in Booking, SweepNotify(b) PROVE Written'
  BY <1>2 DEF SweepNotify
<1>3. ASSUME NEW e \in Event, TakeEvent(e) PROVE Written'
  BY <1>3 DEF TakeEvent, Lease!Acquire
<1>4. ASSUME NEW e \in Event, FailEvent(e) PROVE Written'
  BY <1>4 DEF FailEvent, Lease!Release
<1>5. ASSUME NEW e \in Event, ConfirmBooking(e) PROVE Written'
  BY <1>5 DEF ConfirmBooking, Confirms
<1>6. ASSUME NEW e \in Event, RecordReceived(e) PROVE Written'
  BY <1>6 DEF RecordReceived
<1>7. ASSUME NEW e \in Event, NotifyConfirmed(e) PROVE Written'
  <2>1. CASE step[e] = "notify"
    BY <1>7, <2>1 DEF NotifyConfirmed
  <2>2. CASE step[e] = "remind"
    BY <1>7, <2>2 DEF NotifyConfirmed
  <2>3. QED
    BY <1>7, <2>1, <2>2 DEF NotifyConfirmed
<1>8. ASSUME NEW e \in Event, CancelPending(e) PROVE Written'
  BY <1>8 DEF CancelPending, Releases
<1>9. ASSUME NEW e \in Event, NotifyExpired(e) PROVE Written'
  BY <1>9 DEF NotifyExpired
<1>10. ASSUME NEW e \in Event, ApplyRefund(e) PROVE Written'
  BY <1>10 DEF ApplyRefund, Refunds
<1>11. ASSUME NEW o \in ops, OpWrite(o) PROVE Written'
  BY <1>11 DEF OpWrite, Op
<1> HIDE DEF Written
<1>12. QED
  BY <1>1, <1>2, <1>3, <1>4, <1>5, <1>6, <1>7, <1>8, <1>9, <1>10, <1>11
     DEF Next, HandleEvent, vars, rowVars, stripeVars, opVars, sweepVars, eventVars, At, Goto, NothingElse,
         HoldRunsOut, CheckoutRead, OpRead, CheckoutWrite, Stripe, Happens, Lease!Emit, Refund, ConcludeEvent, Lease!Conclude, SweepFind, SweepCancel, WorkerCrash

(* A row with a refund has an intent, so it is no hold: only the next      *)
(* refund event writes its amount and its payment status.                  *)
LEMMA RefundsStep == TypeOK /\ StepOfPhase /\ OneHold /\ NoIntentNoRefund /\ RefundStands /\ [Next]_vars => (NoIntentNoRefund /\ RefundStands)'
<1> SUFFICES ASSUME TypeOK, StepOfPhase, OneHold, NoIntentNoRefund, RefundStands, [Next]_vars PROVE (NoIntentNoRefund /\ RefundStands)'
  OBVIOUS
<1> USE SessionAssumption, AmountAssumption, Events DEF TypeOK, StepOfPhase, OneHold, NoIntentNoRefund, RefundStands, Tells, Refunds, Refunded, At, Goto, NothingElse, rowVars, stripeVars, opVars, sweepVars, eventVars
<1>1. ASSUME UNCHANGED <<intent, refunded, pay, emitted>> PROVE (NoIntentNoRefund /\ RefundStands)'
  BY <1>1
<1>2. ASSUME NEW s \in Session, Stripe(s) PROVE (NoIntentNoRefund /\ RefundStands)'
  BY <1>2 DEF Stripe, Happens, Lease!Emit
<1>3. ASSUME NEW s \in Session, NEW e \in Event, Refund(s, e) PROVE (NoIntentNoRefund /\ RefundStands)'
  BY <1>3 DEF Refund, Lease!Emit
<1>4. ASSUME NEW e \in Event, ConfirmBooking(e) PROVE (NoIntentNoRefund /\ RefundStands)'
  BY <1>4 DEF ConfirmBooking, Confirms
<1>5. ASSUME NEW e \in Event, ApplyRefund(e) PROVE (NoIntentNoRefund /\ RefundStands)'
  <2>1. e \in emitted
    BY <1>5 DEF ApplyRefund
  <2>2. NoIntentNoRefund'
    BY <1>5 DEF ApplyRefund
  <2>3. ASSUME NEW b \in Booking, intent[b] # e.session PROVE refunded'[b] = refunded[b] /\ pay'[b] = pay[b]
    BY <1>5, <2>3 DEF ApplyRefund
  <2>4. ASSUME NEW b \in Booking, intent[b] = e.session
        PROVE  refunded'[b] = e.amount /\ pay'[b] = IF e.amount >= Charge[b] THEN "REFUNDED" ELSE "PARTIALLY_REFUNDED"
    BY <1>5, <2>4 DEF ApplyRefund
  <2>5. UNCHANGED <<intent, emitted>> /\ e.type \in Refunds
    BY <1>5 DEF ApplyRefund
  <2>6. RefundStands'
    BY <2>1, <2>3, <2>4, <2>5
  <2>7. QED
    BY <2>2, <2>6
<1> HIDE DEF NoIntentNoRefund, RefundStands
<1>6. QED
  BY <1>1, <1>2, <1>3, <1>4, <1>5
     DEF Next, HandleEvent, vars, rowVars, stripeVars, opVars, sweepVars, eventVars, At, Goto, NothingElse,
         HoldRunsOut, SweepNotify, CheckoutRead, OpRead, CheckoutWrite, TakeEvent, Lease!Acquire, FailEvent, Lease!Release, ConcludeEvent, Lease!Conclude, RecordReceived, NotifyConfirmed, CancelPending, Releases, NotifyExpired, SweepFind, SweepCancel, WorkerCrash, OpWrite

(* The invariant behind the theorems. *)
LEMMA Invariant == Spec => []IInv
<1>1. Init => IInv
  <2>1. ASSUME Init PROVE TypeOK
    <3>1. jobs \subseteq Job
      BY <2>1 DEF Init, Job, JobsOf
    <3>2. started \in 0..MaxOps /\ faults \in 0..MaxFaults
      BY <2>1, BoundAssumption DEF Init
    <3>3. QED
      BY <2>1, <3>1, <3>2 DEF Init, TypeOK, Active, Lease!Init
  <2>2. ASSUME Init PROVE StepOfPhase /\ EmittedOfSession /\ OwnSession /\ HandledLeavesNoHold
    BY <2>2, SessionAssumption, Events
       DEF Init, StepOfPhase, EmittedOfSession, OwnSession, HandledLeavesNoHold, Lease!Init
  <2>3. ASSUME Init PROVE OneHold
    BY <2>3, AmountAssumption DEF Init, OneHold
  <2>4. ASSUME Init PROVE Written /\ NoIntentNoRefund /\ RefundStands
    BY <2>4, SessionAssumption DEF Init, Written, NoIntentNoRefund, RefundStands, Refunded, Lease!Init
  <2>5. QED
    BY <2>1, <2>2, <2>3, <2>4 DEF IInv
<1>2. IInv /\ [Next]_vars => IInv'
  BY TypeStep, StepOfPhaseStep, EmittedStep, OwnSessionStep, OneHoldStep,
     NoHoldStep, WrittenStep, RefundsStep DEF IInv
<1>3. QED
  BY <1>1, <1>2, PTL DEF Spec

-----------------------------------------------------------------------------
(* The rows of the bookings, the sessions and the events are well typed,   *)
(* for any number of bookings, sessions, calls and failures.               *)
THEOREM TypeCorrect == Spec => []TypeOK
<1>1. IInv => TypeOK
  BY DEF IInv
<1>2. QED
  BY <1>1, Invariant, PTL

(* When the event of a completed session is concluded, the booking whose   *)
(* row names that session is no longer PENDING_PAYMENT, whichever          *)
(* deliveries failed and checkouts were repeated.                          *)
THEOREM NoHoldOrphaned == Spec => []NoOrphanHold
<1>1. IInv => NoOrphanHold
  BY Events DEF IInv, TypeOK, StepOfPhase, HandledLeavesNoHold, NoOrphanHold
<1>2. QED
  BY <1>1, Invariant, PTL

(* An expired session that the webhook is done with keeps no slot of the   *)
(* calendar, unless another session of its booking was completed.          *)
THEOREM EndedReleases == Spec => []EndedCheckoutReleases
<1>1. IInv => EndedCheckoutReleases
  <2> SUFFICES ASSUME IInv, NEW s \in Session, NEW b \in Booking,
                      phase[Ended(s)] = "concluded", sess[s] = "expired",
                      session[b] = s, status[b] \in Active
               PROVE  intent[b] \notin {NoSession, s}
    BY DEF EndedCheckoutReleases, BlocksUnpaid
  <2> USE SessionAssumption, Events DEF IInv
  <2>1. status[b] = "CONFIRMED"
    BY DEF StepOfPhase, HandledLeavesNoHold, Active
  <2>2. intent[b] # NoSession
    BY <2>1 DEF OneHold, OwnSession
  <2>3. intent[b] # s
    BY <2>2 DEF OwnSession, EmittedOfSession
  <2>4. QED
    BY <2>2, <2>3
<1>2. QED
  BY <1>1, Invariant, PTL

(* A payment whose completed event was concluded without a failure is in   *)
(* the books and its mails are queued, whatever was recorded on site in    *)
(* the meantime.                                                           *)
THEOREM CapturesAreRecorded == Spec => []CaptureRecorded
<1>1. IInv => CaptureRecorded
  <2> SUFFICES ASSUME IInv, NEW s \in Session, NEW b \in Booking, intent[b] = s,
                      phase[Completed(s)] = "concluded", Completed(s) \notin failed
               PROVE  Recorded(b)
    BY DEF CaptureRecorded
  <2>1. step[Completed(s)] = "done"
    BY Events DEF IInv, StepOfPhase
  <2>2. QED
    BY <2>1 DEF IInv, Written, Recorded, JobsOf
<1>2. QED
  BY <1>1, Invariant, PTL

(* What a row shows as refunded is the amount of one refund event of its   *)
(* own payment, and the payment status goes with it, however often the     *)
(* events are delivered and whichever confirmations are resumed.           *)
THEOREM RefundsStand == Spec => []RefundStands
<1>1. IInv => RefundStands
  BY DEF IInv
<1>2. QED
  BY <1>1, Invariant, PTL

-----------------------------------------------------------------------------
(* Every step of the payments is one of the lifecycle or leaves the status *)
(* of every booking alone.                                                 *)
LEMMA LifecycleStep == TypeOK /\ [Next]_vars => [Lifecycle!Next]_status
<1> SUFFICES ASSUME TypeOK, [Next]_vars PROVE [Lifecycle!Next]_status
  OBVIOUS
<1>1. ASSUME UNCHANGED status PROVE [Lifecycle!Next]_status
  BY <1>1
<1>2. ASSUME NEW C \in SUBSET Booking, NEW t \in Terminal,
             status' = [b \in Booking |-> IF b \in C THEN t ELSE status[b]]
      PROVE  [Lifecycle!Next]_status
  <2>1. \A b \in Booking : status[b] # "ABSENT"
    BY DEF TypeOK, Active, Terminal
  <2>2. QED
    BY <1>2, <2>1 DEF Lifecycle!Next, Lifecycle!Close, Lifecycle!Terminal, Terminal
<1>3. ASSUME NEW e \in Event, ConfirmBooking(e) PROVE [Lifecycle!Next]_status
  <2>1. BookingOf[e.session] \in Booking
    BY SessionAssumption, Events
  <2>2. QED
    BY <1>3, <2>1 DEF ConfirmBooking, Confirms, Lifecycle!Next, Lifecycle!Confirm
<1>4. ASSUME NEW e \in Event, CancelPending(e) PROVE [Lifecycle!Next]_status
  <2> DEFINE C == {b \in Booking : Releases(e, b)}
  <2>1. status' = [b \in Booking |-> IF b \in C THEN "CANCELLED" ELSE status[b]]
    BY <1>4 DEF CancelPending
  <2>2. C \in SUBSET Booking /\ "CANCELLED" \in Terminal
    BY DEF Terminal
  <2> HIDE DEF C
  <2>3. QED
    BY <1>2, <2>1, <2>2
<1>5. ASSUME SweepCancel PROVE [Lifecycle!Next]_status
  <2>1. stale \in SUBSET Booking /\ "CANCELLED" \in Terminal
    BY DEF TypeOK, Terminal
  <2>2. QED
    BY <1>2, <1>5, <2>1 DEF SweepCancel
<1>6. ASSUME NEW o \in ops, OpWrite(o) PROVE [Lifecycle!Next]_status
  <2>1. CASE o.does = "onSite"
    BY <1>6, <2>1 DEF OpWrite
  <2>2. CASE o.does # "onSite"
    <3>1. o.on \in Booking /\ o.does \in {"cancel", "complete", "noShow"}
      BY <2>2 DEF TypeOK, Op, Does
    <3>2. NewStatus[o.does] \in Terminal
      BY <3>1 DEF NewStatus, Terminal
    <3>3. status' = [b \in Booking |-> IF b \in {o.on} THEN NewStatus[o.does] ELSE status[b]]
      BY <1>6, <2>2, <3>1 DEF OpWrite, TypeOK
    <3>4. QED
      BY <1>2, <3>1, <3>2, <3>3
  <2>3. QED
    BY <2>1, <2>2
<1>7. QED
  BY <1>1, <1>3, <1>4, <1>5, <1>6
     DEF Next, HandleEvent, vars, rowVars, stripeVars, opVars, sweepVars, eventVars, At, Goto, NothingElse,
         HoldRunsOut, SweepNotify, CheckoutRead, OpRead, CheckoutWrite, Stripe, Happens, Refund, TakeEvent,
         FailEvent, ConcludeEvent, RecordReceived, NotifyConfirmed, NotifyExpired, ApplyRefund, SweepFind, WorkerCrash

(* The webhook, the sweep and the operations, of which each writes by what *)
(* it read before, keep to the lifecycle of a booking.                     *)
THEOREM PaymentsKeepLifecycle == Spec => LifecycleSpec
<1>1. Init => Lifecycle!Init
  BY DEF Init, Lifecycle!Init, Lifecycle!Active
<1>2. IInv => TypeOK
  BY DEF IInv
<1>3. QED
  BY <1>1, <1>2, Invariant, LifecycleStep, PTL DEF Spec, LifecycleSpec, Lifecycle!Spec
=============================================================================
