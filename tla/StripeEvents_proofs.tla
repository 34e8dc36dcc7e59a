------------------------- MODULE StripeEvents_proofs -------------------------
(***************************************************************************)
(* Proofs about the webhook ledger for any number of events, handlers and  *)
(* faults and for any timeout.  The safety invariants rest on LeaseInv: as *)
(* long as no handler of an event has outlasted the timeout, the handler   *)
(* and the row agree on when the event was claimed.                        *)
(***************************************************************************)
EXTENDS StripeEvents, TLAPS

(* What a row and the handlers that hold its event know of each other.     *)
HolderAgrees ==
  \A e \in Event \ late : \A h \in Handler :
    Holds(h, e) => row[e] = "PROCESSING" /\ held[h] = age[e] /\ held[h] <= Timeout

LeaseInv == HolderAgrees /\ LeaseExclusive

(* A PROCESSED row is one of a concluded event, and so is what is acked.   *)
AnswerInv == /\ \A e \in Event : row[e] = "PROCESSED" => e \in concluded
             /\ AckedIsConcluded

(* A request is given only events that have happened. *)
Delivered == \A h \in Handler : pc[h] # "idle" => ev[h] \in emitted

(* A row that is not ABSENT is one of an event that has happened. *)
Recorded == \A e \in Event : row[e] # "ABSENT" => e \in emitted

TypeInv == TypeOK /\ Delivered /\ Recorded /\ AnswerInv

IInv == TypeInv /\ LeaseInv

-----------------------------------------------------------------------------
(* Every reachable state of the ledger is well typed, requests hold only   *)
(* events Stripe has sent, and what is acked is concluded.                 *)
LEMMA TypeInvStep == TypeInv /\ [Next]_vars => TypeInv'
<1> SUFFICES ASSUME TypeInv, [Next]_vars PROVE TypeInv'
  OBVIOUS
<1> USE TimeoutAssumption, FaultsAssumption
<1> USE DEF TypeInv, TypeOK, Delivered, Recorded, AnswerInv, AckedIsConcluded, Status, Claiming, Holding, Goto, Age, Fault, Answer2xx
<1>1. ASSUME NEW e \in Event, Emit(e) PROVE TypeInv'
  BY <1>1 DEF Emit
<1>2. ASSUME NEW h \in Handler, NEW e \in Event, Deliver(h, e) PROVE TypeInv'
  BY <1>2 DEF Deliver
<1>3. ASSUME NEW h \in Handler, Create(h) PROVE TypeInv'
  BY <1>3 DEF Create, Claim
<1>4. ASSUME NEW h \in Handler, Read(h) PROVE TypeInv'
  BY <1>4 DEF Read
<1>5. ASSUME NEW h \in Handler, Reclaim(h) PROVE TypeInv'
  BY <1>5 DEF Reclaim, Reclaimable, Claim
<1>6. ASSUME NEW h \in Handler, Dispatch(h) PROVE TypeInv'
  BY <1>6 DEF Dispatch
<1>7. ASSUME NEW h \in Handler, Throw(h) PROVE TypeInv'
  BY <1>7 DEF Throw
<1>8. ASSUME NEW h \in Handler, MarkProcessed(h) PROVE TypeInv'
  BY <1>8 DEF MarkProcessed
<1>9. ASSUME NEW h \in Handler, MarkFailed(h) PROVE TypeInv'
  BY <1>9 DEF MarkFailed
<1>10. ASSUME NEW h \in Handler, Crash(h) PROVE TypeInv'
  BY <1>10 DEF Crash
<1>11. ASSUME Tick PROVE TypeInv'
  BY <1>11 DEF Tick, Overrunning
<1>12. CASE UNCHANGED vars
  BY <1>12 DEF vars
<1>13. QED
  BY <1>1, <1>2, <1>3, <1>4, <1>5, <1>6, <1>7, <1>8, <1>9, <1>10, <1>11, <1>12 DEF Next, Step

-----------------------------------------------------------------------------
(* The lease survives every step: a request becomes a holder only when the *)
(* row says that nobody is one, and leaves the row as it is until it ends. *)
LEMMA LeaseInvStep == TypeOK /\ LeaseInv /\ [Next]_vars => LeaseInv'
<1> SUFFICES ASSUME TypeOK, LeaseInv, [Next]_vars PROVE LeaseInv'
  OBVIOUS
<1> USE TimeoutAssumption
<1> USE DEF TypeOK, LeaseInv, HolderAgrees, LeaseExclusive, Holds, Status, Claiming, Holding, Goto
(* A request that claims its event when no one holds it. *)
<1>1. ASSUME NEW h \in Handler, pc[h] \in Claiming, Claim(h), ev[h] \notin late => \A g \in Handler : ~Holds(g, ev[h])
      PROVE LeaseInv'
  <2>1. /\ late' = late
        /\ ev' = ev
        /\ \A g \in Handler \ {h} : pc'[g] = pc[g] /\ held'[g] = held[g]
        /\ pc'[h] = "dispatch" /\ held'[h] = 0
        /\ \A e \in Event \ {ev[h]} : row'[e] = row[e] /\ age'[e] = age[e]
        /\ row'[ev[h]] = "PROCESSING" /\ age'[ev[h]] = 0
    BY <1>1 DEF Claim
  <2>2. QED
    BY <1>1, <2>1
(* A holder that goes on, and a request that ends without touching the row. *)
<1>2. ASSUME NEW h \in Handler, NEW to, Goto(h, to), to \in Holding => pc[h] \in Holding,
             UNCHANGED <<row, age, ev, held, late>>
      PROVE LeaseInv'
  BY <1>2
(* A holder that ends: it was the only one. *)
<1>3. ASSUME NEW h \in Handler, pc[h] \in Holding, Goto(h, "idle"),
             \A e \in Event \ {ev[h]} : row'[e] = row[e], UNCHANGED <<age, ev, held, late>>
      PROVE LeaseInv'
  <2>1. \A g \in Handler : Holds(g, ev[h])' => g # h /\ Holds(g, ev[h])
    BY <1>3
  <2>2. ev[h] \notin late => \A g \in Handler : ~Holds(g, ev[h])'
    BY <1>3, <2>1
  <2>3. \A g \in Handler, e \in Event \ {ev[h]} : Holds(g, e)' => Holds(g, e)
    BY <1>3
  <2>4. QED
    BY <1>3, <2>2, <2>3
<1>4. ASSUME NEW e \in Event, Emit(e) PROVE LeaseInv'
  BY <1>4 DEF Emit
<1>5. ASSUME NEW h \in Handler, NEW e \in Event, Deliver(h, e) PROVE LeaseInv'
  BY <1>5 DEF Deliver
<1>6. ASSUME NEW h \in Handler, Create(h) PROVE LeaseInv'
  BY <1>1, <1>2, <1>6 DEF Create
<1>7. ASSUME NEW h \in Handler, Read(h) PROVE LeaseInv'
  BY <1>2, <1>7 DEF Read
<1>8. ASSUME NEW h \in Handler, Reclaim(h) PROVE LeaseInv'
  <2>1. Reclaimable(ev[h]) /\ ev[h] \notin late => \A g \in Handler : ~Holds(g, ev[h])
    BY DEF Reclaimable
  <2>2. QED
    BY <1>1, <1>2, <1>8, <2>1 DEF Reclaim
<1>9. ASSUME NEW h \in Handler, Dispatch(h) PROVE LeaseInv'
  BY <1>2, <1>9 DEF Dispatch
<1>10. ASSUME NEW h \in Handler, Throw(h) PROVE LeaseInv'
  BY <1>2, <1>10 DEF Throw
<1>11. ASSUME NEW h \in Handler, MarkProcessed(h) PROVE LeaseInv'
  BY <1>3, <1>11 DEF MarkProcessed
<1>12. ASSUME NEW h \in Handler, MarkFailed(h) PROVE LeaseInv'
  BY <1>3, <1>12 DEF MarkFailed
<1>13. ASSUME NEW h \in Handler, Crash(h) PROVE LeaseInv'
  BY <1>2, <1>13 DEF Crash
<1>14. ASSUME Tick PROVE LeaseInv'
  <2>1. UNCHANGED <<row, pc, ev>> /\ late \subseteq late'
    BY <1>14 DEF Tick
  <2>2. \A h, g \in Handler, e \in Event : Holds(h, e)' <=> Holds(h, e)
    BY <2>1
  <2>3. ASSUME NEW e \in Event \ late', NEW h \in Handler, Holds(h, e)
        PROVE row'[e] = "PROCESSING" /\ held'[h] = age'[e] /\ held'[h] <= Timeout
    <3>1. h \notin Overrunning
      BY <1>14, <2>3 DEF Tick
    <3>2. held[h] < Timeout /\ held[h] = age[e] /\ row[e] = "PROCESSING"
      BY <2>1, <2>3, <3>1 DEF Overrunning
    <3>3. held'[h] = Age(held[h]) /\ age'[e] = Age(age[e])
      BY <1>14 DEF Tick
    <3>4. QED
      BY <2>1, <3>2, <3>3 DEF Age
  <2>4. QED
    BY <2>1, <2>2, <2>3
<1>15. CASE UNCHANGED vars
  BY <1>15 DEF vars
<1>16. QED
  BY <1>4, <1>5, <1>6, <1>7, <1>8, <1>9, <1>10, <1>11, <1>12, <1>13, <1>14, <1>15 DEF Next, Step

-----------------------------------------------------------------------------
(* The invariant behind the theorems, of every behaviour of the ledger.    *)
LEMMA Invariant == Spec => []IInv
<1>1. Init => IInv
  BY TimeoutAssumption, FaultsAssumption
     DEF Init, IInv, TypeInv, TypeOK, Delivered, Recorded, AnswerInv, AckedIsConcluded,
         LeaseInv, HolderAgrees, LeaseExclusive, Holds, Status, Claiming, Holding
<1>2. IInv /\ [Next]_vars => IInv'
  BY TypeInvStep, LeaseInvStep DEF IInv, TypeInv
<1>3. QED
  BY <1>1, <1>2, PTL DEF Spec

(* The ledger is well typed, for every number of events and handlers.      *)
THEOREM TypeCorrect == Spec => []TypeOK
<1>1. IInv => TypeOK
  BY DEF IInv, TypeInv
<1>2. QED
  BY <1>1, Invariant, PTL

(* No two handlers ever run the same event at once, however many there are *)
(* and whatever the timeout, unless one of that event outlasted it.        *)
THEOREM LeaseIsExclusive == Spec => []LeaseExclusive
<1>1. IInv => LeaseExclusive
  BY DEF IInv, LeaseInv
<1>2. QED
  BY <1>1, Invariant, PTL

(* No 2xx answer ever stops the redelivery of an event that has not once   *)
(* been dispatched to its end, overrunning handlers included.              *)
THEOREM AckedAreConcluded == Spec => []AckedIsConcluded
<1>1. IInv => AckedIsConcluded
  BY DEF IInv, TypeInv, AnswerInv
<1>2. QED
  BY <1>1, Invariant, PTL

(* A PROCESSED row is never changed again, unless a handler of its event   *)
(* outlasted the timeout.                                                  *)
THEOREM ProcessedStays == Spec => ProcessedIsFinal
<1> DEFINE Final == \A e \in Event : row[e] = "PROCESSED" /\ e \notin late => row'[e] = "PROCESSED"
<1>1. IInv /\ [Next]_vars => Final
  <2> SUFFICES ASSUME IInv, [Next]_vars, NEW e \in Event, row[e] = "PROCESSED", e \notin late
               PROVE row'[e] = "PROCESSED"
    BY DEF Final
  <2> USE DEF IInv, TypeInv, TypeOK
  <2>1. \A h \in Handler : ~Holds(h, e)
    BY DEF LeaseInv, HolderAgrees
  <2>2. ASSUME NEW h \in Handler, Step(h) PROVE row'[e] = "PROCESSED"
    BY <2>1, <2>2 DEF Step, Create, Read, Reclaim, Reclaimable, Claim, Dispatch, MarkProcessed, MarkFailed, Holds, Holding
  <2>3. ASSUME NEW h \in Handler, NEW f \in Event, Deliver(h, f) PROVE row'[e] = "PROCESSED"
    BY <2>3 DEF Deliver
  <2>4. ASSUME NEW h \in Handler, Throw(h) \/ Crash(h) PROVE row'[e] = "PROCESSED"
    BY <2>4 DEF Throw, Crash
  <2>5. QED
    BY <2>2, <2>3, <2>4 DEF Next, Emit, Tick, vars
<1>2. QED
  BY <1>1, Invariant, PTL DEF Spec, ProcessedIsFinal

-----------------------------------------------------------------------------
(* The phase of one event changes when its row or its holders do, ...      *)
LEMMA PhaseOfOne ==
  ASSUME NEW e \in Event, NEW v, phase'[e] = v,
         \A f \in Event \ {e} : /\ row'[f] = row[f]
                               /\ \A g \in Handler : Holds(g, f)' <=> Holds(g, f)
  PROVE  phase' = [phase EXCEPT ![e] = v]
BY DEF phase

(* ... and a step that changes neither changes no phase.                   *)
LEMMA PhaseOfNone ==
  ASSUME row' = row, \A f \in Event, g \in Handler : Holds(g, f)' <=> Holds(g, f)
  PROVE  phase' = phase
BY DEF phase

(* A claim is the Acquire of the lease, ...                                *)
LEMMA ClaimAcquires ==
  ASSUME IInv, NEW h \in Handler, NEW e \in Event, ev[h] = e, pc[h] \in Claiming, Claim(h),
         row[e] # "PROCESSED", \A g \in Handler : ~Holds(g, e)
  PROVE  Lease!Acquire(e)
<1> USE DEF IInv, TypeInv, TypeOK
<1>1. phase[e] = "open"
  BY DEF phase
<1>2. Holds(h, e)' /\ row'[e] = "PROCESSING"
  BY DEF Claim, Holds, Holding, Goto
<1>3. phase'[e] = "held"
  BY <1>2 DEF phase
<1>4. \A f \in Event \ {e} : /\ row'[f] = row[f]
                               /\ \A g \in Handler : Holds(g, f)' <=> Holds(g, f)
  BY DEF Claim, Holds, Holding, Claiming, Goto
<1>5. phase' = [phase EXCEPT ![e] = "held"]
  BY <1>3, <1>4, PhaseOfOne
<1>6. e \in emitted
  BY DEF Delivered, Claiming
<1>7. QED
  BY <1>1, <1>5, <1>6 DEF Lease!Acquire, Claim

(* ... the end of a holder without success the Release, ...                *)
LEMMA EndReleases ==
  ASSUME IInv, NEW h \in Handler, NEW e \in Event \ late, ev[h] = e, pc[h] \in Holding,
         Goto(h, "idle"), row'[e] # "PROCESSED", \A f \in Event \ {e} : row'[f] = row[f],
         UNCHANGED <<ev, emitted, acked, late>>
  PROVE  Lease!Release(e)
<1> USE DEF IInv, TypeInv, TypeOK
<1>1. Holds(h, e)
  BY DEF Holds
<1>2. phase[e] = "held"
  BY <1>1 DEF phase, LeaseInv, HolderAgrees
<1>3. \A g \in Handler : Holds(g, e) => g = h
  BY <1>1 DEF LeaseInv, LeaseExclusive
<1>4. /\ ~Holds(h, e)'
      /\ \A g \in Handler \ {h}, f \in Event : Holds(g, f)' <=> Holds(g, f)
      /\ \A f \in Event \ {e} : ~Holds(h, f) /\ ~Holds(h, f)'
  BY DEF Goto, Holds, Holding
<1>5. phase'[e] = "open"
  BY <1>1, <1>3, <1>4 DEF phase
<1>6. \A f \in Event \ {e} : \A g \in Handler : Holds(g, f)' <=> Holds(g, f)
  BY <1>4
<1>7. phase' = [phase EXCEPT ![e] = "open"]
  BY <1>1, <1>5, <1>6, PhaseOfOne
<1>8. QED
  BY <1>2, <1>7 DEF Lease!Release

(* ... and whatever a handler of a late event does goes astray. *)
LEMMA LateStrays ==
  ASSUME IInv, NEW h \in Handler, NEW e \in Event, e \in late, ev[h] = e, Step(h) \/ Throw(h) \/ Crash(h)
  PROVE  Lease!Stray(e)
<1> USE DEF IInv, TypeInv, TypeOK
<1>1. /\ UNCHANGED <<ev, emitted, late>>
      /\ acked' \in {acked, acked \cup {e}}
      /\ \A f \in Event \ {e} : row'[f] = row[f]
      /\ \A g \in Handler \ {h} : pc'[g] = pc[g]
  BY DEF Step, Create, Read, Reclaim, Claim, Dispatch, MarkProcessed, MarkFailed, Throw, Crash, Goto, Answer2xx
<1>2. \A f \in Event \ {e}, g \in Handler : Holds(g, f)' <=> Holds(g, f)
  BY <1>1 DEF Holds
<1>3. PICK p \in {"open", "held", "concluded"} : phase'[e] = p
  BY DEF phase
<1>4. phase' = [phase EXCEPT ![e] = p]
  BY <1>1, <1>2, <1>3, PhaseOfOne
<1>5. QED
  BY <1>1, <1>4 DEF Lease!Stray

(* Every step of the ledger is one of the lease or leaves it alone.        *)
LEMMA LeaseStep == IInv /\ [Next]_vars => [Lease!Next]_Lease!vars
<1> SUFFICES ASSUME IInv, [Next]_vars PROVE [Lease!Next]_Lease!vars
  OBVIOUS
<1> USE DEF IInv, TypeInv, TypeOK
<1> DEFINE Stutter == UNCHANGED <<phase, emitted, acked, late>>
<1>0. Stutter => UNCHANGED Lease!vars
  BY DEF Lease!vars
<1>1. ASSUME NEW h \in Handler, pc[h] \notin Holding, NEW to, to \notin Holding, Goto(h, to),
             UNCHANGED <<row, emitted, acked, late>>, \A g \in Handler \ {h} : ev'[g] = ev[g]
      PROVE Stutter
  <2>1. \A f \in Event, g \in Handler : Holds(g, f)' <=> Holds(g, f)
    BY <1>1 DEF Holds, Goto
  <2>2. QED
    BY <1>1, <2>1, PhaseOfNone
<1>2. ASSUME NEW h \in Handler, pc[h] \in Holding, NEW to \in Holding, Goto(h, to),
             UNCHANGED <<row, ev, emitted, acked, late>>
      PROVE Stutter
  <2>1. \A f \in Event, g \in Handler : Holds(g, f)' <=> Holds(g, f)
    BY <1>2 DEF Holds, Goto
  <2>2. QED
    BY <1>2, <2>1, PhaseOfNone
<1>3. ASSUME NEW e \in Event, Emit(e) PROVE Lease!Emit(e)
  <2>1. phase' = phase
    BY <1>3, PhaseOfNone DEF Emit, Holds
  <2>2. QED
    BY <1>3, <2>1 DEF Emit, Lease!Emit
<1>4. ASSUME NEW h \in Handler, NEW e \in Event, Deliver(h, e) PROVE Stutter
  BY <1>1, <1>4 DEF Deliver, Holding
(* From here on h is a handler of an event that is not late. *)
<1>5. ASSUME NEW h \in Handler, ev[h] \notin late, Create(h) PROVE Stutter \/ Lease!Acquire(ev[h])
  <2>1. CASE row[ev[h]] = "ABSENT" /\ Claim(h)
    <3>1. \A g \in Handler : ~Holds(g, ev[h])
      BY <1>5, <2>1 DEF LeaseInv, HolderAgrees
    <3>2. QED
      BY <1>5, <2>1, <3>1, ClaimAcquires DEF Create, Claiming
  <2>2. CASE ~(row[ev[h]] = "ABSENT" /\ Claim(h))
    BY <1>1, <1>5, <2>2 DEF Create, Holding
  <2>3. QED
    BY <2>1, <2>2
<1>6. ASSUME NEW h \in Handler, Read(h) PROVE Stutter \/ Lease!Acknowledge(ev[h])
  <2>1. phase' = phase
    <3>1. \A f \in Event, g \in Handler : Holds(g, f)' <=> Holds(g, f)
      BY <1>6 DEF Read, Holds, Goto, Holding
    <3>2. QED
      BY <1>6, <3>1, PhaseOfNone DEF Read
  <2>2. row[ev[h]] = "PROCESSED" => phase[ev[h]] = "concluded"
    BY DEF phase
  <2>3. QED
    BY <1>6, <2>1, <2>2 DEF Read, Answer2xx, Lease!Acknowledge
<1>7. ASSUME NEW h \in Handler, ev[h] \notin late, Reclaim(h) PROVE Stutter \/ Lease!Acquire(ev[h])
  <2>1. CASE Reclaimable(ev[h]) /\ Claim(h)
    <3>1. row[ev[h]] # "PROCESSED" /\ \A g \in Handler : ~Holds(g, ev[h])
      BY <1>7, <2>1, TimeoutAssumption DEF Reclaimable, LeaseInv, HolderAgrees
    <3>2. QED
      BY <1>7, <2>1, <3>1, ClaimAcquires DEF Reclaim, Claiming
  <2>2. CASE ~(Reclaimable(ev[h]) /\ Claim(h))
    BY <1>1, <1>7, <2>2 DEF Reclaim, Holding
  <2>3. QED
    BY <2>1, <2>2
<1>8. ASSUME NEW h \in Handler, Dispatch(h) PROVE Stutter
  BY <1>2, <1>8 DEF Dispatch, Holding
<1>9. ASSUME NEW h \in Handler, Throw(h) PROVE Stutter
  BY <1>2, <1>9 DEF Throw, Holding
<1>10. ASSUME NEW h \in Handler, ev[h] \notin late, MarkProcessed(h) PROVE Lease!Conclude(ev[h])
  <2>1. ev[h] \in Event /\ Holds(h, ev[h]) /\ row'[ev[h]] = "PROCESSED"
    BY <1>10 DEF MarkProcessed, Holds, Holding
  <2>2. phase[ev[h]] = "held" /\ phase'[ev[h]] = "concluded"
    BY <1>10, <2>1 DEF phase, LeaseInv, HolderAgrees
  <2>3. \A f \in Event \ {ev[h]} : /\ row'[f] = row[f]
                                 /\ \A g \in Handler : Holds(g, f)' <=> Holds(g, f)
    BY <1>10 DEF MarkProcessed, Holds, Holding, Goto
  <2>4. phase' = [phase EXCEPT ![ev[h]] = "concluded"]
    BY <2>1, <2>2, <2>3, PhaseOfOne
  <2>5. QED
    BY <1>10, <2>2, <2>4 DEF MarkProcessed, Answer2xx, Lease!Conclude
<1>11. ASSUME NEW h \in Handler, ev[h] \notin late, MarkFailed(h) PROVE Lease!Release(ev[h])
  <2>1. row[ev[h]] = "PROCESSING"
    BY <1>11 DEF MarkFailed, LeaseInv, HolderAgrees, Holds, Holding
  <2>2. QED
    BY <1>11, <2>1, EndReleases DEF MarkFailed, Holding
<1>12. ASSUME NEW h \in Handler, ev[h] \notin late, Crash(h) PROVE Stutter \/ Lease!Release(ev[h])
  <2>1. CASE pc[h] \in Holding
    <3>1. row[ev[h]] = "PROCESSING"
      BY <1>12, <2>1 DEF LeaseInv, HolderAgrees, Holds
    <3>2. QED
      BY <1>12, <2>1, <3>1, EndReleases DEF Crash
  <2>2. CASE pc[h] \notin Holding
    BY <1>1, <1>12, <2>2 DEF Crash, Holding
  <2>3. QED
    BY <2>1, <2>2
<1>13. ASSUME Tick PROVE Lease!Outlast
  BY <1>13, PhaseOfNone DEF Tick, Holds, Lease!Outlast
<1>14. ASSUME UNCHANGED vars PROVE Stutter
  BY <1>14, PhaseOfNone DEF vars, Holds
<1>15. ASSUME NEW h \in Handler, Step(h) \/ Throw(h) \/ Crash(h) PROVE [Lease!Next]_Lease!vars
  <2>1. ev[h] \in Event
    OBVIOUS
  <2>2. CASE ev[h] \in late
    BY <1>15, <2>1, <2>2, LateStrays DEF Lease!Next
  <2>3. CASE ev[h] \notin late
    BY <1>0, <1>5, <1>6, <1>7, <1>8, <1>9, <1>10, <1>11, <1>12, <1>15, <2>1, <2>3 DEF Step, Lease!Next
  <2>4. QED
    BY <2>2, <2>3
<1>16. QED
  BY <1>0, <1>3, <1>4, <1>13, <1>14, <1>15 DEF Next, Lease!Next

(* The ledger implements the event lease, for any number of events,        *)
(* handlers, crashes and duplicate deliveries: the webhook routes may rely *)
(* on one holder at a time, for every event that none of its handlers has  *)
(* kept beyond the timeout.                                                *)
THEOREM LedgerIsALease == Spec => LeaseSpec
<1>1. Init => Lease!Init
  BY DEF Init, Lease!Init, phase, Holds, Holding
<1>2. QED
  BY <1>1, Invariant, LeaseStep, PTL DEF Spec, LeaseSpec, Lease!Spec
=============================================================================
