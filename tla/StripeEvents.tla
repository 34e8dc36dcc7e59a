---------------------------- MODULE StripeEvents ----------------------------
(***************************************************************************)
(* The idempotency ledger of the two Stripe webhook routes                 *)
(* (lib/services/stripe-event-service.ts): every delivery of an event is   *)
(* handled by a request of its own, claims the event in the stripe_event   *)
(* table, dispatches it to the domain and marks the row PROCESSED or       *)
(* FAILED.  Each database call is one action, so that handlers of the same *)
(* event interleave between any two of them, and a process may die at any  *)
(* of them.  Stripe redelivers an event until it is answered 2xx, and may  *)
(* deliver one that was.                                                   *)
(*                                                                         *)
(* Time is relative: age[e] is now - startedAt of the row and held[h] the  *)
(* time since handler h claimed its event, both saturating just above      *)
(* PROCESSING_TIMEOUT_MS, beyond which the code draws no distinction.      *)
(***************************************************************************)
EXTENDS Naturals

CONSTANTS
  Event,       \* Stripe event ids
  Handler,     \* concurrent requests to the webhook routes
  Timeout,     \* PROCESSING_TIMEOUT_MS
  MaxFaults    \* bound: throws, crashes and lost answers in a behaviour

ASSUME TimeoutAssumption == Timeout \in Nat
ASSUME FaultsAssumption == MaxFaults \in Nat

VARIABLES
  row,        \* row[e] : the status column, or "ABSENT"
  age,        \* age[e] : time since startedAt
  pc,         \* pc[h]  : the database call handler h makes next
  ev,         \* ev[h]  : the event h was given
  faults,     \* number of faults so far
  (* history: what Stripe and the domain have seen *)
  held,       \* held[h] : time since h claimed ev[h]
  emitted,    \* the events that have happened at Stripe
  acked,      \* those Stripe has had a 2xx answer for
  concluded,  \* events whose row has been PROCESSED at some time
  late        \* events a live handler has held for more than Timeout

rowVars == <<row, age>>
vars == <<row, age, pc, ev, faults, held, emitted, acked, concluded, late>>

Status   == {"ABSENT", "PROCESSING", "PROCESSED", "FAILED"}
Claiming == {"create", "read", "reclaim"}
Holding  == {"dispatch", "markProcessed", "markFailed"}

Holds(h, e) == pc[h] \in Holding /\ ev[h] = e
Goto(h, to) == pc' = [pc EXCEPT ![h] = to]
Age(t)      == IF t > Timeout THEN t ELSE t + 1

(* What the faults of a behaviour may add up to. *)
Fault == faults < MaxFaults /\ faults' = faults + 1

(* A 2xx answer to Stripe, which may be lost on the way. *)
Answer2xx(e) == \/ acked' = acked \cup {e} /\ UNCHANGED faults
                \/ acked' = acked /\ Fault

-----------------------------------------------------------------------------
Init ==
  /\ row = [e \in Event |-> "ABSENT"]
  /\ age = [e \in Event |-> 0]
  /\ pc = [h \in Handler |-> "idle"]
  /\ ev \in [Handler -> Event]
  /\ faults = 0
  /\ held = [h \in Handler |-> 0]
  /\ emitted = {}
  /\ acked = {}
  /\ concluded = {}
  /\ late = {}

Emit(e) ==
  /\ e \notin emitted
  /\ emitted' = emitted \cup {e}
  /\ UNCHANGED <<row, age, pc, ev, faults, held, acked, concluded, late>>

(* Stripe posts e to the route: a first delivery, a retry or a duplicate.  *)
Deliver(h, e) ==
  /\ e \in emitted
  /\ pc[h] = "idle"
  /\ Goto(h, "create")
  /\ ev' = [ev EXCEPT ![h] = e]
  /\ UNCHANGED <<row, age, faults, held, emitted, acked, concluded, late>>

(* Mutant of Claim: a reclaim that forgets startedAt = now. *)
ClaimKeepingStartedAt(h) ==
  /\ row' = [row EXCEPT ![ev[h]] = "PROCESSING"]
  /\ held' = [held EXCEPT ![h] = 0]
  /\ Goto(h, "dispatch")
  /\ UNCHANGED <<age, ev, faults, emitted, acked, concluded, late>>

(* h becomes a holder of its event, with startedAt = now. *)
Claim(h) ==
  /\ row' = [row EXCEPT ![ev[h]] = "PROCESSING"]
  /\ age' = [age EXCEPT ![ev[h]] = 0]
  /\ held' = [held EXCEPT ![h] = 0]
  /\ Goto(h, "dispatch")
  /\ UNCHANGED <<ev, faults, emitted, acked, concluded, late>>

(* stripeEvent.create: the primary key admits one row per event id. *)
Create(h) ==
  /\ pc[h] = "create"
  /\ \/ row[ev[h]] = "ABSENT" /\ Claim(h)
     \/ /\ row[ev[h]] # "ABSENT"
        /\ Goto(h, "read")
        /\ UNCHANGED <<row, age, ev, faults, held, emitted, acked, concluded, late>>

(* stripeEvent.findUniqueOrThrow after the P2002. *)
Read(h) ==
  /\ pc[h] = "read"
  /\ \/ /\ row[ev[h]] = "PROCESSED"
        /\ Goto(h, "idle")
        /\ Answer2xx(ev[h])
     \/ /\ row[ev[h]] # "PROCESSED"
        /\ Goto(h, "reclaim")
        /\ UNCHANGED <<acked, faults>>
  /\ UNCHANGED <<row, age, ev, held, emitted, concluded, late>>

(* Mutants of Reclaimable: without startedAt, without status, and without  *)
(* the abandoned rows.                                                     *)
ReclaimAnyProcessing(e) == row[e] \in {"FAILED", "PROCESSING"}
ReclaimAnyStatus(e)     == row[e] = "FAILED" \/ age[e] > Timeout
ReclaimFailedOnly(e)    == row[e] = "FAILED"

(* The guard of the updateMany that takes an event over. *)
Reclaimable(e) == \/ row[e] = "FAILED"
                  \/ row[e] = "PROCESSING" /\ age[e] > Timeout

(* Mutant of Reclaim: 200 for an event in progress elsewhere. *)
ReclaimAnswering200(h) ==
  /\ pc[h] = "reclaim"
  /\ \/ Reclaimable(ev[h]) /\ Claim(h)
     \/ /\ ~Reclaimable(ev[h])
        /\ Goto(h, "idle")
        /\ Answer2xx(ev[h])
        /\ UNCHANGED <<row, age, ev, held, emitted, concluded, late>>

(* stripeEvent.updateMany; a count of 0 is answered 409. *)
Reclaim(h) ==
  /\ pc[h] = "reclaim"
  /\ \/ Reclaimable(ev[h]) /\ Claim(h)
     \/ /\ ~Reclaimable(ev[h])
        /\ Goto(h, "idle")
        /\ UNCHANGED <<row, age, ev, faults, held, emitted, acked, concluded, late>>

(* The branch of the route for this event type runs to its end. *)
Dispatch(h) ==
  /\ pc[h] = "dispatch"
  /\ Goto(h, "markProcessed")
  /\ UNCHANGED <<row, age, ev, faults, held, emitted, acked, concluded, late>>

(* It throws, or markStripeEventProcessed does: control is in the catch.   *)
Throw(h) ==
  /\ pc[h] \in {"dispatch", "markProcessed"}
  /\ Fault
  /\ Goto(h, "markFailed")
  /\ UNCHANGED <<row, age, ev, held, emitted, acked, concluded, late>>

MarkProcessed(h) ==
  /\ pc[h] = "markProcessed"
  /\ row' = [row EXCEPT ![ev[h]] = "PROCESSED"]
  /\ concluded' = concluded \cup {ev[h]}
  /\ Goto(h, "idle")
  /\ Answer2xx(ev[h])
  /\ UNCHANGED <<age, ev, held, emitted, late>>

(* Mutant of MarkFailed: a status the enum does not have. *)
MarkErrored(h) ==
  /\ pc[h] = "markFailed"
  /\ row' = [row EXCEPT ![ev[h]] = "ERROR"]
  /\ Goto(h, "idle")
  /\ UNCHANGED <<age, ev, faults, held, emitted, acked, concluded, late>>

(* The answer is 500 whether or not the update of the row succeeds. *)
MarkFailed(h) ==
  /\ pc[h] = "markFailed"
  /\ \/ row' = [row EXCEPT ![ev[h]] = "FAILED"] /\ UNCHANGED faults
     \/ UNCHANGED row /\ Fault
  /\ Goto(h, "idle")
  /\ UNCHANGED <<age, ev, held, emitted, acked, concluded, late>>

(* The process dies, or a call of claimStripeEvent throws: no 2xx answer.  *)
Crash(h) ==
  /\ pc[h] # "idle"
  /\ Fault
  /\ Goto(h, "idle")
  /\ UNCHANGED <<row, age, ev, held, emitted, acked, concluded, late>>

(* A handler may run on for as long as it likes. *)
Overrunning == {h \in Handler : pc[h] \in Holding /\ held[h] >= Timeout}

Tick ==
  /\ age' = [e \in Event |-> Age(age[e])]
  /\ held' = [h \in Handler |-> Age(held[h])]
  /\ late' = late \cup {ev[h] : h \in Overrunning}
  /\ UNCHANGED <<row, pc, ev, faults, emitted, acked, concluded>>

Step(h) == Create(h) \/ Read(h) \/ Reclaim(h) \/ Dispatch(h) \/ MarkProcessed(h) \/ MarkFailed(h)

Next == \/ \E e \in Event : Emit(e)
        \/ \E h \in Handler : \/ \E e \in Event : Deliver(h, e)
                              \/ Step(h) \/ Throw(h) \/ Crash(h)
        \/ Tick

Spec == Init /\ [][Next]_vars

(* A request that is running goes on, the clock does, and Stripe keeps     *)
(* redelivering what it is owed: strong, because a handler of this finite  *)
(* set may be busy with another event when Stripe is ready to deliver.     *)
Fairness ==
  /\ WF_vars(Tick)
  /\ \A h \in Handler : WF_vars(Step(h))
  /\ \A e \in Event : SF_vars(e \notin acked /\ \E h \in Handler : Deliver(h, e))

FairSpec == Spec /\ Fairness

-----------------------------------------------------------------------------
TypeOK ==
  /\ row \in [Event -> Status]
  /\ age \in [Event -> 0..Timeout + 1]
  /\ pc \in [Handler -> {"idle"} \cup Claiming \cup Holding]
  /\ ev \in [Handler -> Event]
  /\ faults \in 0..MaxFaults
  /\ held \in [Handler -> 0..Timeout + 1]
  /\ emitted \subseteq Event
  /\ acked \subseteq emitted
  /\ concluded \subseteq Event
  /\ late \subseteq Event

(* Two handlers never run the same event at once, unless one of its        *)
(* handlers outlasted the timeout the claim relies on (lines 46-62).       *)
LeaseExclusive ==
  \A e \in Event \ late : \A h, g \in Handler : Holds(h, e) /\ Holds(g, e) => h = g

(* Stripe is never told to stop redelivering (200 of the routes) an event  *)
(* whose dispatch has not once run to its end, whatever crashes.           *)
AckedIsConcluded == acked \subseteq concluded

(* A PROCESSED row never changes again, under the same proviso. *)
ProcessedIsFinal ==
  [][\A e \in Event : row[e] = "PROCESSED" /\ e \notin late => row'[e] = "PROCESSED"]_vars

(* The comment of claimStripeEvent (lines 7-11): a concluded event is      *)
(* never executed again.  The unguarded markStripeEventFailed of a handler *)
(* that outlasted the timeout refutes it.                                  *)
ConcludedNeverExecutedAgain ==
  [][\A h \in Handler : pc[h] \in Claiming /\ pc'[h] \in Holding => ev[h] \notin concluded]_vars

(* Every event Stripe emits is concluded and answered at last,             *)
(* however handlers crash, overrun and refuse each other's deliveries.     *)
EventuallyAnswered == \A e \in Event : e \in emitted ~> e \in acked

(* The ledger as an EventLease: who holds an event is a matter of the      *)
(* handlers' program counters, whether it is concluded of the row.  Every  *)
(* interleaving of create, read, reclaim, marks and crashes is a step of   *)
(* the lease, whose promises an overrun ends for its event only.           *)
phase == [e \in Event |-> IF row[e] = "PROCESSED" THEN "concluded"
                          ELSE IF \E h \in Handler : Holds(h, e) THEN "held" ELSE "open"]
Lease == INSTANCE EventLease
LeaseSpec == Lease!Spec
=============================================================================
