----------------------------- MODULE EventLease -----------------------------
(***************************************************************************)
(* What the webhook ledger (the stripe_event table and the functions that  *)
(* use it) promises to the webhook routes and to Stripe: an event is open, *)
(* held by one handler or concluded; a concluded event is final; and Stripe*)
(* is told to stop redelivering an event only once it is concluded.  All   *)
(* of it is off for the events a holder keeps beyond the processing        *)
(* timeout; for the others it stays.                                       *)
(***************************************************************************)
CONSTANT Event

VARIABLES phase,    \* phase[e] : "open", "held" or "concluded"
          emitted,  \* the events that have happened at Stripe
          acked,    \* those Stripe has had a 2xx answer for
          late      \* those some holder has kept for too long

vars == <<phase, emitted, acked, late>>

Init == /\ phase = [e \in Event |-> "open"]
        /\ emitted = {}
        /\ acked = {}
        /\ late = {}

Emit(e) == /\ e \notin emitted
           /\ emitted' = emitted \cup {e}
           /\ UNCHANGED <<phase, acked, late>>

(* A handler becomes the one and only holder of e. *)
Acquire(e) == /\ e \in emitted
              /\ phase[e] = "open"
              /\ phase' = [phase EXCEPT ![e] = "held"]
              /\ UNCHANGED <<emitted, acked, late>>

(* The holder fails or dies: e can be acquired again. *)
Release(e) == /\ phase[e] = "held"
              /\ phase' = [phase EXCEPT ![e] = "open"]
              /\ UNCHANGED <<emitted, acked, late>>

(* The holder is done with e; its answer may or may not reach Stripe. *)
Conclude(e) == /\ phase[e] = "held"
               /\ phase' = [phase EXCEPT ![e] = "concluded"]
               /\ acked' \in {acked, acked \cup {e}}
               /\ UNCHANGED <<emitted, late>>

(* A redelivery of a concluded event is answered without any handler. *)
Acknowledge(e) == /\ phase[e] = "concluded"
                  /\ acked' = acked \cup {e}
                  /\ UNCHANGED <<phase, emitted, late>>

(* Time passes holders by. *)
Outlast == /\ late \subseteq late'
           /\ UNCHANGED <<phase, emitted, acked>>

(* Several holders of a late event go on, fail or conclude it, in any order. *)
Stray(e) == /\ e \in late
            /\ \E p \in {"open", "held", "concluded"} : phase' = [phase EXCEPT ![e] = p]
            /\ acked' \in {acked, acked \cup {e}}
            /\ UNCHANGED <<emitted, late>>

Next == \/ \E e \in Event : \/ Emit(e) \/ Acquire(e) \/ Release(e) \/ Conclude(e)
                            \/ Acknowledge(e) \/ Stray(e)
        \/ Outlast

Spec == Init /\ [][Next]_vars
=============================================================================
