-------------------------- MODULE BookingLifecycle --------------------------
(***************************************************************************)
(* What every writer of booking.status keeps to, whatever it read before:  *)
(* a booking is opened once, as a payment hold or confirmed outright; only *)
(* a hold is ever confirmed; and a booking that has been closed (and whose *)
(* slot the exclusion constraint has therefore released) stays closed, even*)
(* though it may be closed again in another way.                           *)
(***************************************************************************)
CONSTANT Booking

VARIABLE status

Active   == {"PENDING_PAYMENT", "CONFIRMED"}
Terminal == {"COMPLETED", "CANCELLED", "NO_SHOW"}
Statuses == {"ABSENT"} \cup Active \cup Terminal

(* The bookings to come, and those there are. *)
Init == status \in [Booking -> {"ABSENT"} \cup Active]

Open(b) == /\ status[b] = "ABSENT"
           /\ \E s \in Active : status' = [status EXCEPT ![b] = s]

Confirm(b) == /\ status[b] = "PENDING_PAYMENT"
              /\ status' = [status EXCEPT ![b] = "CONFIRMED"]

(* A sweep closes several bookings in one statement. *)
Close(B) == /\ \A b \in B : status[b] # "ABSENT"
            /\ \E s \in Terminal :
                 status' = [b \in Booking |-> IF b \in B THEN s ELSE status[b]]

Next == \/ \E b \in Booking : Open(b) \/ Confirm(b)
        \/ \E B \in SUBSET Booking : Close(B)

Spec == Init /\ [][Next]_status
=============================================================================
