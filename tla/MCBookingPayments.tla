-------------------------- MODULE MCBookingPayments --------------------------
(* BookingPayments with one booking and up to two checkout sessions of it:   *)
(* price 3, of which a deposit of 2 is charged online and may be refunded at *)
(* once or in two parts.                                                     *)
EXTENDS BookingPayments

CONSTANT b1

MCBookings == {b1}
MCPayable == [b \in {b1} |-> 3]
MCCharge == [b \in {b1} |-> 2]
MCBookingOf == [s \in Session |-> b1]
==============================================================================
