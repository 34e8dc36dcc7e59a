-------------------------- MODULE MCBookingCalendar --------------------------
(* BookingCalendar on the day of two barbers: two services make slots of s1  *)
(* that overlap without being equal, and s2 has one at the same time.        *)
EXTENDS BookingCalendar

CONSTANTS s1, s2

MCStaff == {s1, s2}

(* The clock stops at 2: the slot from there on is never in the past.         *)
At(s, a, b) == [staff |-> s, start |-> a, end |-> b]
MCOffer == {At(s1, 1, 3), At(s1, 2, 4), At(s2, 1, 3)}
==============================================================================
