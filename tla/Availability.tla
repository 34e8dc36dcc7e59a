---------------------------- MODULE Availability ----------------------------
(***************************************************************************)
(* The slots on offer: getAvailableSlots as the loop it is, over the       *)
(* shifts of the staff on the date asked for, and the call of it by which  *)
(* createBooking checks a slot again.  Moments are integers of UTC; the    *)
(* tenant's midnight is Offset after the midnight of UTC.                  *)
(***************************************************************************)
EXTENDS Limits

Day    == 0 .. 2  \* bound: the dates around the one asked for
Today  == 1
Clock  == 0 .. DayLength - 1
Moment == 0 .. 3 * DayLength

Shift    == {s \in [by : Barber, from : Clock, to : Clock] : s.from < s.to}
NoShift  == [by |-> "none", from |-> 0, to |-> 0]
Interval == {r \in [by : SUBSET Barber, from : Moment, to : Moment] : r.by # {} /\ r.from < r.to}
NoSlot   == <<0, "none">>

VARIABLES
  hours,     \* the working hours of the weekday of each date
  busy,      \* bookings and absences of one barber, closed periods of all
  earliest,  \* minStart: now and the lead time
  latest,    \* maxStart: now and the days in advance
  phase,
  query,     \* dateISO and the staff asked for
  loaded,    \* what the queries for busy intervals have returned
  todo,      \* shifts that the loop has still to walk through
  shift,     \* the one it walks through
  cursor,
  offer,     \* slotMap: the starts found, and who is free then
  wanted     \* the slot that createBooking is called with

input == <<hours, busy, earliest, latest>>
vars  == <<input, phase, query, loaded, todo, shift, cursor, offer, wanted>>

DayStart(d) == d * DayLength + Offset
DayEnd(d)   == DayStart(d) + DayLength

(* startAt.toISOString().slice(0, 10) *)
UtcDate(t) == t \div DayLength

Overlaps(from, to, r) == from < r.to /\ r.from < to

(* Bounds of the inputs: at most one shift of every day, of a barber that  *)
(* nothing else tells from the others, and one more of today, until the    *)
(* day ends; lead times that end before, on and after the day; and, when   *)
(* they leave it open, one busy interval, of the day or next to it.        *)
Regular == {s \in Shift : s.by = CHOOSE b \in Barber : TRUE}
Late    == {s \in Shift : s.to = DayLength - 1}
Few(S)  == {{}} \cup {{x} : x \in S}
Near    == {r \in Interval : r.from >= DayStart(Today) - 1 /\ r.to <= DayEnd(Today) + 1}
Leads   == {<<0, DayStart(Today) - 1>>, <<0, DayStart(Today) + 1>>, <<0, DayEnd(Today)>>,
            <<DayStart(Today) + 1, DayEnd(Today)>>, <<DayEnd(Today) + 1, DayEnd(Today) + 1>>}

Init ==
  /\ \E regular \in Few(Regular), extra \in Few(Late) :
       hours = [d \in Day |-> IF d = Today THEN regular \cup extra ELSE regular]
  /\ \E lead \in Leads : earliest = lead[1] /\ latest = lead[2]
  /\ busy \in IF earliest = 0 /\ latest = DayEnd(Today) THEN Few(Near) ELSE {{}}
  /\ phase = "idle"
  /\ query = [date |-> Today, staff |-> {}]
  /\ loaded = {}
  /\ todo = {}
  /\ shift = NoShift
  /\ cursor = 0
  /\ offer = {}
  /\ wanted = NoSlot

-----------------------------------------------------------------------------
(* getAvailableSlots *)

(* Mutant of BusyOn: what began before the day is not looked for. *)
BusyFrom(d) == {r \in busy : r.from < DayEnd(d) /\ r.from >= DayStart(d)}

(* The queries for absences, bookings and closed periods of the day. *)
BusyOn(d) == {r \in busy : r.from < DayEnd(d) /\ r.to > DayStart(d)}

(* Nothing is asked for when the day is out of the lead times. *)
Begin(d, staff) ==
  /\ query' = [date |-> d, staff |-> staff]
  /\ offer' = {}
  /\ IF DayStart(d) > latest \/ DayEnd(d) < earliest
     THEN phase' = "listed" /\ todo' = {} /\ loaded' = {}
     ELSE /\ phase' = "walking"
          /\ todo' = {s \in hours[d] : s.by \in staff}
          /\ loaded' = BusyOn(d)
  /\ UNCHANGED <<input, shift, cursor>>

Ask(d, staff) ==
  /\ phase = "idle"
  /\ Begin(d, staff)
  /\ UNCHANGED wanted

TakeShift(s) ==
  /\ phase = "walking"
  /\ shift = NoShift
  /\ s \in todo
  /\ todo' = todo \ {s}
  /\ shift' = s
  /\ cursor' = DayStart(query.date) + s.from
  /\ UNCHANGED <<input, phase, query, loaded, offer, wanted>>

Fits(t, s) == t + SlotLength <= DayStart(query.date) + s.to

(* What the body of the loop lets through. *)
Passes(t, s) ==
  /\ t >= earliest
  /\ t <= latest
  /\ \A r \in loaded : s.by \in r.by => ~Overlaps(t, t + SlotLength, r)

Walk ==
  /\ shift # NoShift
  /\ Fits(cursor, shift)
  /\ offer' = IF Passes(cursor, shift) THEN offer \cup {<<cursor, shift.by>>} ELSE offer
  /\ cursor' = cursor + Granularity
  /\ UNCHANGED <<input, phase, query, loaded, todo, shift, wanted>>

LeaveShift ==
  /\ shift # NoShift
  /\ ~Fits(cursor, shift)
  /\ shift' = NoShift
  /\ cursor' = 0
  /\ UNCHANGED <<input, phase, query, loaded, todo, offer, wanted>>

Return ==
  /\ phase = "walking"
  /\ shift = NoShift
  /\ todo = {}
  /\ phase' = "listed"
  /\ UNCHANGED <<input, query, loaded, todo, shift, cursor, offer, wanted>>

-----------------------------------------------------------------------------
(* createBooking, with nothing changed since the slot was shown *)

(* The date it asks for is the one of the slot in UTC. *)
Confirm(slot) ==
  /\ phase = "listed"
  /\ wanted = NoSlot
  /\ slot \in offer
  /\ UtcDate(slot[1]) \in Day
  /\ wanted' = slot
  /\ Begin(UtcDate(slot[1]), {slot[2]})

Answer ==
  /\ phase = "listed"
  /\ wanted # NoSlot
  /\ phase' = IF wanted \in offer THEN "booked" ELSE "refused"
  /\ UNCHANGED <<input, query, loaded, todo, shift, cursor, offer, wanted>>

Next ==
  \/ \E staff \in {Barber} \cup {{b} : b \in Barber} : Ask(Today, staff)
  \/ \E s \in todo : TakeShift(s)
  \/ Walk
  \/ LeaveShift
  \/ Return
  \/ \E slot \in offer : Confirm(slot)
  \/ Answer

Spec == Init /\ [][Next]_vars

-----------------------------------------------------------------------------
TypeOK ==
  /\ hours \in [Day -> SUBSET Shift]
  /\ busy \in SUBSET Interval
  /\ earliest \in Int
  /\ latest \in Int
  /\ phase \in {"idle", "walking", "listed", "booked", "refused"}
  /\ query \in [date : Day, staff : SUBSET Barber]
  /\ loaded \in SUBSET busy
  /\ todo \in SUBSET Shift
  /\ shift \in Shift \cup {NoShift}
  /\ cursor \in Int
  /\ \A slot \in offer : slot[1] \in Int /\ slot[2] \in Barber
  /\ wanted # NoSlot => wanted[1] \in Int /\ wanted[2] \in Barber

(* The starts of a shift are Granularity apart, and the slot ends in it. *)
Start(d, s, t) ==
  /\ \E k \in 0 .. DayLength : t = DayStart(d) + s.from + k * Granularity
  /\ t + SlotLength <= DayStart(d) + s.to

Free(b, t) == \A r \in busy : b \in r.by => ~Overlaps(t, t + SlotLength, r)

(* The slots of a date for some of the staff, without a loop, an early     *)
(* return or a query by day.                                               *)
Offered(d, staff) ==
  {slot \in (earliest .. latest) \X staff :
     /\ \E s \in hours[d] : s.by = slot[2] /\ Start(d, s, slot[1])
     /\ Free(slot[2], slot[1])}

(* What is listed are the slots of the day asked for: all of those within  *)
(* a shift and the lead times with nobody in the way, and no others,       *)
(* although busy intervals are looked for by day and a day out of reach is *)
(* not looked at.                                                          *)
OfferIsExact == phase = "listed" => offer = Offered(query.date, query.staff)

(* A slot on offer can be booked, when nothing has changed in between: the *)
(* date that the availability is asked for is the tenant's.                *)
OfferedIsBookable == phase # "refused"
=============================================================================
