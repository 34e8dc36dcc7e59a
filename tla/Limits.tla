------------------------------- MODULE Limits -------------------------------
(***************************************************************************)
(* What the components of the office have in common: the calls that run at *)
(* the same time in the server processes, and the numbers that limit them. *)
(* The parts of the system that share no state are modules of their own,   *)
(* and take their constants from here.                                     *)
(***************************************************************************)
EXTENDS Integers, FiniteSets

CONSTANTS
  Call,            \* calls of actions and pages in flight at the same time
  NoCall,
  MaxRedemptions,  \* coupon.maxRedemptions
  PlanLimit,       \* PLAN_LIMITS[plan][resource]
  RateMax,         \* max of checkRateLimit
  Window,          \* windowSeconds of checkRateLimit
  Attempts,        \* attempts of a mail job
  MaxFaults,       \* bound: calls that die, mails that are refused
  Barber,          \* the staff that executes a service
  DayLength,       \* from one midnight of the tenant to the next
  Offset,          \* from midnight in UTC to the tenant's midnight
  SlotLength,      \* the duration of the service and its buffers
  Granularity,     \* slotGranularityMinutes
  Price,           \* the prices a service may have, in cents
  Percent,         \* the percentages of deposits, coupons and fees
  Date,            \* the dates on which a customer may book
  Code,            \* the codes a customer may enter for a coupon
  MaxOpenings,     \* bound: how often a sheet is opened
  MaxMade,         \* bound: the bookings an opening of a sheet makes
  MaxWaiting,      \* bound: the calls of a screen that wait when its user makes another
  MaxSent,         \* bound: the inputs that the forms of all browsers send
  MaxAstray        \* bound: the controls of the settings that others change, or tabs lose, at a time

ASSUME CallAssumption   == IsFiniteSet(Call) /\ Call # {} /\ NoCall \notin Call
ASSUME CouponAssumption == MaxRedemptions \in Nat \ {0}
ASSUME PlanAssumption   == PlanLimit \in Nat \ {0}
ASSUME RateAssumption   == RateMax \in Nat \ {0} /\ Window \in Nat \ {0}
ASSUME MailAssumption   == Attempts \in Nat \ {0}
ASSUME FaultAssumption  == MaxFaults \in Nat
ASSUME SlotAssumption   ==
  /\ DayLength \in Nat \ {0} /\ Offset \in Int
  /\ SlotLength \in Nat \ {0} /\ Granularity \in Nat \ {0}
  /\ "none" \notin Barber
ASSUME PriceAssumption  == Price # {} /\ Price \subseteq Nat /\ Percent \subseteq 1 .. 100
ASSUME ScreenAssumption ==
  /\ "none" \notin Date /\ "blank" \notin Code
  /\ MaxOpenings \in Nat /\ MaxMade \in Nat /\ MaxWaiting \in Nat /\ MaxSent \in Nat /\ MaxAstray \in Nat
=============================================================================
