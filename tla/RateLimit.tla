------------------------------ MODULE RateLimit ------------------------------
(***************************************************************************)
(* checkRateLimit: a fixed window per key in Redis.  INCR counts a call,   *)
(* and the call that finds itself the first sets the life of the key with  *)
(* EXPIRE; a call that dies in between leaves a key without a life.        *)
(***************************************************************************)
EXTENDS Limits

VARIABLES
  hits,      \* the value of the key, 0 when there is none; it stops at RateMax + 1
  ttl,       \* the life left of the key, 0 when it has none
  expiring,  \* the calls between INCR and EXPIRE
  admitted,  \* history: the calls let through in the life of this key, up to RateMax + 1
  faults

vars == <<hits, ttl, expiring, admitted, faults>>

Init ==
  /\ hits = 0
  /\ ttl = 0
  /\ expiring = {}
  /\ admitted = 0
  /\ faults = 0

Allowed(n) == n <= RateMax

Admit(n) == admitted' = IF Allowed(n) /\ admitted <= RateMax THEN admitted + 1 ELSE admitted

(* Mutant of SetsLife: every call renews the life of the key. *)
AlwaysSetsLife(n) == TRUE

SetsLife(n) == n = 1

(* redis.incr; a call that is not the first is answered at once. *)
Incr(c) ==
  LET n == hits + 1 IN
  /\ c \notin expiring
  /\ hits' = IF hits > RateMax THEN hits ELSE n
  /\ IF SetsLife(n)
     THEN expiring' = expiring \cup {c} /\ UNCHANGED admitted
     ELSE Admit(n) /\ UNCHANGED expiring
  /\ UNCHANGED <<ttl, faults>>

(* redis.expire, and the answer to the first call. *)
Expire(c) ==
  /\ c \in expiring
  /\ expiring' = expiring \ {c}
  /\ ttl' = Window
  /\ Admit(1)
  /\ UNCHANGED <<hits, faults>>

(* The process, or the connection, is lost between the two commands. *)
Die(c) ==
  /\ c \in expiring
  /\ faults < MaxFaults
  /\ faults' = faults + 1
  /\ expiring' = expiring \ {c}
  /\ UNCHANGED <<hits, ttl, admitted>>

(* Time passes in Redis: the last tick of a key's life removes it. *)
Tick ==
  /\ ttl > 0
  /\ ttl' = ttl - 1
  /\ IF ttl = 1 THEN hits' = 0 /\ admitted' = 0 ELSE UNCHANGED <<hits, admitted>>
  /\ UNCHANGED <<expiring, faults>>

Next == Tick \/ \E c \in Call : Incr(c) \/ Expire(c) \/ Die(c)

Spec == Init /\ [][Next]_vars

(* What comes by itself: the clock, and the answer to a command in flight. *)
Release == Tick \/ \E c \in Call : Expire(c)

FairSpec == Spec /\ WF_vars(Release)

-----------------------------------------------------------------------------
TypeOK ==
  /\ hits \in 0 .. RateMax + 1
  /\ ttl \in 0 .. Window
  /\ expiring \in SUBSET Call
  /\ admitted \in 0 .. RateMax + 1
  /\ faults \in 0 .. MaxFaults

(* Checks that run at the same time let at most max calls through in the   *)
(* life of a key: the calls in flight are those INCR has counted already.  *)
WindowBound == admitted <= RateMax

(* A key that no call is going to give a life. *)
Orphaned == hits > 0 /\ ttl = 0 /\ expiring = {}

(* Callers that are refused, however often they insist, are let through    *)
(* again when the window ends; only a key orphaned by a lost call between  *)
(* INCR and EXPIRE refuses them for ever.                                  *)
DeniedIsReleased == hits > RateMax ~> (hits = 0 \/ Orphaned)
==============================================================================
