--------------------------- MODULE MCWaits_proofs ---------------------------
(***************************************************************************)
(* Proofs about the parts of the office that wait: the window of the rate  *)
(* limit and the mails that are recorded, for any limit, any number of     *)
(* calls, attempts and faults.                                             *)
(***************************************************************************)
EXTENDS MCWaits, TLAPS

(* The first call of a key, until it has given it a life, is counted and   *)
(* not yet let through; nobody else is the first before it has ended.      *)
RateInv ==
  /\ hits \in Nat /\ ttl \in Nat /\ admitted \in Nat
  /\ admitted <= hits /\ admitted <= RateMax
  /\ expiring # {} => ttl = 0 /\ admitted < hits /\ admitted < RateMax
  /\ \A c, d \in expiring : c = d
  /\ hits = 0 => ttl = 0

(* What the provider has accepted, at each step of a job and of the sweep. *)
State == {"none", "waiting", "sending", "accepted", "refused", "completed", "failed"}

MailInv ==
  /\ state \in [Mail!Job -> State]
  /\ \A j \in Mail!Job : state[j] = "accepted" => j \in mailed
  /\ \A j \in Mail!Job : state[j] = "completed" => j \in mailed \cup suppressed
  /\ sweep = "sent" \/ reminded => "mfa" \in mailed

IInv == /\ part = "rate" => RateInv
        /\ part = "mail" => MailInv

-----------------------------------------------------------------------------
(* INCR tells each call a number of its own; only the first waits. *)
LEMMA RateStep == RateInv /\ Rate!Next => RateInv'
<1> SUFFICES ASSUME RateInv, Rate!Next PROVE RateInv'
  OBVIOUS
<1> USE RateAssumption DEF RateInv
<1>1. ASSUME NEW c \in Call, Rate!Incr(c) PROVE RateInv'
  <2>1. CASE hits = 0
    <3>1. hits' = 1 /\ expiring' = expiring \cup {c} /\ UNCHANGED <<ttl, admitted>>
      BY <1>1, <2>1 DEF Rate!Incr, Rate!SetsLife
    <3>2. expiring = {} /\ admitted = 0
      BY <2>1
    <3>3. ttl = 0
      BY <2>1
    <3>4. QED
      BY <3>1, <3>2, <3>3
  <2>2. CASE hits # 0 /\ hits > RateMax
    <3>1. UNCHANGED <<hits, ttl, expiring, admitted>>
      BY <1>1, <2>2 DEF Rate!Incr, Rate!SetsLife, Rate!Admit, Rate!Allowed
    <3>2. QED
      BY <3>1
  <2>3. CASE hits # 0 /\ ~(hits > RateMax)
    <3>1. /\ hits' = hits + 1
          /\ UNCHANGED <<ttl, expiring>>
          /\ admitted' = IF hits + 1 <= RateMax THEN admitted + 1 ELSE admitted
      BY <1>1, <2>3 DEF Rate!Incr, Rate!SetsLife, Rate!Admit, Rate!Allowed
    <3>2. QED
      BY <2>3, <3>1
  <2>4. QED
    BY <2>1, <2>2, <2>3
<1>2. ASSUME NEW c \in Call, Rate!Expire(c) PROVE RateInv'
  <2>1. expiring' = {} /\ ttl' = Window /\ UNCHANGED hits /\ admitted' = admitted + 1
    BY <1>2 DEF Rate!Expire, Rate!Admit, Rate!Allowed
  <2>2. QED
    BY <1>2, <2>1 DEF Rate!Expire
<1>3. ASSUME NEW c \in Call, Rate!Die(c) PROVE RateInv'
  BY <1>3 DEF Rate!Die
<1>4. CASE Rate!Tick
  BY <1>4 DEF Rate!Tick
<1>5. QED
  BY <1>1, <1>2, <1>3, <1>4 DEF Rate!Next

(* A job is done after a mail or without one to send, a reminder is marked *)
(* after it was sent.                                                      *)
LEMMA MailStep == MailInv /\ Mail!Next => MailInv'
<1> SUFFICES ASSUME MailInv, Mail!Next PROVE MailInv'
  OBVIOUS
<1>0. "mfa" \notin Mail!Job
  BY DEF Mail!Job
<1> USE <1>0 DEF MailInv, State, Mail!To, Mail!queueVars, Mail!mfaVars
<1>1. CASE Mail!EnqueueBooking \/ Mail!EnqueueInvitation \/ Mail!EnqueueQuote
  <2>1. PICK j \in Mail!Job : Mail!Added(j)
    BY <1>1 DEF Mail!EnqueueBooking, Mail!EnqueueInvitation, Mail!EnqueueQuote, Mail!Job
  <2>2. QED
    BY <2>1 DEF Mail!Added
<1>2. ASSUME NEW j \in Mail!Job, Mail!Forget(j) PROVE MailInv'
  BY <1>2 DEF Mail!Forget
<1>3. ASSUME NEW j \in Mail!Job, Mail!Take(j) PROVE MailInv'
  <2>1. PICK sendable \in BOOLEAN : Mail!Taken(j, sendable)
    <3>1. ASSUME Mail!TakeBooking PROVE Mail!Taken("booking", due)
      BY <3>1 DEF Mail!TakeBooking
    <3>2. QED
      BY <1>3, <3>1 DEF Mail!Take, Mail!TakeBooking, Mail!TakeInvitation, Mail!TakeQuote, Mail!Job, Mail!Taken
  <2>2. QED
    BY <2>1 DEF Mail!Taken
<1>4. ASSUME NEW j \in Mail!Job, Mail!Send(j) PROVE MailInv'
  BY <1>4 DEF Mail!Send
<1>5. ASSUME NEW j \in Mail!Job, Mail!Record(j) PROVE MailInv'
  BY <1>5 DEF Mail!Record, Mail!Retry, Mail!Throws
<1>6. ASSUME NEW j \in Mail!Job, Mail!RecordFails(j) PROVE MailInv'
  BY <1>6 DEF Mail!RecordFails, Mail!Retry
<1>7. CASE Mail!Cancel
  BY <1>7 DEF Mail!Cancel
<1>8. CASE Mail!Crash
  <2>1. /\ \A j \in Mail!Job : state'[j] \in {state[j], "failed", "waiting"}
        /\ state' \in [Mail!Job -> State]
        /\ UNCHANGED <<mailed, suppressed, reminded>> /\ sweep' = "idle"
    BY <1>8 DEF Mail!Crash
  <2>2. QED
    BY <2>1
<1>9. CASE Mail!ListMembers
  BY <1>9 DEF Mail!ListMembers
<1>10. CASE Mail!Remind
  BY <1>10 DEF Mail!Remind
<1>11. CASE Mail!MarkReminded
  BY <1>11 DEF Mail!MarkReminded
<1>12. CASE Mail!SettleMfa
  BY <1>12 DEF Mail!SettleMfa
<1> HIDE DEF MailInv
<1>13. QED
  BY <1>1, <1>2, <1>3, <1>4, <1>5, <1>6, <1>7, <1>8, <1>9, <1>10, <1>11, <1>12
     DEF Mail!Next, Mail!WorkOn

(* One part runs, and keeps its invariant. *)
LEMMA Invariant == Spec => []IInv
<1>1. Init => IInv
  BY RateAssumption DEF Init, Rate!Init, Mail!Init, IInv, RateInv, MailInv, State
<1>2. IInv /\ [Next]_vars => IInv'
  <2> SUFFICES ASSUME IInv, [Next]_vars PROVE IInv'
    OBVIOUS
  <2>1. CASE part = "rate" /\ Rate!Next /\ UNCHANGED <<part, talk, mail>>
    BY <2>1, RateStep DEF IInv
  <2>2. CASE part = "talk" /\ Talk!Next /\ UNCHANGED <<part, rate, mail>>
    BY <2>2 DEF IInv
  <2>3. CASE part = "mail" /\ Mail!Next /\ UNCHANGED <<part, rate, talk>>
    BY <2>3, MailStep DEF IInv
  <2>4. CASE UNCHANGED vars
    BY <2>4 DEF IInv, RateInv, MailInv, vars, rate, mail
  <2>5. QED
    BY <2>1, <2>2, <2>3, <2>4 DEF Next
<1>3. QED
  BY <1>1, <1>2, PTL DEF Spec

-----------------------------------------------------------------------------
(* Concurrent checks let no more than max calls through in the life of a   *)
(* key, for any limit and any number of calls at a time.                   *)
THEOREM WindowIsBounded == Spec => []WindowBound
<1>1. IInv => WindowBound
  BY DEF IInv, RateInv, WindowBound, Rate!WindowBound
<1>2. QED
  BY <1>1, Invariant, PTL

(* What is recorded as done was mailed, whatever is refused, crashes or    *)
(* fails to be logged.                                                     *)
THEOREM DoneIsMailed == Spec => []RecordedIsMailed
<1>1. IInv => RecordedIsMailed
  BY DEF IInv, MailInv, RecordedIsMailed, Mail!RecordedIsMailed
<1>2. QED
  BY <1>1, Invariant, PTL
=============================================================================
