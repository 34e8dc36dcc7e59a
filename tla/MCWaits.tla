------------------------------- MODULE MCWaits -------------------------------
(***************************************************************************)
(* The parts of the office in which somebody waits, checked together: as   *)
(* in MCOffice, a behavior of this module is a behavior of one of them.    *)
(***************************************************************************)
EXTENDS Limits

VARIABLES
  part,  \* the component that runs
  faults,
  hits, ttl, expiring, admitted,
  started, from, unread, progress, writer, message, watching, loading, snapshot, delivered,
  kind, due, state, tries, stalled, sweep, mfaPending, reminded, mailed, suppressed

Rate == INSTANCE RateLimit
Talk == INSTANCE Conversations
Mail == INSTANCE Notifications

rate == <<hits, ttl, expiring, admitted>>
talk == <<started, from, unread, progress, writer, message, watching, loading, snapshot, delivered>>
mail == <<kind, due, state, tries, stalled, sweep, mfaPending, reminded, mailed, suppressed>>
vars == <<part, faults, rate, talk, mail>>

Init ==
  /\ part \in {"rate", "talk", "mail"}
  /\ Rate!Init
  /\ Talk!Init
  /\ Mail!Init /\ (part # "mail" => kind = "quote")

Next ==
  \/ part = "rate" /\ Rate!Next /\ UNCHANGED <<part, talk, mail>>
  \/ part = "talk" /\ Talk!Next /\ UNCHANGED <<part, rate, mail>>
  \/ part = "mail" /\ Mail!Next /\ UNCHANGED <<part, rate, talk>>

Fairness ==
  /\ WF_rate(part = "rate" /\ Rate!Release)
  /\ \A s \in Talk!Side : WF_talk(part = "talk" /\ Talk!Poll(s))
  /\ \A j \in Mail!Job : WF_mail(part = "mail" /\ Mail!WorkOn(j))

Spec == Init /\ [][Next]_vars /\ Fairness

-----------------------------------------------------------------------------
(* Concurrent checks let no more than max calls through; see RateLimit. *)
WindowBound == part = "rate" => Rate!WindowBound

(* Refused callers are let through again; see RateLimit. *)
DeniedIsReleased == Rate!DeniedIsReleased

(* A stored message reaches the open thread; see Conversations. *)
EveryMessageShown == Talk!EveryMessageShown

(* What is recorded as done was mailed; see Notifications. *)
RecordedIsMailed == part = "mail" => Mail!RecordedIsMailed

(* A mail job ends; see Notifications. *)
EveryJobEnds == Mail!EveryJobEnds
=============================================================================
