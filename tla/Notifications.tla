---------------------------- MODULE Notifications ----------------------------
(***************************************************************************)
(* The mails of a booking, an invitation and a quote request: jobs of a    *)
(* queue each, whose ids it does not admit twice while it retains them,    *)
(* sent by a worker that logs what the provider answered and throws when   *)
(* it refused; and the hourly sweep that reminds an owner of two-factor    *)
(* sign-in.                                                                *)
(***************************************************************************)
EXTENDS Limits

Job == {"booking", "other"}

VARIABLES
  kind,        \* is the other job of an invitation or of a quote request?
  due,         \* booking.status = "CONFIRMED", and its customer has an address
  state,       \* of each job: where it is in its queue, and what the worker has done
  tries,       \* attemptsMade
  stalled,     \* the jobs that were active when the worker died
  sweep,       \* the step the MFA sweep has come to
  mfaPending,  \* is the owner still without two-factor sign-in, before the deadline?
  reminded,    \* member.mfaGracePeriodReminderSentAt is set
  mailed,      \* history: what the provider has accepted since the job was added
  suppressed,  \* history: the jobs that found nothing to send
  faults

queueVars == <<state, tries, stalled>>
mfaVars == <<sweep, mfaPending, reminded>>
vars == <<kind, due, queueVars, mfaVars, mailed, suppressed, faults>>

Init ==
  /\ kind \in {"invitation", "quote"}
  /\ due = TRUE
  /\ state = [j \in Job |-> "none"]
  /\ tries = [j \in Job |-> 0]
  /\ stalled = {}
  /\ sweep = "idle"
  /\ mfaPending = TRUE
  /\ reminded = FALSE
  /\ mailed = {}
  /\ suppressed = {}
  /\ faults = 0

To(j, s) == state' = [state EXCEPT ![j] = s]

Cancel ==
  /\ due
  /\ due' = FALSE
  /\ UNCHANGED <<kind, queueVars, mfaVars, mailed, suppressed, faults>>

(* A retained id is not added again. *)
Added(j) ==
  /\ state[j] = "none"
  /\ To(j, "waiting")
  /\ UNCHANGED <<kind, due, tries, stalled, mfaVars, mailed, suppressed, faults>>

EnqueueBooking    == due /\ Added("booking")
EnqueueInvitation == kind = "invitation" /\ Added("other")
EnqueueQuote      == kind = "quote" /\ Added("other")

(* removeOnComplete and removeOnFail: 500 and 1000 later jobs push it out. *)
Forget(j) ==
  /\ state[j] \in {"completed", "failed"}
  /\ To(j, "none")
  /\ tries' = [tries EXCEPT ![j] = 0]
  /\ stalled' = stalled \ {j}
  /\ mailed' = mailed \ {j}
  /\ suppressed' = suppressed \ {j}
  /\ UNCHANGED <<kind, due, mfaVars, faults>>

(* The worker reads what the mail is about, and may find nothing to send. *)
Taken(j, sendable) ==
  /\ state[j] = "waiting"
  /\ To(j, IF sendable THEN "sending" ELSE "completed")
  /\ suppressed' = IF sendable THEN suppressed ELSE suppressed \cup {j}
  /\ UNCHANGED <<kind, due, tries, stalled, mfaVars, mailed, faults>>

(* An invitation is sent as it was made; a quote request stays, and so     *)
(* does the owner to whom it is mailed.                                    *)
TakeBooking    == Taken("booking", due)
TakeInvitation == kind = "invitation" /\ Taken("other", TRUE)
TakeQuote      == kind = "quote" /\ Taken("other", TRUE)
Take(j)        == IF j = "booking" THEN TakeBooking ELSE TakeInvitation \/ TakeQuote

(* getResend().emails.send: the provider answers. *)
Send(j) ==
  /\ state[j] = "sending"
  /\ \/ To(j, "accepted") /\ mailed' = mailed \cup {j}
     \/ To(j, "refused") /\ UNCHANGED mailed
  /\ UNCHANGED <<kind, due, tries, stalled, mfaVars, suppressed, faults>>

(* Mutant of Counted: an attempt that fails does not count. *)
NotCounted(j) == tries[j]

Counted(j) == tries[j] + 1

(* A throw: BullMQ tries again until the attempts are used up. *)
Retry(j) ==
  /\ tries' = [tries EXCEPT ![j] = Counted(j)]
  /\ To(j, IF Counted(j) < Attempts THEN "waiting" ELSE "failed")

(* Mutant of Throws: the error in the provider's answer is not looked at. *)
ThrowsNever(j) == FALSE

Throws(j) == state[j] = "refused"

(* sendAndLog goes on: the row of the log, and the throw after a refusal. *)
Record(j) ==
  /\ state[j] \in {"accepted", "refused"}
  /\ IF Throws(j) THEN Retry(j) ELSE To(j, "completed") /\ UNCHANGED tries
  /\ UNCHANGED <<kind, due, stalled, mfaVars, mailed, suppressed, faults>>

(* The insert into the log fails: an accepted mail is sent again. *)
RecordFails(j) ==
  /\ state[j] \in {"accepted", "refused"}
  /\ faults < MaxFaults
  /\ faults' = faults + 1
  /\ Retry(j)
  /\ UNCHANGED <<kind, due, stalled, mfaVars, mailed, suppressed>>

Active == {j \in Job : state[j] \in {"sending", "accepted", "refused"}}

(* The worker dies: its jobs stall, and go back to the queue once. *)
Crash ==
  /\ faults < MaxFaults
  /\ Active # {} \/ sweep # "idle"
  /\ faults' = faults + 1
  /\ state' = [j \in Job |-> CASE j \notin Active -> state[j]
                               [] j \in Active \cap stalled -> "failed"
                               [] OTHER -> "waiting"]
  /\ stalled' = stalled \cup Active
  /\ sweep' = "idle"
  /\ UNCHANGED <<kind, due, tries, mfaPending, reminded, mailed, suppressed>>

(* listMembersNeedingMfaReminder *)
ListMembers ==
  /\ sweep = "idle"
  /\ mfaPending /\ ~reminded
  /\ sweep' = "listed"
  /\ UNCHANGED <<kind, due, queueVars, mfaPending, reminded, mailed, suppressed, faults>>

(* The reminder is sent and logged; a refusal is caught, for the next run. *)
Remind ==
  /\ sweep = "listed"
  /\ \/ sweep' = "sent" /\ mailed' = mailed \cup {"mfa"}
     \/ sweep' = "idle" /\ UNCHANGED mailed
  /\ UNCHANGED <<kind, due, queueVars, mfaPending, reminded, suppressed, faults>>

(* markMfaReminderSent *)
MarkReminded ==
  /\ sweep = "sent"
  /\ sweep' = "idle"
  /\ reminded' = TRUE
  /\ UNCHANGED <<kind, due, queueVars, mfaPending, mailed, suppressed, faults>>

(* Two-factor sign-in is set up, or the deadline passes. *)
SettleMfa ==
  /\ mfaPending
  /\ mfaPending' = FALSE
  /\ UNCHANGED <<kind, due, queueVars, sweep, reminded, mailed, suppressed, faults>>

WorkOn(j) == Take(j) \/ Send(j) \/ Record(j)

Next ==
  \/ EnqueueBooking \/ EnqueueInvitation \/ EnqueueQuote
  \/ \E j \in Job : Forget(j) \/ WorkOn(j) \/ RecordFails(j)
  \/ Cancel
  \/ Crash
  \/ ListMembers
  \/ Remind
  \/ MarkReminded
  \/ SettleMfa

Spec == Init /\ [][Next]_vars

FairSpec == Spec /\ \A j \in Job : WF_vars(WorkOn(j))

-----------------------------------------------------------------------------
TypeOK ==
  /\ kind \in {"invitation", "quote"}
  /\ due \in BOOLEAN
  /\ state \in [Job -> {"none", "waiting", "sending", "accepted", "refused", "completed", "failed"}]
  /\ tries \in [Job -> 0 .. Attempts]
  /\ stalled \in SUBSET Job
  /\ sweep \in {"idle", "listed", "sent"}
  /\ mfaPending \in BOOLEAN
  /\ reminded \in BOOLEAN
  /\ mailed \in SUBSET (Job \cup {"mfa"})
  /\ suppressed \in SUBSET Job
  /\ faults \in 0 .. MaxFaults

(* What is recorded as done was mailed: a job that is completed had its    *)
(* mail accepted by the provider, or found the booking no longer           *)
(* confirmed, and an owner marked as reminded was written to, whatever was *)
(* refused, crashed or failed to be logged on the way.                     *)
RecordedIsMailed ==
  /\ \A j \in Job : state[j] = "completed" => j \in mailed \cup suppressed
  /\ reminded => "mfa" \in mailed

(* A job ends, completed or failed, even when the provider refuses it for  *)
(* ever and the worker dies on the way.                                    *)
EveryJobEnds == \A j \in Job : state[j] = "waiting" ~> state[j] \in {"completed", "failed"}
==============================================================================
