---------------------------- MODULE Conversations ----------------------------
(***************************************************************************)
(* The conversation of a customer with a shop: messages of either side,    *)
(* each inserted and then announced by a second update of the conversation *)
(* row, and the two threads that poll it, each load first reading all the  *)
(* messages and then marking the conversation as read.  Of the times of    *)
(* the row what matters is kept: whether the last message is later than    *)
(* the last reading of each side.                                          *)
(***************************************************************************)
EXTENDS Limits

Side    == {"customer", "staff"}
Message == 1 .. 2  \* bound: the messages written

VARIABLES
  started,   \* is there a conversation row?
  from,      \* the side that wrote each message, or "none" when it is not stored
  unread,    \* lastMessageAt > lastStaffReadAt or lastCustomerReadAt
  progress,  \* of each call that sends, the step it has come to
  writer,    \* ... the side that sends
  message,   \* ... the message it has stored, 0 for none
  watching,  \* the sides whose thread is open
  loading,   \* the sides with a load between its reading and its mark
  snapshot,  \* the messages that load has read
  delivered, \* history: the messages of the other side each has been shown
  faults

sending == <<progress, writer, message>>
threads == <<watching, loading, snapshot, delivered>>
vars == <<started, from, unread, sending, threads, faults>>

Init ==
  /\ started = FALSE
  /\ from = [m \in Message |-> "none"]
  /\ unread = [s \in Side |-> FALSE]
  /\ progress = [c \in Call |-> "idle"]
  /\ writer = [c \in Call |-> "staff"]
  /\ message = [c \in Call |-> 0]
  /\ watching = {}
  /\ loading = {}
  /\ snapshot = [s \in Side |-> {}]
  /\ delivered = [s \in Side |-> {}]
  /\ faults = 0

(* The messages of the other side, those this module follows to a thread. *)
Theirs(s) == {m \in Message : from[m] \notin {"none", s}}

At(c, s) == progress' = [progress EXCEPT ![c] = s]

(* createCustomerMessage, and createStaffReply in a conversation there is: *)
(* the row is looked up.                                                   *)
Find(c, s) ==
  /\ progress[c] = "idle"
  /\ s = "staff" => started
  /\ At(c, IF started THEN "insert" ELSE "create")
  /\ writer' = [writer EXCEPT ![c] = s]
  /\ UNCHANGED <<started, from, unread, message, threads, faults>>

(* conversation.create: the key refuses the second of two first messages,  *)
(* and its call fails.                                                     *)
Create(c) ==
  /\ progress[c] = "create"
  /\ At(c, IF started THEN "idle" ELSE "insert")
  /\ started' = TRUE
  /\ writer' = [writer EXCEPT ![c] = IF started THEN "staff" ELSE @]
  /\ UNCHANGED <<from, unread, message, threads, faults>>

(* message.create *)
Insert(c, m) ==
  /\ progress[c] = "insert"
  /\ from[m] = "none"
  /\ \A n \in Message : n < m => from[n] # "none"
  /\ from' = [from EXCEPT ![m] = writer[c]]
  /\ message' = [message EXCEPT ![c] = m]
  /\ At(c, "announce")
  /\ UNCHANGED <<started, unread, writer, threads, faults>>

(* The update of the row: any message is unread by staff, and the one who  *)
(* writes as a customer has read.                                          *)
Announced(s) == [t \in Side |-> t = "staff" \/ s = "staff"]

Quit(c) ==
  /\ At(c, "idle")
  /\ writer' = [writer EXCEPT ![c] = "staff"]
  /\ message' = [message EXCEPT ![c] = 0]

Announce(c) ==
  /\ progress[c] = "announce"
  /\ Quit(c)
  /\ unread' = Announced(writer[c])
  /\ UNCHANGED <<started, from, threads, faults>>

(* The call is lost, or refused, before it announces its message. *)
Lose(c) ==
  /\ progress[c] \in {"insert", "announce"}
  /\ faults < MaxFaults
  /\ faults' = faults + 1
  /\ Quit(c)
  /\ UNCHANGED <<started, from, unread, threads>>

OpenThread(s) ==
  /\ s \notin watching
  /\ watching' = watching \cup {s}
  /\ UNCHANGED <<started, from, unread, sending, loading, snapshot, delivered, faults>>

(* The page is left; a load in flight goes on. *)
CloseThread(s) ==
  /\ s \in watching
  /\ watching' = watching \ {s}
  /\ UNCHANGED <<started, from, unread, sending, loading, snapshot, delivered, faults>>

(* Mutant of Loaded: only a conversation with something unread is read. *)
LoadedIfUnread(s) == IF unread[s] THEN Theirs(s) ELSE {}

(* getConversationForStaff and getConversationForCustomer: all messages. *)
Loaded(s) == Theirs(s)

(* The thread polls: one load at a time. *)
Load(s) ==
  /\ s \in watching
  /\ s \notin loading
  /\ started
  /\ loading' = loading \cup {s}
  /\ snapshot' = [snapshot EXCEPT ![s] = Loaded(s)]
  /\ UNCHANGED <<started, from, unread, sending, watching, delivered, faults>>

(* ... the mark, and the answer to the thread if it is still open. *)
Mark(s) ==
  /\ s \in loading
  /\ loading' = loading \ {s}
  /\ snapshot' = [snapshot EXCEPT ![s] = {}]
  /\ unread' = [unread EXCEPT ![s] = FALSE]
  /\ delivered' = [delivered EXCEPT ![s] = IF s \in watching THEN @ \cup snapshot[s] ELSE @]
  /\ UNCHANGED <<started, from, sending, watching, faults>>

Next ==
  \/ \E c \in Call :
       \/ \E s \in Side : Find(c, s)
       \/ Create(c)
       \/ \E m \in Message : Insert(c, m)
       \/ Announce(c)
       \/ Lose(c)
  \/ \E s \in Side : OpenThread(s) \/ CloseThread(s) \/ Load(s) \/ Mark(s)

Spec == Init /\ [][Next]_vars

(* React Query polls an open thread, and a load that has begun ends. *)
Poll(s) == Load(s) \/ Mark(s)

FairSpec == Spec /\ \A s \in Side : WF_vars(Poll(s))

-----------------------------------------------------------------------------
TypeOK ==
  /\ started \in BOOLEAN
  /\ from \in [Message -> Side \cup {"none"}]
  /\ unread \in [Side -> BOOLEAN]
  /\ progress \in [Call -> {"idle", "create", "insert", "announce"}]
  /\ writer \in [Call -> Side]
  /\ message \in [Call -> Message \cup {0}]
  /\ watching \in SUBSET Side
  /\ loading \in SUBSET Side
  /\ snapshot \in [Side -> SUBSET Message]
  /\ delivered \in [Side -> SUBSET Message]
  /\ faults \in 0 .. MaxFaults

(* Every stored message is shown to a side that keeps its thread open,     *)
(* even when the call that stored it was lost before it announced it.      *)
EveryMessageShown == \A m \in Message, s \in Side :
  m \in Theirs(s) ~> (m \in delivered[s] \/ s \notin watching)
==============================================================================
