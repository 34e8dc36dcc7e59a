------------------------------- MODULE Controls -------------------------------
(***************************************************************************)
(* The controls of the settings page that show a change before it is       *)
(* saved: the switch of the directory listing, the category, the status of *)
(* a quote request and the cover image.  Server actions run one at a time  *)
(* in the order of their calls; when one is refused, some of the controls  *)
(* take the change back, each in its own way.  The controls stand in two   *)
(* panels of tabs, and a panel that is left and opened again comes back    *)
(* with what the page was rendered with, and nothing of its own pending.   *)
(***************************************************************************)
EXTENDS Limits, Sequences

Control == {"listed", "category", "status", "cover"}
Value   == 0 .. 1

VARIABLES
  stored,   \* in the database
  chosen,   \* the state of each control, which it shows
  prop,     \* the values the page was rendered with last
  setByOwner, \* organization.directoryListingSetByOwner
  jobs,     \* server actions called and not answered, oldest first: by a control, or by one that has been left
  uploads,  \* images on their way to the media storage: of the form, of one that has been left
  elsewhere, \* history: controls whose value another browser, or the layout, has changed since, ...
  astray    \* ... that keep a change which was refused, or came back while one was under way

vars == <<stored, chosen, prop, setByOwner, jobs, uploads, elsewhere, astray>>

Panels == {{"cover"}, {"listed", "category", "status"}}

Init ==
  /\ stored = [k \in Control |-> 0]
  /\ chosen = stored
  /\ prop = stored
  /\ setByOwner = FALSE
  /\ jobs = <<>>
  /\ uploads = {}
  /\ elsewhere = {} /\ astray = {}

(* Mutant of Pending: nothing is disabled while its action is pending. *)
PendingNever(k) == FALSE /\ k \in Control

Pending(k) == \E i \in DOMAIN jobs : jobs[i].control = k /\ jobs[i].from = "own"

(* Bound: the actions and uploads under way when another one is started. *)
MayStart == Len(jobs) + Cardinality(uploads) < MaxWaiting

(* The control shows the value, and execute calls its action. *)
Execute(k, v) ==
  /\ chosen' = [chosen EXCEPT ![k] = v]
  /\ jobs' = Append(jobs, [control |-> k, value |-> v, from |-> "own"])

ToggleListed ==
  /\ ~Pending("listed")
  /\ MayStart
  /\ Execute("listed", 1 - chosen["listed"])
  /\ UNCHANGED <<stored, prop, setByOwner, uploads, elsewhere, astray>>

ChangeCategory(v) ==
  /\ ~Pending("category")
  /\ MayStart
  /\ v # chosen["category"]
  /\ Execute("category", v)
  /\ UNCHANGED <<stored, prop, setByOwner, uploads, elsewhere, astray>>

ChangeStatus(v) ==
  /\ ~Pending("status")
  /\ MayStart
  /\ v # chosen["status"]
  /\ Execute("status", v)
  /\ UNCHANGED <<stored, prop, setByOwner, uploads, elsewhere, astray>>

UploadCover ==
  /\ ~Pending("cover") /\ "own" \notin uploads
  /\ MayStart
  /\ uploads' = uploads \cup {"own"}
  /\ UNCHANGED <<stored, chosen, prop, setByOwner, jobs, elsewhere, astray>>

(* The image is there, whatever has been done to the cover meanwhile; a    *)
(* form that has been left still calls its action.                         *)
CoverUploaded ==
  /\ \/ /\ "own" \in uploads
        /\ uploads' = uploads \ {"own"}
        /\ Execute("cover", 1)
     \/ /\ "left" \in uploads
        /\ uploads' = uploads \ {"left"}
        /\ jobs' = Append(jobs, [control |-> "cover", value |-> 1, from |-> "left"])
        /\ UNCHANGED chosen
  /\ UNCHANGED <<stored, prop, setByOwner, elsewhere, astray>>

UploadFails ==
  /\ \E u \in uploads : uploads' = uploads \ {u}
  /\ UNCHANGED <<stored, chosen, prop, setByOwner, jobs, elsewhere, astray>>

(* There is a cover to remove; an upload does not disable the button. *)
RemoveCover ==
  /\ ~Pending("cover")
  /\ MayStart
  /\ chosen["cover"] # 0
  /\ Execute("cover", 0)
  /\ UNCHANGED <<stored, prop, setByOwner, uploads, elsewhere, astray>>

(* Another tab and back: bound, with one upload left behind at a time. *)
Return(panel) ==
  /\ "cover" \in panel => uploads # {"own", "left"}
  /\ chosen' = [k \in Control |-> IF k \in panel THEN prop[k] ELSE chosen[k]]
  /\ jobs' = [i \in DOMAIN jobs |-> IF jobs[i].control \in panel THEN [jobs[i] EXCEPT !.from = "left"] ELSE jobs[i]]
  /\ uploads' = IF "cover" \in panel /\ uploads # {} THEN {"left"} ELSE uploads
  /\ astray' = (astray \ panel) \cup {k \in panel : (\E i \in DOMAIN jobs : jobs[i].control = k)
                                                   \/ (k = "cover" /\ uploads # {})}
  /\ Cardinality(elsewhere \cup astray') <= MaxAstray
  /\ UNCHANGED <<stored, prop, setByOwner, elsewhere>>

(* autoListDirectory lists a shop whose owner has not chosen, once its     *)
(* setup is complete: in the layout, beside the reads of the page.         *)
AutoList(values) ==
  IF ~setByOwner' /\ values["listed"] = 0 THEN {values, [values EXCEPT !["listed"] = 1]} ELSE {values}

Render(values) == stored' \in AutoList(values) /\ prop' \in {values, stored'}

(* The answer brings the page with the values as they are stored now. *)
Done ==
  /\ jobs # <<>>
  /\ jobs' = Tail(jobs)
  /\ LET k      == Head(jobs).control
         values == [stored EXCEPT ![k] = Head(jobs).value]
         left   == (k = "cover" /\ "left" \in uploads) \/ \E i \in DOMAIN jobs : jobs[i].control = k /\ jobs[i].from = "left"
     IN  /\ setByOwner' = (setByOwner \/ k = "listed")
         /\ Render(values)
         /\ elsewhere' = (elsewhere \ {k}) \cup {c \in Control : stored'[c] # values[c]}
         /\ astray' = IF left THEN astray ELSE astray \ {k}
  /\ UNCHANGED <<chosen, uploads>>

(* onError of the control, which is not called once it has been left. *)
Refused ==
  /\ jobs # <<>>
  /\ LET job == Head(jobs) IN
       CASE job.from = "left" -> UNCHANGED <<chosen, astray>>
         [] job.from = "own" /\ job.control = "listed" ->
              /\ chosen' = [chosen EXCEPT !["listed"] = 1 - @]
              /\ UNCHANGED astray
         [] job.from = "own" /\ job.control = "status" ->
              /\ chosen' = [chosen EXCEPT !["status"] = prop["status"]]
              /\ UNCHANGED astray
         [] job.from = "own" /\ job.control \in {"category", "cover"} ->
              /\ astray' = astray \cup {job.control}
              /\ UNCHANGED chosen
  /\ jobs' = Tail(jobs)
  /\ UNCHANGED <<stored, prop, setByOwner, uploads, elsewhere>>

(* In another browser, where a page may also list the shop by itself. *)
ChangeElsewhere(k, v) ==
  /\ Cardinality(elsewhere \cup astray) < MaxAstray
  /\ v # stored[k]
  /\ stored' = [stored EXCEPT ![k] = v]
  /\ elsewhere' = elsewhere \cup {k}
  /\ setByOwner' \in IF k = "listed" /\ v = 1 THEN {TRUE, setByOwner} ELSE {setByOwner \/ k = "listed"}
  /\ UNCHANGED <<chosen, prop, jobs, uploads, astray>>

(* The page is loaded again, at rest. *)
Reload ==
  /\ jobs = <<>> /\ uploads = {}
  /\ UNCHANGED <<setByOwner, jobs, uploads>>
  /\ Render(stored)
  /\ chosen' = prop'
  /\ elsewhere' = {k \in Control : prop'[k] # stored'[k]}
  /\ astray' = {}

Next ==
  \/ ToggleListed
  \/ \E v \in Value : ChangeCategory(v) \/ ChangeStatus(v)
  \/ UploadCover
  \/ CoverUploaded
  \/ UploadFails
  \/ RemoveCover
  \/ \E panel \in Panels : Return(panel)
  \/ Done
  \/ Refused
  \/ \E k \in Control, v \in Value : ChangeElsewhere(k, v)
  \/ Reload

Spec == Init /\ [][Next]_vars

-----------------------------------------------------------------------------
TypeOK ==
  /\ stored \in [Control -> Value]
  /\ chosen \in [Control -> Value]
  /\ prop \in [Control -> Value]
  /\ setByOwner \in BOOLEAN
  /\ jobs \in Seq([control : Control, value : Value, from : {"own", "left"}])
  /\ uploads \in SUBSET {"own", "left"}
  /\ elsewhere \in SUBSET Control /\ astray \in SUBSET Control

(* At rest a control shows what is stored, in whatever order its actions   *)
(* are called, answered and refused.  The exceptions: another browser has  *)
(* changed the value, or the layout has listed the shop beside the page's  *)
(* own read or with the answer to another control; the control keeps a     *)
(* change that was refused, as category and cover do; or its tab was left  *)
(* and opened again while a change of its own was under way, and no change *)
(* was saved since with none from before left.                             *)
ShownIsStored ==
  \A k \in Control : Pending(k) \/ k \in elsewhere \cup astray \/ chosen[k] = stored[k]
==============================================================================
