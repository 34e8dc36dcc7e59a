------------------------------- MODULE Editors -------------------------------
(***************************************************************************)
(* The forms and switches by which the staff of an organization, each in a *)
(* browser, edits a row: of staff, services, coupons, customers, working   *)
(* hours, rules or the impressum.  A form starts from the row as its page  *)
(* has it; what it leaves undefined, the update leaves as it is.  A row    *)
(* has a text that may be empty, links, a mode with a number for either    *)
(* mode, and a switch.  Updates are one step here; Staffing and Coupons    *)
(* have their statements.                                                  *)
(***************************************************************************)
EXTENDS Limits, Sequences

Entity == {"staff", "service", "coupon", "customer", "member", "hours", "rules", "impressum"}
Text   == {"none", "text"}
Link   == {"link"}
Mode   == {"plain", "special"}  \* special: by commission, with a deposit, for selected services

VARIABLES
  entity,   \* what is edited
  row,      \* the row as stored
  page,     \* the row as each browser shows it
  form,     \* the form open in each browser
  sent,     \* the inputs each browser has sent and has no answer to, oldest first
  inputs,   \* bound: how many were sent
  said      \* history: what the forms and switches that were saved last have shown

vars == <<entity, row, page, form, sent, inputs, said>>

(* What the form of each lets its user change *)
StaffFields     == {"text", "links", "mode", "number"}
ServiceFields   == {"links", "mode", "number"}
CouponFields    == {"text", "links", "mode"}
CustomerFields  == {"text", "links", "active"}
HoursFields     == {"links"}
RulesFields     == {"mode", "number", "active"}
ImpressumFields == {"text"}

Editable ==
  [staff     |-> StaffFields,
   service   |-> ServiceFields,
   coupon    |-> CouponFields,
   customer  |-> CustomerFields,
   member    |-> {},
   hours     |-> HoursFields,
   rules     |-> RulesFields,
   impressum |-> ImpressumFields]

Row == [text : Text, links : SUBSET Link, mode : Mode, plain : 1 .. 2, special : 1 .. 2, active : BOOLEAN]
Fields == [text : Text, links : SUBSET Link, mode : Mode, number : 1 .. 2, active : BOOLEAN]
NoForm == [open |-> FALSE]

Nothing == [k \in {} |-> k]  \* the input that leaves everything undefined
Only(key, value) == [k \in {key} |-> value]
Over(input, r) == [k \in DOMAIN input \cup DOMAIN r |-> IF k \in DOMAIN input THEN input[k] ELSE r[k]]

Init ==
  /\ entity \in Entity
  /\ row = [text |-> "text", links |-> Link, mode |-> "special", plain |-> 1, special |-> 2, active |-> TRUE]
  /\ page = [b \in Call |-> row]
  /\ form = [b \in Call |-> NoForm]
  /\ sent = [b \in Call |-> <<>>]
  /\ inputs = 0
  /\ said = row

-----------------------------------------------------------------------------
(* What a form shows at first: useState of the row. *)
Common(r) == [text |-> r.text, links |-> r.links, mode |-> r.mode, number |-> r.special, active |-> r.active]

(* The amount is that of the kind of compensation. *)
StaffForm(r) == [Common(r) EXCEPT !.number = r[r.mode]]

FirstForm(r) == IF entity = "staff" THEN StaffForm(r) ELSE Common(r)

(* What is changed between two submissions: a field, or nothing. *)
Edits(f) ==
  LET values == [text |-> Text, links |-> SUBSET Link, mode |-> Mode, number |-> 1 .. 2, active |-> BOOLEAN]
  IN  {f} \cup UNION {{[f EXCEPT ![k] = v] : v \in values[k]} : k \in Editable[entity]}

-----------------------------------------------------------------------------
(* What a form sends *)

OrUndefined(text) == IF text = "none" THEN Nothing ELSE [text |-> text]

StaffInput(f) == Over([links |-> f.links, mode |-> f.mode], Over(Only(f.mode, f.number), OrUndefined(f.text)))

ServiceInput(f) ==
  Over([links |-> f.links, mode |-> f.mode], IF f.mode = "special" THEN [special |-> f.number] ELSE Nothing)

ForServices(f) == IF f.mode = "special" THEN f.links ELSE {}

(* Mutant of CouponInput: an empty date is left undefined. *)
CouponInputUndefined(f) == Over([mode |-> f.mode, links |-> ForServices(f)], OrUndefined(f.text))

CouponInput(f) == [mode |-> f.mode, links |-> ForServices(f), text |-> f.text]

CustomerInput(f) == [text |-> f.text, links |-> f.links, active |-> f.active]

(* One interval for each weekday that is enabled. *)
HoursInput(f) == [links |-> f.links]

RulesInput(f) == [mode |-> f.mode, special |-> f.number, active |-> f.active]

ImpressumInput(f) == OrUndefined(f.text)

FormInput(f) ==
  CASE entity = "staff" -> StaffInput(f)
    [] entity = "service" -> ServiceInput(f)
    [] entity = "coupon" -> CouponInput(f)
    [] entity = "customer" -> CustomerInput(f)
    [] entity = "hours" -> HoursInput(f)
    [] entity = "rules" -> RulesInput(f)
    [] entity = "impressum" -> ImpressumInput(f)

(* What a form tells its user: all that it shows when it is submitted.     *)
Tells(f) ==
  LET plain   == Editable[entity] \cap {"text", "links", "mode", "active"}
      numbers == IF entity = "staff" THEN Only(f.mode, f.number)
                 ELSE IF entity = "rules" \/ (entity = "service" /\ f.mode = "special") THEN [special |-> f.number]
                 ELSE Nothing
  IN  Over([k \in plain |-> IF k = "links" /\ entity = "coupon" THEN ForServices(f) ELSE f[k]], numbers)

-----------------------------------------------------------------------------
Waiting(b, from) == \E i \in DOMAIN sent[b] : sent[b][i].from = from

Send(b, from, input, tells) ==
  /\ inputs < MaxSent
  /\ inputs' = inputs + 1
  /\ sent' = [sent EXCEPT ![b] = Append(@, [from |-> from, input |-> input, tells |-> tells])]

OpenForm(b) ==
  /\ entity # "member"
  /\ form[b] = NoForm
  /\ form' = [form EXCEPT ![b] = FirstForm(page[b])]
  /\ UNCHANGED <<entity, row, page, sent, inputs, said>>

(* The form unmounts: what it has sent is nobody's now. *)
CloseForm(b) ==
  /\ form[b] # NoForm
  /\ form' = [form EXCEPT ![b] = NoForm]
  /\ sent' = [sent EXCEPT ![b] = [i \in DOMAIN @ |-> IF @[i].from = "form" THEN [@[i] EXCEPT !.from = "gone"]
                                                     ELSE @[i]]]
  /\ UNCHANGED <<entity, row, page, inputs, said>>

(* The button is disabled while the form waits. *)
Submit(b) ==
  /\ form[b] # NoForm
  /\ ~Waiting(b, "form")
  /\ \E f \in Edits(form[b]) :
       /\ form' = [form EXCEPT ![b] = f]
       /\ Send(b, "form", FormInput(f), Tells(f))
  /\ UNCHANGED <<entity, row, page, said>>

(* The other value than the one shown, and nothing else. *)
ToggleInput(b) == [active |-> ~page[b].active]

Toggle(b) ==
  /\ ~Waiting(b, "switch")
  /\ Send(b, "switch", ToggleInput(b), ToggleInput(b))
  /\ UNCHANGED <<entity, row, page, form, said>>

ToggleStaff(b)   == entity = "staff" /\ Toggle(b)
ToggleService(b) == entity = "service" /\ Toggle(b)
ToggleCoupon(b)  == entity = "coupon" /\ Toggle(b)

SelectRole(b, role) ==
  /\ entity = "member"
  /\ ~Waiting(b, "switch")
  /\ role # page[b].mode
  /\ Send(b, "switch", [mode |-> role], [mode |-> role])
  /\ UNCHANGED <<entity, row, page, form, said>>

(* The update, and the answer with the page anew: the sheet closes; the    *)
(* forms of the settings stay.                                             *)
Save(b) ==
  /\ sent[b] # <<>>
  /\ LET call == Head(sent[b]) IN
       /\ row' = Over(call.input, row)
       /\ said' = Over(call.tells, said)
       /\ form' = IF call.from = "form" /\ entity \notin {"rules", "impressum"}
                  THEN [form EXCEPT ![b] = NoForm] ELSE form
  /\ page' = [page EXCEPT ![b] = row']
  /\ sent' = [sent EXCEPT ![b] = Tail(@)]
  /\ UNCHANGED <<entity, inputs>>

UpdateStaff(b)     == entity = "staff" /\ Save(b)
UpdateService(b)   == entity = "service" /\ Save(b)
UpdateCoupon(b)    == entity = "coupon" /\ Save(b)
UpdateCustomer(b)  == entity = "customer" /\ Save(b)
UpdateRole(b)      == entity = "member" /\ Save(b)
SetHours(b)        == entity = "hours" /\ Save(b)
SaveRules(b)       == entity = "rules" /\ Save(b)
UpdateImpressum(b) == entity = "impressum" /\ Save(b)

(* Refused by the schema, a rule, or the database. *)
Refuse(b) ==
  /\ sent[b] # <<>>
  /\ sent' = [sent EXCEPT ![b] = Tail(@)]
  /\ UNCHANGED <<entity, row, page, form, inputs, said>>

Visit(b) ==
  /\ sent[b] = <<>>
  /\ page' = [page EXCEPT ![b] = row]
  /\ form' = [form EXCEPT ![b] = NoForm]
  /\ UNCHANGED <<entity, row, sent, inputs, said>>

Next ==
  \E b \in Call :
    \/ OpenForm(b) \/ CloseForm(b) \/ Submit(b)
    \/ ToggleStaff(b) \/ ToggleService(b) \/ ToggleCoupon(b)
    \/ \E role \in Mode : SelectRole(b, role)
    \/ UpdateStaff(b) \/ UpdateService(b) \/ UpdateCoupon(b) \/ UpdateCustomer(b)
    \/ UpdateRole(b) \/ SetHours(b) \/ SaveRules(b) \/ UpdateImpressum(b)
    \/ Refuse(b)
    \/ Visit(b)

Spec == Init /\ [][Next]_vars

-----------------------------------------------------------------------------
TypeOK ==
  /\ entity \in Entity
  /\ row \in Row
  /\ page \in [Call -> Row]
  /\ \A b \in Call : form[b] = NoForm \/ form[b] \in Fields
  /\ \A b \in Call : \A i \in DOMAIN sent[b] : DOMAIN sent[b][i].input \subseteq DOMAIN row
  /\ inputs \in 0 .. MaxSent
  /\ said \in Row

(* A text of the staff or of the impressum that was emptied in vain: the   *)
(* form sends an empty one as undefined, and says that it has saved.       *)
EmptiedInVain == entity \in {"staff", "impressum"} /\ said.text = "none"

(* Each column holds what was last said of it, by the forms and switches   *)
(* that show it, and were saved: whatever pages they were opened on, none  *)
(* of them loses what another has saved of a column it does not show.  The *)
(* one exception are the texts that the forms of staff and impressum have  *)
(* emptied, which stay as they were until another text is saved.           *)
SavedAsSaid == \A k \in DOMAIN row : row[k] = said[k] \/ (k = "text" /\ EmptiedInVain)
==============================================================================
