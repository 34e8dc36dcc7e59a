------------------------------ MODULE Staffing ------------------------------
(***************************************************************************)
(* The staff and the locations of an organization, counted against its     *)
(* plan before they are created, and the sets of rows that a save replaces *)
(* with deleteMany and then createMany: the working hours of a staff       *)
(* member, which no key protects, and its service links, whose key does.   *)
(***************************************************************************)
EXTENDS Limits

VARIABLES
  count,   \* the rows there are of each resource
  hiring,  \* calls between the count and the create, with the resource, or "none"
  rows,    \* of each set, the saves whose rows it holds
  save,    \* calls between deleteMany and createMany, with the set, or "none"
  last,    \* history: of each set, the save that deleted last, ...
  rivals,  \* ... the saves that had deleted and not yet created then, ...
  outcome, \* ... and what became of the last: "open", "done", "empty" or "failed"
  faults

vars == <<count, hiring, rows, save, last, rivals, outcome, faults>>
planVars == <<count, hiring>>
rowVars == <<rows, save, last, rivals, outcome>>

Resource == {"staff", "locations"}
RowSet   == {"workingHours", "staffServices"}

Init ==
  /\ count \in [Resource -> {0, 1}]
  /\ hiring = [c \in Call |-> "none"]
  /\ rows = [t \in RowSet |-> {}]
  /\ save = [c \in Call |-> "none"]
  /\ last = [t \in RowSet |-> NoCall]
  /\ rivals = [t \in RowSet |-> {}]
  /\ outcome = [t \in RowSet |-> "empty"]
  /\ faults = 0

Idle(c) == hiring[c] = "none" /\ save[c] = "none"

(* Mutant of LimitReached: one more than the plan has. *)
LimitPassed(r) == count[r] > PlanLimit

LimitReached(r) == count[r] >= PlanLimit

(* createStaff and createLocation: the count, and the answer of the plan. *)
Count(c, r) ==
  /\ Idle(c)
  /\ ~LimitReached(r)
  /\ hiring' = [hiring EXCEPT ![c] = r]
  /\ UNCHANGED <<count, rowVars, faults>>

(* The create; an invitation that fails afterwards takes nothing back. *)
Create(c, r) ==
  /\ hiring[c] = r
  /\ hiring' = [hiring EXCEPT ![c] = "none"]
  /\ count' = [count EXCEPT ![r] = @ + 1]
  /\ UNCHANGED <<rowVars, faults>>

(* Mutant of Cleared: a save of no rows deletes nothing. *)
ClearedIfAny(t, some) == IF some THEN {} ELSE rows[t]

Cleared(t, some) == {}

(* setStaffWorkingHours, and updateStaff with serviceIds: deleteMany.      *)
(* A save of no rows ends there.                                           *)
Delete(c, t, some) ==
  /\ Idle(c)
  /\ rows' = [rows EXCEPT ![t] = Cleared(t, some)]
  /\ last' = [last EXCEPT ![t] = c]
  /\ rivals' = [rivals EXCEPT ![t] = {d \in Call : save[d] = t}]
  /\ outcome' = [outcome EXCEPT ![t] = IF some THEN "open" ELSE "empty"]
  /\ save' = [save EXCEPT ![c] = IF some THEN t ELSE "none"]
  /\ UNCHANGED <<planVars, faults>>

Conclude(c, t, how) ==
  /\ save[c] = t
  /\ save' = [save EXCEPT ![c] = "none"]
  /\ outcome' = [outcome EXCEPT ![t] = IF last[t] = c THEN how ELSE @]

(* createMany: beside the rows of a rival, when there are some. *)
CreateRows(c, t) ==
  /\ Conclude(c, t, "done")
  /\ rows' = [rows EXCEPT ![t] = @ \cup {c}]
  /\ UNCHANGED <<planVars, last, rivals, faults>>

(* createMany of a link that a rival has created: the key refuses it all. *)
Duplicate(c) ==
  /\ rows["staffServices"] # {}
  /\ Conclude(c, "staffServices", "failed")
  /\ UNCHANGED <<planVars, rows, last, rivals, faults>>

(* The call is lost between the two statements: the rows are gone. *)
Lose(c, t) ==
  /\ faults < MaxFaults
  /\ faults' = faults + 1
  /\ Conclude(c, t, "failed")
  /\ UNCHANGED <<planVars, rows, last, rivals>>

Next == \E c \in Call :
  \/ \E r \in Resource : Count(c, r) \/ Create(c, r)
  \/ \E t \in RowSet :
       \/ \E some \in BOOLEAN : Delete(c, t, some)
       \/ CreateRows(c, t)
       \/ Lose(c, t)
  \/ Duplicate(c)

Spec == Init /\ [][Next]_vars

-----------------------------------------------------------------------------
TypeOK ==
  /\ count \in [Resource -> Nat]
  /\ hiring \in [Call -> Resource \cup {"none"}]
  /\ rows \in [RowSet -> SUBSET Call]
  /\ save \in [Call -> RowSet \cup {"none"}]
  /\ last \in [RowSet -> Call \cup {NoCall}]
  /\ rivals \in [RowSet -> SUBSET Call]
  /\ outcome \in [RowSet -> {"open", "done", "empty", "failed"}]
  /\ faults \in 0 .. MaxFaults

(* Calls that count at the same time pass the limit of the plan by no more *)
(* than their number, less one.                                            *)
WithinPlan == \A r \in Resource : count[r] <= PlanLimit + Cardinality(Call) - 1

(* The rows of the last save to delete are there once it is done, none if  *)
(* it had none, and beside them only rows of saves it has overlapped: no   *)
(* row of an earlier save outlives a later one.                            *)
RowsOfLastSave == \A t \in RowSet :
  /\ rows[t] \subseteq {last[t]} \cup rivals[t]
  /\ outcome[t] = "done" => last[t] \in rows[t]
==============================================================================
