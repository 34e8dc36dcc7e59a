----------------------------- MODULE TenantScope -----------------------------
(***************************************************************************)
(* The rows a query can reach: the contexts of the calls, which the        *)
(* extended client reads (layer 1: scopeArgs), the connections of the      *)
(* pool, on which it sets the parameters that the row-level policies read  *)
(* (layer 2), the foreign keys between tenant tables, all composite but    *)
(* that of a booking's coupon, and the queries of the plain client on the  *)
(* same connections.  Rows are told apart by organization.                 *)
(***************************************************************************)
EXTENDS Limits, Sequences

Tenant  == {"a", "b"}
Context == Tenant \cup {"platform"}
Conn    == {"first", "second"}  \* bound: the pool has 20
Depth   == 2                    \* bound: contexts entered within another, by one call at a time

VARIABLES
  contexts,  \* the contexts each call is in, the innermost first
  conn,      \* the use of each connection, and its session's parameters
  reached    \* history: whose queries and rows have led to whose rows

vars == <<contexts, conn, reached>>

(* app.tenant_id and app.bypass_rls *)
Unset    == [tenant |-> "none", bypass |-> FALSE]
Settings == [tenant : Tenant \cup {"none"}, bypass : BOOLEAN]

Use(x, ready, s) == [context |-> x, ready |-> ready, settings |-> s]
Idle(k) == conn[k].context = "none"

(* A query on tenant tables: whose row it looks for, the organizationId    *)
(* its data names, and whose row a foreign key in its data names, which is *)
(* a composite one or the coupon of a booking.  "amend" stands for the     *)
(* writes whose data scopeArgs does not look at: the update of an upsert,  *)
(* and updateManyAndReturn.                                                *)
Operation ==
  [kind : {"find"}, row : Tenant, data : {"none"}, parent : {"none"}, key : {"composite"}]
    \cup [kind : {"update", "amend", "create"}, row : Tenant, data : Tenant \cup {"none"},
          parent : Tenant, key : {"composite", "coupon"}]
    \cup [kind : {"update", "amend", "create"}, row : Tenant, data : Tenant \cup {"none"},
          parent : {"none"}, key : {"composite"}]

Init ==
  /\ contexts = [c \in Call |-> <<>>]
  /\ conn = [k \in Conn |-> Use("none", FALSE, Unset)]
  /\ reached = {}

-----------------------------------------------------------------------------
(* runWithTenant, runWithPlatformScope *)
Enter(c, x) ==
  /\ contexts[c] # <<>> => \A other \in Call : Len(contexts[other]) < Depth
  /\ contexts' = [contexts EXCEPT ![c] = <<x>> \o @]
  /\ UNCHANGED <<conn, reached>>

Leave(c) ==
  /\ contexts[c] # <<>>
  /\ contexts' = [contexts EXCEPT ![c] = Tail(@)]
  /\ UNCHANGED <<conn, reached>>

(* A transaction of the call, for one query or for runInTenantTransaction, *)
(* keeps the context it is begun in; a call in none is refused.            *)
Begin(c, k) ==
  /\ contexts[c] # <<>>
  /\ Idle(k)
  /\ conn' = [conn EXCEPT ![k].context = Head(contexts[c])]
  /\ UNCHANGED <<contexts, reached>>

(* set_config, the first statement of every such transaction. *)
Configured(x, s) ==
  IF x = "platform" THEN [s EXCEPT !.bypass = TRUE] ELSE [tenant |-> x, bypass |-> FALSE]

Configure(k) ==
  /\ ~Idle(k)
  /\ ~conn[k].ready
  /\ conn' = [conn EXCEPT ![k] = Use(@.context, TRUE, Configured(@.context, @.settings))]
  /\ UNCHANGED <<contexts, reached>>

(* Mutant of Restored: the parameters are set for the session. *)
RestoredNever(s) == s

(* Parameters that are local to a transaction end with it.                 *)
Restored(s) == Unset

(* It commits or rolls back, and the connection returns to the pool. *)
End(k) ==
  /\ ~Idle(k)
  /\ conn' = [conn EXCEPT ![k] = Use("none", FALSE, Restored(@.settings))]
  /\ UNCHANGED <<contexts, reached>>

-----------------------------------------------------------------------------
(* scopeArgs: the rows its filter leaves, and the data that it refuses,    *)
(* as a row without an organization is refused by its table.               *)
Filter(x) == IF x = "platform" THEN Tenant ELSE {x}

Refused(x, op) ==
  IF x = "platform" THEN op.kind = "create" /\ op.data = "none"
  ELSE op.kind \in {"update", "create"} /\ op.data \notin {"none", x}

(* Whose the row is that a write leaves; a create is given the context's.  *)
Written(x, op) ==
  CASE op.kind = "create" /\ x # "platform" -> x
    [] op.data = "none" -> op.row
    [] OTHER -> op.data

(* The policy of the tables, on rows found and on rows written. *)
Admitted(s, o) == s.tenant = o \/ s.bypass

(* A composite foreign key has the organization in it.  That of a          *)
(* booking's coupon is the id alone, and no policy is asked: createBooking *)
(* names a coupon that its validation has found in the same context, which *)
(* is a tenant's.                                                          *)
Linked(x, o, op) ==
  \/ op.parent = "none"
  \/ op.key = "composite" /\ op.parent = o
  \/ op.key = "coupon" /\ x # "platform" /\ <<x, op.parent>> \in reached

(* The scope of the platform reaches everything; what it links is noted.   *)
By(x, o) == IF x = "platform" THEN {} ELSE {<<x, o>>}

Query(k, op) ==
  LET x == conn[k].context
      s == conn[k].settings
      o == Written(x, op)
  IN /\ conn[k].ready
     /\ op.kind # "create" => op.row \in Filter(x) /\ Admitted(s, op.row)
     /\ IF op.kind = "find"
        THEN reached' = reached \cup By(x, op.row)
        ELSE /\ ~Refused(x, op)
             /\ Admitted(s, o)
             /\ Linked(x, o, op)
             /\ reached' = reached \cup By(x, o) \cup ({<<o, op.parent>>} \ {<<o, "none">>})
     /\ UNCHANGED <<contexts, conn>>

(* A query of the plain client that comes upon tenant rows: the bookings   *)
(* that listOrganizationSummaries counts.                                  *)
Plain(k, o) ==
  /\ Idle(k)
  /\ Admitted(conn[k].settings, o)
  /\ reached' = reached \cup {<<"plain", o>>}
  /\ UNCHANGED <<contexts, conn>>

Next ==
  \/ \E c \in Call, x \in Context : Enter(c, x)
  \/ \E c \in Call : Leave(c)
  \/ \E c \in Call, k \in Conn : Begin(c, k)
  \/ \E k \in Conn : Configure(k) \/ End(k)
  \/ \E k \in Conn, op \in Operation : Query(k, op)
  \/ \E k \in Conn, o \in Tenant : Plain(k, o)

Spec == Init /\ [][Next]_vars

-----------------------------------------------------------------------------
TypeOK ==
  /\ contexts \in [Call -> Seq(Context)]
  /\ conn \in [Conn -> [context : Context \cup {"none"}, ready : BOOLEAN, settings : Settings]]
  /\ reached \in SUBSET ((Tenant \cup {"plain"}) \X Tenant)

(* Nothing but the scope of the platform reaches the rows of another       *)
(* organization, or links two of them, whichever connections the calls are *)
(* given after one another and whatever scopeArgs leaves to the policies;  *)
(* the plain client reaches none.  For the coupon of a booking that rests  *)
(* on the read it is taken from, not on its key.                           *)
TenantIsolation == \A r \in reached : r[1] = r[2]
=============================================================================
