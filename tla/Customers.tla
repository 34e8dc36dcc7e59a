------------------------------ MODULE Customers ------------------------------
(***************************************************************************)
(* The customers of one tenant: rows of guests, found by the address typed *)
(* in the public wizard, and rows of accounts, into which the rows with    *)
(* the verified address of the account are merged by one transaction; the  *)
(* bookings that refer to a row; profile changes and erasure.  An account  *)
(* is called by its address, which is unique.  What staff edit in a row,   *)
(* names and phone numbers are left out.                                   *)
(***************************************************************************)
EXTENDS Limits

Account  == {"ana", "bia"}
Row      == 1 .. 2  \* bound: the customer rows ever created, in this order
Booking  == {1}     \* bound: one booking is followed

VARIABLES
  verified,  \* the accounts with emailVerified
  member,    \* the accounts that are members of the organization, staff who book here
  owner,     \* customer.userId, or "guest"; "free" before, "gone" after the row
  email,     \* customer.email
  placed,    \* of each booking its row (0: none), who made it, and the address used
  job        \* what each call is doing

vars == <<verified, member, owner, email, placed, job>>

NoBooking == [row |-> 0, by |-> "guest", with |-> "none"]
Idle      == [does |-> "nothing", who |-> "ana", row |-> 0, found |-> {}, next |-> "page"]

Init ==
  /\ verified = {}
  /\ member = {"ana"}
  /\ owner = [r \in Row |-> "free"]
  /\ email = [r \in Row |-> "none"]
  /\ placed = [b \in Booking |-> NoBooking]
  /\ job = [c \in Call |-> Idle]

Do(c, j) == job' = [job EXCEPT ![c] = j]

Oldest(S) == CHOOSE r \in S : \A s \in S : r <= s

Free == {r \in Row : owner[r] = "free"}

(* The address of an account is verified by mail, or by Google at once. *)
VerifyEmail(u) ==
  /\ u \notin verified
  /\ verified' = verified \cup {u}
  /\ UNCHANGED <<member, owner, email, placed, job>>

-----------------------------------------------------------------------------
(* createBooking for a guest *)

(* Mutant of Matching: the rows of accounts are looked up as well. *)
MatchingAny(e) == {r \in Row : owner[r] \in Account \cup {"guest"} /\ email[r] = e}

Matching(e) == {r \in Row : owner[r] = "guest" /\ email[r] = e}

(* findOrCreateGuestCustomer: some row with the address, or a new one. *)
FindGuest(c, e) ==
  /\ job[c] = Idle
  /\ IF Matching(e) = {}
     THEN Do(c, [Idle EXCEPT !.does = "create", !.who = e])
     ELSE \E r \in Matching(e) : Do(c, [Idle EXCEPT !.does = "book", !.who = e, !.row = r])
  /\ UNCHANGED <<verified, member, owner, email, placed>>

CreateGuest(c) ==
  /\ job[c].does = "create"
  /\ Free # {}
  /\ LET r == Oldest(Free) IN
     /\ owner' = [owner EXCEPT ![r] = "guest"]
     /\ email' = [email EXCEPT ![r] = job[c].who]
     /\ Do(c, [job[c] EXCEPT !.does = "book", !.row = r])
  /\ UNCHANGED <<verified, member, placed>>

(* booking.create: the foreign key refuses a row that is gone; a booking   *)
(* that is not followed changes nothing here.                              *)
Book(c, by) ==
  /\ job[c].does = "book"
  /\ by = (IF job[c].next = "book" THEN "account" ELSE "guest")
  /\ Do(c, Idle)
  /\ \/ UNCHANGED placed
     \/ /\ owner[job[c].row] # "gone"
        /\ \E b \in Booking :
             /\ placed[b] = NoBooking
             /\ placed' = [placed EXCEPT ![b] = [row |-> job[c].row, by |-> by, with |-> job[c].who]]
  /\ UNCHANGED <<verified, member, owner, email>>

-----------------------------------------------------------------------------
(* findOrCreateCustomerForUser *)

Own(u) == {r \in Row : owner[r] = u}

(* Mutant of Guests: of any account, its address verified or not. *)
GuestsOfAny(u) == {r \in Row : owner[r] = "guest" /\ email[r] = u}

Guests(u) == IF u \in verified THEN {r \in Row : owner[r] = "guest" /\ email[r] = u} ELSE {}

(* tenantActionClient, which customerActionClient extends: members only. *)
Admitted(u) == u \in member

(* The pages of the account area resolve the customer of any session, its  *)
(* actions that of a session the client admits.                            *)
Resolve(c, u, next) ==
  /\ job[c] = Idle
  /\ next = "page" \/ Admitted(u)
  /\ Do(c, [does |-> "merge", who |-> u, next |-> next, found |-> Guests(u),
            row |-> IF Own(u) = {} THEN 0 ELSE Oldest(Own(u))])
  /\ UNCHANGED <<verified, member, owner, email, placed>>

(* The row the account ends with: its own, its oldest guest row, a new one *)
Primary(j) == IF j.row # 0 THEN j.row ELSE Oldest(IF j.found # {} THEN j.found ELSE Free)

(* A row that was found is gone, or a row of the account has come up: the  *)
(* update, the delete or the key makes the transaction fail.               *)
Conflict(j) ==
  \/ \E r \in j.found : owner[r] = "gone"
  \/ j.row = 0 /\ Own(j.who) \ {Primary(j)} # {}

Merge(c) ==
  LET j == job[c]
      p == Primary(j)
      duplicates == j.found \ {p}
  IN
  /\ j.does = "merge"
  /\ j.row = 0 /\ j.found = {} => Free # {}
  /\ ~Conflict(j)
  /\ owner' = [r \in Row |-> IF r = p THEN j.who ELSE IF r \in duplicates THEN "gone" ELSE owner[r]]
  /\ email' = IF j.row = 0 THEN [email EXCEPT ![p] = j.who] ELSE email
  /\ placed' = [b \in Booking |->
                  IF placed[b].row \in duplicates THEN [placed[b] EXCEPT !.row = p] ELSE placed[b]]
  /\ Do(c, IF j.next = "page" THEN Idle
           ELSE [Idle EXCEPT !.does = j.next, !.who = j.who, !.row = p, !.next = j.next])
  /\ UNCHANGED <<verified, member>>

Abort(c) ==
  /\ job[c].does = "merge"
  /\ job[c].row = 0 /\ job[c].found = {} => Free # {}
  /\ Conflict(job[c])
  /\ Do(c, Idle)
  /\ UNCHANGED <<verified, member, owner, email, placed>>

(* updateCustomerProfile: any address, or none. *)
UpdateProfile(c, e) ==
  /\ job[c].does = "profile"
  /\ email' = [email EXCEPT ![job[c].row] = e]
  /\ Do(c, Idle)
  /\ UNCHANGED <<verified, member, owner, placed>>

(* eraseCustomersForUser: the rows are listed, ... *)
ListForErasure(c, u) ==
  /\ job[c] = Idle
  /\ Own(u) # {}
  /\ Do(c, [Idle EXCEPT !.does = "erase", !.who = u, !.found = Own(u)])
  /\ UNCHANGED <<verified, member, owner, email, placed>>

(* ... and anonymized; they remain those of the account. *)
Erase(c) ==
  /\ job[c].does = "erase"
  /\ email' = [r \in Row |-> IF r \in job[c].found THEN "none" ELSE email[r]]
  /\ Do(c, Idle)
  /\ UNCHANGED <<verified, member, owner, placed>>

Next ==
  \/ \E u \in Account : VerifyEmail(u)
  \/ \E c \in Call :
       \/ \E e \in Account :
            \/ FindGuest(c, e)
            \/ ListForErasure(c, e)
            \/ \E next \in {"page", "book", "profile"} : Resolve(c, e, next)
       \/ CreateGuest(c)
       \/ \E by \in {"guest", "account"} : Book(c, by)
       \/ Merge(c)
       \/ Abort(c)
       \/ \E e \in Account \cup {"none"} : UpdateProfile(c, e)
       \/ Erase(c)

Spec == Init /\ [][Next]_vars

-----------------------------------------------------------------------------
TypeOK ==
  /\ verified \in SUBSET Account
  /\ member \in SUBSET Account
  /\ owner \in [Row -> Account \cup {"guest", "free", "gone"}]
  /\ email \in [Row -> Account \cup {"none"}]
  /\ placed \in [Booking -> [row : Row \cup {0}, by : {"guest", "account"}, with : Account \cup {"none"}]]
  /\ job \in [Call -> [does : {"nothing", "create", "book", "merge", "profile", "erase"},
                       who : Account, row : Row \cup {0}, found : SUBSET Row,
                       next : {"page", "book", "profile"}]]

(* A booking that shows up in an account was made by the account, or by a  *)
(* guest with the address that the account has verified, whichever merges, *)
(* guest bookings, profile changes and erasures ran at the same time.      *)
BookingsFollowIdentity == \A b \in Booking, u \in Account :
  placed[b].row \in Own(u) =>
    placed[b].with = u /\ (placed[b].by = "account" \/ u \in verified)
==============================================================================
