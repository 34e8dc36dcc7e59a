-------------------------- MODULE Customers_proofs --------------------------
(***************************************************************************)
(* Proofs about the customers of a tenant, for any number of calls.  A row *)
(* goes one way: created for a guest or an account, then merged into the   *)
(* row of the verified account of its address.  What a call remembers of a *)
(* row, and what a booking says of it, therefore stays true of the row.    *)
(***************************************************************************)
EXTENDS Customers, TLAPS

(* The row takes a booking made by a guest or by the account, with address w. *)
Fits(r, w, by) ==
  /\ owner[r] # "free"
  /\ owner[r] = "guest" => by = "guest" /\ email[r] = w
  /\ owner[r] \in Account => w = owner[r] /\ (by = "account" \/ w \in verified)

(* A row that the merge of an account has found.                           *)
Found(r, u) == owner[r] \in {u, "gone"} \/ (owner[r] = "guest" /\ email[r] = u)

(* What a call remembers holds of the rows.                                *)
Remembers(j) ==
  /\ j.does = "create" => j.next = "page"
  /\ j.does = "book" => j.row \in Row /\
       (IF j.next = "book" THEN owner[j.row] = j.who ELSE Fits(j.row, j.who, "guest"))
  /\ j.does = "profile" => j.row \in Row /\ owner[j.row] = j.who
  /\ j.does = "merge" => /\ j.row # 0 => owner[j.row] = j.who
                         /\ j.found # {} => j.who \in verified
                         /\ \A r \in j.found : Found(r, j.who)
  /\ j.does = "erase" => \A r \in j.found : owner[r] = j.who

(* customer.userId is unique.                                              *)
OneRow == \A r, s \in Row : owner[r] \in Account /\ owner[s] = owner[r] => r = s

IInv ==
  /\ TypeOK
  /\ OneRow
  /\ \A b \in Booking :
       placed[b].row # 0 => Fits(placed[b].row, placed[b].with, placed[b].by)
  /\ \A c \in Call : Remembers(job[c])

(* The way a row may go in one step.                                       *)
Goes(r) ==
  \/ owner'[r] = owner[r] /\ (owner[r] = "guest" => email'[r] = email[r])
  \/ owner[r] = "free"
  \/ owner[r] = "guest" /\ owner'[r] = "gone"
  \/ owner[r] = "guest" /\ owner'[r] = email[r] /\ email[r] \in verified

Job == [does : {"nothing", "create", "book", "merge", "profile", "erase"},
        who : Account, row : Row \cup {0}, found : SUBSET Row,
        next : {"page", "book", "profile"}]

-----------------------------------------------------------------------------
LEMMA OldestIsOne == \A S \in SUBSET Row : S # {} => Oldest(S) \in S
<1> SUFFICES ASSUME NEW S \in SUBSET Row, S # {} PROVE Oldest(S) \in S
  OBVIOUS
<1>1. \E r \in S : \A s \in S : r <= s
  <2>1. S \subseteq {1, 2}
    BY DEF Row
  <2>2. CASE 1 \in S
    <3>1. \A s \in S : 1 <= s
      BY <2>1
    <3>2. QED
      BY <3>1, <2>2
  <2>3. CASE 1 \notin S
    <3>1. S = {2}
      BY <2>1, <2>3
    <3>2. QED
      BY <3>1
  <2>4. QED
    BY <2>2, <2>3
<1>2. QED
  BY <1>1 DEF Oldest

LEMMA AccountsApart == /\ \A u \in Account : u \notin {"guest", "free", "gone", "none"}
                       /\ 0 \notin Row
BY DEF Account, Row

(* While every row goes its way, what was true of it stays true.           *)
LEMMA RowsGo ==
  ASSUME TypeOK, verified \subseteq verified', \A r \in Row : Goes(r)
  PROVE  /\ \A r \in Row : \A w, by : Fits(r, w, by) => Fits(r, w, by)'
         /\ \A j \in Job : Remembers(j) => Remembers(j)'
<1> USE AccountsApart DEF TypeOK
<1>1. ASSUME NEW r \in Row, NEW w, NEW by, Fits(r, w, by) PROVE Fits(r, w, by)'
  BY <1>1 DEF Fits, Goes
<1>2. ASSUME NEW r \in Row, NEW u \in Account, Found(r, u) PROVE Found(r, u)'
  BY <1>2 DEF Found, Goes
<1>3. ASSUME NEW r \in Row, NEW u \in Account, owner[r] = u PROVE owner'[r] = u
  BY <1>3 DEF Goes
<1>4. ASSUME NEW j \in Job, Remembers(j) PROVE Remembers(j)'
  <2>1. j.who \in Account /\ j.row \in Row \cup {0} /\ j.found \in SUBSET Row
    BY DEF Job
  <2>2. QED
    BY <2>1, <1>1, <1>2, <1>3, <1>4 DEF Remembers
<1>5. QED
  BY <1>1, <1>4

LEMMA IdleRemembers == Idle \in Job /\ Remembers(Idle) /\ Remembers(Idle)' /\ Idle.row = 0 /\ Idle.next = "page"
BY DEF Idle, Job, Remembers, Account

LEMMA InitIInv == Init => IInv
<1> SUFFICES ASSUME Init PROVE IInv
  OBVIOUS
<1>1. TypeOK
  BY DEF Init, TypeOK, Account, NoBooking, Idle
<1>2. OneRow
  BY AccountsApart DEF Init, OneRow
<1>3. QED
  BY <1>1, <1>2, IdleRemembers DEF Init, IInv, NoBooking

(* The four parts of the invariant, after a step by which the rows go      *)
(* their way and one call does what it will.                               *)
LEMMA Kept ==
  ASSUME IInv, TypeOK', OneRow', verified \subseteq verified', \A r \in Row : Goes(r),
         \A b \in Booking : placed'[b] = placed[b] \/
           (placed'[b].row # 0 => Fits(placed[b].row, placed[b].with, placed[b].by)'),
         \A c \in Call : job'[c] = job[c] \/ Remembers(job[c])'
  PROVE  IInv'
<1> USE DEF IInv
<1>1. ASSUME NEW b \in Booking, placed'[b].row # 0
      PROVE  Fits(placed[b].row, placed[b].with, placed[b].by)'
  <2>1. CASE placed'[b] = placed[b]
    <3>1. PICK r \in Row : r = placed[b].row
      BY <1>1, <2>1 DEF TypeOK
    <3>2. PICK w, by : w = placed[b].with /\ by = placed[b].by
      OBVIOUS
    <3>3. Fits(r, w, by)
      BY <1>1, <2>1, <3>1, <3>2
    <3>4. Fits(r, w, by)'
      BY <3>3, RowsGo
    <3>5. QED
      BY <2>1, <3>1, <3>2, <3>4 DEF Fits
  <2>2. QED
    BY <2>1, <1>1
<1>2. ASSUME NEW c \in Call PROVE Remembers(job[c])'
  <2>1. job[c] \in Job
    BY DEF TypeOK, Job
  <2>2. CASE job'[c] = job[c]
    BY <2>1, <2>2, RowsGo DEF Remembers, Found, Fits
  <2>3. QED
    BY <2>2
<1>3. QED
  BY <1>1, <1>2

-----------------------------------------------------------------------------
(* Every step keeps the state well typed. *)
LEMMA TypeStep == TypeOK /\ [Next]_vars => TypeOK'
<1> SUFFICES ASSUME TypeOK, [Next]_vars PROVE TypeOK'
  OBVIOUS
<1> DEFINE Jobs == [Call -> Job]
<1>a. /\ TypeOK <=> /\ verified \in SUBSET Account /\ member \in SUBSET Account
                    /\ owner \in [Row -> Account \cup {"guest", "free", "gone"}]
                    /\ email \in [Row -> Account \cup {"none"}]
                    /\ placed \in [Booking -> [row : Row \cup {0}, by : {"guest", "account"},
                                               with : Account \cup {"none"}]]
                    /\ job \in Jobs
  BY DEF TypeOK, Job
<1>b. /\ TypeOK' <=> /\ verified' \in SUBSET Account /\ member' \in SUBSET Account
                     /\ owner' \in [Row -> Account \cup {"guest", "free", "gone"}]
                     /\ email' \in [Row -> Account \cup {"none"}]
                     /\ placed' \in [Booking -> [row : Row \cup {0}, by : {"guest", "account"},
                                                 with : Account \cup {"none"}]]
                     /\ job' \in Jobs
  BY DEF TypeOK, Job
<1>c. Free \in SUBSET Row /\ \A u \in Account : Own(u) \in SUBSET Row /\ Guests(u) \in SUBSET Row
  BY DEF Free, Own, Guests
<1>d. ASSUME NEW c \in Call, NEW j \in Job, Do(c, j) PROVE job' \in Jobs
  BY <1>d, <1>a DEF Do
<1>e. Idle \in Job
  BY IdleRemembers
<1>1. ASSUME NEW u \in Account, VerifyEmail(u) PROVE TypeOK'
  BY <1>1, <1>a, <1>b DEF VerifyEmail
<1>2. ASSUME NEW c \in Call, NEW u \in Account, FindGuest(c, u) PROVE TypeOK'
  <2>1. CASE Matching(u) = {}
    <3>1. [Idle EXCEPT !.does = "create", !.who = u] \in Job
      BY <1>e DEF Job
    <3>2. QED
      BY <1>2, <2>1, <3>1, <1>a, <1>b, <1>d DEF FindGuest
  <2>2. ASSUME NEW r \in Row, Do(c, [Idle EXCEPT !.does = "book", !.who = u, !.row = r])
        PROVE  job' \in Jobs
    <3>1. [Idle EXCEPT !.does = "book", !.who = u, !.row = r] \in Job
      BY <1>e DEF Job
    <3>2. QED
      BY <2>2, <3>1, <1>d
  <2>3. CASE Matching(u) # {}
    BY <1>2, <2>3, <2>2, <1>a, <1>b DEF FindGuest, Matching
  <2>4. QED
    BY <2>1, <2>3
<1>3. ASSUME NEW c \in Call, CreateGuest(c) PROVE TypeOK'
  <2>1. Oldest(Free) \in Row
    BY <1>3, <1>c, OldestIsOne DEF CreateGuest
  <2>2. job[c] \in Job /\ job[c].who \in Account
    BY <1>a DEF Job
  <2>3. [job[c] EXCEPT !.does = "book", !.row = Oldest(Free)] \in Job
    BY <2>1, <2>2 DEF Job
  <2>4. job' \in Jobs
    BY <1>3, <2>3, <1>d DEF CreateGuest
  <2>5. QED
    BY <1>3, <2>1, <2>2, <2>4, <1>a, <1>b DEF CreateGuest
<1>4. ASSUME NEW c \in Call, NEW by \in {"guest", "account"}, Book(c, by) PROVE TypeOK'
  <2>1. job' \in Jobs
    BY <1>4, <1>d, <1>e DEF Book
  <2>2. job[c] \in Job /\ job[c].who \in Account /\ job[c].row \in Row \cup {0}
    BY <1>a DEF Job
  <2>3. QED
    BY <1>4, <2>1, <2>2, <1>a, <1>b DEF Book
<1>5. ASSUME NEW c \in Call, NEW u \in Account, NEW next \in {"page", "book", "profile"},
             Resolve(c, u, next)
      PROVE  TypeOK'
  <2>1. (IF Own(u) = {} THEN 0 ELSE Oldest(Own(u))) \in Row \cup {0}
    BY <1>c, OldestIsOne
  <2>2. [does |-> "merge", who |-> u, next |-> next, found |-> Guests(u),
         row |-> IF Own(u) = {} THEN 0 ELSE Oldest(Own(u))] \in Job
    BY <2>1, <1>c DEF Job
  <2>3. job' \in Jobs
    BY <1>5, <2>2, <1>d DEF Resolve
  <2>4. QED
    BY <1>5, <2>3, <1>a, <1>b DEF Resolve
<1>6. ASSUME NEW c \in Call, Merge(c) PROVE TypeOK'
  <2>1. /\ job[c] \in Job /\ job[c].who \in Account /\ job[c].found \in SUBSET Row
        /\ job[c].row \in Row \cup {0} /\ job[c].next \in {"page", "book", "profile"}
    BY <1>a DEF Job
  <2>2. Primary(job[c]) \in Row
    BY <1>6, <2>1, <1>c, OldestIsOne DEF Merge, Primary
  <2>3. ASSUME job[c].next # "page"
        PROVE  [Idle EXCEPT !.does = job[c].next, !.who = job[c].who, !.row = Primary(job[c]),
                            !.next = job[c].next] \in Job
    BY <2>1, <2>2, <2>3, <1>e DEF Job
  <2>4. job' \in Jobs
    BY <1>6, <2>3, <1>d, <1>e DEF Merge
  <2>5. QED
    BY <1>6, <2>1, <2>2, <2>4, <1>a, <1>b DEF Merge
<1>7. ASSUME NEW c \in Call, Abort(c) PROVE TypeOK'
  BY <1>7, <1>a, <1>b, <1>d, <1>e DEF Abort
<1>8. ASSUME NEW c \in Call, NEW e \in Account \cup {"none"}, UpdateProfile(c, e) PROVE TypeOK'
  BY <1>8, <1>a, <1>b, <1>d, <1>e DEF UpdateProfile
<1>9. ASSUME NEW c \in Call, NEW u \in Account, ListForErasure(c, u) PROVE TypeOK'
  <2>1. [Idle EXCEPT !.does = "erase", !.who = u, !.found = Own(u)] \in Job
    BY <1>c, <1>e DEF Job
  <2>2. QED
    BY <1>9, <2>1, <1>a, <1>b, <1>d DEF ListForErasure
<1>10. ASSUME NEW c \in Call, Erase(c) PROVE TypeOK'
  BY <1>10, <1>a, <1>b, <1>d, <1>e DEF Erase
<1>11. CASE UNCHANGED vars
  BY <1>11 DEF vars, TypeOK
<1>12. QED
  BY <1>1, <1>2, <1>3, <1>4, <1>5, <1>6, <1>7, <1>8, <1>9, <1>10, <1>11 DEF Next

-----------------------------------------------------------------------------
(* The merge: the row the account ends with was its own, or one that a     *)
(* guest with its verified address had, or new; the others it had found    *)
(* are gone, their bookings follow.                                        *)
LEMMA MergeStep == ASSUME IInv, TypeOK', NEW c \in Call, Merge(c) PROVE IInv'
<1> DEFINE j == job[c]
           p == Primary(j)
           duplicates == j.found \ {p}
<1>a. /\ owner \in [Row -> Account \cup {"guest", "free", "gone"}]
      /\ email \in [Row -> Account \cup {"none"}]
      /\ placed \in [Booking -> [row : Row \cup {0}, by : {"guest", "account"},
                                 with : Account \cup {"none"}]]
      /\ j \in Job /\ j.who \in Account /\ j.found \in SUBSET Row /\ j.row \in Row \cup {0}
      /\ j.next \in {"page", "book", "profile"}
  BY DEF IInv, TypeOK, Job
<1>b. /\ j.row # 0 => owner[j.row] = j.who
      /\ j.found # {} => j.who \in verified
      /\ \A r \in j.found : owner[r] \in {j.who, "guest"} /\ (owner[r] = "guest" => email[r] = j.who)
  <2>1. j.does = "merge" /\ \A r \in j.found : owner[r] # "gone"
    BY DEF Merge, Conflict
  <2>2. Remembers(j)
    BY DEF IInv
  <2>3. QED
    BY <2>1, <2>2, <1>a, AccountsApart DEF Remembers, Found
<1>c. /\ Free \in SUBSET Row
      /\ j.row = 0 /\ j.found = {} => Free # {}
      /\ j.row = 0 => Own(j.who) \subseteq {p}
  BY DEF Merge, Conflict, Free
<1>d. /\ p \in Row
      /\ p = j.row \/ p \in j.found \/ (j.row = 0 /\ j.found = {} /\ owner[p] = "free")
  <2>1. CASE j.row # 0
    BY <2>1, <1>a, AccountsApart DEF Primary
  <2>2. CASE j.row = 0 /\ j.found # {}
    BY <2>2, <1>a, OldestIsOne DEF Primary
  <2>3. CASE j.row = 0 /\ j.found = {}
    <3>1. Oldest(Free) \in Free
      BY <2>3, <1>c, OldestIsOne
    <3>2. QED
      BY <3>1, <2>3 DEF Primary, Free
  <2>4. QED
    BY <2>1, <2>2, <2>3
<1>e. /\ owner' = [r \in Row |-> IF r = p THEN j.who ELSE IF r \in duplicates THEN "gone" ELSE owner[r]]
      /\ placed' = [b \in Booking |->
                      IF placed[b].row \in duplicates THEN [placed[b] EXCEPT !.row = p] ELSE placed[b]]
      /\ UNCHANGED verified
  BY DEF Merge
<1>f. /\ \A r \in Row : owner[r] = j.who => r = p
      /\ \A r, s \in Row : owner[r] \in Account /\ owner[s] = owner[r] => r = s
  <2>1. \A r, s \in Row : owner[r] \in Account /\ owner[s] = owner[r] => r = s
    BY DEF IInv, OneRow
  <2>2. CASE j.row = 0
    BY <2>1, <2>2, <1>c DEF Own
  <2>3. CASE j.row # 0
    BY <2>1, <2>3, <1>a, <1>b DEF Primary
  <2>4. QED
    BY <2>1, <2>2, <2>3
<1>g. \A r \in duplicates : owner[r] = "guest" /\ email[r] = j.who
  BY <1>a, <1>b, <1>f
<1> HIDE DEF j, p, duplicates
<1>1. OneRow'
  BY <1>a, <1>d, <1>e, <1>f, AccountsApart DEF OneRow
<1>2. ASSUME NEW r \in Row PROVE Goes(r)
  <2>1. CASE r = p
    <3>1. owner'[r] = j.who
      BY <2>1, <1>e
    <3>2. CASE owner[p] = "free"
      BY <2>1, <3>2 DEF Goes
    <3>3. CASE p = j.row \/ p \in j.found
      <4>1. p # 0
        BY <1>d, AccountsApart
      <4>2. owner[p] = j.who \/ (owner[p] = "guest" /\ email[p] = j.who /\ j.who \in verified)
        BY <3>3, <4>1, <1>b
      <4>3. QED
        BY <2>1, <3>1, <4>2, <1>a, AccountsApart DEF Goes
    <3>4. QED
      BY <3>2, <3>3, <1>d
  <2>2. CASE r # p /\ r \in duplicates
    BY <2>2, <1>e, <1>g DEF Goes
  <2>3. CASE r # p /\ r \notin duplicates
    <3>1. owner'[r] = owner[r] /\ email'[r] = email[r]
      BY <2>3, <1>a, <1>d, <1>e DEF Merge, j, p
    <3>2. QED
      BY <3>1 DEF Goes
  <2>4. QED
    BY <2>1, <2>2, <2>3
<1>3. ASSUME NEW b \in Booking
      PROVE  placed'[b] = placed[b] \/
               (placed'[b].row # 0 => Fits(placed[b].row, placed[b].with, placed[b].by)')
  <2>1. CASE placed[b].row \in duplicates
    <3>1. /\ placed'[b].row = p /\ placed'[b].by = placed[b].by /\ placed'[b].with = placed[b].with
      BY <2>1, <1>a, <1>e
    <3>2. Fits(placed[b].row, placed[b].with, placed[b].by) /\ placed[b].row \in Row
      BY <2>1, <1>a, AccountsApart DEF IInv, duplicates
    <3>3. placed[b].with = j.who /\ owner'[p] = j.who /\ j.who \in verified
      BY <2>1, <3>2, <1>a, <1>b, <1>d, <1>e, <1>g DEF Fits, duplicates
    <3>4. QED
      BY <3>1, <3>3, <1>a, <1>e, AccountsApart DEF Fits
  <2>2. CASE placed[b].row \notin duplicates
    BY <2>2, <1>e
  <2>3. QED
    BY <2>1, <2>2
<1>4. ASSUME NEW d \in Call PROVE job'[d] = job[d] \/ Remembers(job[d])'
  <2>1. CASE d # c
    BY <2>1 DEF Merge, Do, IInv, TypeOK
  <2>2. CASE d = c
    <3>1. job'[c] = IF j.next = "page" THEN Idle
                    ELSE [Idle EXCEPT !.does = j.next, !.who = j.who, !.row = p, !.next = j.next]
      BY DEF Merge, Do, IInv, TypeOK, j, p
    <3>2. CASE j.next = "page"
      BY <2>2, <3>1, <3>2, IdleRemembers DEF Remembers, Idle
    <3>3. CASE j.next # "page"
      <4>1. /\ job'[c].does = j.next /\ job'[c].next = j.next
            /\ job'[c].who = j.who /\ job'[c].row = p
        BY <3>1, <3>3, <1>a DEF Idle
      <4>2. owner'[p] = j.who
        BY <1>d, <1>e
      <4>3. QED
        BY <2>2, <3>3, <4>1, <4>2, <1>a, <1>d DEF Remembers
    <3>4. QED
      BY <3>2, <3>3
  <2>3. QED
    BY <2>1, <2>2
<1>5. QED
  BY <1>e, <1>1, <1>2, <1>3, <1>4, Kept

(* The other steps of the calls.                                           *)
LEMMA StepIInv == IInv /\ [Next]_vars => IInv'
<1> SUFFICES ASSUME IInv, [Next]_vars PROVE IInv'
  OBVIOUS
<1>a. TypeOK /\ TypeOK' /\ OneRow
  BY TypeStep DEF IInv
<1>b. /\ owner \in [Row -> Account \cup {"guest", "free", "gone"}]
      /\ email \in [Row -> Account \cup {"none"}]
      /\ placed \in [Booking -> [row : Row \cup {0}, by : {"guest", "account"},
                                 with : Account \cup {"none"}]]
      /\ job \in [Call -> Job]
  BY <1>a DEF TypeOK, Job
<1>c. ASSUME NEW c \in Call, NEW x, Do(c, x)
      PROVE  job'[c] = x /\ \A d \in Call \ {c} : job'[d] = job[d]
  BY <1>b, <1>c DEF Do
<1>d. ASSUME NEW c \in Call
      PROVE  /\ job[c] \in Job /\ job[c].who \in Account /\ job[c].row \in Row \cup {0}
             /\ job[c].found \in SUBSET Row
             /\ Remembers(job[c])
  BY <1>b DEF Job, IInv
(* The call alone changes.                                                 *)
<1>1. ASSUME NEW c \in Call, NEW x, Do(c, x), UNCHANGED <<verified, owner, email, placed>>,
             Remembers(job[c])'
      PROVE  IInv'
  <2>1. OneRow' /\ \A r \in Row : Goes(r)
    BY <1>1, <1>a DEF OneRow, Goes
  <2>2. QED
    BY <1>1, <1>a, <1>c, <2>1, Kept
(* The call ends without having changed the rows.                          *)
<1>2. ASSUME NEW c \in Call, Do(c, Idle), UNCHANGED verified, OneRow',
             \A r \in Row : Goes(r),
             \A b \in Booking : placed'[b] = placed[b] \/
               (placed'[b].row # 0 => Fits(placed[b].row, placed[b].with, placed[b].by)')
      PROVE  IInv'
  <2>1. Remembers(job[c])'
    BY <1>2, <1>c DEF Remembers, Idle
  <2>2. QED
    BY <1>2, <1>a, <1>c, <2>1, Kept
<1>3. ASSUME NEW u \in Account, VerifyEmail(u) PROVE IInv'
  <2>1. OneRow' /\ (\A r \in Row : Goes(r)) /\ verified \subseteq verified'
    BY <1>3, <1>a DEF VerifyEmail, OneRow, Goes
  <2>2. QED
    BY <1>3, <1>a, <2>1, Kept DEF VerifyEmail
<1>4. ASSUME NEW c \in Call, NEW u \in Account, FindGuest(c, u) PROVE IInv'
  <2>1. CASE Matching(u) = {}
    <3>1. Do(c, [Idle EXCEPT !.does = "create", !.who = u])
      BY <1>4, <2>1 DEF FindGuest
    <3>2. job'[c] = [Idle EXCEPT !.does = "create", !.who = u]
      BY <3>1, <1>c
    <3>3. Remembers(job[c])'
      BY <3>2 DEF Remembers, Idle
    <3>4. QED
      BY <1>4, <3>1, <3>3, <1>1 DEF FindGuest
  <2>2. CASE Matching(u) # {}
    <3>1. PICK r \in Row : /\ Do(c, [Idle EXCEPT !.does = "book", !.who = u, !.row = r])
                           /\ owner[r] = "guest" /\ email[r] = u
      BY <1>4, <2>2 DEF FindGuest, Matching
    <3>2. job'[c] = [Idle EXCEPT !.does = "book", !.who = u, !.row = r]
      BY <3>1, <1>c
    <3>3. /\ job'[c].does = "book" /\ job'[c].who = u /\ job'[c].row = r /\ job'[c].next = "page"
      BY <3>2 DEF Idle
    <3>4. Remembers(job[c])'
      BY <3>1, <3>3, <1>4, AccountsApart DEF Remembers, Fits, FindGuest
    <3>5. QED
      BY <1>4, <3>1, <3>4, <1>1 DEF FindGuest
  <2>3. QED
    BY <2>1, <2>2
<1>5. ASSUME NEW c \in Call, CreateGuest(c) PROVE IInv'
  <2> DEFINE r == Oldest(Free)
  <2>1. r \in Row /\ owner[r] = "free"
    BY <1>5, OldestIsOne DEF CreateGuest, Free
  <2>2. /\ owner' = [owner EXCEPT ![r] = "guest"]
        /\ email' = [email EXCEPT ![r] = job[c].who]
        /\ Do(c, [job[c] EXCEPT !.does = "book", !.row = r])
        /\ UNCHANGED <<verified, placed>>
    BY <1>5 DEF CreateGuest
  <2> HIDE DEF r
  <2>3. OneRow' /\ \A s \in Row : Goes(s)
    BY <1>a, <1>b, <2>1, <2>2, AccountsApart DEF OneRow, Goes
  <2>4. /\ job'[c].does = "book" /\ job'[c].who = job[c].who /\ job'[c].row = r
        /\ job'[c].next = job[c].next
    <3>1. job'[c] = [job[c] EXCEPT !.does = "book", !.row = r]
      BY <2>2, <1>c
    <3>2. QED
      BY <3>1, <1>d DEF Job
  <2>5. job[c].next = "page"
    BY <1>5, <1>d DEF CreateGuest, Remembers
  <2>6. Remembers(job[c])'
    BY <1>b, <1>d, <2>1, <2>2, <2>4, <2>5, AccountsApart DEF Remembers, Fits
  <2>7. QED
    BY <1>a, <1>c, <2>2, <2>3, <2>6, Kept
<1>6. ASSUME NEW c \in Call, NEW by \in {"guest", "account"}, Book(c, by) PROVE IInv'
  <2>1. OneRow' /\ \A r \in Row : Goes(r)
    BY <1>6, <1>a DEF Book, OneRow, Goes
  <2>2. Fits(job[c].row, job[c].who, by)
    BY <1>6, <1>d, AccountsApart DEF Book, Remembers, Fits
  <2>3. ASSUME NEW b \in Booking
        PROVE  placed'[b] = placed[b] \/
                 (placed'[b].row # 0 => Fits(placed[b].row, placed[b].with, placed[b].by)')
    <3>1. placed'[b] = placed[b] \/ placed'[b] = [row |-> job[c].row, by |-> by, with |-> job[c].who]
      BY <1>6, <1>b DEF Book
    <3>2. QED
      BY <3>1, <2>2, <1>6 DEF Book, Fits
  <2>4. QED
    BY <1>6, <2>1, <2>3, <1>2 DEF Book
<1>7. ASSUME NEW c \in Call, NEW u \in Account, NEW next \in {"page", "book", "profile"},
             Resolve(c, u, next)
      PROVE  IInv'
  <2>1. /\ job'[c].does = "merge" /\ job'[c].who = u /\ job'[c].found = Guests(u)
        /\ job'[c].row = IF Own(u) = {} THEN 0 ELSE Oldest(Own(u))
    BY <1>7, <1>c DEF Resolve
  <2>2. Own(u) # {} => owner[Oldest(Own(u))] = u
    BY OldestIsOne DEF Own
  <2>3. /\ Guests(u) # {} => u \in verified
        /\ \A r \in Guests(u) : Found(r, u)
    BY DEF Guests, Found
  <2>4. Remembers(job[c])'
    BY <1>7, <2>1, <2>2, <2>3 DEF Remembers, Found, Resolve
  <2>5. QED
    BY <1>7, <2>4, <1>1 DEF Resolve
<1>8. ASSUME NEW c \in Call, Abort(c) PROVE IInv'
  <2>1. OneRow' /\ \A r \in Row : Goes(r)
    BY <1>8, <1>a DEF Abort, OneRow, Goes
  <2>2. QED
    BY <1>8, <2>1, <1>2 DEF Abort
<1>9. ASSUME NEW c \in Call, NEW e \in Account \cup {"none"}, UpdateProfile(c, e) PROVE IInv'
  <2>1. job[c].row \in Row /\ owner[job[c].row] \in Account
    BY <1>9, <1>d DEF UpdateProfile, Remembers
  <2>2. OneRow' /\ \A r \in Row : Goes(r)
    BY <1>9, <1>a, <1>b, <2>1, AccountsApart DEF UpdateProfile, OneRow, Goes
  <2>3. QED
    BY <1>9, <2>2, <1>2 DEF UpdateProfile
<1>10. ASSUME NEW c \in Call, NEW u \in Account, ListForErasure(c, u) PROVE IInv'
  <2>1. job'[c].does = "erase" /\ job'[c].who = u /\ job'[c].found = Own(u)
    <3>1. job'[c] = [Idle EXCEPT !.does = "erase", !.who = u, !.found = Own(u)]
      BY <1>10, <1>c DEF ListForErasure
    <3>2. QED
      BY <3>1 DEF Idle
  <2>2. Remembers(job[c])'
    BY <1>10, <2>1 DEF Remembers, Own, ListForErasure
  <2>3. QED
    BY <1>10, <2>2, <1>1 DEF ListForErasure
<1>11. ASSUME NEW c \in Call, Erase(c) PROVE IInv'
  <2>1. \A r \in job[c].found : owner[r] \in Account
    BY <1>11, <1>d DEF Erase, Remembers
  <2>2. OneRow' /\ \A r \in Row : Goes(r)
    BY <1>11, <1>a, <1>b, <2>1, AccountsApart DEF Erase, OneRow, Goes
  <2>3. QED
    BY <1>11, <2>2, <1>2 DEF Erase
<1>12. ASSUME NEW c \in Call, Merge(c) PROVE IInv'
  BY <1>12, <1>a, MergeStep
<1>13. CASE UNCHANGED vars
  BY <1>13 DEF vars, IInv, TypeOK, OneRow, Remembers, Fits, Found
<1>14. QED
  BY <1>3, <1>4, <1>5, <1>6, <1>7, <1>8, <1>9, <1>10, <1>11, <1>12, <1>13 DEF Next

LEMMA IInvFollows == IInv => BookingsFollowIdentity
<1> SUFFICES ASSUME IInv, NEW b \in Booking, NEW u \in Account, placed[b].row \in Own(u)
             PROVE  placed[b].with = u /\ (placed[b].by = "account" \/ u \in verified)
  BY DEF BookingsFollowIdentity
<1>1. placed[b].row # 0 /\ owner[placed[b].row] = u
  BY AccountsApart DEF Own
<1>2. QED
  BY <1>1 DEF IInv, Fits

-----------------------------------------------------------------------------
(* The bookings an account shows are its own, or those of guests with the  *)
(* address it has verified, whatever runs at the same time.                *)
THEOREM BookingsAreOwn == Spec => []BookingsFollowIdentity
BY InitIInv, StepIInv, IInvFollows, PTL DEF Spec
=============================================================================
