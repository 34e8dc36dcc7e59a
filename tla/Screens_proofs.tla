--------------------------- MODULE Screens_proofs ----------------------------
(***************************************************************************)
(* Proofs about the screens of the office: the booking wizard, the booking *)
(* sheets and their details, the wizard of the sign-up, the editors, the   *)
(* pages a visitor is redirected to, those a member opens, and the public  *)
(* page.  Each has its invariant, which its first state has and its steps  *)
(* keep; the office itself is in MCOffice_proofs.                          *)
(***************************************************************************)
EXTENDS MCOffice, FiniteSetTheorems, TLAPS

-----------------------------------------------------------------------------
(* The calls of a queue; one of them is of a kind at most; the last of a   *)
(* kind is such; none of a kind comes before one of another.               *)
Queued(q) == {q[i] : i \in 1 .. Len(q)}
Once(q, K) == \A i, j \in 1 .. Len(q) : q[i] \in K /\ q[j] \in K => i = j
LastIn(q, K, S) == \A i \in 1 .. Len(q) : q[i] \in K /\ (\A j \in 1 .. Len(q) : j > i => q[j] \notin K) => q[i] \in S
NoneBefore(q, K, L) == \A i, j \in 1 .. Len(q) : q[i] \in K /\ q[j] \in L => i >= j

WizardCall == Wizard!CallOf({"availability", "book", "alternatives", "checkout"})
Listing == {c \in WizardCall : c.kind = "availability"}
Booking == {c \in WizardCall : c.kind \in {"book", "checkout"}}

(* Of a booking under way, an opening has one call, for which no booking   *)
(* has been made; an opening that has one is confirmed, on its way to the  *)
(* checkout, or has failed to get there.                                   *)
WizardBooks ==
  /\ Once(queue, Booking)
  /\ uploading # {} => Queued(queue) \cap Booking = {}
  /\ \A m, n \in uploading : m = n
  /\ \A c \in Queued(queue) \cup uploading : c.opening <= opening
  /\ open => opening # 0
  /\ \A o \in Wizard!Opening : o > opening => made[o] = 0
  /\ \A c \in Queued(queue) : c.kind = "book" /\ c.opening \notin unpaid => made[c.opening] = 0
  /\ opening \in Wizard!Opening \ unpaid /\ made[opening] > 0 /\ ~left =>
       confirmed \/ \E c \in Queued(queue) \cup uploading : c.kind \in {"checkout", "confirmed"} /\ c.opening = opening

(* As long as no date was changed with a confirmation unsettled, what was  *)
(* asked for a booking is of the date shown; the list, once no other is    *)
(* awaited, is always.                                                     *)
WizardShows ==
  /\ ~mixed =>
       /\ slot # "none" => slot = date
       /\ alternativeSlots # "none" => alternativeSlots = date
       /\ \A c \in Queued(queue) : c.kind \in {"book", "alternatives"} => c.date = date
  /\ date # "none" =>
       /\ LastIn(queue, Listing, {c \in WizardCall : c.date = date})
       /\ ~mixed /\ Queued(queue) \cap Listing = {} => shown = date

WizardInv == Wizard!TypeOK /\ Wizard!OneBookingPerOpening /\ WizardBooks /\ WizardShows

Question == [service : Sheet!Service, staff : Sheet!Offers["cut"] \cup {"none"}, day : Date]
SheetListing == [name : {"availability"}, about : Question]
SheetBooking == [name : {"book", "checkout"}, by : Sheet!Opened]

SheetBooks ==
  /\ Once(calls, SheetBooking)
  /\ \A c \in Queued(calls) \cap SheetBooking :
       /\ c.by <= sheetOpening
       /\ c.name = "book" /\ c.by \notin sheetUnpaid => sheetMade[c.by] = 0
  /\ sheetOpen => sheetOpening # 0
  /\ \A o \in Sheet!Opened : o > sheetOpening => sheetMade[o] = 0
  /\ sheetOpen /\ ~sheetLeft /\ sheetOpening \notin sheetUnpaid /\ sheetMade[sheetOpening] > 0 =>
       [name |-> "checkout", by |-> sheetOpening] \in Queued(calls)

(* The question is of the choice as it stands; a professional chosen since *)
(* does the service.                                                       *)
OfChoice(q) ==
  /\ q.service = serviceId /\ q.day = day
  /\ q.staff \in {staffId, "none"}
  /\ q.staff = "none" /\ staffId # "none" => staffId \in Sheet!Offers[serviceId]

SheetLists ==
  /\ day # "none" => serviceId # "none"
  /\ ~restated /\ day # "none" =>
       /\ LastIn(calls, SheetListing, {c \in SheetListing : OfChoice(c.about)})
       /\ Queued(calls) \cap SheetListing = {} => OfChoice(offered)

SheetInv ==
  Sheet!TypeOK /\ Sheet!OneBookingPerSheet /\ Sheet!SlotIsOfChoice /\ SheetBooks /\ SheetLists

DetailCall == [kind : {"coupon", "booking"}, with : [coupon : Code \cup {"blank"}, photos : 0 .. 3]]
Validation == {c \in DetailCall : c.kind = "coupon"}

(* A validation is of the code in its field, and none comes before a       *)
(* booking, unless the customer has changed it since.                      *)
DetailAwaits ==
  /\ ~typedOver => \A c \in Queued(waiting) : c.kind = "coupon" => c.with.coupon = couponCode
  /\ ~touched => /\ NoneBefore(waiting, Validation, DetailCall \ Validation)
                 /\ \A c \in Queued(waiting) : c.kind = "booking" => c.with = Detail!Summary

DetailInv == Detail!TypeOK /\ Detail!AppliedIsTyped /\ DetailAwaits

(* Unless it was hurried, the wizard has one submission under way, and     *)
(* none when it has made a shop.                                           *)
OneAtATime ==
  ~hurried =>
  /\ Len(visitor) + Len(asked) <= 1
  /\ \A o \in shops : o.whole => createdSlug # "none" /\ visitor = <<>> /\ asked = <<>>
  /\ \A o, p \in shops : o.whole /\ p.whole => o = p

SigningInv ==
  /\ Found!TypeOK
  /\ formStep = 2 => slug # "none"
  /\ OneAtATime

Column == {"text", "links", "mode", "plain", "special", "active"}

Columns(S, r) == [k \in S |-> r[k]]

(* An input is a part of a row, and so is what the form or switch tells,   *)
(* which is the same but for a text that is emptied in vain.               *)
Input == {Columns(S, r) : S \in SUBSET Column, r \in Edit!Row}
Vain == entity \in {"staff", "impressum"}
Told(i, t, vain) ==
  /\ DOMAIN i \subseteq DOMAIN t
  /\ \A k \in DOMAIN t :
       \/ k \in DOMAIN i /\ i[k] = t[k]
       \/ k = "text" /\ k \notin DOMAIN i /\ t[k] = "none" /\ vain
Update == {u \in [from : {"form", "gone", "switch"}, input : Input, tells : Input] : Told(u.input, u.tells, Vain)}

EditInv ==
  /\ Edit!TypeOK
  /\ Edit!SavedAsSaid
  /\ form \in [Call -> Edit!Fields \cup {Edit!NoForm}]
  /\ entity = "member" => form = [b \in Call |-> Edit!NoForm]
  /\ sent \in [Call -> Seq(Update)]

(* What a page of the shop was rendered for stays with it.                 *)
FrontShows ==
  /\ display = "listed" => basis # "churned"
  /\ display \in {"services", "quote"} => basis \in {"trial", "subscribed"} /\ place = "shop"
  /\ display = "area" => place = "account" /\ guest # "none"
  /\ german /\ ~impressum => display \notin {"services", "quote"} /\ "shop" \notin served

FrontInv == Front!TypeOK /\ FrontShows

(* No page redirects to one of a higher rank, as things stand. *)
Rank(l) ==
  CASE l.path = "/dashboard/agenda" -> 2
    [] l.path = "/dashboard" -> 3
    [] l.path = "/dashboard/settings" -> IF role \in {"owner", "manager"} THEN 1 ELSE 4
    [] l.path \in {"/dashboard/services", "/dashboard/billing", "/dashboard/messages"} -> 4
    [] l.path = "/sign-in" -> 5
    [] l.path = "/onboarding" -> IF Visit!Known THEN 6 ELSE 7
    [] l.path = "/sign-up" -> IF Visit!Known THEN 7 ELSE 6
    [] l.path = "/account" -> IF Visit!Known THEN 1 ELSE 2
    [] l.path = "/account/sign-in" -> IF Visit!Known THEN 2 ELSE 1
    [] l.path = "/superadmin" -> 1
    [] OTHER -> 0

Torn == Visit!NeedsFactor /\ due = "over" /\ role \notin {"owner", "manager"}

VisitInv ==
  /\ Visit!TypeOK
  /\ Torn \/ \A l \in trail : Rank(at) < Rank(l)
  /\ signedIn => Visit!Known \/ at.path \in {"/onboarding?session_id", "/accept-invitation"}

(* A page is rendered for those it opens to; a professional reads the      *)
(* bookings of the link it has, and without one is shown all at first.     *)
Rendered(path, r) ==
  /\ path \in Gate!Catalog => r # "none"
  /\ path = "/dashboard" => r \in {"owner", "manager", "none"}
  /\ path = "/dashboard/agenda" => r # "none"
  /\ path = "/dashboard/settings" => r \in {"owner", "manager"}
  /\ path = "/dashboard/billing" => r = "owner"
  /\ path = "/dashboard/messages" => r \in {"owner", "manager", "receptionist"}

GateShows ==
  /\ Rendered(visited, rendered.role)
  /\ \A b \in rendered.bookings :
       rendered.reader[1] = "professional" =>
         (rendered.reader[2] /\ b = "own") \/ (rendered.first /\ ~rendered.reader[2])

GateInv == Gate!TypeOK /\ GateShows

-----------------------------------------------------------------------------
(* A call is appended to a queue, ... *)
LEMMA QueueAppend ==
  ASSUME NEW C, NEW q \in Seq(C), NEW c \in C
  PROVE  /\ Append(q, c) \in Seq(C)
         /\ Queued(Append(q, c)) = Queued(q) \cup {c}
         /\ \A K : Once(q, K) /\ (c \in K => Queued(q) \cap K = {}) => Once(Append(q, c), K)
         /\ \A K, S : LastIn(q, K, S) /\ c \notin K => LastIn(Append(q, c), K, S)
         /\ \A K, S : c \in K /\ c \in S => LastIn(Append(q, c), K, S)
         /\ \A K, L : NoneBefore(q, K, L) /\ (c \in L => Queued(q) \cap K = {}) => NoneBefore(Append(q, c), K, L)
<1> DEFINE n == Len(q)
           p == Append(q, c)
<1>1. /\ p \in Seq(C) /\ n \in Nat /\ Len(p) = n + 1 /\ p[n + 1] = c
      /\ \A i \in 1 .. n : p[i] = q[i] /\ i \in 1 .. n + 1
      /\ \A i \in 1 .. n + 1 : i \in 1 .. n \/ i = n + 1
  OBVIOUS
<1>2. \A i \in 1 .. n : q[i] \in Queued(q)
  BY DEF Queued
<1> HIDE DEF n, p
<1>3. Queued(p) = Queued(q) \cup {c}
  BY <1>1 DEF Queued, n
<1>4. ASSUME NEW K, Once(q, K), c \in K => Queued(q) \cap K = {} PROVE Once(p, K)
  BY <1>1, <1>2, <1>4 DEF Once, n
<1>5. ASSUME NEW K, NEW S, LastIn(q, K, S), c \notin K PROVE LastIn(p, K, S)
  BY <1>1, <1>5 DEF LastIn, n
<1>6. ASSUME NEW K, NEW S, c \in K, c \in S PROVE LastIn(p, K, S)
  BY <1>1, <1>6 DEF LastIn
<1>7. ASSUME NEW K, NEW L, NoneBefore(q, K, L), c \in L => Queued(q) \cap K = {} PROVE NoneBefore(p, K, L)
  BY <1>1, <1>2, <1>7 DEF NoneBefore, n
<1>8. QED
  BY <1>1, <1>3, <1>4, <1>5, <1>6, <1>7 DEF p

(* ... and taken from its head, which is the last of its kind if there is  *)
(* none in the rest.                                                       *)
LEMMA QueueTail ==
  ASSUME NEW C, NEW q \in Seq(C), q # <<>>
  PROVE  /\ Tail(q) \in Seq(C) /\ Head(q) \in C
         /\ Queued(q) = {Head(q)} \cup Queued(Tail(q))
         /\ Queued(q) \subseteq C
         /\ \A K : Once(q, K) => Once(Tail(q), K) /\ (Head(q) \in K => Queued(Tail(q)) \cap K = {})
         /\ \A K, S : LastIn(q, K, S) =>
              /\ LastIn(Tail(q), K, S)
              /\ Head(q) \in K /\ Queued(Tail(q)) \cap K = {} => Head(q) \in S
         /\ \A K, L : NoneBefore(q, K, L) => NoneBefore(Tail(q), K, L) /\ (Head(q) \in K => Queued(Tail(q)) \cap L = {})
<1> DEFINE n == Len(q)
           p == Tail(q)
<1>1. /\ p \in Seq(C) /\ n \in Nat \ {0} /\ Len(p) = n - 1 /\ Head(q) = q[1] /\ q[1] \in C
      /\ \A i \in 1 .. n - 1 : p[i] = q[i + 1] /\ i + 1 \in 1 .. n
      /\ \A i \in 1 .. n : q[i] \in C
  OBVIOUS
<1>2. 1 \in 1 .. n /\ \A j \in 1 .. n : j = 1 \/ (j - 1 \in 1 .. n - 1 /\ p[j - 1] = q[j])
  BY <1>1
<1>3. \A i \in 1 .. n - 1 : p[i] \in Queued(p)
  BY <1>1 DEF Queued
<1> HIDE DEF n, p
<1>4. Queued(q) = {Head(q)} \cup Queued(p) /\ Queued(q) \subseteq C
  BY <1>1, <1>2 DEF Queued, n
<1>5. ASSUME NEW K, Once(q, K) PROVE Once(p, K) /\ (Head(q) \in K => Queued(p) \cap K = {})
  <2>1. ASSUME NEW i \in 1 .. n - 1, NEW j \in 1 .. n - 1, p[i] \in K, p[j] \in K PROVE i = j
    <3>1. i + 1 = j + 1
      BY <1>1, <1>5, <2>1 DEF Once, n
    <3>2. QED
      BY <1>1, <2>1, <3>1
  <2>2. ASSUME Head(q) \in K, NEW i \in 1 .. n - 1, p[i] \in K PROVE FALSE
    BY <1>1, <1>2, <1>5, <2>2 DEF Once, n
  <2>3. QED
    BY <1>1, <2>1, <2>2 DEF Queued, Once
<1>6. ASSUME NEW K, NEW S, LastIn(q, K, S) PROVE LastIn(p, K, S)
  <2> SUFFICES ASSUME NEW i \in 1 .. n - 1, p[i] \in K, \A j \in 1 .. n - 1 : j > i => p[j] \notin K PROVE p[i] \in S
    BY <1>1 DEF LastIn
  <2>1. i + 1 \in 1 .. n /\ q[i + 1] = p[i]
    BY <1>1
  <2>2. ASSUME NEW j \in 1 .. n, j > i + 1 PROVE q[j] \notin K
    <3>1. j - 1 \in 1 .. n - 1 /\ j - 1 > i /\ p[j - 1] = q[j]
      BY <1>1, <1>2, <2>2
    <3>2. QED
      BY <3>1
  <2>3. QED
    BY <1>6, <2>1, <2>2 DEF LastIn, n
<1>7. ASSUME NEW K, NEW S, LastIn(q, K, S), Head(q) \in K, Queued(p) \cap K = {} PROVE Head(q) \in S
  <2>1. ASSUME NEW j \in 1 .. n, j > 1 PROVE q[j] \notin K
    <3>1. j - 1 \in 1 .. n - 1 /\ p[j - 1] = q[j]
      BY <1>1, <1>2, <2>1
    <3>2. QED
      BY <1>3, <1>7, <3>1
  <2>2. QED
    BY <1>1, <1>2, <1>7, <2>1 DEF LastIn, n
<1>8. ASSUME NEW K, NEW L, NoneBefore(q, K, L)
      PROVE  NoneBefore(p, K, L) /\ (Head(q) \in K => Queued(p) \cap L = {})
  <2>1. ASSUME NEW i \in 1 .. n - 1, NEW j \in 1 .. n - 1, p[i] \in K, p[j] \in L PROVE i >= j
    <3>1. i + 1 >= j + 1
      BY <1>1, <1>8, <2>1 DEF NoneBefore, n
    <3>2. QED
      BY <1>1, <2>1, <3>1
  <2>2. ASSUME Head(q) \in K, NEW i \in 1 .. n - 1, p[i] \in L PROVE FALSE
    <3>1. 1 >= i + 1
      BY <1>1, <1>2, <1>8, <2>2 DEF NoneBefore, n
    <3>2. QED
      BY <1>1, <2>2, <3>1
  <2>3. QED
    BY <1>1, <2>1, <2>2 DEF Queued, NoneBefore
<1>9. QED
  BY <1>1, <1>4, <1>5, <1>6, <1>7, <1>8 DEF p

(* A queue with nothing of a kind, or with nothing. *)
LEMMA QueueEmpty ==
  /\ Queued(<<>>) = {}
  /\ \A K : Once(<<>>, K)
  /\ \A K, S : LastIn(<<>>, K, S)
  /\ \A K, L : NoneBefore(<<>>, K, L)
BY DEF Queued, Once, LastIn, NoneBefore

LEMMA QueueWithout ==
  ASSUME NEW q, NEW K, Queued(q) \cap K = {}
  PROVE  /\ \A S : LastIn(q, K, S)
         /\ \A L : NoneBefore(q, K, L)
BY DEF Queued, LastIn, NoneBefore

(* What is pending is queued. *)
LEMMA QueueIndices ==
  ASSUME NEW C, NEW q \in Seq(C)
  PROVE  DOMAIN q = 1 .. Len(q) /\ Len(q) \in Nat
OBVIOUS

-----------------------------------------------------------------------------
LEMMA WizardPending ==
  ASSUME queue \in Seq(WizardCall), NEW kinds
  PROVE  Wizard!Pending(kinds) <=> \E c \in Queued(queue) : c.kind \in kinds
BY QueueIndices DEF Wizard!Pending, Queued

(* Whether the buttons are disabled is known of the queue.                 *)
LEMMA WizardStep == WizardInv /\ Wizard!Next => WizardInv'
<1> SUFFICES ASSUME WizardInv, Wizard!Next PROVE WizardInv'
  OBVIOUS
<1> DEFINE Upload == Wizard!CallOf({"checkout", "confirmed"})
<1>t. /\ step \in {"datetime", "details"} /\ date \in Date \cup {"none"} /\ slot \in Date \cup {"none"}
      /\ alternativeSlots \in Date \cup {"none"} /\ shown \in Date \cup {"none"}
      /\ queue \in Seq(WizardCall) /\ uploading \in SUBSET Upload
      /\ opening \in Wizard!Opening \cup {0} /\ made \in [Wizard!Opening -> Nat] /\ unpaid \in SUBSET Wizard!Opening
  BY DEF WizardInv, Wizard!TypeOK, Wizard!None, WizardCall
<1>b. open \in BOOLEAN /\ slotConflictError \in BOOLEAN /\ confirmed \in BOOLEAN /\ left \in BOOLEAN /\ mixed \in BOOLEAN
  BY DEF WizardInv, Wizard!TypeOK
<1>o. \A o \in Wizard!Opening : o \in Nat \ {0} /\ (made[o] > 1 => o \in unpaid)
  BY ScreenAssumption DEF WizardInv, Wizard!OneBookingPerOpening, Wizard!Opening
<1>k. WizardBooks
  BY DEF WizardInv
<1>s. WizardShows
  BY DEF WizardInv
<1>c. \A c \in Queued(queue) : c \in WizardCall
  BY <1>t, QueueIndices DEF Queued
<1>p. \A kinds : Wizard!Pending(kinds) <=> \E c \in Queued(queue) : c.kind \in kinds
  BY <1>t, WizardPending
<1>T. ASSUME step' \in {"datetime", "details"}, date' \in Date \cup {"none"}, slot' \in Date \cup {"none"},
             alternativeSlots' \in Date \cup {"none"}, shown' \in Date \cup {"none"},
             queue' \in Seq(WizardCall), uploading' \in SUBSET Upload,
             opening' \in Wizard!Opening \cup {0}, made' \in [Wizard!Opening -> Nat], unpaid' \in SUBSET Wizard!Opening,
             open' \in BOOLEAN, slotConflictError' \in BOOLEAN, confirmed' \in BOOLEAN, left' \in BOOLEAN, mixed' \in BOOLEAN
      PROVE  Wizard!TypeOK'
  BY <1>T DEF Wizard!TypeOK, Wizard!None, WizardCall
<1>1. CASE \/ Wizard!Close \/ Wizard!Continue \/ Wizard!Back \/ Wizard!SelectSlot
           \/ Wizard!PickAlternative \/ Wizard!ChooseDifferentDate
  <2>1. UNCHANGED <<date, confirmed, shown, queue, uploading, left, opening, made, unpaid, mixed>>
    BY <1>1 DEF Wizard!Close, Wizard!Continue, Wizard!Back, Wizard!SelectSlot, Wizard!PickAlternative,
         Wizard!ChooseDifferentDate, Wizard!history
  <2>2. /\ open' \in {FALSE, open} /\ slotConflictError' \in {FALSE, slotConflictError}
    BY <1>1 DEF Wizard!Close, Wizard!Continue, Wizard!Back, Wizard!SelectSlot, Wizard!PickAlternative,
         Wizard!ChooseDifferentDate
  <2>3. /\ step' \in {"datetime", "details"} /\ alternativeSlots' \in {"none", alternativeSlots}
        /\ \/ slot' = slot
           \/ slot' = alternativeSlots
           \/ slot' = shown /\ date # "none" /\ ~Wizard!Pending({"availability", "alternatives"})
    BY <1>1, <1>t DEF Wizard!Close, Wizard!Continue, Wizard!Back, Wizard!SelectSlot, Wizard!PickAlternative,
         Wizard!ChooseDifferentDate, Wizard!None
  <2>b. open' \in BOOLEAN /\ slotConflictError' \in BOOLEAN
    BY <1>b, <2>2
  <2>4. Wizard!TypeOK'
    BY <1>t, <1>b, <1>T, <2>1, <2>b, <2>3
  <2>o. open' => open
    BY <2>2
  <2>5. WizardBooks'
    BY <1>k, <2>1, <2>o DEF WizardBooks
  <2>6. date # "none" /\ ~mixed /\ ~Wizard!Pending({"availability", "alternatives"}) => shown = date
    BY <1>s, <1>p DEF WizardShows, Listing
  <2>7. WizardShows'
    BY <1>s, <2>1, <2>3, <2>6 DEF WizardShows
  <2>8. QED
    BY <1>o, <2>1, <2>4, <2>5, <2>7 DEF WizardInv, Wizard!OneBookingPerOpening
<1>2. CASE Wizard!Open
  <2>1. /\ open' = TRUE /\ opening' = opening + 1 /\ opening + 1 \in Wizard!Opening /\ step' = "datetime"
        /\ confirmed' = FALSE /\ date' = "none" /\ slot' = "none" /\ mixed' = (mixed \/ Wizard!Unsettled)
        /\ UNCHANGED <<slotConflictError, alternativeSlots, shown, queue, uploading, left, made, unpaid>>
    BY <1>2 DEF Wizard!Open, Wizard!None
  <2>2. mixed' \in BOOLEAN
    BY <2>1
  <2>3. Wizard!TypeOK'
    BY <1>t, <1>b, <1>T, <2>1, <2>2
  <2>4. ASSUME NEW c \in Queued(queue) \cup uploading PROVE c.opening \in Nat /\ c.opening <= opening
    BY <1>t, <1>c, <1>k, <1>o, <2>4 DEF WizardCall, Wizard!CallOf, WizardBooks
  <2>5. opening \in Nat /\ made[opening + 1] = 0
    BY <1>t, <1>k, <1>o, <2>1 DEF WizardBooks
  <2>6. WizardBooks'
    BY <1>k, <1>o, <2>1, <2>4, <2>5 DEF WizardBooks
  <2>7. ~mixed' => alternativeSlots = "none" /\ \A c \in Queued(queue) : c.kind \notin {"book", "alternatives"}
    BY <1>p, <2>1 DEF Wizard!Unsettled, Wizard!None
  <2>8. WizardShows'
    BY <2>1, <2>7 DEF WizardShows
  <2>9. QED
    BY <1>o, <2>1, <2>3, <2>6, <2>8 DEF WizardInv, Wizard!OneBookingPerOpening
<1>3. ASSUME NEW d \in Date, Wizard!SelectDate(d) PROVE WizardInv'
  <2> DEFINE c == [kind |-> "availability", date |-> d, opening |-> opening]
  <2>1. /\ open /\ date' = d /\ slot' = "none" /\ queue' = Append(queue, c) /\ mixed' = (mixed \/ Wizard!Unsettled)
        /\ UNCHANGED <<open, step, slotConflictError, alternativeSlots, confirmed, shown, uploading, left, opening, made, unpaid>>
    BY <1>3 DEF Wizard!SelectDate, Wizard!AtDateTime, Wizard!KeptSlot, Wizard!None, Wizard!Called, Wizard!history
  <2>2. opening \in Wizard!Opening
    BY <1>k, <1>t, <2>1 DEF WizardBooks
  <2>3. c \in WizardCall /\ c \in Listing /\ c \notin Booking
    BY <2>2 DEF WizardCall, Wizard!CallOf, Listing, Booking
  <2>4. /\ queue' \in Seq(WizardCall) /\ Queued(queue') = Queued(queue) \cup {c} /\ Once(queue', Booking)
        /\ \A S : c \in S => LastIn(queue', Listing, S)
    BY <1>k, <1>t, <2>1, <2>3, QueueAppend DEF WizardBooks
  <2>5. mixed' \in BOOLEAN
    BY <2>1
  <2>6. Wizard!TypeOK'
    BY <1>t, <1>b, <1>T, <2>1, <2>4, <2>5
  <2>7. c.kind = "availability" /\ c.date = d /\ c.opening = opening
    OBVIOUS
  <2> HIDE DEF c
  <2>8. WizardBooks'
    BY <1>k, <1>t, <1>o, <2>1, <2>2, <2>3, <2>4, <2>7 DEF WizardBooks
  <2>9. ~mixed' => alternativeSlots = "none" /\ \A m \in Queued(queue) : m.kind \notin {"book", "alternatives"}
    BY <1>p, <2>1 DEF Wizard!Unsettled, Wizard!None
  <2>10. LastIn(queue', Listing, {m \in WizardCall : m.date = d}) /\ Queued(queue') \cap Listing # {}
    BY <2>3, <2>4, <2>7
  <2>11. WizardShows'
    BY <2>1, <2>4, <2>7, <2>9, <2>10 DEF WizardShows
  <2>12. QED
    BY <1>o, <2>1, <2>6, <2>8, <2>11 DEF WizardInv, Wizard!OneBookingPerOpening
<1>4. CASE Wizard!Confirm
  <2> DEFINE c == [kind |-> "book", date |-> date, opening |-> opening]
  <2>1. /\ open /\ ~left /\ ~confirmed /\ queue' = Append(queue, c)
        /\ ~Wizard!Pending({"book", "checkout"}) /\ uploading = {}
        /\ UNCHANGED <<open, step, date, slot, slotConflictError, alternativeSlots, confirmed, shown, uploading, left,
                       opening, made, unpaid, mixed>>
    BY <1>4 DEF Wizard!Confirm, Wizard!AtDetails, Wizard!Busy, Wizard!Called, Wizard!sheet, Wizard!history
  <2>2. opening \in Wizard!Opening
    BY <1>k, <1>t, <2>1 DEF WizardBooks
  <2>3. c \in WizardCall /\ c \notin Listing
    BY <1>t, <2>2 DEF WizardCall, Wizard!CallOf, Listing, Wizard!None
  <2>4. Queued(queue) \cap Booking = {} /\ \A m \in Queued(queue) : m.kind \notin {"book", "checkout", "confirmed"}
    BY <1>c, <1>p, <2>1 DEF Booking, WizardCall, Wizard!CallOf
  <2>5. /\ queue' \in Seq(WizardCall) /\ Queued(queue') = Queued(queue) \cup {c} /\ Once(queue', Booking)
        /\ \A S : LastIn(queue, Listing, S) => LastIn(queue', Listing, S)
    BY <1>k, <1>t, <2>1, <2>3, <2>4, QueueAppend DEF WizardBooks
  <2>6. Wizard!TypeOK'
    BY <1>t, <1>b, <1>T, <2>1, <2>5
  <2>7. c.kind = "book" /\ c.date = date /\ c.opening = opening
    OBVIOUS
  <2> HIDE DEF c
  <2>8. opening \in unpaid \/ made[opening] = 0
    BY <1>k, <1>t, <2>1, <2>2, <2>4 DEF WizardBooks
  <2>9. WizardBooks'
    BY <1>k, <1>t, <1>o, <2>1, <2>2, <2>4, <2>5, <2>7, <2>8 DEF WizardBooks
  <2>10. Queued(queue') \cap Listing = Queued(queue) \cap Listing
    BY <2>3, <2>5
  <2>11. WizardShows'
    BY <1>s, <2>1, <2>5, <2>7, <2>10 DEF WizardShows
  <2>12. QED
    BY <1>o, <2>1, <2>6, <2>9, <2>11 DEF WizardInv, Wizard!OneBookingPerOpening
<1>h. ASSUME queue # <<>>
      PROVE  /\ Tail(queue) \in Seq(WizardCall) /\ Head(queue) \in WizardCall
             /\ Queued(queue) = {Head(queue)} \cup Queued(Tail(queue))
             /\ Once(Tail(queue), Booking)
             /\ Head(queue) \in Booking => Queued(Tail(queue)) \cap Booking = {}
             /\ \A S : LastIn(queue, Listing, S) =>
                  /\ LastIn(Tail(queue), Listing, S)
                  /\ Head(queue) \in Listing /\ Queued(Tail(queue)) \cap Listing = {} => Head(queue) \in S
  BY <1>h, <1>k, <1>t, QueueTail DEF WizardBooks
<1>w. ASSUME Head(queue) \in WizardCall
      PROVE  /\ Head(queue).opening \in Wizard!Opening /\ Head(queue).opening \in Nat
             /\ Head(queue).date \in Date \cup {"none"}
             /\ Head(queue).kind \in {"availability", "book", "alternatives", "checkout"}
             /\ Head(queue) \in Listing <=> Head(queue).kind = "availability"
             /\ Head(queue) \in Booking <=> Head(queue).kind \in {"book", "checkout"}
  BY <1>w, <1>o DEF WizardCall, Wizard!CallOf, Listing, Booking, Wizard!None
<1>5. CASE Wizard!AvailabilityAnswered \/ Wizard!AlternativesAnswered
  <2>1. /\ ~left /\ queue # <<>> /\ Head(queue).kind \in {"availability", "alternatives"}
        /\ queue' = Tail(queue) /\ shown' = Head(queue).date
        /\ UNCHANGED <<open, step, date, slot, slotConflictError, confirmed, uploading, left, opening, made, unpaid, mixed>>
    BY <1>5 DEF Wizard!AvailabilityAnswered, Wizard!AlternativesAnswered, Wizard!Answered, Wizard!sheet, Wizard!history
  <2>2. \/ Head(queue).kind = "availability" /\ alternativeSlots' = alternativeSlots
        \/ Head(queue).kind = "alternatives" /\ alternativeSlots' = Head(queue).date
    BY <1>5 DEF Wizard!AvailabilityAnswered, Wizard!AlternativesAnswered, Wizard!Answered, Wizard!sheet
  <2>3. Wizard!TypeOK'
    BY <1>t, <1>b, <1>h, <1>w, <1>T, <2>1, <2>2
  <2>4. Queued(queue') \subseteq Queued(queue) /\ Queued(queue) \cap Booking = Queued(queue') \cap Booking
    BY <1>h, <1>w, <2>1
  <2>5. \A c \in Queued(queue) : c.kind \in {"checkout", "confirmed"} => c \in Queued(queue')
    BY <1>h, <2>1
  <2>6. WizardBooks'
    BY <1>k, <1>h, <2>1, <2>4, <2>5 DEF WizardBooks
  <2>7. Head(queue).date = shown' /\ Head(queue) \in Queued(queue)
    BY <1>h, <2>1
  <2>8. date # "none" => LastIn(queue', Listing, {c \in WizardCall : c.date = date})
    BY <1>s, <1>h, <2>1 DEF WizardShows
  <2>9. Head(queue).kind = "availability" /\ date # "none" /\ Queued(queue') \cap Listing = {} => shown' = date
    BY <1>s, <1>h, <1>w, <2>1 DEF WizardShows
  <2>10. Head(queue).kind = "alternatives" /\ ~mixed => shown' = date
    BY <1>s, <2>1, <2>7 DEF WizardShows
  <2>11. WizardShows'
    BY <1>s, <2>1, <2>2, <2>4, <2>8, <2>9, <2>10 DEF WizardShows
  <2>12. QED
    BY <1>o, <2>1, <2>3, <2>6, <2>11 DEF WizardInv, Wizard!OneBookingPerOpening
<1>6. CASE Wizard!BookingRefused \/ Wizard!CheckoutFails \/ Wizard!CheckoutCreated
  <2>1. /\ ~left /\ queue # <<>> /\ Head(queue).kind \in {"book", "checkout"} /\ queue' = Tail(queue)
        /\ UNCHANGED <<open, step, date, slot, slotConflictError, alternativeSlots, confirmed, shown, uploading,
                       opening, made, mixed>>
    BY <1>6 DEF Wizard!BookingRefused, Wizard!CheckoutFails, Wizard!CheckoutCreated, Wizard!Answered,
         Wizard!sheet, Wizard!history
  <2>2. \/ Head(queue).kind = "book" /\ unpaid' = unpaid /\ left' = left
        \/ Head(queue).kind = "checkout" /\ unpaid' = unpaid \cup {Head(queue).opening} /\ left' = left
        \/ unpaid' = unpaid /\ left' = TRUE
    BY <1>6 DEF Wizard!BookingRefused, Wizard!CheckoutFails, Wizard!CheckoutCreated, Wizard!Answered,
         Wizard!sheet, Wizard!history
  <2>3. /\ unpaid \subseteq unpaid' /\ unpaid' \in SUBSET Wizard!Opening
        /\ left' \in BOOLEAN
    BY <1>t, <1>b, <1>h, <1>w, <2>1, <2>2
  <2>4. Wizard!TypeOK'
    BY <1>t, <1>b, <1>h, <1>T, <2>1, <2>3
  <2>5. Queued(queue') \subseteq Queued(queue) /\ Queued(queue') \cap Booking = {} /\ Once(queue', Booking)
    BY <1>h, <1>w, <2>1
  <2>6. Queued(queue') \cap Listing = Queued(queue) \cap Listing
    BY <1>h, <1>w, <2>1
  <2>7. opening \in Wizard!Opening \ unpaid' /\ made[opening] > 0 /\ ~left' =>
          confirmed \/ \E c \in Queued(queue') \cup uploading : c.kind \in {"checkout", "confirmed"} /\ c.opening = opening
    BY <1>k, <1>h, <2>1, <2>2 DEF WizardBooks
  <2>8. WizardBooks'
    BY <1>k, <2>1, <2>3, <2>5, <2>7 DEF WizardBooks
  <2>9. WizardShows'
    BY <1>s, <1>h, <2>1, <2>5, <2>6 DEF WizardShows
  <2>10. QED
    BY <1>o, <2>1, <2>3, <2>4, <2>8, <2>9 DEF WizardInv, Wizard!OneBookingPerOpening
<1>7. CASE Wizard!BookingConflicts
  <2> DEFINE c == [Head(queue) EXCEPT !.kind = "alternatives"]
  <2>1. /\ ~left /\ queue # <<>> /\ Head(queue).kind = "book" /\ queue' = Append(Tail(queue), c)
        /\ slotConflictError' = TRUE
        /\ UNCHANGED <<open, step, date, slot, alternativeSlots, confirmed, shown, uploading, left,
                       opening, made, unpaid, mixed>>
    BY <1>7 DEF Wizard!BookingConflicts, Wizard!Answered, Wizard!history
  <2>2. /\ c \in WizardCall /\ c.kind = "alternatives"
        /\ c.date = Head(queue).date /\ c.opening = Head(queue).opening
    BY <1>h, <2>1 DEF WizardCall, Wizard!CallOf
  <2>3. c \notin Listing /\ c \notin Booking
    BY <2>2 DEF Listing, Booking
  <2> HIDE DEF c
  <2>4. /\ queue' \in Seq(WizardCall) /\ Queued(queue') = Queued(Tail(queue)) \cup {c} /\ Once(queue', Booking)
        /\ \A S : LastIn(queue, Listing, S) => LastIn(queue', Listing, S)
    <3>1. /\ Tail(queue) \in Seq(WizardCall) /\ Once(Tail(queue), Booking)
          /\ \A S : LastIn(queue, Listing, S) => LastIn(Tail(queue), Listing, S)
      BY <1>h, <2>1
    <3>2. QED
      BY <3>1, <2>1, <2>2, <2>3, QueueAppend
  <2>5. Wizard!TypeOK'
    BY <1>t, <1>b, <1>T, <2>1, <2>4
  <2>6. Queued(Tail(queue)) \cap Booking = {} /\ Queued(queue') \cap Booking = {}
    BY <1>h, <1>w, <2>1, <2>3, <2>4
  <2>7. Queued(queue') \cap Listing = Queued(queue) \cap Listing
    BY <1>h, <1>w, <2>1, <2>3, <2>4
  <2>8. ASSUME NEW m \in Queued(queue') PROVE m = c \/ m \in Queued(queue)
    BY <1>h, <2>1, <2>4
  <2>9. \A m \in Queued(queue') : m.opening <= opening
    BY <1>k, <1>h, <2>1, <2>2, <2>8 DEF WizardBooks
  <2>10. \A m \in Queued(queue) : m.kind \in {"checkout", "confirmed"} => m \in Queued(queue')
    BY <1>h, <2>1, <2>4
  <2>11. \A m \in Queued(queue') : m.kind = "book" => m \in Queued(queue)
    BY <2>2, <2>8
  <2>12. WizardBooks'
    BY <1>k, <2>1, <2>4, <2>6, <2>9, <2>10, <2>11 DEF WizardBooks
  <2>13. ~mixed => \A m \in Queued(queue') : m.kind \in {"book", "alternatives"} => m.date = date
    BY <1>s, <1>h, <2>1, <2>2, <2>8 DEF WizardShows
  <2>14. WizardShows'
    BY <1>s, <2>1, <2>4, <2>7, <2>13 DEF WizardShows
  <2>15. QED
    BY <1>o, <2>1, <2>5, <2>12, <2>14 DEF WizardInv, Wizard!OneBookingPerOpening
<1>8. ASSUME NEW online \in BOOLEAN, NEW photos \in BOOLEAN, Wizard!BookingMade(online, photos)
      PROVE  WizardInv'
  <2> DEFINE o == Head(queue).opening
             kept == IF online THEN "checkout" ELSE "confirmed"
             c == [Head(queue) EXCEPT !.kind = kept]
  <2>1. /\ ~left /\ queue # <<>> /\ Head(queue).kind = "book" /\ made' = [made EXCEPT ![o] = @ + 1]
        /\ queue' = IF online /\ ~photos THEN Append(Tail(queue), c) ELSE Tail(queue)
        /\ uploading' = IF photos THEN {c} ELSE {}
        /\ UNCHANGED <<open, step, date, slot, alternativeSlots, shown, left, opening, unpaid, mixed>>
    BY <1>8 DEF Wizard!BookingMade, Wizard!Answered
  <2>2. IF online \/ photos
        THEN confirmed' = confirmed /\ slotConflictError' = slotConflictError
        ELSE confirmed' = TRUE /\ slotConflictError' = FALSE
    BY <1>8 DEF Wizard!BookingMade, Wizard!Confirmed
  <2>b. confirmed' \in BOOLEAN /\ slotConflictError' \in BOOLEAN /\ (confirmed => confirmed')
    BY <1>b, <2>2
  <2>3. /\ Head(queue) \in WizardCall /\ o \in Wizard!Opening /\ Tail(queue) \in Seq(WizardCall)
        /\ Head(queue) \in Booking /\ Head(queue) \in Queued(queue)
        /\ Queued(Tail(queue)) \cap Booking = {} /\ Queued(Tail(queue)) \subseteq Queued(queue)
        /\ Head(queue) \notin Listing
    BY <1>h, <1>w, <2>1
  <2>4. /\ c \in Wizard!CallOf({"checkout", "confirmed"}) /\ c.opening = o /\ c.kind = kept
        /\ (online => c \in WizardCall /\ c \notin Listing)
    <3>1. DOMAIN Head(queue) = {"kind", "date", "opening"}
      BY <2>3 DEF WizardCall, Wizard!CallOf
    <3>2. c.kind = kept /\ c.date = Head(queue).date /\ c.opening = o /\ c = [kind |-> kept, date |-> Head(queue).date, opening |-> o]
      BY <2>3, <3>1 DEF WizardCall, Wizard!CallOf
    <3>3. Head(queue).date \in Date \cup {"none"} /\ kept \in {"checkout", "confirmed"} /\ (online => kept = "checkout")
      BY <2>3, <1>w
    <3> HIDE DEF c, o, kept
    <3>4. QED
      BY <2>3, <3>2, <3>3 DEF WizardCall, Wizard!CallOf, Listing, Wizard!None
  <2> HIDE DEF c
  <2>5. /\ queue' \in Seq(WizardCall) /\ Once(queue', Booking)
        /\ Queued(queue') = Queued(Tail(queue)) \cup (IF online /\ ~photos THEN {c} ELSE {})
        /\ \A S : LastIn(queue, Listing, S) => LastIn(queue', Listing, S)
    <3>1. /\ Tail(queue) \in Seq(WizardCall) /\ Once(Tail(queue), Booking)
          /\ \A S : LastIn(queue, Listing, S) => LastIn(Tail(queue), Listing, S)
      BY <1>h, <2>1
    <3>2. CASE online /\ ~photos
      BY <3>1, <3>2, <2>1, <2>3, <2>4, QueueAppend
    <3>3. CASE ~(online /\ ~photos)
      BY <3>1, <3>3, <2>1
    <3>4. QED
      BY <3>2, <3>3
  <2>6. uploading' \in SUBSET Upload /\ \A m, n \in uploading' : m = n
    BY <2>1, <2>4
  <2>7. made' \in [Wizard!Opening -> Nat] /\ made'[o] = made[o] + 1 /\ \A p \in Wizard!Opening : p # o => made'[p] = made[p]
    BY <1>t, <2>1, <2>3
  <2>8. Wizard!TypeOK'
    BY <1>t, <1>b, <1>T, <2>b, <2>1, <2>5, <2>6, <2>7
  <2>9. o <= opening /\ o \in Nat \ {0} /\ opening \in Nat /\ (o \notin unpaid => made[o] = 0) /\ uploading = {}
    BY <1>k, <1>o, <1>t, <2>1, <2>3 DEF WizardBooks
  <2>10. Wizard!OneBookingPerOpening'
    BY <1>o, <1>t, <2>1, <2>3, <2>7, <2>9 DEF Wizard!OneBookingPerOpening
  <2>11. ASSUME NEW m \in Queued(queue') \cup uploading' PROVE m = c \/ m \in Queued(Tail(queue))
    BY <2>1, <2>5
  <2>12. \A m \in Queued(queue') \cup uploading' : m.opening <= opening
    BY <1>k, <2>3, <2>4, <2>9, <2>11 DEF WizardBooks
  <2>13. \A m \in Queued(queue') : m.kind # "book"
    BY <1>c, <2>3, <2>4, <2>11 DEF Booking
  <2>14. uploading' # {} => Queued(queue') \cap Booking = {}
    BY <2>1, <2>3, <2>5
  <2>15. \A p \in Wizard!Opening : p > opening' => made'[p] = 0
    BY <1>k, <1>o, <2>1, <2>7, <2>9 DEF WizardBooks
  <2>16. opening \in Wizard!Opening \ unpaid /\ made'[opening] > 0 /\ ~left =>
          confirmed' \/ \E m \in Queued(queue') \cup uploading' : m.kind \in {"checkout", "confirmed"} /\ m.opening = opening
    <3>1. CASE o = opening
      <4>1. confirmed' \/ c \in Queued(queue') \cup uploading'
        BY <2>1, <2>2, <2>5
      <4>2. c.kind \in {"checkout", "confirmed"} /\ c.opening = opening
        BY <2>4, <3>1
      <4>3. QED
        BY <4>1, <4>2
    <3>2. CASE o # opening
      <4>1. \A m \in Queued(queue) : m.kind # "book" => m \in Queued(queue')
        BY <1>h, <2>1, <2>5
      <4>2. QED
        BY <1>k, <2>b, <2>7, <2>9, <3>2, <4>1 DEF WizardBooks
    <3>3. QED
      BY <3>1, <3>2
  <2>17. WizardBooks'
    BY <1>k, <2>1, <2>5, <2>6, <2>12, <2>13, <2>14, <2>15, <2>16 DEF WizardBooks
  <2>18. Queued(queue') \cap Listing = Queued(queue) \cap Listing
    BY <1>h, <2>1, <2>3, <2>4, <2>5
  <2>19. ~mixed => \A m \in Queued(queue') : m.kind \in {"book", "alternatives"} => m.date = date
    BY <1>s, <2>3, <2>4, <2>11 DEF WizardShows
  <2>20. WizardShows'
    BY <1>s, <2>1, <2>5, <2>18, <2>19 DEF WizardShows
  <2>21. QED
    BY <2>8, <2>10, <2>17, <2>20 DEF WizardInv
<1>9. CASE Wizard!PhotosUploaded
  <2>1. PICK c \in uploading :
          /\ ~left /\ uploading' = {}
          /\ IF c.kind = "checkout"
             THEN queue' = Append(queue, c) /\ confirmed' = confirmed /\ slotConflictError' = slotConflictError
             ELSE confirmed' = TRUE /\ slotConflictError' = FALSE /\ queue' = queue
          /\ UNCHANGED <<open, step, date, slot, alternativeSlots, shown, left, opening, made, unpaid, mixed>>
    BY <1>9 DEF Wizard!PhotosUploaded, Wizard!Confirmed, Wizard!history
  <2>b. confirmed' \in BOOLEAN /\ slotConflictError' \in BOOLEAN /\ (confirmed => confirmed')
        /\ (confirmed' \/ c.kind = "checkout")
    BY <1>b, <2>1
  <2>2. /\ c.kind \in {"checkout", "confirmed"}
        /\ c.kind = "checkout" => c \in WizardCall /\ c \notin Listing
    BY <1>t DEF WizardCall, Wizard!CallOf, Listing
  <2>3. uploading = {c} /\ Queued(queue) \cap Booking = {} /\ c.opening <= opening
    BY <1>k DEF WizardBooks
  <2>4. /\ queue' \in Seq(WizardCall) /\ Once(queue', Booking)
        /\ Queued(queue') = Queued(queue) \cup (IF c.kind = "checkout" THEN {c} ELSE {})
        /\ \A S : LastIn(queue, Listing, S) => LastIn(queue', Listing, S)
    <3>1. CASE c.kind = "checkout"
      <4>1. c \in WizardCall /\ c \notin Listing /\ queue' = Append(queue, c) /\ Once(queue, Booking)
        BY <1>k, <2>1, <2>2, <3>1 DEF WizardBooks
      <4>2. QED
        BY <1>t, <2>3, <3>1, <4>1, QueueAppend
    <3>2. CASE c.kind # "checkout"
      BY <1>k, <1>t, <2>1, <3>2 DEF WizardBooks
    <3>3. QED
      BY <3>1, <3>2
  <2>5. Wizard!TypeOK'
    BY <1>t, <1>b, <1>T, <2>b, <2>1, <2>4
  <2>6. \A m \in Queued(queue') : m.opening <= opening /\ (m.kind \in {"book", "alternatives"} => m \in Queued(queue))
    BY <1>k, <2>2, <2>3, <2>4 DEF WizardBooks
  <2>7. confirmed' \/ c \in Queued(queue')
    BY <2>b, <2>4
  <2>8. opening \in Wizard!Opening \ unpaid /\ made[opening] > 0 /\ ~left =>
          confirmed' \/ \E m \in Queued(queue') : m.kind \in {"checkout", "confirmed"} /\ m.opening = opening
    BY <1>k, <2>b, <2>3, <2>4, <2>7 DEF WizardBooks
  <2>9. WizardBooks'
    BY <1>k, <2>1, <2>4, <2>6, <2>8 DEF WizardBooks
  <2>10. Queued(queue') \cap Listing = Queued(queue) \cap Listing
    BY <2>2, <2>4
  <2>11. WizardShows'
    BY <1>s, <2>1, <2>4, <2>6, <2>10 DEF WizardShows
  <2>12. QED
    BY <1>o, <2>1, <2>5, <2>9, <2>11 DEF WizardInv, Wizard!OneBookingPerOpening
<1>10. QED
  BY <1>1, <1>2, <1>3, <1>4, <1>5, <1>6, <1>7, <1>8, <1>9 DEF Wizard!Next

(* The booking wizard, from its first state on. *)
LEMMA WizardBridge ==
  /\ Wizard!Init => WizardInv
  /\ WizardInv /\ UNCHANGED wizard => WizardInv'
  /\ WizardInv => Wizard!TypeOK /\ Wizard!OneBookingPerOpening /\ Wizard!SummaryIsBooked
<1>1. ASSUME Wizard!Init PROVE WizardInv
  <2>1. Wizard!TypeOK
    <3>1. open \in BOOLEAN /\ slotConflictError \in BOOLEAN /\ confirmed \in BOOLEAN /\ left \in BOOLEAN /\ mixed \in BOOLEAN
      BY <1>1 DEF Wizard!Init
    <3>2. /\ step \in {"datetime", "details"} /\ date = "none" /\ slot = "none" /\ alternativeSlots = "none"
          /\ shown = "none" /\ queue = <<>> /\ uploading = {} /\ opening = 0
          /\ made = [o \in Wizard!Opening |-> 0] /\ unpaid = {}
      BY <1>1 DEF Wizard!Init, Wizard!None
    <3>3. made \in [Wizard!Opening -> Nat]
      BY <3>2
    <3>4. QED
      BY <3>1, <3>2, <3>3 DEF Wizard!TypeOK, Wizard!None
  <2>2. Queued(queue) = {} /\ \A K, S : Once(queue, K) /\ LastIn(queue, K, S)
    BY <1>1, QueueEmpty DEF Wizard!Init
  <2>3. \A o \in Wizard!Opening : made[o] = 0
    BY <1>1 DEF Wizard!Init
  <2>4. ~open /\ uploading = {} /\ opening = 0 /\ slot = "none" /\ alternativeSlots = "none" /\ date = "none"
        /\ 0 \notin Wizard!Opening
    BY <1>1 DEF Wizard!Init, Wizard!None, Wizard!Opening
  <2>5. Wizard!OneBookingPerOpening
    BY <2>3 DEF Wizard!OneBookingPerOpening
  <2>6. WizardBooks
    BY <2>2, <2>3, <2>4 DEF WizardBooks
  <2>7. WizardShows
    BY <2>2, <2>4 DEF WizardShows
  <2>8. QED
    BY <2>1, <2>5, <2>6, <2>7 DEF WizardInv
<1>2. ASSUME WizardInv, UNCHANGED wizard PROVE WizardInv'
  <2>1. UNCHANGED <<open, step, date, slot, slotConflictError, alternativeSlots, confirmed, shown, queue, uploading,
                    left, opening, made, unpaid, mixed>>
    BY <1>2 DEF wizard
  <2>2. Wizard!TypeOK'
    BY <1>2, <2>1 DEF WizardInv, Wizard!TypeOK
  <2>3. Wizard!OneBookingPerOpening' /\ WizardBooks' /\ WizardShows'
    BY <1>2, <2>1 DEF WizardInv, Wizard!OneBookingPerOpening, WizardBooks, WizardShows
  <2>4. QED
    BY <2>2, <2>3 DEF WizardInv
<1>3. WizardInv => Wizard!SummaryIsBooked
  BY DEF WizardInv, WizardShows, Wizard!SummaryIsBooked, Wizard!None
<1>4. QED
  BY <1>1, <1>2, <1>3 DEF WizardInv

-----------------------------------------------------------------------------
(* The list shown answers the question that was asked last.                *)
LEMMA SheetStep == SheetInv /\ Sheet!Next => SheetInv'
<1> SUFFICES ASSUME SheetInv, Sheet!Next PROVE SheetInv'
  OBVIOUS
<1> DEFINE SheetCall == SheetListing \cup SheetBooking
           Apt == {c \in SheetListing : OfChoice(c.about)}
<1>t. /\ kind \in {"manual", "own"} /\ sheetStep \in {"setup", "details"}
      /\ serviceId \in Sheet!Service \cup {"none"} /\ staffId \in Sheet!Offers["cut"] \cup {"none"} /\ day \in Date \cup {"none"}
      /\ sheetSlot \in Question \cup {Sheet!NoSlot} /\ offered \in Question \cup {Sheet!NoSlot}
      /\ calls \in Seq(SheetCall)
      /\ sheetOpening \in Sheet!Opened \cup {0} /\ sheetMade \in [Sheet!Opened -> 0 .. MaxMade] /\ sheetUnpaid \in SUBSET Sheet!Opened
  BY DEF SheetInv, Sheet!TypeOK, Sheet!None, Question, SheetListing, SheetBooking
<1>b. sheetOpen \in BOOLEAN /\ sheetLeft \in BOOLEAN /\ restated \in BOOLEAN
  BY DEF SheetInv, Sheet!TypeOK
<1>o. \A o \in Sheet!Opened : o \in Nat \ {0} /\ sheetMade[o] \in Nat /\ (sheetMade[o] > 1 => o \in sheetUnpaid)
  BY <1>t, ScreenAssumption DEF SheetInv, Sheet!OneBookingPerSheet, Sheet!Opened
<1>f. /\ \A s \in Sheet!Service : Sheet!Offers[s] \subseteq Sheet!Offers["cut"]
      /\ "none" \notin Sheet!Service /\ "none" \notin Sheet!Offers["cut"] /\ Sheet!NoSlot \notin Question
  BY DEF Sheet!Service, Sheet!Offers, Sheet!NoSlot, Sheet!None, Question
<1>k. SheetBooks
  BY DEF SheetInv
<1>s. SheetLists /\ Sheet!SlotIsOfChoice
  BY DEF SheetInv
<1>c. \A c \in Queued(calls) : c \in SheetCall
  BY <1>t, QueueIndices DEF Queued
<1>p. \A names : Sheet!Waiting(names) <=> \E c \in Queued(calls) : c.name \in names
  BY <1>t, QueueIndices DEF Sheet!Waiting, Queued
<1>q. \A c \in SheetCall : /\ c \in SheetListing <=> c.name = "availability"
                           /\ c \in SheetBooking <=> c.name \in {"book", "checkout"}
  BY DEF SheetListing, SheetBooking
<1>T. ASSUME kind' \in {"manual", "own"}, sheetStep' \in {"setup", "details"},
             serviceId' \in Sheet!Service \cup {"none"}, staffId' \in Sheet!Offers["cut"] \cup {"none"}, day' \in Date \cup {"none"},
             sheetSlot' \in Question \cup {Sheet!NoSlot}, offered' \in Question \cup {Sheet!NoSlot},
             calls' \in Seq(SheetCall), sheetOpen' \in BOOLEAN, sheetLeft' \in BOOLEAN, restated' \in BOOLEAN,
             sheetOpening' \in Sheet!Opened \cup {0}, sheetMade' \in [Sheet!Opened -> 0 .. MaxMade],
             sheetUnpaid' \in SUBSET Sheet!Opened
      PROVE  Sheet!TypeOK'
  BY <1>T DEF Sheet!TypeOK, Sheet!None, Question, SheetListing, SheetBooking
(* A list is asked for the service and the professional there are. *)
<1>a. ASSUME NEW d \in Date, serviceId # "none", calls' = Sheet!Ask(d),
             sheetOpening' = sheetOpening, sheetMade' = sheetMade, sheetUnpaid' = sheetUnpaid,
             sheetOpen' = sheetOpen, sheetLeft' = sheetLeft
      PROVE  /\ calls' \in Seq(SheetCall) /\ SheetBooks'
             /\ LET c == [name |-> "availability", about |-> [service |-> serviceId, staff |-> staffId, day |-> d]]
                IN  c \in Queued(calls') \cap SheetListing /\ \A S : c \in S => LastIn(calls', SheetListing, S)
  <2> DEFINE c == [name |-> "availability", about |-> [service |-> serviceId, staff |-> staffId, day |-> d]]
  <2>1. c \in SheetListing /\ c \notin SheetBooking /\ c \in SheetCall
    BY <1>a, <1>t DEF SheetListing, SheetBooking, Question
  <2>2. calls' = Append(calls, c)
    BY <1>a DEF Sheet!Ask, Sheet!Question
  <2> HIDE DEF c
  <2>3. /\ calls' \in Seq(SheetCall) /\ Queued(calls') = Queued(calls) \cup {c} /\ Once(calls', SheetBooking)
        /\ \A S : c \in S => LastIn(calls', SheetListing, S)
    BY <1>k, <1>t, <2>1, <2>2, QueueAppend DEF SheetBooks
  <2>4. Queued(calls') \cap SheetBooking = Queued(calls) \cap SheetBooking /\ Queued(calls) \subseteq Queued(calls')
    BY <2>1, <2>3
  <2>5. SheetBooks'
    BY <1>a, <1>k, <2>3, <2>4 DEF SheetBooks
  <2>6. QED
    BY <2>1, <2>3, <2>5 DEF c
<1>1. CASE \E s \in Sheet!Service : Sheet!SelectService(s)
  <2>1. PICK s \in Sheet!Service : Sheet!SelectService(s)
    BY <1>1
  <2>2. /\ serviceId' = s /\ staffId' = "none" /\ sheetSlot' = Sheet!NoSlot /\ restated' = (day # "none")
        /\ IF day # "none" THEN calls' = Sheet!Ask(day) ELSE calls' = calls
        /\ UNCHANGED <<kind, sheetOpen, sheetStep, day, offered, sheetLeft, sheetOpening, sheetMade, sheetUnpaid>>
    BY <2>1 DEF Sheet!SelectService, Sheet!AskAgain, Sheet!None, Sheet!past
  <2>3. calls' \in Seq(SheetCall) /\ SheetBooks'
    <3>1. CASE day # "none"
      BY <1>a, <1>s, <1>t, <2>2, <3>1 DEF SheetLists
    <3>2. CASE day = "none"
      BY <1>k, <1>t, <2>2, <3>2 DEF SheetBooks
    <3>3. QED
      BY <3>1, <3>2
  <2>4. restated' \in BOOLEAN
    BY <2>2
  <2>5. Sheet!TypeOK'
    BY <1>t, <1>b, <1>T, <2>2, <2>3, <2>4
  <2>6. SheetLists'
    BY <1>f, <2>2 DEF SheetLists
  <2>7. Sheet!SlotIsOfChoice'
    BY <2>2 DEF Sheet!SlotIsOfChoice
  <2>8. QED
    BY <1>o, <2>2, <2>3, <2>5, <2>6, <2>7 DEF SheetInv, Sheet!OneBookingPerSheet
<1>2. CASE \E p \in Sheet!Offers["cut"] : Sheet!SelectStaff(p)
  <2>1. PICK p \in Sheet!Offers["cut"] : Sheet!SelectStaff(p)
    BY <1>2
  <2>2. /\ staffId' = p /\ sheetSlot' = Sheet!NoSlot /\ restated' = (day # "none")
        /\ IF day # "none" THEN calls' = Sheet!Ask(day) ELSE calls' = calls
        /\ UNCHANGED <<kind, sheetOpen, sheetStep, serviceId, day, offered, sheetLeft, sheetOpening, sheetMade, sheetUnpaid>>
    BY <2>1 DEF Sheet!SelectStaff, Sheet!AskAgain, Sheet!None, Sheet!past
  <2>3. calls' \in Seq(SheetCall) /\ SheetBooks'
    <3>1. CASE day # "none"
      BY <1>a, <1>s, <1>t, <2>2, <3>1 DEF SheetLists
    <3>2. CASE day = "none"
      BY <1>k, <1>t, <2>2, <3>2 DEF SheetBooks
    <3>3. QED
      BY <3>1, <3>2
  <2>4. restated' \in BOOLEAN
    BY <2>2
  <2>5. Sheet!TypeOK'
    BY <1>t, <1>b, <1>T, <2>2, <2>3, <2>4
  <2>6. SheetLists'
    BY <1>s, <2>2 DEF SheetLists
  <2>7. Sheet!SlotIsOfChoice'
    BY <2>2 DEF Sheet!SlotIsOfChoice
  <2>8. QED
    BY <1>o, <2>2, <2>3, <2>5, <2>6, <2>7 DEF SheetInv, Sheet!OneBookingPerSheet
<1>3. CASE \E d \in Date : Sheet!SelectDay(d)
  <2>1. PICK d \in Date : Sheet!SelectDay(d)
    BY <1>3
  <2>2. /\ serviceId # "none" /\ sheetSlot' = Sheet!NoSlot /\ restated' = FALSE
        /\ \/ day' = "none" /\ calls' = calls
           \/ day' = d /\ calls' = Sheet!Ask(d)
        /\ UNCHANGED <<kind, sheetOpen, sheetStep, serviceId, staffId, offered, sheetLeft, sheetOpening, sheetMade, sheetUnpaid>>
    BY <2>1 DEF Sheet!SelectDay, Sheet!None, Sheet!past
  <2>3. calls' \in Seq(SheetCall) /\ SheetBooks' /\ SheetLists'
    <3>1. CASE day' = "none" /\ calls' = calls
      BY <1>k, <1>t, <2>2, <3>1 DEF SheetBooks, SheetLists
    <3>2. CASE day' = d /\ calls' = Sheet!Ask(d)
      <4> DEFINE q == [service |-> serviceId, staff |-> staffId, day |-> d]
                 c == [name |-> "availability", about |-> q]
      <4>1. /\ calls' \in Seq(SheetCall) /\ SheetBooks' /\ c \in Queued(calls') \cap SheetListing
            /\ \A S : c \in S => LastIn(calls', SheetListing, S)
        BY <1>a, <2>2, <3>2
      <4>2. PICK m : m = c
        OBVIOUS
      <4>3. /\ m \in SheetListing /\ m.about.service = serviceId' /\ m.about.staff = staffId' /\ m.about.day = day'
        BY <2>2, <3>2, <4>1, <4>2
      <4>6. m \in Apt'
        BY <4>3 DEF OfChoice
      <4>7. m \in Queued(calls') \cap SheetListing /\ \A S : m \in S => LastIn(calls', SheetListing, S)
        BY <4>1, <4>2
      <4> HIDE DEF c, q
      <4>4. LastIn(calls', SheetListing, Apt')
        BY <4>6, <4>7
      <4>5. QED
        BY <2>2, <4>1, <4>4, <4>7 DEF SheetLists
    <3>3. QED
      BY <2>2, <3>1, <3>2
  <2>4. Sheet!TypeOK'
    BY <1>t, <1>b, <1>T, <2>2, <2>3
  <2>5. Sheet!SlotIsOfChoice'
    BY <2>2 DEF Sheet!SlotIsOfChoice
  <2>6. QED
    BY <1>o, <2>2, <2>3, <2>4, <2>5 DEF SheetInv, Sheet!OneBookingPerSheet
<1>4. CASE Sheet!Open
  <2>1. /\ sheetOpen' = TRUE /\ sheetOpening' = sheetOpening + 1 /\ sheetOpening + 1 \in Sheet!Opened
        /\ sheetStep' = "setup" /\ serviceId' = "none" /\ staffId' = "none" /\ day' = "none" /\ sheetSlot' = Sheet!NoSlot
        /\ restated' = FALSE
        /\ UNCHANGED <<kind, offered, calls, sheetLeft, sheetMade, sheetUnpaid>>
    BY <1>4 DEF Sheet!Open, Sheet!None
  <2>2. Sheet!TypeOK'
    BY <1>t, <1>b, <1>T, <2>1
  <2>3. \A c \in Queued(calls) \cap SheetBooking : c.by \in Nat /\ c.by <= sheetOpening
    BY <1>k, <1>o DEF SheetBooks, SheetBooking
  <2>4. sheetOpening \in Nat /\ sheetMade[sheetOpening + 1] = 0
    BY <1>t, <1>k, <1>o, <2>1 DEF SheetBooks
  <2>5. SheetBooks'
    BY <1>k, <1>o, <2>1, <2>3, <2>4 DEF SheetBooks
  <2>6. SheetLists' /\ Sheet!SlotIsOfChoice'
    BY <2>1 DEF SheetLists, Sheet!SlotIsOfChoice
  <2>7. QED
    BY <1>o, <2>1, <2>2, <2>5, <2>6 DEF SheetInv, Sheet!OneBookingPerSheet
<1>5. CASE Sheet!Close \/ Sheet!Continue \/ Sheet!Back
  <2>2. sheetOpen' = FALSE \/ sheetOpen' = sheetOpen
    BY <1>5 DEF Sheet!Close, Sheet!Continue, Sheet!Back
  <2>1. /\ sheetStep' \in {"setup", "details", sheetStep}
        /\ UNCHANGED <<kind, serviceId, staffId, day, sheetSlot, offered, calls, sheetLeft, sheetOpening, sheetMade,
                       sheetUnpaid, restated>>
    BY <1>5 DEF Sheet!Close, Sheet!Continue, Sheet!Back, Sheet!choice, Sheet!past
  <2>b. sheetOpen' \in BOOLEAN
    BY <1>b, <2>2
  <2>o. sheetOpen' => sheetOpen
    BY <2>2
  <2>3. Sheet!TypeOK'
    BY <1>t, <1>b, <1>T, <2>1, <2>b
  <2>4. SheetBooks'
    BY <1>k, <2>1, <2>o DEF SheetBooks
  <2>5. Apt' = Apt /\ (OfChoice(offered)' <=> OfChoice(offered))
    BY <2>1 DEF OfChoice
  <2>6. SheetLists'
    BY <1>s, <2>1, <2>5 DEF SheetLists
  <2>7. Sheet!SlotIsOfChoice'
    BY <1>s, <2>1 DEF Sheet!SlotIsOfChoice
  <2>8. QED
    BY <1>o, <2>1, <2>3, <2>4, <2>6, <2>7 DEF SheetInv, Sheet!OneBookingPerSheet
<1>6. CASE Sheet!SelectSlot
  <2>1. PICK first \in Sheet!OnDuty :
          /\ ~Sheet!Waiting({"availability"}) /\ offered # Sheet!NoSlot /\ serviceId # "none" /\ day # "none"
          /\ staffId' = (IF staffId = "none" THEN first ELSE staffId) /\ sheetSlot' = offered
          /\ UNCHANGED <<kind, sheetOpen, sheetStep, serviceId, day, offered, calls, sheetLeft, sheetOpening, sheetMade,
                         sheetUnpaid, restated>>
    BY <1>6 DEF Sheet!SelectSlot, Sheet!Listed, Sheet!None, Sheet!past
  <2>2. offered \in Question /\ offered.service \in Sheet!Service /\ offered.staff \in Sheet!Offers["cut"] \cup {"none"}
    BY <1>t, <2>1 DEF Question
  <2>3. first \in Sheet!Offers[offered.service] /\ (offered.staff # "none" => first = offered.staff)
    BY DEF Sheet!OnDuty, Sheet!None
  <2>4. first \in Sheet!Offers["cut"] /\ staffId' \in Sheet!Offers["cut"] \cup {"none"}
    BY <1>f, <1>t, <2>1, <2>2, <2>3
  <2>5. Sheet!TypeOK'
    BY <1>t, <1>b, <1>T, <2>1, <2>4
  <2>6. SheetBooks'
    BY <1>k, <2>1 DEF SheetBooks
  <2>7. Queued(calls) \cap SheetListing = {}
    BY <1>c, <1>p, <1>q, <2>1
  <2>8. ~restated => OfChoice(offered)
    BY <1>s, <2>1, <2>7 DEF SheetLists
  <2>9. ~restated => OfChoice(offered)' /\ offered.staff \in {staffId', "none"} /\ staffId' \in Sheet!Offers[serviceId]
    BY <1>t, <1>f, <2>1, <2>2, <2>3, <2>4, <2>8 DEF OfChoice
  <2>10. \A S : LastIn(calls', SheetListing, S)
    BY <2>1, <2>7, QueueWithout
  <2>11. SheetLists'
    BY <2>1, <2>9, <2>10 DEF SheetLists
  <2>12. Sheet!SlotIsOfChoice'
    BY <2>1, <2>8, <2>9 DEF Sheet!SlotIsOfChoice, Sheet!None, OfChoice
  <2>13. QED
    BY <1>o, <2>1, <2>5, <2>6, <2>11, <2>12 DEF SheetInv, Sheet!OneBookingPerSheet
<1>7. CASE Sheet!Confirm
  <2> DEFINE c == [name |-> "book", by |-> sheetOpening]
  <2>1. /\ sheetOpen /\ ~sheetLeft /\ ~Sheet!Waiting({"book", "checkout"}) /\ calls' = Append(calls, c)
        /\ UNCHANGED <<kind, sheetOpen, sheetStep, serviceId, staffId, day, sheetSlot, offered, sheetLeft,
                       sheetOpening, sheetMade, sheetUnpaid, restated>>
    BY <1>7 DEF Sheet!Confirm, Sheet!AtConfirm, Sheet!Busy, Sheet!choice, Sheet!past
  <2>2. sheetOpening \in Sheet!Opened
    BY <1>k, <1>t, <2>1 DEF SheetBooks
  <2>3. c \in SheetCall /\ c \in SheetBooking /\ c \notin SheetListing
    BY <2>2 DEF SheetListing, SheetBooking
  <2>4. Queued(calls) \cap SheetBooking = {}
    BY <1>c, <1>p, <1>q, <2>1
  <2>5. c.name = "book" /\ c.by = sheetOpening
    OBVIOUS
  <2> HIDE DEF c
  <2>6. /\ calls' \in Seq(SheetCall) /\ Queued(calls') = Queued(calls) \cup {c} /\ Once(calls', SheetBooking)
        /\ \A S : LastIn(calls, SheetListing, S) => LastIn(calls', SheetListing, S)
    BY <1>k, <1>t, <2>1, <2>3, <2>4, QueueAppend DEF SheetBooks
  <2>7. Sheet!TypeOK'
    BY <1>t, <1>b, <1>T, <2>1, <2>6
  <2>8. [name |-> "checkout", by |-> sheetOpening] \notin Queued(calls)
    BY <2>2, <2>4 DEF SheetBooking
  <2>9. sheetOpening \in sheetUnpaid \/ sheetMade[sheetOpening] = 0
    BY <1>k, <1>o, <2>1, <2>2, <2>8 DEF SheetBooks
  <2>10. sheetOpening <= sheetOpening
    BY <1>o, <2>2
  <2>11. SheetBooks'
    BY <1>k, <1>o, <2>1, <2>2, <2>4, <2>5, <2>6, <2>9, <2>10 DEF SheetBooks
  <2>12. Apt' = Apt /\ (OfChoice(offered)' <=> OfChoice(offered)) /\ Queued(calls') \cap SheetListing = Queued(calls) \cap SheetListing
    BY <2>1, <2>3, <2>6 DEF OfChoice
  <2>13. SheetLists'
    BY <1>s, <2>1, <2>6, <2>12 DEF SheetLists
  <2>14. Sheet!SlotIsOfChoice'
    BY <1>s, <2>1 DEF Sheet!SlotIsOfChoice
  <2>15. QED
    BY <1>o, <2>1, <2>7, <2>11, <2>13, <2>14 DEF SheetInv, Sheet!OneBookingPerSheet
<1>h. ASSUME calls # <<>>
      PROVE  /\ Tail(calls) \in Seq(SheetCall) /\ Head(calls) \in SheetCall
             /\ Queued(calls) = {Head(calls)} \cup Queued(Tail(calls))
             /\ Once(Tail(calls), SheetBooking)
             /\ Head(calls) \in SheetBooking => Queued(Tail(calls)) \cap SheetBooking = {}
             /\ \A S : LastIn(calls, SheetListing, S) =>
                  /\ LastIn(Tail(calls), SheetListing, S)
                  /\ Head(calls) \in SheetListing /\ Queued(Tail(calls)) \cap SheetListing = {} => Head(calls) \in S
  BY <1>h, <1>k, <1>t, QueueTail DEF SheetBooks
<1>w. ASSUME calls # <<>>, Head(calls).name \in {"book", "checkout"}
      PROVE  /\ Head(calls) \in SheetBooking /\ Head(calls) \notin SheetListing
             /\ Head(calls).by \in Sheet!Opened /\ Head(calls).by \in Nat
  <2>1. Head(calls) \in SheetBooking /\ Head(calls) \notin SheetListing
    BY <1>h, <1>q, <1>w
  <2>2. QED
    BY <1>o, <2>1 DEF SheetBooking
<1>8. CASE Sheet!SlotsListed
  <2>1. /\ calls # <<>> /\ Head(calls).name = "availability" /\ calls' = Tail(calls) /\ offered' = Head(calls).about
        /\ UNCHANGED <<kind, sheetOpen, sheetStep, serviceId, staffId, day, sheetSlot, sheetLeft,
                       sheetOpening, sheetMade, sheetUnpaid, restated>>
    BY <1>8 DEF Sheet!SlotsListed, Sheet!Answered, Sheet!choice, Sheet!past
  <2>2. Head(calls) \in SheetListing /\ Head(calls) \notin SheetBooking
    BY <1>h, <1>q, <2>1
  <2>3. Head(calls).about \in Question
    BY <2>2 DEF SheetListing
  <2>4. Sheet!TypeOK'
    BY <1>t, <1>b, <1>h, <1>T, <2>1, <2>3
  <2>5. Queued(calls') \cap SheetBooking = Queued(calls) \cap SheetBooking
    BY <1>h, <2>1, <2>2
  <2>6. [name |-> "checkout", by |-> sheetOpening] \in Queued(calls) => [name |-> "checkout", by |-> sheetOpening] \in Queued(calls')
    BY <1>h, <2>1
  <2>7. SheetBooks'
    BY <1>k, <1>h, <2>1, <2>5, <2>6 DEF SheetBooks
  <2>8. Apt' = Apt /\ (OfChoice(offered') <=> OfChoice(offered)')
    BY <2>1 DEF OfChoice
  <2>9. ~restated /\ day # "none" => LastIn(calls', SheetListing, Apt)
    BY <1>s, <1>h, <2>1 DEF SheetLists
  <2>10. ~restated /\ day # "none" /\ Queued(calls') \cap SheetListing = {} => Head(calls) \in Apt
    BY <1>s, <1>h, <2>1, <2>2 DEF SheetLists
  <2>11. SheetLists'
    BY <1>s, <2>1, <2>8, <2>9, <2>10 DEF SheetLists
  <2>12. Sheet!SlotIsOfChoice'
    BY <1>s, <2>1 DEF Sheet!SlotIsOfChoice
  <2>13. QED
    BY <1>o, <2>1, <2>4, <2>7, <2>11, <2>12 DEF SheetInv, Sheet!OneBookingPerSheet
<1>9. CASE Sheet!BookingRefused \/ Sheet!CheckoutCreated \/ Sheet!CheckoutFails
  <2>1. /\ calls # <<>> /\ Head(calls).name \in {"book", "checkout"} /\ calls' = Tail(calls)
        /\ UNCHANGED <<kind, sheetOpen, sheetStep, serviceId, staffId, day, sheetSlot, offered,
                       sheetOpening, sheetMade, restated>>
    BY <1>9 DEF Sheet!BookingRefused, Sheet!CheckoutCreated, Sheet!CheckoutFails, Sheet!Answered, Sheet!choice, Sheet!past
  <2>2. \/ Head(calls).name = "book" /\ sheetLeft' = sheetLeft /\ sheetUnpaid' = sheetUnpaid
        \/ sheetLeft' = TRUE /\ sheetUnpaid' = sheetUnpaid
        \/ sheetLeft' = sheetLeft /\ sheetUnpaid' = sheetUnpaid \cup {Head(calls).by}
    BY <1>9 DEF Sheet!BookingRefused, Sheet!CheckoutCreated, Sheet!CheckoutFails, Sheet!Answered, Sheet!past
  <2>3. /\ Head(calls) \in SheetBooking /\ Head(calls) \notin SheetListing /\ Head(calls).by \in Sheet!Opened
        /\ Queued(calls') \cap SheetBooking = {}
    BY <1>h, <1>w, <2>1
  <2>b. sheetLeft' \in BOOLEAN
    BY <1>b, <2>2
  <2>4. sheetUnpaid \subseteq sheetUnpaid' /\ sheetUnpaid' \in SUBSET Sheet!Opened
    BY <1>t, <2>2, <2>3
  <2>5. Sheet!TypeOK'
    BY <1>t, <1>b, <1>h, <1>T, <2>b, <2>1, <2>4
  <2>6. sheetOpen /\ ~sheetLeft' /\ sheetOpening \notin sheetUnpaid' => ~(sheetMade[sheetOpening] > 0)
    <3>1. SUFFICES ASSUME sheetOpen, ~sheetLeft', sheetOpening \notin sheetUnpaid', sheetMade[sheetOpening] > 0 PROVE FALSE
      OBVIOUS
    <3>2. ~sheetLeft /\ sheetOpening \notin sheetUnpaid
      BY <3>1, <2>2, <2>4
    <3>3. [name |-> "checkout", by |-> sheetOpening] \in Queued(calls)
      BY <1>k, <3>1, <3>2 DEF SheetBooks
    <3>4. sheetOpening \in Sheet!Opened
      BY <1>k, <1>t, <3>1 DEF SheetBooks
    <3>5. [name |-> "checkout", by |-> sheetOpening] \in SheetBooking
      BY <3>4 DEF SheetBooking
    <3>6. Head(calls) = [name |-> "checkout", by |-> sheetOpening]
      BY <1>h, <2>1, <2>3, <3>3, <3>5
    <3>7. Head(calls).name = "checkout" /\ Head(calls).by = sheetOpening
      BY <3>6
    <3>8. QED
      BY <2>2, <3>1, <3>7
  <2>7. SheetBooks'
    BY <1>k, <1>h, <2>1, <2>3, <2>4, <2>6 DEF SheetBooks
  <2>8. Apt' = Apt /\ (OfChoice(offered)' <=> OfChoice(offered)) /\ Queued(calls') \cap SheetListing = Queued(calls) \cap SheetListing
    BY <1>h, <2>1, <2>3 DEF OfChoice
  <2>9. ~restated /\ day # "none" => LastIn(calls', SheetListing, Apt)
    BY <1>s, <1>h, <2>1 DEF SheetLists
  <2>10. SheetLists'
    BY <1>s, <2>1, <2>8, <2>9 DEF SheetLists
  <2>11. Sheet!SlotIsOfChoice'
    BY <1>s, <2>1 DEF Sheet!SlotIsOfChoice
  <2>12. QED
    BY <1>o, <2>1, <2>4, <2>5, <2>7, <2>10, <2>11 DEF SheetInv, Sheet!OneBookingPerSheet
<1>m. ASSUME calls # <<>>, Head(calls).name = "book", Sheet!Made(Head(calls).by),
             sheetOpening' = sheetOpening, sheetUnpaid' = sheetUnpaid
      PROVE  /\ sheetMade' \in [Sheet!Opened -> 0 .. MaxMade] /\ Sheet!OneBookingPerSheet'
             /\ \A p \in Sheet!Opened : p # Head(calls).by => sheetMade'[p] = sheetMade[p]
             /\ Head(calls).by <= sheetOpening
             /\ \A p \in Sheet!Opened : p > sheetOpening => sheetMade'[p] = 0
  <2> DEFINE o == Head(calls).by
  <2>1. o \in Sheet!Opened /\ o \in Nat /\ Head(calls) \in Queued(calls) \cap SheetBooking
    BY <1>h, <1>w, <1>m
  <2>2. o <= sheetOpening /\ (o \notin sheetUnpaid => sheetMade[o] = 0)
    BY <1>k, <1>m, <2>1 DEF SheetBooks
  <2>3. sheetMade[o] < MaxMade /\ sheetMade' = [sheetMade EXCEPT ![o] = @ + 1]
    BY <1>m DEF Sheet!Made
  <2> HIDE DEF o
  <2>4. sheetMade'[o] = sheetMade[o] + 1 /\ \A p \in Sheet!Opened : p # o => sheetMade'[p] = sheetMade[p]
    BY <1>t, <2>1, <2>3
  <2>5. sheetMade[o] + 1 \in 0 .. MaxMade
    BY <1>t, <2>1, <2>3, ScreenAssumption
  <2>6. sheetMade' \in [Sheet!Opened -> 0 .. MaxMade]
    BY <1>t, <2>1, <2>3, <2>5
  <2>7. Sheet!OneBookingPerSheet'
    BY <1>m, <1>o, <2>1, <2>2, <2>4 DEF Sheet!OneBookingPerSheet
  <2>8. \A p \in Sheet!Opened : p > sheetOpening => sheetMade'[p] = 0
    BY <1>k, <1>o, <1>t, <2>1, <2>2, <2>4 DEF SheetBooks
  <2>9. QED
    BY <2>2, <2>4, <2>6, <2>7, <2>8 DEF o
<1>10. CASE Sheet!BookingMade
  <2>1. /\ calls # <<>> /\ Head(calls).name = "book" /\ Sheet!Made(Head(calls).by) /\ calls' = Tail(calls) /\ sheetOpen' = FALSE
        /\ UNCHANGED <<kind, sheetStep, serviceId, staffId, day, sheetSlot, offered, sheetLeft,
                       sheetOpening, sheetUnpaid, restated>>
    BY <1>10 DEF Sheet!BookingMade, Sheet!Answered, Sheet!choice
  <2>2. /\ sheetMade' \in [Sheet!Opened -> 0 .. MaxMade] /\ Sheet!OneBookingPerSheet'
        /\ \A p \in Sheet!Opened : p > sheetOpening => sheetMade'[p] = 0
    BY <1>m, <2>1
  <2>3. /\ Head(calls) \in SheetBooking /\ Head(calls) \notin SheetListing
        /\ Queued(calls') \cap SheetBooking = {}
    BY <1>h, <1>w, <2>1
  <2>4. Sheet!TypeOK'
    BY <1>t, <1>b, <1>h, <1>T, <2>1, <2>2
  <2>5. SheetBooks'
    BY <1>h, <2>1, <2>2, <2>3 DEF SheetBooks
  <2>6. Apt' = Apt /\ (OfChoice(offered)' <=> OfChoice(offered)) /\ Queued(calls') \cap SheetListing = Queued(calls) \cap SheetListing
    BY <1>h, <2>1, <2>3 DEF OfChoice
  <2>7. ~restated /\ day # "none" => LastIn(calls', SheetListing, Apt)
    BY <1>s, <1>h, <2>1 DEF SheetLists
  <2>8. SheetLists'
    BY <1>s, <2>1, <2>6, <2>7 DEF SheetLists
  <2>9. Sheet!SlotIsOfChoice'
    BY <1>s, <2>1 DEF Sheet!SlotIsOfChoice
  <2>10. QED
    BY <2>2, <2>4, <2>5, <2>8, <2>9 DEF SheetInv
<1>11. CASE Sheet!BookingHeld
  <2> DEFINE c == [Head(calls) EXCEPT !.name = "checkout"]
  <2>1. /\ calls # <<>> /\ Head(calls).name = "book" /\ Sheet!Made(Head(calls).by) /\ calls' = Append(Tail(calls), c)
        /\ UNCHANGED <<kind, sheetOpen, sheetStep, serviceId, staffId, day, sheetSlot, offered, sheetLeft,
                       sheetOpening, sheetUnpaid, restated>>
    BY <1>11 DEF Sheet!BookingHeld, Sheet!Answered, Sheet!choice
  <2>2. /\ sheetMade' \in [Sheet!Opened -> 0 .. MaxMade] /\ Sheet!OneBookingPerSheet'
        /\ \A p \in Sheet!Opened : p # Head(calls).by => sheetMade'[p] = sheetMade[p]
        /\ Head(calls).by <= sheetOpening
        /\ \A p \in Sheet!Opened : p > sheetOpening => sheetMade'[p] = 0
    BY <1>m, <2>1
  <2>3. /\ Head(calls) \in SheetBooking /\ Head(calls) \notin SheetListing
        /\ Queued(Tail(calls)) \cap SheetBooking = {} /\ Head(calls).by \in Sheet!Opened
    BY <1>h, <1>w, <2>1
  <2>4. c = [name |-> "checkout", by |-> Head(calls).by]
    BY <2>3 DEF SheetBooking
  <2>5. c \in SheetBooking /\ c \in SheetCall /\ c \notin SheetListing /\ c.by = Head(calls).by /\ c.name = "checkout"
    BY <2>3, <2>4 DEF SheetBooking, SheetListing
  <2> HIDE DEF c
  <2>6. /\ calls' \in Seq(SheetCall) /\ Queued(calls') = Queued(Tail(calls)) \cup {c} /\ Once(calls', SheetBooking)
        /\ \A S : LastIn(calls, SheetListing, S) => LastIn(calls', SheetListing, S)
    <3>1. /\ Tail(calls) \in Seq(SheetCall) /\ Once(Tail(calls), SheetBooking)
          /\ \A S : LastIn(calls, SheetListing, S) => LastIn(Tail(calls), SheetListing, S)
      BY <1>h, <2>1
    <3>2. QED
      BY <2>1, <2>3, <2>5, <3>1, QueueAppend
  <2>7. Sheet!TypeOK'
    BY <1>t, <1>b, <1>T, <2>1, <2>2, <2>6
  <2>8. \A m \in Queued(calls') \cap SheetBooking : m = c
    BY <2>3, <2>6
  <2>9. sheetOpen /\ ~sheetLeft /\ sheetOpening \notin sheetUnpaid /\ sheetMade'[sheetOpening] > 0 =>
          [name |-> "checkout", by |-> sheetOpening] \in Queued(calls')
    <3>1. CASE sheetOpening = Head(calls).by
      BY <2>4, <2>6, <3>1
    <3>2. CASE sheetOpening # Head(calls).by
      <4>1. SUFFICES ASSUME sheetOpen, ~sheetLeft, sheetOpening \notin sheetUnpaid, sheetMade'[sheetOpening] > 0 PROVE FALSE
        OBVIOUS
      <4>2. sheetOpening \in Sheet!Opened
        BY <1>k, <1>t, <4>1 DEF SheetBooks
      <4>3. sheetMade[sheetOpening] > 0
        BY <2>2, <3>2, <4>1, <4>2
      <4>4. [name |-> "checkout", by |-> sheetOpening] \in Queued(calls) \cap SheetBooking
        BY <1>k, <4>1, <4>2, <4>3 DEF SheetBooks, SheetBooking
      <4>5. Head(calls) = [name |-> "checkout", by |-> sheetOpening]
        BY <1>h, <2>1, <2>3, <4>4
      <4>6. QED
        BY <3>2, <4>5
    <3>3. QED
      BY <3>1, <3>2
  <2>10. SheetBooks'
    BY <1>k, <2>1, <2>2, <2>5, <2>6, <2>8, <2>9 DEF SheetBooks
  <2>11. Apt' = Apt /\ (OfChoice(offered)' <=> OfChoice(offered)) /\ Queued(calls') \cap SheetListing = Queued(calls) \cap SheetListing
    BY <1>h, <2>1, <2>3, <2>5, <2>6 DEF OfChoice
  <2>12. SheetLists'
    BY <1>s, <2>1, <2>6, <2>11 DEF SheetLists
  <2>13. Sheet!SlotIsOfChoice'
    BY <1>s, <2>1 DEF Sheet!SlotIsOfChoice
  <2>14. QED
    BY <2>2, <2>7, <2>10, <2>12, <2>13 DEF SheetInv
<1>12. QED
  BY <1>1, <1>2, <1>3, <1>4, <1>5, <1>6, <1>7, <1>8, <1>9, <1>10, <1>11 DEF Sheet!Next

(* The booking sheet, from its first state on. *)
LEMMA SheetBridge ==
  /\ Sheet!Init => SheetInv
  /\ SheetInv /\ UNCHANGED sheet => SheetInv'
  /\ SheetInv => Sheet!TypeOK /\ Sheet!OneBookingPerSheet /\ Sheet!SlotIsOfChoice
<1>1. ASSUME Sheet!Init PROVE SheetInv
  <2>1. Sheet!TypeOK
    <3>1. sheetOpen \in BOOLEAN /\ sheetLeft \in BOOLEAN /\ restated \in BOOLEAN
      BY <1>1 DEF Sheet!Init
    <3>2. /\ kind \in {"manual", "own"} /\ sheetStep = "setup" /\ serviceId = "none" /\ staffId = "none" /\ day = "none"
          /\ sheetSlot = Sheet!NoSlot /\ offered = Sheet!NoSlot /\ calls = <<>> /\ sheetOpening = 0
          /\ sheetMade = [o \in Sheet!Opened |-> 0] /\ sheetUnpaid = {}
      BY <1>1 DEF Sheet!Init, Sheet!None
    <3>3. sheetMade \in [Sheet!Opened -> 0 .. MaxMade]
      BY <3>2, ScreenAssumption
    <3>4. QED
      BY <3>1, <3>2, <3>3 DEF Sheet!TypeOK, Sheet!None
  <2>2. Queued(calls) = {} /\ \A K, S : Once(calls, K) /\ LastIn(calls, K, S)
    BY <1>1, QueueEmpty DEF Sheet!Init
  <2>3. \A o \in Sheet!Opened : sheetMade[o] = 0
    BY <1>1 DEF Sheet!Init
  <2>4. ~sheetOpen /\ day = "none" /\ sheetSlot = Sheet!NoSlot
    BY <1>1 DEF Sheet!Init, Sheet!None
  <2>5. QED
    BY <2>1, <2>2, <2>3, <2>4 DEF SheetInv, SheetBooks, SheetLists, Sheet!OneBookingPerSheet, Sheet!SlotIsOfChoice
<1>2. ASSUME SheetInv, UNCHANGED sheet PROVE SheetInv'
  <2>1. UNCHANGED <<kind, sheetOpen, sheetStep, serviceId, staffId, day, sheetSlot, offered, calls,
                    sheetLeft, sheetOpening, sheetMade, sheetUnpaid, restated>>
    BY <1>2 DEF sheet
  <2>2. Sheet!TypeOK'
    BY <1>2, <2>1 DEF SheetInv, Sheet!TypeOK
  <2>3. {c \in SheetListing : OfChoice(c.about)}' = {c \in SheetListing : OfChoice(c.about)}
        /\ (OfChoice(offered)' <=> OfChoice(offered))
    BY <2>1 DEF OfChoice
  <2>4. SheetLists'
    BY <1>2, <2>1, <2>3 DEF SheetInv, SheetLists
  <2>5. Sheet!OneBookingPerSheet' /\ SheetBooks' /\ Sheet!SlotIsOfChoice'
    BY <1>2, <2>1 DEF SheetInv, Sheet!OneBookingPerSheet, SheetBooks, Sheet!SlotIsOfChoice
  <2>6. QED
    BY <2>2, <2>4, <2>5 DEF SheetInv
<1>3. QED
  BY <1>1, <1>2 DEF SheetInv

-----------------------------------------------------------------------------
LEMMA AwaitedIs ==
  ASSUME waiting \in Seq(DetailCall), NEW k
  PROVE  Detail!Awaited(k) <=> \E c \in Queued(waiting) : c.kind = k
BY QueueIndices DEF Detail!Awaited, Queued

(* A field is emptied, typed over or left before an answer comes, or the   *)
(* answer is of what it shows.                                             *)
LEMMA DetailStep == DetailInv /\ Detail!Next => DetailInv'
<1> SUFFICES ASSUME DetailInv, Detail!Next PROVE DetailInv'
  OBVIOUS
<1>0. /\ contact \in {"blank", "invalid", "valid"} /\ couponCode \in Code \cup {"blank"}
      /\ appliedCoupon \in Code \cup {"blank"} /\ referencePhotos \in 0 .. 3 /\ waiting \in Seq(DetailCall)
  BY DEF DetailInv, Detail!TypeOK, Detail!Blank, DetailCall, Detail!MaxReferencePhotos
<1>b. sheetShown \in BOOLEAN /\ sendingPhotos \in BOOLEAN /\ typedOver \in BOOLEAN /\ touched \in BOOLEAN
  BY DEF DetailInv, Detail!TypeOK
<1>i. (appliedCoupon # "blank" /\ ~typedOver => appliedCoupon = couponCode) /\ DetailAwaits
  BY DEF DetailInv, Detail!AppliedIsTyped, Detail!Blank
<1>w. \A k : Detail!Awaited(k) <=> \E c \in Queued(waiting) : c.kind = k
  BY <1>0, AwaitedIs
<1>c. \A c \in Queued(waiting) : c \in DetailCall
  BY <1>0, QueueIndices DEF Queued
<1>t. ASSUME contact' \in {"blank", "invalid", "valid"}, couponCode' \in Code \cup {"blank"},
             appliedCoupon' \in Code \cup {"blank"}, referencePhotos' \in 0 .. 3, waiting' \in Seq(DetailCall),
             sheetShown' \in BOOLEAN, sendingPhotos' \in BOOLEAN, typedOver' \in BOOLEAN, touched' \in BOOLEAN
      PROVE  Detail!TypeOK'
  BY <1>t DEF Detail!TypeOK, Detail!Blank, DetailCall, Detail!MaxReferencePhotos
<1>1. CASE Detail!Reopen \/ \E code \in Code \cup {"blank"} : Detail!TypeCode(code)
  <2>1. /\ contact' \in {"blank", contact} /\ couponCode' \in Code \cup {"blank"} /\ appliedCoupon' = "blank"
        /\ referencePhotos' \in {0, referencePhotos} /\ typedOver' = Detail!Awaited("coupon")
        /\ touched' = TRUE /\ UNCHANGED <<waiting, sendingPhotos>>
    BY <1>1 DEF Detail!Reopen, Detail!TypeCode, Detail!Blank
  <2>2. sheetShown' \in BOOLEAN /\ typedOver' \in BOOLEAN
    BY <1>1, <1>b, <2>1 DEF Detail!Reopen, Detail!TypeCode, Detail!Awaited
  <2>3. Detail!TypeOK'
    BY <1>0, <1>b, <1>t, <2>1, <2>2
  <2>4. DetailAwaits'
    BY <1>w, <2>1 DEF DetailAwaits
  <2>5. QED
    BY <2>1, <2>3, <2>4 DEF DetailInv, Detail!AppliedIsTyped, Detail!Blank
<1>2. CASE \/ Detail!Close \/ \E entry \in {"blank", "invalid", "valid"} : Detail!FillIn(entry)
           \/ Detail!PhotosSent
  <2>1. /\ contact' \in {"blank", "invalid", "valid"}
        /\ UNCHANGED <<couponCode, appliedCoupon, referencePhotos, waiting, typedOver, touched>>
    BY <1>0, <1>2 DEF Detail!Close, Detail!FillIn, Detail!PhotosSent, Detail!Confirmed, Detail!past
  <2>2. sheetShown' \in BOOLEAN /\ sendingPhotos' \in BOOLEAN
    BY <1>2, <1>b DEF Detail!Close, Detail!FillIn, Detail!PhotosSent, Detail!Confirmed
  <2>3. Detail!TypeOK'
    BY <1>0, <1>b, <1>t, <2>1, <2>2
  <2>4. DetailAwaits'
    BY <1>i, <2>1 DEF DetailAwaits, Detail!Summary
  <2>5. QED
    BY <1>i, <2>1, <2>3, <2>4 DEF DetailInv, Detail!AppliedIsTyped, Detail!Blank
<1>3. CASE Detail!AddPhoto \/ Detail!RemovePhoto
  <2>1. /\ referencePhotos' \in 0 .. 3 /\ touched' = TRUE
        /\ UNCHANGED <<sheetShown, contact, couponCode, appliedCoupon, waiting, sendingPhotos, typedOver>>
    BY <1>0, <1>3 DEF Detail!AddPhoto, Detail!RemovePhoto, Detail!Room, Detail!MaxReferencePhotos
  <2>2. Detail!TypeOK'
    BY <1>0, <1>b, <1>t, <2>1
  <2>3. DetailAwaits'
    BY <1>i, <2>1 DEF DetailAwaits
  <2>4. QED
    BY <1>i, <2>1, <2>2, <2>3 DEF DetailInv, Detail!AppliedIsTyped, Detail!Blank
<1>4. CASE Detail!ApplyCoupon
  <2> DEFINE c == [kind |-> "coupon", with |-> [coupon |-> couponCode, photos |-> 0]]
  <2>1. /\ waiting' = Append(waiting, c) /\ typedOver' = FALSE /\ appliedCoupon = "blank" /\ ~Detail!Awaited("coupon")
        /\ UNCHANGED <<sheetShown, contact, couponCode, appliedCoupon, referencePhotos, sendingPhotos, touched>>
    BY <1>4 DEF Detail!ApplyCoupon, Detail!Blank, Detail!fields
  <2>2. c \in DetailCall /\ c \in Validation
    BY <1>0 DEF DetailCall, Validation
  <2>3. /\ waiting' \in Seq(DetailCall) /\ Queued(waiting') = Queued(waiting) \cup {c}
        /\ NoneBefore(waiting, Validation, DetailCall \ Validation) => NoneBefore(waiting', Validation, DetailCall \ Validation)
    BY <1>0, <2>1, <2>2, QueueAppend
  <2>4. Detail!TypeOK'
    BY <1>0, <1>b, <1>t, <2>1, <2>3
  <2>5. c.kind = "coupon" /\ c.with.coupon = couponCode
    OBVIOUS
  <2> HIDE DEF c
  <2>6. DetailAwaits'
    BY <1>i, <1>w, <2>1, <2>3, <2>5 DEF DetailAwaits, Detail!Summary
  <2>7. QED
    BY <2>1, <2>4, <2>6 DEF DetailInv, Detail!AppliedIsTyped, Detail!Blank
<1>5. CASE Detail!Confirm
  <2> DEFINE c == [kind |-> "booking", with |-> Detail!Summary]
  <2>1. /\ waiting' = Append(waiting, c) /\ touched' = Detail!Awaited("coupon") /\ ~Detail!Awaited("booking")
        /\ UNCHANGED <<sheetShown, contact, couponCode, appliedCoupon, referencePhotos, sendingPhotos, typedOver>>
    BY <1>5 DEF Detail!Confirm, Detail!Ready, Detail!fields
  <2>2. c \in DetailCall
    BY <1>0 DEF DetailCall, Detail!Summary
  <2>3. /\ waiting' \in Seq(DetailCall) /\ Queued(waiting') = Queued(waiting) \cup {c}
        /\ NoneBefore(waiting, Validation, DetailCall \ Validation) /\ Queued(waiting) \cap Validation = {}
             => NoneBefore(waiting', Validation, DetailCall \ Validation)
    BY <1>0, <2>1, <2>2, QueueAppend
  <2>b. touched' \in BOOLEAN
    BY <2>1 DEF Detail!Awaited
  <2>4. Detail!TypeOK'
    BY <1>0, <1>b, <1>t, <2>1, <2>3, <2>b
  <2>5. c.kind = "booking" /\ c.with = Detail!Summary
    OBVIOUS
  <2> HIDE DEF c
  <2>6. ASSUME ~touched' PROVE NoneBefore(waiting', Validation, DetailCall \ Validation)
    <3>1. Queued(waiting) \cap Validation = {}
      BY <1>w, <2>1, <2>6 DEF Validation
    <3>2. QED
      BY <2>3, <3>1, QueueWithout
  <2>7. \A k \in Queued(waiting') : k.kind = "booking" => k.with = Detail!Summary'
    BY <1>w, <2>1, <2>3, <2>5 DEF Detail!Summary
  <2>8. DetailAwaits'
    BY <1>i, <2>1, <2>3, <2>5, <2>6, <2>7 DEF DetailAwaits
  <2>9. QED
    BY <1>i, <2>1, <2>4, <2>8 DEF DetailInv, Detail!AppliedIsTyped, Detail!Blank
<1>6. CASE Detail!CouponValid \/ Detail!CouponRefused \/ Detail!Made \/ Detail!Refused
  <2>1. /\ waiting # <<>> /\ waiting' = Tail(waiting)
        /\ UNCHANGED <<contact, couponCode, referencePhotos, typedOver, touched>>
    BY <1>6 DEF Detail!CouponValid, Detail!CouponRefused, Detail!Made, Detail!Refused, Detail!Answers, Detail!Confirmed,
         Detail!fields, Detail!past
  <2>2. /\ waiting' \in Seq(DetailCall) /\ Head(waiting) \in DetailCall
        /\ Queued(waiting) = {Head(waiting)} \cup Queued(waiting')
        /\ NoneBefore(waiting, Validation, DetailCall \ Validation) =>
             /\ NoneBefore(waiting', Validation, DetailCall \ Validation)
             /\ Head(waiting) \in Validation => Queued(waiting') \cap (DetailCall \ Validation) = {}
    BY <1>0, <2>1, QueueTail
  <2>3. sheetShown' \in BOOLEAN /\ sendingPhotos' \in BOOLEAN
    <3>1. CASE Detail!CouponValid \/ Detail!CouponRefused \/ Detail!Refused
      BY <1>b, <3>1 DEF Detail!CouponValid, Detail!CouponRefused, Detail!Refused, Detail!fields
    <3>2. CASE Detail!Made
      <4>1. sendingPhotos' = (Head(waiting).with.photos > 0)
        BY <3>2 DEF Detail!Made
      <4>2. sendingPhotos' \in BOOLEAN
        BY <4>1
      <4>3. sheetShown' \in {FALSE, sheetShown}
        BY <3>2 DEF Detail!Made, Detail!Confirmed, Detail!fields
      <4>4. QED
        BY <1>b, <4>2, <4>3
    <3>3. QED
      BY <1>6, <3>1, <3>2
  <2>4. \/ Head(waiting).kind = "coupon" /\ appliedCoupon' \in {"blank", appliedCoupon, Head(waiting).with.coupon}
        \/ UNCHANGED appliedCoupon
    BY <1>6 DEF Detail!CouponValid, Detail!CouponRefused, Detail!Made, Detail!Refused, Detail!Answers, Detail!Confirmed,
         Detail!fields, Detail!Blank
  <2>5. appliedCoupon' \in Code \cup {"blank"}
    BY <1>0, <2>2, <2>4 DEF DetailCall
  <2>6. Detail!TypeOK'
    BY <1>0, <1>b, <1>t, <2>1, <2>2, <2>3, <2>5
  <2>7. appliedCoupon' # "blank" /\ ~typedOver => appliedCoupon' = couponCode
    BY <1>i, <2>2, <2>4 DEF DetailAwaits
  <2>8. ASSUME ~touched, NEW k \in Queued(waiting'), k.kind = "booking" PROVE k.with = Detail!Summary'
    <3>1. k.with = Detail!Summary
      BY <1>i, <2>2, <2>8 DEF DetailAwaits
    <3>2. CASE UNCHANGED appliedCoupon
      BY <2>1, <3>1, <3>2 DEF Detail!Summary
    <3>3. CASE Head(waiting).kind = "coupon"
      <4>1. Head(waiting) \in Validation
        BY <2>2, <3>3 DEF Validation
      <4>2. k \in DetailCall \ Validation
        BY <1>c, <2>2, <2>8 DEF Validation
      <4>3. QED
        BY <1>i, <2>2, <2>8, <4>1, <4>2 DEF DetailAwaits
    <3>4. QED
      BY <2>4, <3>2, <3>3
  <2>9. DetailAwaits'
    BY <1>i, <2>1, <2>2, <2>8 DEF DetailAwaits
  <2>10. QED
    BY <2>1, <2>6, <2>7, <2>9 DEF DetailInv, Detail!AppliedIsTyped, Detail!Blank
<1>7. QED
  BY <1>1, <1>2, <1>3, <1>4, <1>5, <1>6 DEF Detail!Next, Detail!Blank

(* The details begin blank, with nothing awaited. *)
LEMMA DetailBridge ==
  /\ Detail!Init => DetailInv
  /\ DetailInv /\ UNCHANGED detail => DetailInv'
  /\ DetailInv => Detail!TypeOK /\ Detail!AppliedIsTyped /\ Detail!SentIsShown
<1>1. ASSUME Detail!Init PROVE DetailInv
  <2>1. sheetShown \in BOOLEAN /\ sendingPhotos \in BOOLEAN /\ typedOver \in BOOLEAN /\ touched \in BOOLEAN
    BY <1>1 DEF Detail!Init
  <2>2. Detail!TypeOK
    BY <1>1, <2>1 DEF Detail!Init, Detail!TypeOK, Detail!Blank, Detail!MaxReferencePhotos
  <2>3. DetailAwaits
    BY <1>1, QueueEmpty DEF Detail!Init, DetailAwaits
  <2>4. QED
    BY <1>1, <2>2, <2>3 DEF Detail!Init, DetailInv, Detail!AppliedIsTyped
<1>2. ASSUME DetailInv, UNCHANGED detail PROVE DetailInv'
  <2>1. UNCHANGED <<sheetShown, contact, couponCode, appliedCoupon, referencePhotos, waiting, sendingPhotos, typedOver, touched>>
    BY <1>2 DEF detail
  <2>2. Detail!TypeOK'
    BY <1>2, <2>1 DEF DetailInv, Detail!TypeOK
  <2>3. DetailAwaits'
    BY <1>2, <2>1 DEF DetailInv, DetailAwaits, Detail!Summary
  <2>4. QED
    BY <1>2, <2>1, <2>2, <2>3 DEF DetailInv, Detail!AppliedIsTyped
<1>3. ASSUME DetailInv PROVE Detail!SentIsShown
  <2>1. waiting \in Seq(DetailCall)
    BY <1>3 DEF DetailInv, Detail!TypeOK, Detail!Blank, DetailCall, Detail!MaxReferencePhotos
  <2>2. \A i \in DOMAIN waiting : waiting[i] \in Queued(waiting)
    BY <2>1, QueueIndices DEF Queued
  <2>3. QED
    BY <1>3, <2>2 DEF DetailInv, DetailAwaits, Detail!SentIsShown
<1>4. QED
  BY <1>1, <1>2, <1>3 DEF DetailInv

-----------------------------------------------------------------------------
(* What is submitted is called once, and answered before more is.          *)
LEMMA SigningStep == SigningInv /\ Found!Next => SigningInv'
<1> SUFFICES ASSUME SigningInv, Found!Next PROVE SigningInv'
  OBVIOUS
<1>0. Found!TypeOK /\ (formStep = 2 => slug # "none") /\ OneAtATime
  BY DEF SigningInv
<1>t. /\ formStep \in 1 .. 2 /\ filled \in BOOLEAN /\ dpaAccepted \in BOOLEAN /\ hurried \in BOOLEAN
      /\ slug \in Found!Slug \cup {"none"} /\ createdSlug \in Found!Slug \cup {"none"}
      /\ claim \in {"none", "open", "claimed"}
      /\ visitor \in Seq(Found!Slug) /\ asked \in Seq(Found!Slug)
      /\ shops \subseteq [slug : Found!Slug, whole : BOOLEAN] /\ taken \subseteq Found!Slug
  BY <1>0 DEF Found!TypeOK, Found!None
<1>1. CASE \/ Found!FillIn \/ Found!NextStep \/ Found!Back \/ Found!AcceptDpa
           \/ \E name \in DOMAIN Found!Slugify : Found!Rename(name)
           \/ \E s \in Found!Slug : Found!EditSlug(s) \/ Found!TakenElsewhere(s)
  <2>1. filled' \in BOOLEAN /\ dpaAccepted' \in BOOLEAN
    BY <1>1, <1>t DEF Found!FillIn, Found!NextStep, Found!Back, Found!AcceptDpa, Found!Rename, Found!EditSlug,
         Found!TakenElsewhere, Found!fields
  <2>2. UNCHANGED <<createdSlug, visitor, asked, claim, shops, hurried>>
    BY <1>1 DEF Found!FillIn, Found!NextStep, Found!Back, Found!AcceptDpa, Found!Rename, Found!EditSlug,
         Found!TakenElsewhere, Found!world
  <2>3. taken' \subseteq Found!Slug
    BY <1>1, <1>t DEF Found!FillIn, Found!NextStep, Found!Back, Found!AcceptDpa, Found!Rename, Found!EditSlug,
         Found!TakenElsewhere, Found!world
  <2>4. \A name \in DOMAIN Found!Slugify : Found!Slugify[name] \in Found!Slug \ {"none"}
    BY DEF Found!Slugify, Found!Slug
  <2>5. formStep' \in 1 .. 2 /\ slug' \in Found!Slug \cup {"none"} /\ (formStep' = 2 => slug' # "none")
    BY <1>0, <1>1, <1>t, <2>4 DEF Found!FillIn, Found!NextStep, Found!Back, Found!AcceptDpa, Found!Rename, Found!EditSlug,
         Found!TakenElsewhere, Found!At, Found!None, Found!fields
  <2>6. Found!TypeOK'
    BY <1>t, <2>1, <2>2, <2>3, <2>5 DEF Found!TypeOK, Found!None
  <2>7. OneAtATime'
    BY <1>0, <2>2 DEF OneAtATime
  <2>8. QED
    BY <2>5, <2>6, <2>7 DEF SigningInv
<1>2. CASE Found!Submit
  <2>1. /\ formStep = 2 /\ createdSlug = "none" /\ asked = <<>> /\ visitor' = Append(visitor, slug)
        /\ hurried' = (hurried \/ visitor # <<>>)
        /\ UNCHANGED <<formStep, slug, filled, dpaAccepted, createdSlug, asked, claim, shops, taken>>
    BY <1>2 DEF Found!Submit, Found!At, Found!Pending, Found!None, Found!fields, Found!world
  <2>2. slug \in Found!Slug
    BY <1>0, <1>t, <2>1
  <2>3. Found!TypeOK'
    BY <1>t, <2>1, <2>2 DEF Found!TypeOK, Found!None
  <2>4. ASSUME ~hurried' PROVE Len(visitor') + Len(asked') <= 1
    <3>1. visitor = <<>>
      BY <1>t, <2>1, <2>4
    <3>2. Len(visitor') = 1 /\ Len(asked') = 0
      BY <1>t, <2>1, <2>2, <3>1
    <3>3. QED
      BY <3>2
  <2>5. OneAtATime'
    BY <1>0, <2>1, <2>4 DEF OneAtATime
  <2>6. QED
    BY <1>0, <2>1, <2>3, <2>5 DEF SigningInv
<1>3. CASE Found!Execute
  <2>1. /\ visitor # <<>> /\ asked' = Append(asked, Head(visitor)) /\ visitor' = Tail(visitor)
        /\ UNCHANGED <<formStep, slug, filled, dpaAccepted, createdSlug, claim, shops, taken, hurried>>
    BY <1>3 DEF Found!Execute, Found!fields, Found!world
  <2>2. /\ visitor' \in Seq(Found!Slug) /\ asked' \in Seq(Found!Slug)
        /\ Len(visitor') + Len(asked') = Len(visitor) + Len(asked)
    BY <1>t, <2>1
  <2>3. Found!TypeOK'
    BY <1>t, <2>1, <2>2 DEF Found!TypeOK, Found!None
  <2>4. OneAtATime'
    BY <1>0, <2>1, <2>2 DEF OneAtATime
  <2>5. QED
    BY <1>0, <2>1, <2>3, <2>4 DEF SigningInv
<1>4. CASE Found!Refused \/ Found!Created \/ Found!FailsHalfway
  <2>1. /\ asked # <<>> /\ asked' = Tail(asked) /\ Head(asked) \in Found!Slug
        /\ asked' \in Seq(Found!Slug) /\ Len(asked') = Len(asked) - 1
        /\ UNCHANGED <<formStep, slug, filled, dpaAccepted, visitor, hurried, taken>>
    <3>1. Found!Answered /\ UNCHANGED taken
      BY <1>4 DEF Found!Refused, Found!Created, Found!FailsHalfway, Found!Creates, Found!world
    <3>2. asked # <<>> /\ asked' = Tail(asked) /\ UNCHANGED <<formStep, slug, filled, dpaAccepted, visitor, hurried, taken>>
      BY <3>1 DEF Found!Answered, Found!fields
    <3>3. Head(asked) \in Found!Slug /\ Tail(asked) \in Seq(Found!Slug) /\ Len(Tail(asked)) = Len(asked) - 1
      BY <1>t, <3>2
    <3>4. QED
      BY <3>2, <3>3
  <2>2. claim' \in {"none", "open", "claimed"}
    BY <1>4, <1>t DEF Found!Refused, Found!Created, Found!FailsHalfway, Found!Claimed, Found!world
  <2>3. \/ Found!Created /\ createdSlug' = Head(asked) /\ shops' = shops \cup {[slug |-> Head(asked), whole |-> TRUE]}
        \/ createdSlug' = createdSlug /\ shops' \in {shops, shops \cup {[slug |-> Head(asked), whole |-> FALSE]}}
    BY <1>4 DEF Found!Refused, Found!Created, Found!FailsHalfway, Found!Creates, Found!world
  <2>4. Found!TypeOK'
    <3>1. shops' \subseteq [slug : Found!Slug, whole : BOOLEAN] /\ createdSlug' \in Found!Slug \cup {"none"}
      <4>1. [slug |-> Head(asked), whole |-> TRUE] \in [slug : Found!Slug, whole : BOOLEAN]
            /\ [slug |-> Head(asked), whole |-> FALSE] \in [slug : Found!Slug, whole : BOOLEAN]
        BY <2>1
      <4>2. QED
        BY <1>t, <2>1, <2>3, <4>1
    <3>2. QED
      BY <1>t, <2>1, <2>2, <3>1 DEF Found!TypeOK, Found!None
  <2>5. ASSUME ~hurried PROVE visitor' = <<>> /\ asked' = <<>> /\ \A o \in shops : ~o.whole
    <3>1. Len(visitor) + Len(asked) <= 1 /\ \A o \in shops : o.whole => asked = <<>>
      BY <1>0, <2>5 DEF OneAtATime
    <3>2. QED
      BY <1>t, <2>1, <3>1
  <2>6. OneAtATime'
    <3> SUFFICES ASSUME ~hurried PROVE OneAtATime'
      BY <2>1 DEF OneAtATime
    <3>1. Len(visitor') + Len(asked') <= 1
      BY <2>5
    <3>2. createdSlug' # "none" \/ \A o \in shops' : ~o.whole
      BY <2>1, <2>3, <2>5 DEF Found!Slug
    <3>3. \A o, p \in shops' : o.whole /\ p.whole => o = p
      BY <2>3, <2>5
    <3>4. QED
      BY <2>5, <3>1, <3>2, <3>3 DEF OneAtATime
  <2>7. QED
    BY <1>0, <2>1, <2>4, <2>6 DEF SigningInv
<1>5. QED
  BY <1>1, <1>2, <1>3, <1>4 DEF Found!Next

(* A set of which all members are one has one member at most. *)
LEMMA OneMember ==
  ASSUME NEW S, \A x, y \in S : x = y
  PROVE  Cardinality(S) \in 0 .. 1
<1>1. CASE S = {}
  BY <1>1, FS_EmptySet
<1>2. CASE S # {}
  <2>1. PICK x \in S : TRUE
    BY <1>2
  <2>2. S = {x}
    BY <2>1
  <2>3. QED
    BY <2>2, FS_Singleton
<1>3. QED
  BY <1>1, <1>2

LEMMA SigningBridge ==
  /\ Found!Init => SigningInv
  /\ SigningInv /\ UNCHANGED signing => SigningInv'
  /\ SigningInv => Found!TypeOK /\ Found!OneShopPerWizard
<1>1. ASSUME Found!Init PROVE SigningInv
  <2>1. filled \in BOOLEAN /\ dpaAccepted \in BOOLEAN /\ hurried \in BOOLEAN
    BY <1>1 DEF Found!Init
  <2>2. formStep \in 1 .. 2
    BY <1>1 DEF Found!Init
  <2>3. Found!TypeOK
    BY <1>1, <2>1, <2>2 DEF Found!Init, Found!TypeOK, Found!None
  <2>4. QED
    BY <1>1, <2>3 DEF Found!Init, SigningInv, OneAtATime
<1>2. ASSUME SigningInv, UNCHANGED signing PROVE SigningInv'
  BY <1>2 DEF signing, SigningInv, OneAtATime, Found!TypeOK
<1>3. ASSUME SigningInv PROVE Found!OneShopPerWizard
  <2> DEFINE whole == {o \in shops : o.whole}
  <2>1. Found!Cardinality(whole) = Cardinality(whole)
    BY DEF Found!Cardinality, Cardinality
  <2>2. ~hurried => \A o, p \in whole : o = p
    BY <1>3 DEF SigningInv, OneAtATime
  <2>3. ~hurried => Cardinality(whole) \in 0 .. 1
    BY <2>2, OneMember
  <2>4. QED
    BY <1>3, <2>1, <2>3 DEF Found!OneShopPerWizard, SigningInv, Found!TypeOK
<1>4. QED
  BY <1>1, <1>2, <1>3 DEF SigningInv

-----------------------------------------------------------------------------
LEMMA RowAsColumns ==
  ASSUME NEW r \in Edit!Row
  PROVE  r = Columns(Column, r)
BY DEF Edit!Row, Columns, Column

LEMMA ColumnsOverColumns ==
  ASSUME NEW r, NEW S, NEW T
  PROVE  Edit!Over(Columns(S, r), Columns(T, r)) = Columns(S \cup T, r)
BY DEF Edit!Over, Columns

LEMMA ColumnsOfOne ==
  ASSUME NEW r
  PROVE  /\ Edit!Nothing = Columns({}, r)
         /\ \A k : Edit!Only(k, r[k]) = Columns({k}, r)
         /\ [text |-> r.text] = Columns({"text"}, r)
         /\ [links |-> r.links] = Columns({"links"}, r)
         /\ [special |-> r.special] = Columns({"special"}, r)
         /\ [links |-> r.links, mode |-> r.mode] = Columns({"links", "mode"}, r)
         /\ [mode |-> r.mode, links |-> r.links, text |-> r.text] = Columns({"links", "mode", "text"}, r)
         /\ [text |-> r.text, links |-> r.links, active |-> r.active] = Columns({"links", "text", "active"}, r)
         /\ [mode |-> r.mode, special |-> r.special, active |-> r.active] = Columns({"mode", "special", "active"}, r)
BY DEF Edit!Nothing, Edit!Only, Columns

LEMMA OverARow ==
  ASSUME NEW r \in Edit!Row, NEW i \in Input
  PROVE  Edit!Over(i, r) \in Edit!Row
<1>1. PICK S \in SUBSET Column, q \in Edit!Row : i = Columns(S, q)
  BY DEF Input
<1> DEFINE m == [text |-> IF "text" \in S THEN q.text ELSE r.text,
                 links |-> IF "links" \in S THEN q.links ELSE r.links,
                 mode |-> IF "mode" \in S THEN q.mode ELSE r.mode,
                 plain |-> IF "plain" \in S THEN q.plain ELSE r.plain,
                 special |-> IF "special" \in S THEN q.special ELSE r.special,
                 active |-> IF "active" \in S THEN q.active ELSE r.active]
<1>2. m \in Edit!Row
  BY DEF Edit!Row
<1>3. Edit!Over(i, r) = [k \in Column |-> IF k \in S THEN q[k] ELSE r[k]]
  BY <1>1 DEF Edit!Over, Columns, Column, Edit!Row
<1>4. m = [k \in Column |-> IF k \in S THEN q[k] ELSE r[k]]
  BY DEF Column
<1>5. QED
  BY <1>2, <1>3, <1>4

(* The fields of a form, as columns of the row it would save.              *)
AsRow(f) ==
  [text |-> f.text, links |-> IF entity = "coupon" THEN Edit!ForServices(f) ELSE f.links, mode |-> f.mode,
   plain |-> f.number, special |-> f.number, active |-> f.active]

(* The columns it saves. *)
Written(f) ==
  LET Named == IF f.text = "none" THEN {} ELSE {"text"}
      Extra == IF f.mode = "special" THEN {"special"} ELSE {}
  IN  CASE entity = "staff" -> {"links", "mode"} \cup ({f.mode} \cup Named)
        [] entity = "service" -> {"links", "mode"} \cup Extra
        [] entity = "coupon" -> {"links", "mode", "text"}
        [] entity = "customer" -> {"links", "text", "active"}
        [] entity = "hours" -> {"links"}
        [] entity = "rules" -> {"mode", "special", "active"}
        [] entity = "impressum" -> Named

(* A form tells what it sends, and maybe that a text is empty. *)
LEMMA FormTells ==
  ASSUME entity \in Edit!Entity \ {"member"}, NEW f \in Edit!Fields
  PROVE  /\ Edit!FormInput(f) \in Input
         /\ Edit!Tells(f) \in Input
         /\ Told(Edit!FormInput(f), Edit!Tells(f), Vain)
<1> DEFINE r == AsRow(f)
           Named == IF f.text = "none" THEN {} ELSE {"text"}
           Extra == IF f.mode = "special" THEN {"special"} ELSE {}
<1>1. r \in Edit!Row
  BY DEF Edit!Row, Edit!Fields, AsRow, Edit!ForServices, Edit!Link
<1>2. /\ r.text = f.text /\ r.mode = f.mode /\ r.active = f.active /\ r.special = f.number
      /\ r[f.mode] = f.number /\ f.mode \in {"plain", "special"}
      /\ entity # "coupon" => r.links = f.links
      /\ entity = "coupon" => r.links = Edit!ForServices(f)
  BY DEF AsRow, Edit!Fields, Edit!Mode
<1>3. Edit!OrUndefined(f.text) = Columns(Named, r)
  BY <1>2, ColumnsOfOne DEF Edit!OrUndefined
<1>4. Edit!Only(f.mode, f.number) = Columns({f.mode}, r)
  <2>1. Edit!Only(f.mode, r[f.mode]) = Columns({f.mode}, r)
    BY ColumnsOfOne
  <2>2. QED
    BY <2>1, <1>2
<1>5. (IF f.mode = "special" THEN [special |-> f.number] ELSE Edit!Nothing) = Columns(Extra, r)
  BY <1>2, ColumnsOfOne
<1>6. Edit!FormInput(f) = Columns(Written(f), r)
  <2>1. CASE entity = "staff"
    <3>1. Edit!Over(Edit!Only(f.mode, f.number), Edit!OrUndefined(f.text)) = Columns({f.mode} \cup Named, r)
      BY <1>3, <1>4, ColumnsOverColumns
    <3>2. [links |-> f.links, mode |-> f.mode] = Columns({"links", "mode"}, r)
      BY <2>1, <1>2, ColumnsOfOne
    <3>3. Edit!StaffInput(f) = Columns({"links", "mode"} \cup ({f.mode} \cup Named), r)
      BY <3>1, <3>2, ColumnsOverColumns DEF Edit!StaffInput
    <3>4. QED
      BY <2>1, <3>3 DEF Written, Edit!FormInput
  <2>2. CASE entity = "service"
    <3>1. [links |-> f.links, mode |-> f.mode] = Columns({"links", "mode"}, r)
      BY <2>2, <1>2, ColumnsOfOne
    <3>2. Edit!ServiceInput(f) = Columns({"links", "mode"} \cup Extra, r)
      BY <3>1, <1>5, ColumnsOverColumns DEF Edit!ServiceInput
    <3>3. QED
      BY <2>2, <3>2 DEF Written, Edit!FormInput
  <2>3. CASE entity \in {"coupon", "customer", "hours", "rules"}
    BY <2>3, <1>2, ColumnsOfOne DEF Written, Edit!FormInput, Edit!CouponInput, Edit!CustomerInput, Edit!HoursInput,
       Edit!RulesInput
  <2>4. CASE entity = "impressum"
    BY <2>4, <1>3 DEF Written, Edit!FormInput, Edit!ImpressumInput
  <2>5. QED
    BY <2>1, <2>2, <2>3, <2>4 DEF Edit!Entity
<1> DEFINE showing == IF Vain THEN Written(f) \cup {"text"} ELSE Written(f)
<1>7. Edit!Tells(f) = Columns(showing, r)
  <2> DEFINE plain == Edit!Editable[entity] \cap {"text", "links", "mode", "active"}
             numbers == IF entity = "staff" THEN {f.mode}
                        ELSE IF entity = "rules" \/ (entity = "service" /\ f.mode = "special") THEN {"special"} ELSE {}
  <2>1. [k \in plain |-> IF k = "links" /\ entity = "coupon" THEN Edit!ForServices(f) ELSE f[k]] = Columns(plain, r)
    BY DEF Columns, AsRow
  <2>2. (IF entity = "staff" THEN Edit!Only(f.mode, f.number)
         ELSE IF entity = "rules" \/ (entity = "service" /\ f.mode = "special") THEN [special |-> f.number]
         ELSE Edit!Nothing) = Columns(numbers, r)
    BY <1>2, <1>4, ColumnsOfOne
  <2>3. Edit!Tells(f) = Columns(plain \cup numbers, r)
    BY <2>1, <2>2, ColumnsOverColumns DEF Edit!Tells
  <2>4. plain \cup numbers = showing
    BY <1>2 DEF Vain, Written, Edit!Editable, Edit!Entity, Edit!StaffFields, Edit!ServiceFields, Edit!CouponFields,
       Edit!CustomerFields, Edit!HoursFields, Edit!RulesFields, Edit!ImpressumFields
  <2>5. QED
    BY <2>3, <2>4
<1>8. Written(f) \in SUBSET Column /\ showing \in SUBSET Column
  BY <1>2 DEF Written, Column, Edit!Entity
<1>9. Written(f) \subseteq showing /\ \A k \in showing \ Written(f) : k = "text" /\ f.text = "none" /\ Vain
  <2>1. Vain /\ f.text # "none" => "text" \in Written(f)
    BY DEF Vain, Written
  <2>2. QED
    BY <2>1
<1>10. Told(Columns(Written(f), r), Columns(showing, r), Vain)
  <2>1. /\ DOMAIN Columns(Written(f), r) = Written(f) /\ \A k \in Written(f) : Columns(Written(f), r)[k] = r[k]
        /\ DOMAIN Columns(showing, r) = showing /\ \A k \in showing : Columns(showing, r)[k] = r[k]
    BY DEF Columns
  <2> HIDE DEF showing, r
  <2>2. QED
    BY <1>2, <1>9, <2>1 DEF Told
<1>11. QED
  BY <1>1, <1>6, <1>7, <1>8, <1>10 DEF Input

(* An input is a function on columns; one that is switched is a column. *)
LEMMA InputDomain ==
  /\ \A i \in Input : DOMAIN i \subseteq Column
  /\ \A v \in BOOLEAN : [active |-> v] \in Input
  /\ \A m \in Edit!Mode : [mode |-> m] \in Input
<1>1. \A i \in Input : DOMAIN i \subseteq Column
  BY DEF Input, Columns
<1>2. ASSUME NEW v \in BOOLEAN, NEW m \in Edit!Mode
      PROVE  [active |-> v] \in Input /\ [mode |-> m] \in Input
  <2> DEFINE r == [text |-> "text", links |-> Edit!Link, mode |-> m, plain |-> 1, special |-> 1, active |-> v]
  <2>1. r \in Edit!Row
    BY <1>2 DEF Edit!Row, Edit!Text
  <2>2. [active |-> v] = Columns({"active"}, r) /\ [mode |-> m] = Columns({"mode"}, r)
    BY DEF Columns
  <2>3. QED
    BY <2>1, <2>2 DEF Input, Column
<1>3. QED
  BY <1>1, <1>2 DEF Edit!Mode

(* Saving an input and telling what was told of it go together.            *)
LEMMA ToldOverARow ==
  ASSUME NEW r \in Edit!Row, NEW s \in Edit!Row, NEW i \in Input, NEW t \in Input, NEW vain \in BOOLEAN, Told(i, t, vain),
         \A k \in Column : r[k] = s[k] \/ (k = "text" /\ vain /\ s["text"] = "none")
  PROVE  \A k \in Column :
           \/ Edit!Over(i, r)[k] = Edit!Over(t, s)[k]
           \/ k = "text" /\ vain /\ Edit!Over(t, s)["text"] = "none"
<1>1. DOMAIN r = Column /\ DOMAIN s = Column /\ DOMAIN i \subseteq Column /\ DOMAIN t \subseteq Column
  BY InputDomain DEF Edit!Row, Column
<1>2. \A k \in Column :
        /\ Edit!Over(i, r)[k] = (IF k \in DOMAIN i THEN i[k] ELSE r[k])
        /\ Edit!Over(t, s)[k] = (IF k \in DOMAIN t THEN t[k] ELSE s[k])
  BY <1>1 DEF Edit!Over
<1>3. "text" \in Column
  BY DEF Column
<1>4. QED
  BY <1>1, <1>2, <1>3 DEF Told

(* What is said of a row, but for a text that is emptied in vain *)
Alike(r, s) == \A k \in Column : r[k] = s[k] \/ (k = "text" /\ Vain /\ s["text"] = "none")

LEMMA AlikeIs == row \in Edit!Row => (Edit!SavedAsSaid <=> Alike(row, said))
BY DEF Alike, Vain, Column, Edit!Row, Edit!SavedAsSaid, Edit!EmptiedInVain

(* The last answer leaves the row as the forms have said. *)
LEMMA EditStep == EditInv /\ Edit!Next => EditInv'
<1> SUFFICES ASSUME EditInv, NEW b \in Call,
               \/ Edit!OpenForm(b) \/ Edit!CloseForm(b) \/ Edit!Submit(b)
               \/ Edit!ToggleStaff(b) \/ Edit!ToggleService(b) \/ Edit!ToggleCoupon(b)
               \/ \E m \in Edit!Mode : Edit!SelectRole(b, m)
               \/ Edit!UpdateStaff(b) \/ Edit!UpdateService(b) \/ Edit!UpdateCoupon(b) \/ Edit!UpdateCustomer(b)
               \/ Edit!UpdateRole(b) \/ Edit!SetHours(b) \/ Edit!SaveRules(b) \/ Edit!UpdateImpressum(b)
               \/ Edit!Refuse(b)
               \/ Edit!Visit(b)
             PROVE EditInv'
  BY DEF Edit!Next
<1>1. /\ entity \in Edit!Entity /\ row \in Edit!Row /\ page \in [Call -> Edit!Row]
      /\ form \in [Call -> Edit!Fields \cup {Edit!NoForm}] /\ sent \in [Call -> Seq(Update)]
      /\ inputs \in 0 .. MaxSent /\ said \in Edit!Row
      /\ entity = "member" => form = [c \in Call |-> Edit!NoForm]
  BY DEF EditInv, Edit!TypeOK
<1>s. Alike(row, said)
  BY <1>1, AlikeIs DEF EditInv
(* What is sent is known by its type. *)
<1>2. ASSUME entity' = entity, row' \in Edit!Row, page' \in [Call -> Edit!Row],
             form' \in [Call -> Edit!Fields \cup {Edit!NoForm}], sent' \in [Call -> Seq(Update)],
             inputs' \in 0 .. MaxSent, said' \in Edit!Row, Alike(row', said'),
             entity = "member" => form' = [c \in Call |-> Edit!NoForm]
      PROVE  EditInv'
  <2>1. ASSUME NEW c \in Call, NEW i \in DOMAIN sent'[c] PROVE DOMAIN sent'[c][i].input \subseteq DOMAIN row'
    <3>1. sent'[c][i] \in Update
      BY <1>2, <2>1
    <3>2. sent'[c][i].input \in Input
      BY <3>1 DEF Update
    <3>3. DOMAIN row' = Column
      BY <1>2 DEF Edit!Row, Column
    <3>4. QED
      BY <3>2, <3>3, InputDomain
  <2>2. Edit!TypeOK'
    BY <1>1, <1>2, <2>1 DEF Edit!TypeOK
  <2>3. Edit!SavedAsSaid'
    BY <1>2 DEF Alike, Vain, Column, Edit!Row, Edit!SavedAsSaid, Edit!EmptiedInVain
  <2>4. Update' = Update
    BY <1>2 DEF Update, Vain
  <2>5. QED
    BY <1>2, <2>2, <2>3, <2>4 DEF EditInv
<1>3. CASE Edit!OpenForm(b)
  <2>1. Edit!FirstForm(page[b]) \in Edit!Fields
    <3>1. page[b] \in Edit!Row
      BY <1>1
    <3>2. QED
      BY <3>1 DEF Edit!FirstForm, Edit!StaffForm, Edit!Common, Edit!Fields, Edit!Row, Edit!Mode
  <2>2. QED
    BY <1>1, <1>s, <1>2, <1>3, <2>1 DEF Edit!OpenForm
<1>4. CASE Edit!CloseForm(b)
  <2> DEFINE unmounted == [i \in DOMAIN sent[b] |-> IF sent[b][i].from = "form" THEN [sent[b][i] EXCEPT !.from = "gone"]
                                                    ELSE sent[b][i]]
  <2>1. ASSUME NEW u \in Update PROVE [u EXCEPT !.from = "gone"] \in Update
    <3>1. /\ u = [from |-> u.from, input |-> u.input, tells |-> u.tells]
          /\ u.input \in Input /\ u.tells \in Input /\ Told(u.input, u.tells, Vain)
      BY <2>1 DEF Update
    <3>2. [u EXCEPT !.from = "gone"] = [from |-> "gone", input |-> u.input, tells |-> u.tells]
      BY <3>1
    <3>3. QED
      BY <3>1, <3>2 DEF Update
  <2>2. sent[b] \in Seq(Update) /\ DOMAIN sent[b] = 1 .. Len(sent[b]) /\ Len(sent[b]) \in Nat
    BY <1>1
  <2>3. \A i \in 1 .. Len(sent[b]) : unmounted[i] \in Update
    BY <2>1, <2>2
  <2>4. unmounted \in Seq(Update)
    <3>1. unmounted \in [1 .. Len(sent[b]) -> Update]
      BY <2>2, <2>3
    <3>2. QED
      BY <3>1, <2>2
  <2>5. QED
    BY <1>1, <1>s, <1>2, <1>4, <2>4 DEF Edit!CloseForm
<1>5. ASSUME NEW from \in {"form", "switch"}, NEW i \in Input, NEW t \in Input, Told(i, t, Vain), Edit!Send(b, from, i, t)
      PROVE  sent' \in [Call -> Seq(Update)] /\ inputs' \in 0 .. MaxSent
  <2>1. [from |-> from, input |-> i, tells |-> t] \in Update
    BY <1>5 DEF Update
  <2>2. QED
    BY <1>1, <1>5, <2>1, ScreenAssumption DEF Edit!Send
<1>6. CASE Edit!Submit(b)
  <2>1. form[b] \in Edit!Fields /\ entity # "member"
    BY <1>1, <1>6 DEF Edit!Submit
  <2>2. PICK f \in Edit!Edits(form[b]) :
          form' = [form EXCEPT ![b] = f] /\ Edit!Send(b, "form", Edit!FormInput(f), Edit!Tells(f))
    BY <1>6 DEF Edit!Submit
  <2>3. f \in Edit!Fields
    BY <2>1, <2>2 DEF Edit!Edits, Edit!Fields
  <2>4. Edit!FormInput(f) \in Input /\ Edit!Tells(f) \in Input /\ Told(Edit!FormInput(f), Edit!Tells(f), Vain)
    BY <1>1, <2>1, <2>3, FormTells
  <2>5. sent' \in [Call -> Seq(Update)] /\ inputs' \in 0 .. MaxSent
    BY <2>2, <2>4, <1>5
  <2>6. QED
    BY <1>1, <1>s, <1>2, <1>6, <2>1, <2>2, <2>3, <2>5 DEF Edit!Submit
<1>7. CASE \/ Edit!ToggleStaff(b) \/ Edit!ToggleService(b) \/ Edit!ToggleCoupon(b)
           \/ \E m \in Edit!Mode : Edit!SelectRole(b, m)
  <2>1. PICK i \in Input : Edit!Send(b, "switch", i, i)
    <3>1. page[b].active \in BOOLEAN
      BY <1>1 DEF Edit!Row
    <3>2. Edit!ToggleInput(b) \in Input
      BY <3>1, InputDomain DEF Edit!ToggleInput
    <3>3. QED
      BY <1>7, <3>2, InputDomain DEF Edit!ToggleStaff, Edit!ToggleService, Edit!ToggleCoupon, Edit!Toggle, Edit!SelectRole
  <2>2. sent' \in [Call -> Seq(Update)] /\ inputs' \in 0 .. MaxSent
    <3>1. Told(i, i, Vain)
      BY DEF Told
    <3>2. QED
      BY <2>1, <3>1, <1>5
  <2>3. UNCHANGED <<entity, row, page, form, said>>
    BY <1>7 DEF Edit!ToggleStaff, Edit!ToggleService, Edit!ToggleCoupon, Edit!Toggle, Edit!SelectRole
  <2>4. QED
    BY <1>1, <1>s, <1>2, <2>2, <2>3
<1>8. CASE \/ Edit!UpdateStaff(b) \/ Edit!UpdateService(b) \/ Edit!UpdateCoupon(b) \/ Edit!UpdateCustomer(b)
           \/ Edit!UpdateRole(b) \/ Edit!SetHours(b) \/ Edit!SaveRules(b) \/ Edit!UpdateImpressum(b)
  <2>1. Edit!Save(b)
    BY <1>8 DEF Edit!UpdateStaff, Edit!UpdateService, Edit!UpdateCoupon, Edit!UpdateCustomer,
         Edit!UpdateRole, Edit!SetHours, Edit!SaveRules, Edit!UpdateImpressum
  <2> DEFINE call == Head(sent[b])
  <2>2. call \in Update /\ Tail(sent[b]) \in Seq(Update)
    BY <1>1, <2>1 DEF Edit!Save
  <2>3. call.input \in Input /\ call.tells \in Input /\ Told(call.input, call.tells, Vain)
    BY <2>2 DEF Update
  <2> HIDE DEF call
  <2>o. row' = Edit!Over(call.input, row) /\ said' = Edit!Over(call.tells, said)
    BY <2>1 DEF Edit!Save, call
  <2>4. row' \in Edit!Row /\ said' \in Edit!Row
    BY <1>1, <2>o, <2>3, OverARow
  <2>a. Alike(row', said')
    <3>1. \A k \in Column : row[k] = said[k] \/ (k = "text" /\ Vain /\ said["text"] = "none")
      BY <1>s DEF Alike
    <3>2. \A k \in Column :
            \/ Edit!Over(call.input, row)[k] = Edit!Over(call.tells, said)[k]
            \/ k = "text" /\ Vain /\ Edit!Over(call.tells, said)["text"] = "none"
      <4>1. Vain \in BOOLEAN
        BY DEF Vain
      <4>2. QED
        BY <1>1, <2>3, <3>1, <4>1, ToldOverARow
    <3>3. QED
      BY <2>o, <3>2 DEF Alike
  <2>5. /\ page' = [page EXCEPT ![b] = row'] /\ sent' = [sent EXCEPT ![b] = Tail(@)]
        /\ form' \in {form, [form EXCEPT ![b] = Edit!NoForm]} /\ UNCHANGED <<entity, inputs>>
    BY <2>1 DEF Edit!Save
  <2>6. QED
    BY <1>1, <1>2, <2>2, <2>4, <2>5, <2>a
<1>9. CASE Edit!Refuse(b)
  <2>1. Tail(sent[b]) \in Seq(Update)
    BY <1>1, <1>9 DEF Edit!Refuse
  <2>2. QED
    BY <1>1, <1>s, <1>2, <1>9, <2>1 DEF Edit!Refuse
<1>10. CASE Edit!Visit(b)
  BY <1>1, <1>s, <1>2, <1>10 DEF Edit!Visit
<1>11. QED
  BY <1>3, <1>4, <1>6, <1>7, <1>8, <1>9, <1>10

(* The forms begin closed, with nothing sent. *)
LEMMA EditBridge ==
  /\ Edit!Init => EditInv
  /\ EditInv /\ UNCHANGED edit => EditInv'
  /\ EditInv => Edit!TypeOK /\ Edit!SavedAsSaid
<1>1. ASSUME Edit!Init PROVE EditInv
  <2>1. row \in Edit!Row /\ inputs = 0 /\ said = row /\ entity \in Edit!Entity
    BY <1>1 DEF Edit!Init, Edit!Row, Edit!Text, Edit!Mode
  <2>2. /\ page \in [Call -> Edit!Row] /\ form = [b \in Call |-> Edit!NoForm]
        /\ sent = [b \in Call |-> <<>>]
    BY <1>1, <2>1 DEF Edit!Init
  <2>3. Edit!TypeOK
    BY <2>1, <2>2, ScreenAssumption DEF Edit!TypeOK
  <2>4. QED
    BY <2>1, <2>2, <2>3 DEF EditInv, Edit!SavedAsSaid
<1>2. ASSUME EditInv, UNCHANGED edit PROVE EditInv'
  BY <1>2 DEF edit, EditInv, Edit!TypeOK, Edit!SavedAsSaid, Edit!EmptiedInVain, Update, Vain
<1>3. QED
  BY <1>1, <1>2 DEF EditInv

-----------------------------------------------------------------------------
(* What a page of the shop was rendered for stays with it, and the         *)
(* Impressum is never taken back.                                          *)
LEMMA FrontStep == FrontInv /\ Front!Next => FrontInv'
<1> SUFFICES ASSUME Front!TypeOK, FrontShows, Front!Next PROVE Front!TypeOK' /\ FrontShows'
  BY DEF FrontInv
<1>1. CASE Front!FindCity \/ Front!OpenCity \/ Front!Discover
  <2>1. /\ place' \in {"cities", "directory", "app"} /\ display' \in {Front!Listing, "nothing"} /\ basis' = standing
        /\ UNCHANGED <<standing, published, german, impressum, category, guest, lastShop, served>>
    BY <1>1 DEF Front!FindCity, Front!OpenCity, Front!Discover, Front!Goes, Front!shopRow
  <2>2. Front!TypeOK'
    BY <2>1 DEF Front!TypeOK, Front!Listing, Front!Display
  <2>3. FrontShows'
    BY <2>1 DEF FrontShows, Front!Listing, Front!Eligible
  <2>4. QED
    BY <2>2, <2>3
<1>2. CASE Front!Choose \/ Front!Return \/ Front!Visit
  <2>1. /\ place' = "shop" /\ display' = Front!PublicPage /\ basis' = standing /\ lastShop' \in {TRUE, lastShop}
        /\ UNCHANGED <<standing, published, german, impressum, category, guest, served>>
    BY <1>2 DEF Front!Choose, Front!Return, Front!Visit, Front!Goes, Front!shopRow
  <2>2. /\ Front!PublicPage \in {"notFound", "trialExpired", "impressumRequired", "services", "quote"}
        /\ Front!PublicPage \in {"services", "quote"} => standing \in {"trial", "subscribed"} /\ ~(german /\ ~impressum)
    BY DEF Front!TypeOK, Front!PublicPage, Front!Standing
  <2>3. Front!TypeOK'
    BY <2>1, <2>2 DEF Front!TypeOK, Front!Display
  <2>4. FrontShows'
    BY <2>1, <2>2 DEF FrontShows
  <2>5. QED
    BY <2>3, <2>4
<1>3. CASE Front!OpenArea \/ Front!SignOut \/ \E who \in Front!Session : Front!SignIn(who)
  <2>1. /\ \/ place' = "account" /\ display' = "area" /\ guest' \in Front!Session \ {"none"}
           \/ place' = "away" /\ display' = "nothing" /\ guest' = "none"
        /\ basis' = standing
        /\ UNCHANGED <<standing, published, german, impressum, category, lastShop, served>>
    BY <1>3 DEF Front!OpenArea, Front!SignOut, Front!SignIn, Front!Goes, Front!shopRow, Front!TypeOK
  <2>2. Front!TypeOK'
    BY <2>1 DEF Front!TypeOK, Front!Display, Front!Session
  <2>3. FrontShows'
    BY <2>1 DEF FrontShows
  <2>4. QED
    BY <2>2, <2>3
<1>4. CASE Front!Book \/ Front!SubmitQuote
  <2>1. display \in {"services", "quote", "area"} /\ served' = served \cup {place}
        /\ UNCHANGED <<standing, published, german, impressum, category, guest, lastShop, place, display, basis>>
    BY <1>4 DEF Front!Book, Front!SubmitQuote, Front!Offered, Front!shopRow, Front!browser
  <2>2. Front!TypeOK'
    BY <2>1 DEF Front!TypeOK, FrontShows
  <2>3. FrontShows'
    BY <2>1 DEF FrontShows
  <2>4. QED
    BY <2>2, <2>3
<1>5. CASE Front!Stands("trial", "expired") \/ Front!Subscribe \/ Front!Stands("subscribed", "churned")
  <2>1. standing' \in Front!Standing
        /\ UNCHANGED <<published, german, impressum, category, guest, lastShop, place, display, basis, served>>
    BY <1>5 DEF Front!Subscribe, Front!Stands, Front!Standing, Front!browser
  <2>2. QED
    BY <2>1 DEF Front!TypeOK, FrontShows
<1>6. CASE Front!UpdateImpressum \/ Front!SetDirectoryListing \/ Front!UpdateCategory
  <2>1. /\ published' \in BOOLEAN /\ impressum' \in BOOLEAN /\ category' \in {"clock", "quote"}
        /\ impressum => impressum'
        /\ UNCHANGED <<standing, german, guest, lastShop, place, display, basis, served>>
    BY <1>6 DEF Front!UpdateImpressum, Front!SetDirectoryListing, Front!UpdateCategory, Front!TypeOK, Front!browser
  <2>2. Front!TypeOK'
    BY <2>1 DEF Front!TypeOK
  <2>3. FrontShows'
    BY <2>1 DEF FrontShows
  <2>4. QED
    BY <2>2, <2>3
<1>7. QED
  BY <1>1, <1>2, <1>3, <1>4, <1>5, <1>6 DEF Front!Next

(* A visitor begins with the invariant, which is all the properties need.  *)
LEMMA FrontBridge ==
  /\ Front!Init => FrontInv
  /\ FrontInv /\ UNCHANGED front => FrontInv'
  /\ FrontInv => Front!TypeOK /\ Front!OfferedIsAdmitted /\ Front!ImpressumFirst
<1>1. Front!Init => Front!TypeOK
  BY DEF Front!Init, Front!TypeOK, Front!Standing, Front!Session, Front!Display
<1>2. Front!Init => FrontShows
  BY DEF Front!Init, FrontShows
<1>3. FrontInv /\ UNCHANGED front => FrontInv'
  BY DEF front, FrontInv, FrontShows, Front!TypeOK
<1>4. ASSUME FrontInv PROVE Front!OfferedIsAdmitted
  <2> SUFFICES ASSUME basis = standing
               PROVE  /\ display = "listed" => Front!PublicPage # "notFound"
                      /\ \A c \in Front!Offered :
                           \/ Front!Admits(c)
                           \/ c = "createCustomerBooking" /\ guest = "customer"
                           \/ place = "account" /\ standing \in {"expired", "churned"}
    BY DEF Front!OfferedIsAdmitted
  <2>1. display = "listed" => Front!PublicPage # "notFound"
    BY <1>4 DEF FrontInv, FrontShows, Front!PublicPage
  <2>2. ASSUME NEW c \in Front!Offered
        PROVE  \/ Front!Admits(c)
               \/ c = "createCustomerBooking" /\ guest = "customer"
               \/ place = "account" /\ standing \in {"expired", "churned"}
    <3>1. display \in {"services", "quote", "area"}
          /\ (c = "createCustomerBooking" => display # "quote" /\ guest # "none")
      BY <1>4, <2>2 DEF FrontInv, FrontShows, Front!Offered, Front!BookingAction
    <3>2. guest \in {"none", "customer", "member"} /\ standing \in {"trial", "expired", "subscribed", "churned"}
      BY <1>4 DEF FrontInv, Front!TypeOK, Front!Standing, Front!Session
    <3>3. QED
      BY <1>4, <3>1, <3>2 DEF FrontInv, FrontShows, Front!Admits, Front!PublicAdmits, Front!CustomerAdmits
  <2>3. QED
    BY <2>1, <2>2
<1>5. FrontInv => Front!ImpressumFirst
  BY DEF FrontInv, FrontShows, Front!ImpressumFirst
<1>6. QED
  BY <1>1, <1>2, <1>3, <1>4, <1>5 DEF FrontInv

-----------------------------------------------------------------------------
(* Where a page redirects to, as things stand, has a lower rank, unless    *)
(* the person is torn between the dashboard and the settings.              *)
LEMMA RanksFall ==
  ASSUME Visit!TypeOK, NEW l \in Visit!Page(at) \cup Visit!Layout(at)
  PROVE  l \in Visit!Location \cup {Visit!Away} /\ (~Torn => Rank(l) < Rank(at))
<1>1. at \in Visit!Location \cup {Visit!Away}
  BY DEF Visit!TypeOK
<1>2. at = [host |-> at.host, path |-> at.path] /\ at.host \in {"root", "app", "shop", "other"}
  BY <1>1 DEF Visit!Location, Visit!Away, Visit!On, Visit!Host
<1> DEFINE L(h, p) == [host |-> h, path |-> p]
<1>3. /\ Visit!Home(at) = L(at.host, "/") /\ Visit!Home(at) \in Visit!Location \cup {Visit!Away}
      /\ Rank(Visit!Home(at)) = 0
  BY <1>2 DEF Visit!Home, Visit!On, Visit!Location, Visit!Away, Visit!Host, Rank
<1>4. /\ Visit!First \in Visit!Location \cup {Visit!Away}
      /\ Rank(Visit!First) \in {0, 3}
  BY DEF Visit!First, Visit!Shop, Visit!On, Visit!Location, Visit!Away, Visit!Host, Rank, Visit!Reserved, Visit!Dashboard
<1>5. CASE at.path \in Visit!Dashboard
  <2>1. at.host \in {"root", "shop"}
    BY <1>1, <1>5 DEF Visit!Location, Visit!Away, Visit!On, Visit!Host, Visit!Dashboard, Visit!Account
  <2>2. Rank(at) \in {1, 2, 3, 4}
    BY <1>5 DEF Visit!Dashboard, Rank
  <2>3. CASE l = Visit!Home(at)
    BY <2>2, <2>3, <1>3
  <2>4. CASE l # Visit!Home(at) /\ l \in Visit!Layout(at)
    <3>1. l = L("shop", "/dashboard/settings") /\ at.path # "/dashboard/settings"
          /\ (~Torn => role \in {"owner", "manager"})
      BY <2>4 DEF Visit!Layout, Visit!DashboardLayout, Torn, Visit!On, Visit!Exempt
    <3>2. ~Torn => Rank(l) = 1 /\ Rank(at) \in {2, 3, 4}
      BY <3>1, <1>5 DEF Rank, Visit!Dashboard
    <3>3. l \in Visit!Location
      BY <3>1 DEF Visit!Location, Visit!Reserved, Visit!Dashboard, Visit!On
    <3>4. QED
      BY <3>2, <3>3
  <2>5. CASE l # Visit!Home(at) /\ l \in Visit!Page(at)
    <3>1. \/ at.path = "/dashboard" /\ l = L("shop", "/dashboard/agenda")
          \/ /\ at.path \in {"/dashboard/services", "/dashboard/settings", "/dashboard/billing", "/dashboard/messages"}
             /\ at.path = "/dashboard/settings" => role \notin {"owner", "manager"}
             /\ l = L("shop", "/dashboard")
      BY <2>5, <1>5, <2>1 DEF Visit!Page, Visit!DashboardPage, Visit!Dashboard, Visit!Overview, Visit!Agenda,
           Visit!Catalog, Visit!Settings, Visit!Billing, Visit!Messages, Visit!Guarded, Visit!On
    <3>2. l \in Visit!Location
      BY <3>1 DEF Visit!Location, Visit!Reserved, Visit!Dashboard, Visit!On
    <3>3. Rank(l) < Rank(at)
      BY <3>1 DEF Rank
    <3>4. QED
      BY <3>2, <3>3
  <2>6. QED
    BY <2>3, <2>4, <2>5
<1>6. CASE at.path \in {"/sign-in", "/sign-up", "/onboarding"}
  <2>1. at.host \in {"root", "shop"}
    BY <1>1, <1>6 DEF Visit!Location, Visit!Away, Visit!On, Visit!Host, Visit!Dashboard, Visit!Account
  <2>2. \/ l = Visit!First
        \/ at.path = "/sign-up" /\ l = L(at.host, "/onboarding") /\ Visit!Known
        \/ at.path = "/onboarding" /\ l = L(at.host, "/sign-up") /\ ~Visit!Known
        \/ at.path = "/onboarding" /\ l = L(at.host, "/sign-in") /\ Visit!Known
    BY <1>6 DEF Visit!Page, Visit!Layout, Visit!Dashboard, Visit!SignIn, Visit!SignUp, Visit!Onboarding, Visit!On
  <2>3. Rank(at) \in {5, 6, 7}
    BY <1>6 DEF Rank
  <2>4. CASE l = Visit!First
    BY <2>3, <2>4, <1>4
  <2>5. CASE l # Visit!First
    <3>1. l \in Visit!Location
      BY <2>1, <2>2, <2>5 DEF Visit!Location, Visit!Reserved, Visit!On
    <3>2. Rank(l) < Rank(at)
      BY <2>2, <2>5 DEF Rank
    <3>3. QED
      BY <3>1, <3>2
  <2>6. QED
    BY <2>4, <2>5
<1>7. CASE at.path \in {"/account", "/account/sign-in", "/superadmin"}
  <2>1. at.path \in Visit!Account => at.host \in {"app", "shop"}
    BY <1>1 DEF Visit!Location, Visit!Away, Visit!On, Visit!Host, Visit!Dashboard, Visit!Account, Visit!Reserved
  <2>2. \/ l = Visit!Home(at)
        \/ at.path = "/account" /\ l = L(at.host, "/account/sign-in") /\ ~Visit!Known
        \/ at.path = "/account/sign-in" /\ l = L(at.host, "/account") /\ Visit!Known
    BY <1>7, <1>2 DEF Visit!Page, Visit!Layout, Visit!Dashboard, Visit!AccountArea, Visit!AccountSignIn, Visit!Superadmin, Visit!On
  <2>3. Rank(at) \in {1, 2}
    BY <1>7 DEF Rank
  <2>4. CASE l = Visit!Home(at)
    BY <2>3, <2>4, <1>3
  <2>5. CASE l # Visit!Home(at)
    <3>1. l \in Visit!Location
      BY <2>1, <2>2, <2>5 DEF Visit!Location, Visit!Account, Visit!On
    <3>2. Rank(l) < Rank(at)
      BY <2>2, <2>5 DEF Rank
    <3>3. QED
      BY <3>1, <3>2
  <2>6. QED
    BY <2>4, <2>5
<1>8. CASE at.path \notin Visit!Dashboard \cup {"/sign-in", "/sign-up", "/onboarding", "/account", "/account/sign-in", "/superadmin"}
  BY <1>8 DEF Visit!Page, Visit!Layout
<1>9. QED
  BY <1>5, <1>6, <1>7, <1>8

(* A rank depends on the session and the role only. *)
LEMMA RankStays ==
  ASSUME session' = session, role' = role, NEW l, Rank(l) \in Nat
  PROVE  Rank(l)' = Rank(l)
BY DEF Rank, Visit!Known

LEMMA RankIsNat == ASSUME NEW l PROVE Rank(l) \in Nat
BY DEF Rank

(* The ranks of the pages that have redirected are above that of the page. *)
LEMMA VisitStep == VisitInv /\ Visit!Next => VisitInv'
<1> SUFFICES ASSUME VisitInv, Visit!Next PROVE VisitInv'
  OBVIOUS
<1> DEFINE Fresh == /\ Visit!TypeOK' /\ trail' = {}
                    /\ signedIn' => Visit!Known' \/ at'.path \in {"/onboarding?session_id", "/accept-invitation"}
<1>a. Fresh => VisitInv'
  BY DEF VisitInv
<1>b. /\ Visit!TypeOK
      /\ Torn \/ \A l \in trail : Rank(at) < Rank(l)
      /\ signedIn => Visit!Known \/ at.path \in {"/onboarding?session_id", "/accept-invitation"}
  BY DEF VisitInv
<1>c. \A h \in {"root", "shop"} : \A p \in Visit!Reserved : Visit!On(h, p) \in Visit!Location
  BY DEF Visit!Location
<1>d. \A h \in {"app", "shop"} : \A p \in Visit!Account : Visit!On(h, p) \in Visit!Location
  BY DEF Visit!Location
<1>e. at.path \in Visit!Account => at.host \in {"app", "shop"}
  BY <1>b DEF Visit!TypeOK, Visit!Location, Visit!Away, Visit!On, Visit!Host, Visit!Dashboard, Visit!Account, Visit!Reserved
<1>f. at.path \in Visit!Reserved => at.host \in {"root", "shop"}
  BY <1>b DEF Visit!TypeOK, Visit!Location, Visit!Away, Visit!On, Visit!Host, Visit!Dashboard, Visit!Account, Visit!Reserved
<1>1. CASE Visit!Redirect
  <2>1. /\ loading # "no" /\ at' \in Visit!Page(at) \cup Visit!Layout(at) /\ trail' = trail \cup {at}
        /\ due' \in {due, "running"} /\ (due = "over" => due' = "over") /\ (due # "over" => due' # "over")
        /\ UNCHANGED <<session, user, role, older, tickets, loading, asking, signedIn>>
    BY <1>1, <1>b DEF Visit!Redirect, Visit!LayoutRuns, Visit!LayoutSpared, Visit!TypeOK
  <2>2. PICK l \in Visit!Page(at) \cup Visit!Layout(at) : l = at'
    BY <2>1
  <2>3. Torn' = Torn
    BY <2>1 DEF Torn, Visit!NeedsFactor
  <2>4. at \in Visit!Location /\ at.path \notin {"/onboarding?session_id", "/accept-invitation"}
    BY <2>1, <1>b DEF Visit!TypeOK, Visit!Page, Visit!Layout, Visit!Dashboard, Visit!Away, Visit!On
  <2>5. CASE Torn
    <3>1. l \in Visit!Location \cup {Visit!Away}
      BY <1>b, RanksFall
    <3>2. Visit!TypeOK'
      BY <2>1, <2>2, <2>4, <3>1, <1>b DEF Visit!TypeOK
    <3>3. QED
      BY <2>5, <2>3, <3>2, <2>4, <2>1, <1>b DEF VisitInv, Visit!Known
  <2>6. CASE ~Torn
    <3>1. l \in Visit!Location \cup {Visit!Away} /\ Rank(l) < Rank(at)
      BY <2>6, <1>b, RanksFall
    <3>2. Visit!TypeOK'
      BY <2>1, <2>2, <2>4, <3>1, <1>b DEF Visit!TypeOK
    <3>3. Rank(at)' = Rank(l)
      BY <2>1, <2>2 DEF Rank, Visit!Known
    <3>4. ASSUME NEW m \in trail' PROVE Rank(at)' < Rank(m)'
      <4>1. Rank(m)' = Rank(m)
        BY <2>1, RankStays, RankIsNat
      <4>2. Rank(m) \in Nat /\ Rank(at) \in Nat /\ Rank(l) \in Nat
        BY RankIsNat
      <4>3. m = at \/ Rank(at) < Rank(m)
        BY <2>1, <2>6, <1>b
      <4>4. QED
        BY <4>1, <4>2, <4>3, <3>1, <3>3
    <3>5. QED
      BY <3>2, <3>4, <2>4, <2>1, <1>b DEF VisitInv, Visit!Known
  <2>7. QED
    BY <2>5, <2>6
<1>2. CASE Visit!Show
  <2>1. /\ due' \in {due, "running"} /\ (due = "over" <=> due' = "over") /\ loading' = "no"
        /\ UNCHANGED <<session, user, role, older, tickets, at, trail, asking, signedIn>>
    BY <1>2, <1>b DEF Visit!Show, Visit!LayoutRuns, Visit!LayoutSpared, Visit!TypeOK
  <2>2. Torn' = Torn
    BY <2>1 DEF Torn, Visit!NeedsFactor
  <2>3. Visit!TypeOK'
    BY <2>1, <1>b DEF Visit!TypeOK
  <2>4. ASSUME NEW m \in trail', ~Torn PROVE Rank(at)' < Rank(m)'
    <3>1. Rank(at)' = Rank(at) /\ Rank(m)' = Rank(m)
      BY <2>1 DEF Rank, Visit!Known
    <3>2. QED
      BY <3>1, <2>1, <2>4, <1>b
  <2>5. QED
    BY <2>1, <2>2, <2>3, <2>4, <1>b DEF VisitInv, Visit!Known
<1>3. CASE \/ \E l \in Visit!Location : Visit!Enter(l)
           \/ \E path \in Visit!Dashboard : Visit!Follow(path)
  <2>1. /\ at' \in Visit!Location /\ loading' \in {"full", "soft"} /\ trail' = {} /\ asking' = "password" /\ signedIn' = FALSE
        /\ UNCHANGED <<session, user, role, due, older, tickets>>
    BY <1>3, <1>c DEF Visit!Enter, Visit!Follow, Visit!Load, Visit!person, Visit!Reserved
  <2>2. Fresh
    BY <2>1, <1>b DEF Visit!TypeOK
  <2>3. QED
    BY <2>2, <1>a
<1>4. CASE \/ Visit!SubmitSignIn \/ Visit!SignInWithGoogle \/ Visit!SubmitSignUp \/ Visit!SignUpWithGoogle
           \/ Visit!SubmitAccount \/ Visit!AccountWithGoogle \/ Visit!VerifyCode
           \/ Visit!ClaimAccount \/ Visit!AcceptAuth
  <2> DEFINE Enters == /\ session' \in {"half", "full"}
                       /\ user' \in {user, [user EXCEPT !.known = TRUE]}
                       /\ at' \in Visit!Location \cup {Visit!Away}
                       /\ session' = "full" \/ at'.path \in {"/onboarding?session_id", "/accept-invitation"}
                       /\ loading' = "full" /\ trail' = {} /\ asking' = "password" /\ signedIn' = TRUE
                       /\ UNCHANGED <<role, due, older, tickets>>
             Asks == /\ session # "full" /\ session' = "half" /\ asking' = "code"
                     /\ at.path \notin {"/onboarding?session_id", "/accept-invitation"}
                     /\ UNCHANGED <<user, role, due, older, tickets, at, loading, trail, signedIn>>
  <2>1. ASSUME NEW path \in {"/sign-in", "/account/sign-in"}, at.path = path,
               session # "full", Visit!Password(path)
        PROVE  Enters \/ Asks
    <3>1. Visit!Leads(path) \in Visit!Location \cup {Visit!Away}
      BY <2>1, <1>b, <1>d, <1>e DEF Visit!Leads, Visit!Account, Visit!TypeOK
    <3>2. QED
      BY <2>1, <3>1 DEF Visit!Password, Visit!Succeed, Visit!Load, Visit!person
  <2>2. ASSUME NEW l \in Visit!Location, Visit!Google(l) PROVE Enters
    BY <2>2 DEF Visit!Google, Visit!Succeed, Visit!Load
  <2>3. ASSUME NEW l \in Visit!Location, Visit!Register, Visit!Succeed(l) PROVE Enters
    BY <2>3 DEF Visit!Register, Visit!Succeed, Visit!Load
  <2>4. ASSUME at.path \in {"/onboarding?session_id", "/accept-invitation"}, Visit!SignUpOrIn PROVE Enters
    BY <2>4, <1>b DEF Visit!SignUpOrIn, Visit!Register, Visit!Succeed, Visit!Load, Visit!person, Visit!TypeOK
  <2>5. Enters \/ Asks
    <3>1. CASE Visit!SubmitSignIn
      BY <3>1, <2>1 DEF Visit!SubmitSignIn, Visit!AskedToSignIn, Visit!Shown
    <3>2. CASE Visit!SignInWithGoogle \/ Visit!SignUpWithGoogle
      BY <3>2, <2>2, <1>c DEF Visit!SignInWithGoogle, Visit!SignUpWithGoogle, Visit!Reserved
    <3>3. CASE Visit!SubmitSignUp
      <4>1. Visit!On(at.host, "/onboarding") \in Visit!Location
        BY <3>3, <1>c, <1>f DEF Visit!SubmitSignUp, Visit!AskedToSignIn, Visit!Shown, Visit!Reserved
      <4>2. QED
        BY <3>3, <4>1, <2>3 DEF Visit!SubmitSignUp
    <3>4. CASE Visit!SubmitAccount \/ Visit!AccountWithGoogle
      <4>1. Visit!Leads("/account/sign-in") \in Visit!Location
        BY <3>4, <1>d, <1>e DEF Visit!AccountWithGoogle, Visit!SubmitAccount, Visit!AskedToSignIn, Visit!Shown,
             Visit!Leads, Visit!Account
      <4>2. CASE Visit!AccountWithGoogle
        BY <4>1, <4>2, <2>2 DEF Visit!AccountWithGoogle
      <4>3. CASE Visit!SubmitAccount
        BY <4>1, <4>3, <2>1, <2>3 DEF Visit!SubmitAccount, Visit!AskedToSignIn, Visit!Shown
      <4>4. QED
        BY <3>4, <4>2, <4>3
    <3>5. CASE Visit!VerifyCode
      <4>1. Visit!Leads(at.path) \in Visit!Location \cup {Visit!Away}
        BY <1>b, <1>d, <1>e DEF Visit!Leads, Visit!Account, Visit!TypeOK
      <4>2. QED
        BY <3>5, <4>1 DEF Visit!VerifyCode, Visit!Succeed, Visit!Load, Visit!person
    <3>6. CASE Visit!ClaimAccount \/ Visit!AcceptAuth
      BY <3>6, <2>4 DEF Visit!ClaimAccount, Visit!AcceptAuth, Visit!AskedToSignIn, Visit!Shown
    <3>7. QED
      BY <1>4, <3>1, <3>2, <3>3, <3>4, <3>5, <3>6
  <2>6. CASE Enters
    <3>1. user' \in [known : BOOLEAN, factor : BOOLEAN, super : BOOLEAN]
      BY <2>6, <1>b DEF Visit!TypeOK
    <3>2. Fresh
      BY <2>6, <3>1, <1>b DEF Visit!TypeOK, Visit!Known
    <3>3. QED
      BY <3>2, <1>a
  <2>7. CASE Asks
    <3>1. Visit!TypeOK' /\ Torn' = Torn /\ ~signedIn'
      BY <2>7, <1>b DEF Visit!TypeOK, Visit!Known, Torn, Visit!NeedsFactor
    <3>2. ASSUME NEW m \in trail', ~Torn PROVE Rank(at)' < Rank(m)'
      <4>1. Rank(at)' = Rank(at) /\ Rank(m)' = Rank(m)
        BY <2>7 DEF Rank, Visit!Known
      <4>2. QED
        BY <4>1, <2>7, <3>2, <1>b
    <3>3. QED
      BY <3>1, <3>2 DEF VisitInv
  <2>8. QED
    BY <2>5, <2>6, <2>7
<1>5. CASE Visit!InUse
  <2>1. asking' = "existing" /\ UNCHANGED <<session, user, role, due, older, tickets, at, loading, trail, signedIn>>
    BY <1>5 DEF Visit!InUse, Visit!person
  <2>2. Visit!TypeOK'
    BY <2>1, <1>b DEF Visit!TypeOK
  <2>3. Torn' = Torn
    BY <2>1 DEF Torn, Visit!NeedsFactor
  <2>4. ASSUME NEW m \in trail', ~Torn PROVE Rank(at)' < Rank(m)'
    <3>1. Rank(at)' = Rank(at) /\ Rank(m)' = Rank(m)
      BY <2>1 DEF Rank, Visit!Known
    <3>2. QED
      BY <3>1, <2>1, <2>4, <1>b
  <2>5. QED
    BY <2>1, <2>2, <2>3, <2>4, <1>b DEF VisitInv, Visit!Known
<1>6. CASE \/ Visit!SignOut \/ Visit!FoundShop \/ \E r \in Visit!Role : Visit!Join(r)
  <2>1. /\ session' \in {"none", session} /\ role' \in Visit!Role \cup {"none"} /\ due' \in {due, "unset", "running"}
        /\ tickets' \in [claim : BOOLEAN, invite : BOOLEAN]
        /\ at' \in Visit!Location /\ loading' = "full" /\ trail' = {} /\ asking' = "password" /\ signedIn' = FALSE
        /\ UNCHANGED <<user, older>>
    <3>1. CASE Visit!SignOut
      BY <3>1, <1>b, <1>c, <1>d, <1>e DEF Visit!SignOut, Visit!Load, Visit!person, Visit!Reserved, Visit!Account, Visit!TypeOK
    <3>2. CASE Visit!FoundShop
      BY <3>2, <1>b, <1>c DEF Visit!FoundShop, Visit!Load, Visit!Reserved, Visit!Dashboard, Visit!Role, Visit!TypeOK
    <3>3. CASE \E r \in Visit!Role : Visit!Join(r)
      BY <3>3, <1>b, <1>c DEF Visit!Join, Visit!Load, Visit!Shop, Visit!Reserved, Visit!Dashboard, Visit!TypeOK
    <3>4. QED
      BY <1>6, <3>1, <3>2, <3>3
  <2>2. Fresh
    BY <2>1, <1>b DEF Visit!TypeOK
  <2>3. QED
    BY <2>2, <1>a
<1>7. CASE \/ Visit!Security \/ \E r \in Visit!Role : Visit!ChangeRole(r)
           \/ Visit!Expire \/ Visit!DeadlinePasses \/ Visit!Remove
  <2>1. /\ user' \in [known : BOOLEAN, factor : BOOLEAN, super : BOOLEAN]
        /\ role' \in Visit!Role \cup {"none"} /\ due' \in {due, "unset", "over"}
        /\ \/ session' = "none" /\ signedIn' = FALSE
           \/ UNCHANGED <<session, signedIn>>
        /\ trail' = {} /\ UNCHANGED <<older, tickets, at, loading, asking>>
    BY <1>7, <1>b DEF Visit!Security, Visit!ChangeRole, Visit!Expire, Visit!DeadlinePasses, Visit!Remove,
         Visit!Meanwhile, Visit!person, Visit!TypeOK
  <2>2. /\ session' \in {"none", "half", "full"} /\ due' \in {"unset", "running", "over"} /\ signedIn' \in BOOLEAN
        /\ trail' \subseteq Visit!Location
    BY <2>1, <1>b DEF Visit!TypeOK
  <2>3. Visit!TypeOK'
    BY <2>1, <2>2, <1>b DEF Visit!TypeOK
  <2>4. signedIn' => Visit!Known' \/ at'.path \in {"/onboarding?session_id", "/accept-invitation"}
    BY <2>1, <1>b DEF Visit!Known
  <2>5. QED
    BY <2>1, <2>3, <2>4, <1>a
<1>8. QED
  BY <1>1, <1>2, <1>3, <1>4, <1>5, <1>6, <1>7 DEF Visit!Next

(* A person begins with the invariant.  A page has no rank below its own,  *)
(* and the two forms that let half a session through are excepted.         *)
LEMMA VisitBridge ==
  /\ Visit!Init => VisitInv
  /\ VisitInv /\ UNCHANGED visit => VisitInv'
  /\ VisitInv => Visit!TypeOK /\ Visit!NoRedirectLoop /\ Visit!SignedInIsSeen
<1>1. ASSUME Visit!Init PROVE VisitInv
  <2>1. Visit!On("root", "/") \in Visit!Location
    BY DEF Visit!Location, Visit!Host
  <2>2. Visit!TypeOK
    BY <1>1, <2>1 DEF Visit!Init, Visit!TypeOK
  <2>3. QED
    BY <1>1, <2>2 DEF Visit!Init, VisitInv
<1>2. ASSUME VisitInv, UNCHANGED visit PROVE VisitInv'
  <2>1. UNCHANGED <<session, user, role, due, older, tickets, at, loading, trail, asking, signedIn>>
    BY <1>2 DEF visit
  <2>2. Visit!TypeOK'
    BY <1>2, <2>1 DEF VisitInv, Visit!TypeOK
  <2>3. Torn' = Torn
    BY <2>1 DEF Torn, Visit!NeedsFactor
  <2>4. ASSUME NEW m \in trail', ~Torn PROVE Rank(at)' < Rank(m)'
    <3>1. Rank(at)' = Rank(at) /\ Rank(m)' = Rank(m)
      BY <2>1 DEF Rank, Visit!Known
    <3>2. QED
      BY <3>1, <2>1, <2>4, <1>2 DEF VisitInv
  <2>5. QED
    BY <1>2, <2>1, <2>2, <2>3, <2>4 DEF VisitInv, Visit!Known
<1>3. ASSUME VisitInv PROVE Visit!TypeOK /\ Visit!NoRedirectLoop /\ Visit!SignedInIsSeen
  <2>1. Visit!NoRedirectLoop
    <3>1. Rank(at) \in Nat
      BY RankIsNat
    <3>2. QED
      BY <1>3, <3>1 DEF VisitInv, Torn, Visit!NoRedirectLoop
  <2>2. QED
    BY <1>3, <2>1 DEF VisitInv, Visit!SignedInIsSeen
<1>4. QED
  BY <1>1, <1>2, <1>3

-----------------------------------------------------------------------------
(* Which pages open for whom. *)
LEMMA PagesOpen ==
  ASSUME NEW path \in Gate!Path, Gate!Opens(path)
  PROVE  Rendered(path, rank)
<1>1. CASE path \in Gate!Catalog
  BY <1>1 DEF Rendered, Gate!Opens, Gate!Catalog, Gate!V!Catalog, Gate!V!Guarded, Gate!V!Role
<1>2. CASE path \notin Gate!Catalog
  BY <1>2 DEF Rendered, Gate!Opens, Gate!Location, Gate!V!DashboardPage, Gate!V!Overview, Gate!V!Agenda, Gate!V!Settings,
      Gate!V!Billing, Gate!V!Messages, Gate!V!Guarded, Gate!V!Known, Gate!V!Member
<1>3. QED
  BY <1>1, <1>2

(* What a page was rendered for, of the bookings those the reader may      *)
(* operate on, stays with it.                                              *)
LEMMA GateStep == GateInv /\ Gate!Next => GateInv'
<1> SUFFICES ASSUME Gate!TypeOK, GateShows, Gate!Next PROVE Gate!TypeOK' /\ GateShows'
  BY DEF GateInv
<1>1. CASE \E path \in Gate!Path : Gate!Open(path)
  <2>1. PICK path \in Gate!Path : Gate!Open(path)
    BY <1>1
  <2>2. PICK stock \in Gate!Finds(path) : rendered' =
          [role |-> rank, stock |-> stock, paying |-> shop \in {"subscribed", "churned"},
           bookings |-> IF path = "/dashboard/agenda" /\ stock = "some" THEN Gate!FirstBookings ELSE {},
           first |-> TRUE, reader |-> <<rank, linked>>]
    BY <2>1 DEF Gate!Open
  <2>3. stock \in Gate!Stock
    BY <2>2 DEF Gate!Finds, Gate!Stock
  <2>4. deadline' \in {"unset", "running", "over"} /\ visited' = path /\ UNCHANGED <<rank, holder, shop, linked>>
    BY <2>1 DEF Gate!Open, Gate!Ensured, Gate!TypeOK
  <2>5. /\ Gate!FirstBookings \subseteq {"own", "others"}
        /\ rank = "professional" /\ linked => Gate!FirstBookings = {"own"}
    BY DEF Gate!FirstBookings, Gate!Bookings
  <2>6. rendered' \in [role : Gate!V!Role \cup {"none"}, stock : Gate!Stock, paying : BOOLEAN,
                       bookings : SUBSET {"own", "others"}, first : BOOLEAN,
                       reader : (Gate!V!Role \cup {"none"}) \X BOOLEAN]
    BY <2>2, <2>3, <2>5 DEF Gate!TypeOK
  <2>7. Gate!TypeOK'
    BY <2>4, <2>6 DEF Gate!TypeOK
  <2>8. rendered'.role = rank /\ rendered'.reader = <<rank, linked>> /\ rendered'.first
        /\ rendered'.bookings \in {Gate!FirstBookings, {}}
    BY <2>2
  <2>9. Gate!Opens(path)
    BY <2>1 DEF Gate!Open
  <2>10. Rendered(path, rank)
    BY <2>9, PagesOpen DEF Rendered
  <2>11. GateShows'
    BY <2>4, <2>5, <2>8, <2>10 DEF GateShows, Rendered, Gate!TypeOK
  <2>12. QED
    BY <2>7, <2>11
<1>2. CASE Gate!Press
  <2>1. deadline' \in {"unset", "running", "over"} /\ UNCHANGED <<rank, holder, shop, linked, visited, rendered>>
    BY <1>2 DEF Gate!Press, Gate!Deadline, Gate!Ensured, Gate!TypeOK
  <2>2. QED
    BY <2>1 DEF Gate!TypeOK, GateShows, Rendered
<1>3. CASE Gate!Poll
  <2>1. /\ deadline' \in {"unset", "running", "over"} /\ UNCHANGED <<rank, holder, shop, linked, visited>>
        /\ \/ UNCHANGED rendered
           \/ rendered' = [rendered EXCEPT !.bookings = Gate!PolledBookings, !.first = FALSE, !.reader = <<rank, linked>>]
    BY <1>3 DEF Gate!Poll, Gate!Deadline, Gate!Ensured, Gate!TypeOK
  <2>2. /\ Gate!PolledBookings \subseteq {"own", "others"}
        /\ rank = "professional" => \A b \in Gate!PolledBookings : linked /\ b = "own"
    BY DEF Gate!PolledBookings, Gate!Bookings
  <2>6. rendered' \in [role : Gate!V!Role \cup {"none"}, stock : Gate!Stock, paying : BOOLEAN,
                       bookings : SUBSET {"own", "others"}, first : BOOLEAN,
                       reader : (Gate!V!Role \cup {"none"}) \X BOOLEAN]
    <3>1. Gate!PolledBookings \in SUBSET {"own", "others"} /\ <<rank, linked>> \in (Gate!V!Role \cup {"none"}) \X BOOLEAN
      BY <2>2 DEF Gate!TypeOK
    <3>2. QED
      BY <2>1, <3>1 DEF Gate!TypeOK
  <2>3. Gate!TypeOK'
    BY <2>1, <2>6 DEF Gate!TypeOK
  <2>4. \/ UNCHANGED rendered
        \/ /\ rendered'.role = rendered.role /\ rendered'.reader = <<rank, linked>>
           /\ rendered'.bookings = Gate!PolledBookings
    BY <2>1 DEF Gate!TypeOK
  <2>5. GateShows'
    BY <2>1, <2>2, <2>4 DEF GateShows, Rendered
  <2>7. QED
    BY <2>3, <2>5
<1>4. CASE Gate!Leave \/ Gate!Subscribe
  <2>1. /\ visited' = "away" /\ rendered' = Gate!Away /\ shop' \in {shop, "subscribed"}
        /\ UNCHANGED <<rank, holder, deadline, linked>>
    BY <1>4 DEF Gate!Leave, Gate!Subscribe
  <2>2. Gate!TypeOK'
    BY <2>1 DEF Gate!TypeOK, Gate!Away, Gate!Stock
  <2>3. GateShows'
    BY <2>1 DEF GateShows, Rendered, Gate!Away, Gate!Catalog
  <2>4. QED
    BY <2>2, <2>3
<1>5. CASE \/ Gate!Security \/ Gate!DeadlinePasses \/ Gate!TrialEnds \/ Gate!Churn \/ Gate!Remove \/ Gate!Link
           \/ \E r \in Gate!V!Role : Gate!Join(r) \/ Gate!ChangeRole(r)
  <2>1. /\ rank' \in Gate!V!Role \cup {"none"} /\ holder' \in {holder, [holder EXCEPT !.factor = ~@]}
        /\ deadline' \in {deadline, "unset", "over"} /\ shop' \in {shop, "expired", "churned"}
        /\ linked' \in {linked, TRUE, FALSE} /\ UNCHANGED <<visited, rendered>>
    BY <1>5 DEF Gate!Security, Gate!DeadlinePasses, Gate!TrialEnds, Gate!Churn, Gate!Remove, Gate!Link,
         Gate!Join, Gate!ChangeRole, Gate!TypeOK
  <2>2. holder' \in [known : BOOLEAN, factor : BOOLEAN, super : BOOLEAN]
    BY <2>1 DEF Gate!TypeOK
  <2>3. Gate!TypeOK'
    BY <2>1, <2>2 DEF Gate!TypeOK
  <2>4. GateShows'
    BY <2>1 DEF GateShows, Rendered
  <2>5. QED
    BY <2>3, <2>4
<1>6. QED
  BY <1>1, <1>2, <1>3, <1>4, <1>5 DEF Gate!Next

(* What the pages offer, by the page. *)
LEMMA OfferedByPage ==
  ASSUME Gate!TypeOK, NEW c \in Gate!Offered
  PROVE  \/ /\ visited \in Gate!Catalog
            /\ Gate!Right(c) \in {<<"service", "manage">>, <<"staff", "manage">>, <<"location", "manage">>, <<"customer", "manage">>}
         \/ visited = "/dashboard" /\ Gate!Right(c) = <<"booking", "read_own">>
         \/ /\ visited = "/dashboard/agenda"
            /\ \/ Gate!Right(c) \in {<<"booking", "read_own">>, <<"booking", "update">>}
               \/ Gate!Right(c) = <<"booking", "create">> /\ rendered.role \in {"owner", "manager", "receptionist"}
         \/ /\ visited = "/dashboard/settings"
            /\ Gate!Right(c) \in {<<"staff", "manage">>, <<"customer", "manage">>, <<"settings", "manage">>}
         \/ visited = "/dashboard/billing" /\ Gate!Right(c) = <<"billing", "manage">>
         \/ visited = "/dashboard/messages" /\ Gate!Right(c) \in {<<"messages", "read">>, <<"messages", "reply">>}
<1>1. CASE visited = "/dashboard/services"
  BY <1>1 DEF Gate!Offered, Gate!ServicesOffer, Gate!Catalog, Gate!Right, Gate!Booking
<1>2. CASE visited = "/dashboard/coupons"
  BY <1>2 DEF Gate!Offered, Gate!CouponsOffer, Gate!Catalog, Gate!Right, Gate!Booking
<1>3. CASE visited = "/dashboard/staff"
  <2>1. c \in {"createLocation", "createStaff", "upload service", "updateStaff", "setStaffWorkingHours", "createAbsence"}
    BY <1>3 DEF Gate!Offered, Gate!StaffOffers, Gate!TypeOK, Gate!Stock
  <2>2. QED
    BY <1>3, <2>1 DEF Gate!Catalog, Gate!Right, Gate!Booking
<1>4. CASE visited = "/dashboard/customers"
  BY <1>4 DEF Gate!Offered, Gate!CustomersOffer, Gate!Catalog, Gate!Right, Gate!Booking
<1>5. CASE visited = "/dashboard"
  BY <1>5 DEF Gate!Offered, Gate!OverviewOffers, Gate!Right, Gate!Booking
<1>6. CASE visited = "/dashboard/agenda"
  <2>1. \/ c \in {"getAgendaBookings"} \cup Gate!Booking
        \/ /\ rendered.role \in {"owner", "manager", "receptionist"}
           /\ c \in {"createManualBooking", "getDashboardAvailability"}
    BY <1>6 DEF Gate!Offered, Gate!AgendaOffers
  <2>2. QED
    BY <1>6, <2>1 DEF Gate!Right, Gate!Booking
<1>7. CASE visited = "/dashboard/settings"
  <2>1. c \in {"updateRules", "createClosedPeriod", "inviteMember", "updateImpressum", "updateCoverImage", "upload cover",
               "toggleDirectoryListing", "updateBusinessCategory", "updateMemberRole", "removeMember", "updateQuoteRequestStatus"}
    BY <1>7 DEF Gate!Offered, Gate!SettingsOffer, Gate!TeamOffers
  <2>2. QED
    BY <1>7, <2>1 DEF Gate!Right, Gate!Booking
<1>8. CASE visited = "/dashboard/billing"
  <2>1. c \in {"createConnectOnboarding", "createBillingPortal", "createSubscriptionCheckout"}
    BY <1>8 DEF Gate!Offered, Gate!BillingOffers
  <2>2. QED
    BY <1>8, <2>1 DEF Gate!Right, Gate!Booking
<1>9. CASE visited = "/dashboard/messages"
  <2>1. c \in {"getStaffConversation", "replyToMessage"}
    BY <1>9 DEF Gate!Offered, Gate!MessagesOffer
  <2>2. QED
    BY <1>9, <2>1 DEF Gate!Right, Gate!Booking
<1>10. visited # "away"
  BY DEF Gate!Offered
<1>11. QED
  BY <1>1, <1>2, <1>3, <1>4, <1>5, <1>6, <1>7, <1>8, <1>9, <1>10 DEF Gate!TypeOK, Gate!Path, Gate!Catalog

(* The rights of the roles. *)
LEMMA RightsOf ==
  /\ \A p \in Gate!Manage \cup Gate!Talk \cup {<<"billing", "manage">>, <<"booking", "create">>,
                <<"booking", "read_own">>, <<"booking", "update">>} : p \in Gate!Rights("owner")
  /\ \A p \in Gate!Manage \cup Gate!Talk \cup {<<"booking", "create">>, <<"booking", "read_own">>, <<"booking", "update">>} :
       p \in Gate!Rights("manager")
  /\ \A p \in Gate!Talk \cup {<<"booking", "create">>, <<"booking", "read_own">>, <<"booking", "update">>} :
       p \in Gate!Rights("receptionist")
  /\ \A p \in {<<"booking", "read_own">>, <<"booking", "update">>} : p \in Gate!Rights("professional")
BY DEF Gate!Rights, Gate!Desk

LEMMA GateBridge ==
  /\ Gate!Init => GateInv
  /\ GateInv /\ UNCHANGED gate => GateInv'
  /\ GateInv => Gate!TypeOK /\ Gate!OfferedIsPermitted /\ Gate!NoLockout
<1>1. ASSUME Gate!Init PROVE GateInv
  <2>1. Gate!TypeOK
    BY <1>1 DEF Gate!Init, Gate!TypeOK, Gate!Away, Gate!Stock
  <2>2. GateShows
    BY <1>1 DEF Gate!Init, Gate!Away, GateShows, Rendered, Gate!Catalog
  <2>3. QED
    BY <2>1, <2>2 DEF GateInv
<1>2. ASSUME GateInv, UNCHANGED gate PROVE GateInv'
  BY <1>2 DEF gate, GateInv, GateShows, Rendered, Gate!TypeOK
<1>3. ASSUME GateInv PROVE Gate!OfferedIsPermitted
  <2>1. ASSUME rendered.role = rank, NEW c \in Gate!Offered,
               ~(visited \in Gate!Catalog /\ rank \in {"professional", "receptionist"})
        PROVE  Gate!Permits(c)
    <3>1. Rendered(visited, rank) /\ rank \in {"owner", "manager", "receptionist", "professional", "none"}
      BY <1>3, <2>1 DEF GateInv, GateShows, Gate!TypeOK, Gate!V!Role
    <3>2. visited = "/dashboard" => rank # "none"
      BY <2>1 DEF Gate!Offered, Gate!OverviewOffers
    <3>3. QED
      BY <1>3, <2>1, <3>1, <3>2, OfferedByPage, RightsOf DEF GateInv, Rendered, Gate!Permits, Gate!Manage, Gate!Talk
  <2>2. ASSUME rendered.reader = <<rank, linked>>, NEW b \in rendered.bookings
        PROVE  Gate!OwnBookingAccess(b) \/ (rendered.first /\ ~linked)
    BY <1>3, <2>2 DEF GateInv, GateShows, Gate!OwnBookingAccess
  <2>3. QED
    BY <2>1, <2>2 DEF Gate!OfferedIsPermitted
<1>4. ASSUME GateInv PROVE Gate!NoLockout
  <2> SUFFICES ASSUME rank = "owner", shop # "churned" PROVE Gate!NoLockout
    BY DEF Gate!NoLockout
  <2>1. \A path : path \notin {"/dashboard/settings"} /\ ~(Gate!V!NeedsFactor /\ deadline = "over") => Gate!LayoutOpens(path)
    BY DEF Gate!LayoutOpens, Gate!V!DashboardLayout, Gate!Location, Gate!V!Known, Gate!V!Member
  <2>2. Gate!LayoutOpens("/dashboard/settings")
    BY DEF Gate!LayoutOpens, Gate!V!DashboardLayout, Gate!Location, Gate!V!Known, Gate!V!Member, Gate!V!Exempt
  <2>3. \A path \in Gate!Path : Gate!Opens(path)
    <3>1. \A path \in Gate!Catalog : Gate!Opens(path)
      BY DEF Gate!Opens, Gate!Location, Gate!V!Catalog, Gate!V!Guarded, Gate!V!Known, Gate!V!Role
    <3>2. \A path \in Gate!Path \ Gate!Catalog : Gate!Opens(path)
      BY DEF Gate!Opens, Gate!Path, Gate!Location, Gate!V!DashboardPage, Gate!V!Overview, Gate!V!Agenda, Gate!V!Settings,
             Gate!V!Billing, Gate!V!Messages, Gate!V!Guarded, Gate!V!Known, Gate!V!Member
    <3>3. QED
      BY <3>1, <3>2
  <2>4. ASSUME NEW c \in Gate!Offered PROVE Gate!Permits(c)
    BY <1>4, <2>4, OfferedByPage, RightsOf DEF GateInv, Gate!Permits, Gate!Manage, Gate!Talk
  <2>5. Gate!Permits("createSubscriptionCheckout")
    BY RightsOf DEF Gate!Permits, Gate!Right, Gate!Booking
  <2>6. ~(Gate!V!NeedsFactor /\ deadline = "over") => Gate!StaffAdmits
    BY DEF Gate!StaffAdmits, Gate!TenantAdmits
  <2>7. "createSubscriptionCheckout" \in Gate!Read
    BY DEF Gate!Read
  <2>8. {"/dashboard/settings", "/dashboard/billing"} \subseteq Gate!Path
    BY DEF Gate!Path
  <2>9. QED
    BY <2>1, <2>2, <2>3, <2>4, <2>5, <2>6, <2>7, <2>8 DEF Gate!NoLockout, Gate!Admits, Gate!WriteAdmits
<1>5. QED
  BY <1>1, <1>2, <1>3, <1>4 DEF GateInv
=============================================================================
