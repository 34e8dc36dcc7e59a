------------------------------ MODULE Onboarding ------------------------------
(***************************************************************************)
(* The wizard by which an owner signs up a shop, with what its calls of    *)
(* createOrganization come to; the steps of one call are those of          *)
(* Organization.  A submission first awaits the id of the device, and only *)
(* then is the action called and the button disabled; the fields stay open *)
(* all the while.  Of the fields only the slug is told apart.              *)
(***************************************************************************)
EXTENDS Limits, Sequences

Slugify  == [Ana |-> "ana", Rui |-> "rui", App |-> "app"]  \* of the names an owner may enter
Slug     == {"ana", "rui", "app"}
Reserved == {"app"}
None     == "none"

VARIABLES
  step,         \* of the wizard, 1 or 2
  slug,         \* as derived from the name, or edited
  filled,       \* are the required fields, and the category, filled in?
  dpaAccepted,
  createdSlug,
  claim,        \* the checkout session the page comes with: none, or paid and perhaps claimed
  visitor,      \* the slugs of the submissions that await getVisitorId
  asked,        \* those of the calls not answered, oldest first
  shops,        \* the organizations this wizard has made, and did their call end well?
  taken,        \* the slugs of the organizations others have made
  hurried       \* history: was submit pressed while another submission awaited the id?

fields == <<step, slug, filled, dpaAccepted>>
world  == <<claim, shops, taken>>
vars   == <<fields, createdSlug, visitor, asked, world, hurried>>

Init ==
  /\ step = 1 /\ slug = None /\ filled = FALSE /\ dpaAccepted = FALSE
  /\ createdSlug = None
  /\ claim \in {"none", "open"}
  /\ visitor = <<>> /\ asked = <<>>
  /\ shops = {} /\ taken = {}
  /\ hurried = FALSE

-----------------------------------------------------------------------------
(* The form *)

At(s) == createdSlug = None /\ step = s

FillIn ==
  /\ At(1) /\ ~filled /\ filled' = TRUE
  /\ UNCHANGED <<step, slug, dpaAccepted, createdSlug, visitor, asked, world, hurried>>

(* A change of the name overwrites the slug, an edited one too. *)
Rename(name) ==
  /\ At(1) /\ slug' = Slugify[name]
  /\ UNCHANGED <<step, filled, dpaAccepted, createdSlug, visitor, asked, world, hurried>>

EditSlug(s) ==
  /\ At(1) /\ slug # None /\ slug' = s
  /\ UNCHANGED <<step, filled, dpaAccepted, createdSlug, visitor, asked, world, hurried>>

NextStep ==
  /\ At(1) /\ filled /\ slug # None /\ step' = 2
  /\ UNCHANGED <<slug, filled, dpaAccepted, createdSlug, visitor, asked, world, hurried>>

Back ==
  /\ At(2) /\ step' = 1
  /\ UNCHANGED <<slug, filled, dpaAccepted, createdSlug, visitor, asked, world, hurried>>

AcceptDpa ==
  /\ At(2) /\ dpaAccepted' = ~dpaAccepted
  /\ UNCHANGED <<step, slug, filled, createdSlug, visitor, asked, world, hurried>>

(* Mutant of Pending: the button stays enabled while the action runs. *)
PendingNever == FALSE

Pending == asked # <<>>

Submit ==
  /\ At(2) /\ dpaAccepted /\ ~Pending
  /\ Len(visitor) + Len(asked) < MaxWaiting
  /\ visitor' = Append(visitor, slug)
  /\ hurried' = (hurried \/ visitor # <<>>)
  /\ UNCHANGED <<fields, createdSlug, asked, world>>

(* execute, which runs after the calls before it. *)
Execute ==
  /\ visitor # <<>>
  /\ asked' = Append(asked, Head(visitor)) /\ visitor' = Tail(visitor)
  /\ UNCHANGED <<fields, createdSlug, world, hurried>>

-----------------------------------------------------------------------------
(* createOrganization *)

Answered == asked # <<>> /\ asked' = Tail(asked) /\ UNCHANGED <<fields, visitor, hurried>>

Taken == taken \cup {o.slug : o \in shops}

(* By the schema, for the slug, or because the session is claimed, or      *)
(* cannot be retrieved.                                                    *)
Refused == Answered /\ UNCHANGED <<createdSlug, world>>

Creates(whole) ==
  /\ claim # "claimed" /\ Head(asked) \notin Reserved \cup Taken
  /\ Answered
  /\ shops' = shops \cup {[slug |-> Head(asked), whole |-> whole]}
  /\ UNCHANGED taken

Claimed == IF claim = "open" THEN "claimed" ELSE claim

Created ==
  /\ asked # <<>> /\ Creates(TRUE)
  /\ createdSlug' = Head(asked)
  /\ claim' = Claimed

(* The organization stays, and what has been written of its claim. *)
FailsHalfway ==
  /\ asked # <<>> /\ Creates(FALSE)
  /\ claim' \in {claim, Claimed}
  /\ UNCHANGED createdSlug

TakenElsewhere(s) ==
  /\ s \notin Reserved \cup Taken /\ taken' = taken \cup {s}
  /\ UNCHANGED <<fields, createdSlug, visitor, asked, claim, shops, hurried>>

Next ==
  \/ FillIn \/ NextStep \/ Back \/ AcceptDpa \/ Submit \/ Execute
  \/ \E name \in DOMAIN Slugify : Rename(name)
  \/ \E s \in Slug : EditSlug(s) \/ TakenElsewhere(s)
  \/ Refused \/ Created \/ FailsHalfway

Spec == Init /\ [][Next]_vars

-----------------------------------------------------------------------------
TypeOK ==
  /\ step \in 1 .. 2 /\ filled \in BOOLEAN /\ dpaAccepted \in BOOLEAN /\ hurried \in BOOLEAN
  /\ slug \in Slug \cup {None} /\ createdSlug \in Slug \cup {None}
  /\ claim \in {"none", "open", "claimed"}
  /\ visitor \in Seq(Slug) /\ asked \in Seq(Slug)
  /\ shops \subseteq [slug : Slug, whole : BOOLEAN] /\ taken \subseteq Slug

(* An owner who changes the name and submits again, while an answer is     *)
(* awaited or after one that failed, gets no second shop: but for one      *)
(* whose call failed when the organization was there already, and for two  *)
(* submissions pressed before the first is called.                         *)
OneShopPerWizard == Cardinality({o \in shops : o.whole}) > 1 => hurried
===============================================================================
