------------------------------ MODULE Directory ------------------------------
(***************************************************************************)
(* The public directory: every load of the dashboard lists an organization *)
(* whose setup is complete, unless its owner has ever used the switch.     *)
(* The three parts of the setup are read one by one, in any order, while   *)
(* other calls change them.                                                *)
(***************************************************************************)
EXTENDS Limits

VARIABLES
  setup,    \* the parts there are: working hours, an active service, a link
  listed,   \* organization.isListed
  byOwner,  \* organization.directoryListingSetByOwner
  loads,    \* the calls loading a dashboard page, ...
  found,    \* ... and the parts each has found
  choice    \* history: what the owner last chose

vars == <<setup, listed, byOwner, loads, found, choice>>

Part == {"workingHours", "activeService", "staffService"}

Init ==
  /\ setup = {}
  /\ listed = FALSE
  /\ byOwner = FALSE
  /\ loads = {}
  /\ found = [c \in Call |-> {}]
  /\ choice = "none"

(* The setup is edited: hours are set or emptied, a service is activated. *)
Edit(p) ==
  /\ setup' = IF p \in setup THEN setup \ {p} ELSE setup \cup {p}
  /\ UNCHANGED <<listed, byOwner, loads, found, choice>>

LoadDashboard(c) ==
  /\ c \notin loads
  /\ loads' = loads \cup {c}
  /\ UNCHANGED <<setup, listed, byOwner, found, choice>>

(* isSetupComplete: one of the three reads; a missing part decides. *)
Look(c, p) ==
  /\ c \in loads
  /\ p \notin found[c]
  /\ IF p \in setup
     THEN found' = [found EXCEPT ![c] = @ \cup {p}] /\ UNCHANGED loads
     ELSE found' = [found EXCEPT ![c] = {}] /\ loads' = loads \ {c}
  /\ UNCHANGED <<setup, listed, byOwner, choice>>

(* Mutant of MayList: without the guard on the owner's choice. *)
MayListAgain == ~listed

MayList == ~listed /\ ~byOwner

(* autoListDirectory: one updateMany, its guards in the where clause. *)
AutoList(c) ==
  /\ c \in loads
  /\ found[c] = Part
  /\ loads' = loads \ {c}
  /\ found' = [found EXCEPT ![c] = {}]
  /\ listed' = (listed \/ MayList)
  /\ UNCHANGED <<setup, byOwner, choice>>

(* setDirectoryListing: the switch in the settings. *)
SetListing(on) ==
  /\ listed' = on
  /\ byOwner' = TRUE
  /\ choice' = IF on THEN "listed" ELSE "unlisted"
  /\ UNCHANGED <<setup, loads, found>>

Next ==
  \/ \E p \in Part : Edit(p)
  \/ \E c \in Call : LoadDashboard(c) \/ AutoList(c) \/ \E p \in Part : Look(c, p)
  \/ \E on \in BOOLEAN : SetListing(on)

Spec == Init /\ [][Next]_vars

-----------------------------------------------------------------------------
TypeOK ==
  /\ setup \in SUBSET Part
  /\ listed \in BOOLEAN
  /\ byOwner \in BOOLEAN
  /\ loads \in SUBSET Call
  /\ found \in [Call -> SUBSET Part]
  /\ choice \in {"none", "listed", "unlisted"}

(* What the owner chose with the switch stands, whichever dashboard loads  *)
(* had found the setup complete before it and list the organization after. *)
OwnersChoiceStands == choice # "none" => listed = (choice = "listed")
==============================================================================
