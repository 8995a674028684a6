----------------------------- MODULE VendorListing -----------------------------
(***************************************************************************)
(* How a restaurant goes live (backend/src/restaurants/                    *)
(* restaurants.service.ts; stores.service.ts is the same): an administrator*)
(* approves it, or, once the company register has confirmed the business,  *)
(* its next menu item does.  Editing what customers read takes it down     *)
(* again.  Every handler loads the document, decides, and saves the fields *)
(* it changed: a task is a request between its load and its save.          *)
(* Vendors do not touch each other, so there is one.  Opening hours and    *)
(* the other edits nobody has to look at are left out, and so is the       *)
(* compliance document, which a vendor cannot be created without.          *)
(***************************************************************************)
EXTENDS Integers

CONSTANTS
  Tasks,         \* bound: requests being answered at a time
  MaxEdits,      \* bound: edits of the vendor's public content
  MaxItems       \* bound: menu items at a time

ASSUME VendorListingAssumption == MaxEdits \in Nat /\ MaxItems \in Nat

VARIABLES
  created,
  isApproved,
  verification,     \* businessVerification.status
  content,          \* the edition of name, description and pictures
  itemCount,        \* items on the menu, a collection of its own
  task,
  (* history *)
  approvedContent,  \* the edition that was there when it went live
  raced             \* an approval overlapped with a change of what it is about

listingVars == <<created, isApproved, verification, content, itemCount, task,
                 approvedContent, raced>>

NoTask == [at |-> "idle", wasApproved |-> FALSE, byAdmin |-> FALSE]

TaskType ==
  [at : {"idle", "verdict", "saveUpdate", "autoCheck", "approve", "saveApproved"},
   wasApproved : BOOLEAN,      \* isApproved in the document it loaded
   byAdmin : BOOLEAN]

Verdicts == {"not_attempted", "verified", "mismatch"}

VendorListingTypeOK ==
  /\ created \in BOOLEAN /\ isApproved \in BOOLEAN /\ raced \in BOOLEAN
  /\ verification \in Verdicts
  /\ content \in 0..MaxEdits /\ approvedContent \in 0..MaxEdits
  /\ itemCount \in 0..MaxItems
  /\ task \in [Tasks -> TaskType]

VendorListingInit ==
  /\ created = FALSE /\ isApproved = FALSE /\ raced = FALSE
  /\ verification = "not_attempted"
  /\ content = 0 /\ approvedContent = 0
  /\ itemCount = 0
  /\ task = [t \in Tasks |-> NoTask]

-----------------------------------------------------------------------------
Begin(t, at, loaded, byAdmin) ==
  /\ task[t].at = "idle"
  /\ task' = [task EXCEPT ![t] = [at |-> at, wasApproved |-> loaded, byAdmin |-> byAdmin]]
Finish(t) == task' = [task EXCEPT ![t] = NoTask]

(* Another task has begun an approval it has not saved.                     *)
Approving(t) == \E s \in Tasks \ {t} : task[s].at \in {"approve", "saveApproved"}

(* Another task has loaded the document to edit its content.                *)
Editing(t) == \E s \in Tasks \ {t} : task[s].at = "saveUpdate"

-----------------------------------------------------------------------------
create(t) ==
  /\ ~ created /\ created' = TRUE
  /\ Begin(t, "verdict", FALSE, FALSE)
  /\ UNCHANGED <<isApproved, verification, content, itemCount, approvedContent, raced>>

reverifyBusiness(t) ==
  /\ created
  /\ Begin(t, "verdict", FALSE, FALSE)
  /\ UNCHANGED <<created, isApproved, verification, content, itemCount, approvedContent, raced>>

(* The register confirms the business, does not, or cannot be asked, which  *)
(* is no error.                                                             *)
runVerification(t) ==
  /\ task[t].at = "verdict"
  /\ \E v \in Verdicts : verification' = v
  /\ raced' = (raced \/ Approving(t))
  /\ Finish(t)
  /\ UNCHANGED <<created, isApproved, content, itemCount, approvedContent>>

update(t) ==
  /\ created /\ content < MaxEdits
  /\ Begin(t, "saveUpdate", isApproved, FALSE)
  /\ UNCHANGED <<created, isApproved, verification, content, itemCount, approvedContent, raced>>

(* Mutant: the owner keeps the listing while he edits it. *)
KeepsListing(t) == isApproved

(* Only what the handler set is saved: a listing it did not see stays.      *)
ApprovedAfterEdit(t) == isApproved /\ ~ task[t].wasApproved

SaveUpdate(t) ==
  /\ task[t].at = "saveUpdate" /\ content < MaxEdits
  /\ content' = content + 1
  /\ isApproved' = ApprovedAfterEdit(t)
  /\ raced' = (raced \/ Approving(t))
  /\ Finish(t)
  /\ UNCHANGED <<created, verification, itemCount, approvedContent>>

(* menu.service.ts: the new item, and then the question whether that was    *)
(* all that was missing.                                                    *)
createItem(t) ==
  /\ created /\ itemCount < MaxItems
  /\ itemCount' = itemCount + 1
  /\ Begin(t, "autoCheck", FALSE, FALSE)
  /\ UNCHANGED <<created, isApproved, verification, content, approvedContent, raced>>

deleteItem(t) ==
  /\ itemCount > 0
  /\ itemCount' = itemCount - 1
  /\ raced' = (raced \/ \E s \in Tasks : task[s].at \in {"autoCheck", "approve", "saveApproved"})
  /\ UNCHANGED <<created, isApproved, verification, content, task, approvedContent>>

(* Mutant: any verdict will do. *)
NotRefuted == verification # "mismatch"

Confirmed == verification = "verified"

autoApproveIfEligible(t) ==
  /\ task[t].at = "autoCheck"
  /\ IF ~ isApproved /\ Confirmed
       THEN task' = [task EXCEPT ![t].at = "approve"]
       ELSE Finish(t)
  /\ UNCHANGED <<created, isApproved, verification, content, itemCount, approvedContent, raced>>

approveRestaurant(t) ==
  /\ itemCount > 0
  /\ Begin(t, "approve", FALSE, TRUE)
  /\ UNCHANGED <<created, isApproved, verification, content, itemCount, approvedContent, raced>>

approve(t) ==
  /\ task[t].at = "approve"
  /\ task' = [task EXCEPT ![t].at = "saveApproved", ![t].wasApproved = isApproved]
  /\ UNCHANGED <<created, isApproved, verification, content, itemCount, approvedContent, raced>>

(* Setting what is already set saves nothing.                               *)
SaveApproved(t) ==
  /\ task[t].at = "saveApproved"
  /\ IF task[t].wasApproved
       THEN UNCHANGED <<isApproved, approvedContent, raced>>
       ELSE /\ isApproved' = TRUE
            /\ approvedContent' = content
            /\ raced' = (raced \/ Editing(t))
  /\ Finish(t)
  /\ UNCHANGED <<created, verification, content, itemCount>>

(* A restart of the server (external). *)
AbandonTask(t) ==
  /\ task[t].at # "idle"
  /\ Finish(t)
  /\ UNCHANGED <<created, isApproved, verification, content, itemCount, approvedContent, raced>>

VendorListingNext ==
  \E t \in Tasks :
    \/ create(t) \/ reverifyBusiness(t) \/ runVerification(t)
    \/ update(t) \/ SaveUpdate(t)
    \/ createItem(t) \/ deleteItem(t) \/ autoApproveIfEligible(t)
    \/ approveRestaurant(t) \/ approve(t) \/ SaveApproved(t)
    \/ AbandonTask(t)

VendorListingSpec == VendorListingInit /\ [][VendorListingNext]_listingVars

-----------------------------------------------------------------------------
(* Properties *)

(* An approved vendor cannot swap in other content and stay live            *)
(* (restaurants.service.ts:284-289): what customers read is what was there  *)
(* when it went live, however edits, approvals and the automatic approval   *)
(* follow each other, as long as no edit overlapped with an approval.       *)
NothingSwappedIn == isApproved => content = approvedContent \/ raced

(* A vendor goes live only with something on the menu, and only because an  *)
(* administrator says so or the register has confirmed it, by each of the   *)
(* roads that lead there (admin.service.ts:79-91, restaurants.service.ts:   *)
(* 416-440), unless what the approval rests on changed under its hands.     *)
GoesLiveComplete ==
  [][ ~ isApproved /\ isApproved' =>
        \/ raced
        \/ /\ itemCount > 0
           /\ \/ verification = "verified"
              \/ \E t \in Tasks : /\ task[t].at = "saveApproved" /\ task[t].byAdmin
                                 /\ task'[t].at = "idle" ]_listingVars
=============================================================================
