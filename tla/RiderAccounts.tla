------------------------------ MODULE RiderAccounts ------------------------------
(***************************************************************************)
(* How a customer becomes a rider (backend/src/riders/riders.service.ts)   *)
(* while administrators come and go (backend/src/users/users.service.ts).  *)
(* What somebody is stands twice: the account has a role, and a rider also *)
(* has a profile.  apply decides by the role in the access token, which    *)
(* may be out of date, and writes the phone number, the profile and the    *)
(* role one after the other.  Nothing is ever taken back.                  *)
(***************************************************************************)
EXTENDS Integers, FiniteSets

CONSTANTS
  People,
  PhoneNumbers, NoPhone,
  Errands,              \* bound: requests being answered at a time
  Nobody

ASSUME RiderAccountsAssumption == NoPhone \notin PhoneNumbers /\ Nobody \notin People

Roles == {"customer", "restaurant_owner", "admin", "rider"}

ROLE_CHANGE_TARGETS == {"customer", "admin"}

VARIABLES
  role,         \* of the account
  tokenRole,    \* in the access token its browser sends
  phoneOf,
  profiles,     \* those with a rider profile
  errand,
  raced,        \* history: an application went by between the read and the save of a role
  stranded      \* history: an application was cut off between its last two writes

accountVars == <<role, tokenRole, phoneOf, profiles, errand, raced, stranded>>

NoErrand == [at |-> "idle", user |-> Nobody, phone |-> NoPhone, role |-> "customer"]

ErrandType ==
  [at : {"idle", "phone", "profile", "role", "adminRole"},
   user : People \cup {Nobody},
   phone : PhoneNumbers \cup {NoPhone},     \* to save
   role : Roles]

RiderAccountsTypeOK ==
  /\ role \in [People -> Roles] /\ tokenRole \in [People -> Roles]
  /\ phoneOf \in [People -> PhoneNumbers \cup {NoPhone}]
  /\ profiles \in SUBSET People
  /\ errand \in [Errands -> ErrandType]
  /\ raced \in SUBSET People /\ stranded \in SUBSET People

(* Customers and owners register themselves; the first administrator comes  *)
(* with the installation.                                                   *)
RiderAccountsInit ==
  /\ role \in [People -> {"customer", "restaurant_owner", "admin"}]
  /\ tokenRole = role
  /\ phoneOf = [u \in People |-> NoPhone]
  /\ profiles = {}
  /\ errand = [e \in Errands |-> NoErrand]
  /\ raced = {} /\ stranded = {}

-----------------------------------------------------------------------------
StartErrand(e, r) == errand[e].at = "idle" /\ errand' = [errand EXCEPT ![e] = r]
StepErrand(e, at) == errand' = [errand EXCEPT ![e].at = at]
EndErrand(e)      == errand' = [errand EXCEPT ![e] = NoErrand]

ErrandsFor(u, ats) == {e \in Errands : errand[e].user = u /\ errand[e].at \in ats}

Applying(u) == ErrandsFor(u, {"phone", "profile", "role"})

(* Mutant: the profile is created before the phone number is saved. *)
ProfileFirst(at) ==
  CASE at = "start" -> "profile" [] at = "profile" -> "phone" [] at = "phone" -> "role"

(* The writes of an application.  The one that may be refused comes first,  *)
(* so that no half of an application is left.                               *)
WriteAfter(at) ==
  CASE at = "start" -> "phone" [] at = "phone" -> "profile" [] at = "profile" -> "role"

(* Age and licence are checked too, and change nothing. *)
apply(e, u, p) ==
  /\ tokenRole[u] = "customer"
  /\ u \notin profiles
  /\ StartErrand(e, [at |-> WriteAfter("start"), user |-> u, phone |-> p, role |-> "rider"])
  /\ UNCHANGED <<role, tokenRole, phoneOf, profiles, raced, stranded>>

(* A number belongs to one account: one already taken ends the application. *)
updateProfile(e) ==
  LET u == errand[e].user p == errand[e].phone IN
  /\ errand[e].at = "phone"
  /\ IF \E v \in People \ {u} : phoneOf[v] = p
       THEN EndErrand(e) /\ UNCHANGED phoneOf
       ELSE phoneOf' = [phoneOf EXCEPT ![u] = p] /\ StepErrand(e, WriteAfter("phone"))
  /\ UNCHANGED <<role, tokenRole, profiles, raced, stranded>>

(* One profile per account: of two applications at once the second fails.   *)
CreateRider(e) ==
  LET u == errand[e].user IN
  /\ errand[e].at = "profile"
  /\ profiles' = profiles \cup {u}
  /\ IF u \in profiles THEN EndErrand(e) ELSE StepErrand(e, WriteAfter("profile"))
  /\ UNCHANGED <<role, tokenRole, phoneOf, raced, stranded>>

updateRole(e) ==
  LET u == errand[e].user IN
  /\ errand[e].at = "role"
  /\ role' = [role EXCEPT ![u] = errand[e].role]
  /\ raced' = IF ErrandsFor(u, {"adminRole"}) = {} THEN raced ELSE raced \cup {u}
  /\ EndErrand(e)
  /\ UNCHANGED <<tokenRole, phoneOf, profiles, stranded>>

-----------------------------------------------------------------------------
MayChangeRole(u) == role[u] \in ROLE_CHANGE_TARGETS

(* Saving a role that is there already writes nothing. *)
changeAdminRole(e, u, r) ==
  /\ MayChangeRole(u)
  /\ r # role[u]
  /\ StartErrand(e, [at |-> "adminRole", user |-> u, phone |-> NoPhone, role |-> r])
  /\ UNCHANGED <<role, tokenRole, phoneOf, profiles, raced, stranded>>

SaveAdminRole(e) ==
  /\ errand[e].at = "adminRole"
  /\ role' = [role EXCEPT ![errand[e].user] = errand[e].role]
  /\ EndErrand(e)
  /\ UNCHANGED <<tokenRole, phoneOf, profiles, raced, stranded>>

(* The next access token carries the role of the account. *)
refreshRole(u) ==
  /\ tokenRole' = [tokenRole EXCEPT ![u] = role[u]]
  /\ UNCHANGED <<role, phoneOf, profiles, errand, raced, stranded>>

(* A restart of the server, or a database that fails (external). *)
AbandonErrand(e) ==
  LET u == errand[e].user IN
  /\ errand[e].at # "idle"
  /\ stranded' = IF e \in Applying(u) /\ errand[e].at = "role" THEN stranded \cup {u} ELSE stranded
  /\ EndErrand(e)
  /\ UNCHANGED <<role, tokenRole, phoneOf, profiles, raced>>

RiderAccountsNext ==
  \/ \E u \in People : refreshRole(u)
  \/ \E e \in Errands :
       \/ \E u \in People, p \in PhoneNumbers : apply(e, u, p)
       \/ updateProfile(e) \/ CreateRider(e) \/ updateRole(e)
       \/ \E u \in People, r \in ROLE_CHANGE_TARGETS : changeAdminRole(e, u, r)
       \/ SaveAdminRole(e) \/ AbandonErrand(e)

RiderAccountsSpec == RiderAccountsInit /\ [][RiderAccountsNext]_accountVars

-----------------------------------------------------------------------------
(* Properties *)

(* An application leaves nothing half done (riders.service.ts:84-88) and no *)
(* administrator changes a rider's role (users.service.ts:165-172): nobody  *)
(* is stuck with a profile he may not use, or with the role and no profile, *)
(* unless the application was cut off before its last write, or ran into an *)
(* administrator's change of the same account.                              *)
RidersHaveAProfile ==
  \A u \in People : Applying(u) = {} /\ u \notin raced \cup stranded =>
    (role[u] = "rider" <=> u \in profiles)
=============================================================================
