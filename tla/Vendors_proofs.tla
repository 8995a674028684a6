----------------------------- MODULE Vendors_proofs -----------------------------
(***************************************************************************)
(* Theorems about how vendors go live, their payout accounts, the catalog  *)
(* of a store and the ratings, for any number of requests and webhooks at  *)
(* a time, with restarts.                                                  *)
(***************************************************************************)
EXTENDS VendorListing, PayoutOnboarding, Catalog, Ratings, FiniteSetTheorems, TLAPS

-----------------------------------------------------------------------------
(***************************************************************************)
(* How a vendor goes live                                                  *)
(***************************************************************************)

(* What a task knows: an edit that loaded a vendor which was not live and   *)
(* is by now has raced with the approval, and whoever is about to ask for   *)
(* an approval, or to save one, still has what it rests on.                 *)
ListingTaskInv(t) ==
  /\ task[t].at = "saveUpdate" /\ ~ task[t].wasApproved /\ isApproved => raced
  /\ task[t].at \in {"autoCheck", "approve", "saveApproved"} => itemCount > 0 \/ raced
  /\ task[t].at \in {"approve", "saveApproved"} =>
       task[t].byAdmin \/ verification = "verified" \/ raced

ListingInv == VendorListingTypeOK /\ NothingSwappedIn /\ \A t \in Tasks : ListingTaskInv(t)

LEMMA NoTaskType == NoTask \in TaskType /\ NoTask.at = "idle"
BY DEF NoTask, TaskType

(* The task that a handler begins.                                          *)
LEMMA BegunTask ==
  ASSUME VendorListingTypeOK, NEW t \in Tasks,
         NEW at \in {"verdict", "saveUpdate", "autoCheck", "approve"},
         NEW w \in BOOLEAN, NEW b \in BOOLEAN, Begin(t, at, w, b)
  PROVE  /\ task' \in [Tasks -> TaskType]
         /\ task'[t].at = at /\ task'[t].wasApproved = w /\ task'[t].byAdmin = b
         /\ \A s \in Tasks \ {t} : task'[s] = task[s]
BY DEF Begin, TaskType, VendorListingTypeOK

LEMMA ListingInit == VendorListingInit => ListingInv
<1> SUFFICES ASSUME VendorListingInit PROVE ListingInv
  OBVIOUS
<1>1. 0 \in 0..MaxEdits /\ 0 \in 0..MaxItems
  BY VendorListingAssumption
<1>2. \A t \in Tasks : task[t] = NoTask
  BY DEF VendorListingInit
<1>3. VendorListingTypeOK
  BY <1>1, NoTaskType DEF VendorListingInit, VendorListingTypeOK, Verdicts
<1>4. QED
  BY <1>2, <1>3, NoTaskType DEF VendorListingInit, ListingInv, NothingSwappedIn, ListingTaskInv

(* Raced is never taken back, so an invariant that it excuses stays true.   *)
LEMMA ListingTypeStep ==
  ASSUME VendorListingTypeOK, VendorListingNext PROVE VendorListingTypeOK'
<1> SUFFICES ASSUME NEW t \in Tasks,
                    \/ create(t) \/ reverifyBusiness(t) \/ runVerification(t)
                    \/ update(t) \/ SaveUpdate(t)
                    \/ createItem(t) \/ deleteItem(t) \/ autoApproveIfEligible(t)
                    \/ approveRestaurant(t) \/ approve(t) \/ SaveApproved(t)
                    \/ AbandonTask(t)
             PROVE  VendorListingTypeOK'
  BY DEF VendorListingNext
<1> USE NoTaskType, VendorListingAssumption
<1>t. task[t] \in TaskType /\ isApproved \in BOOLEAN
  BY DEF VendorListingTypeOK
<1>1. CASE create(t) \/ reverifyBusiness(t)
  <2>1. task' \in [Tasks -> TaskType]
    BY <1>1, BegunTask DEF create, reverifyBusiness
  <2>2. QED
    BY <1>1, <2>1 DEF create, reverifyBusiness, VendorListingTypeOK
<1>2. CASE runVerification(t) \/ AbandonTask(t)
  BY <1>2, <1>t DEF runVerification, AbandonTask, Finish, Approving, VendorListingTypeOK
<1>3. CASE update(t)
  <2>1. task' \in [Tasks -> TaskType]
    BY <1>3, <1>t, BegunTask DEF update
  <2>2. QED
    BY <1>3, <2>1 DEF update, VendorListingTypeOK
<1>4. CASE SaveUpdate(t)
  BY <1>4, <1>t DEF SaveUpdate, Finish, Approving, ApprovedAfterEdit, VendorListingTypeOK
<1>5. CASE createItem(t)
  <2>1. task' \in [Tasks -> TaskType]
    BY <1>5, BegunTask DEF createItem
  <2>2. QED
    BY <1>5, <2>1 DEF createItem, VendorListingTypeOK
<1>6. CASE deleteItem(t)
  BY <1>6, <1>t DEF deleteItem, VendorListingTypeOK
<1>7. CASE autoApproveIfEligible(t)
  BY <1>7, <1>t DEF autoApproveIfEligible, Finish, VendorListingTypeOK, TaskType
<1>8. CASE approveRestaurant(t)
  <2>1. task' \in [Tasks -> TaskType]
    BY <1>8, BegunTask DEF approveRestaurant
  <2>2. QED
    BY <1>8, <2>1 DEF approveRestaurant, VendorListingTypeOK
<1>9. CASE approve(t)
  BY <1>9, <1>t DEF approve, VendorListingTypeOK, TaskType
<1>10. CASE SaveApproved(t)
  BY <1>10, <1>t DEF SaveApproved, Finish, Editing, VendorListingTypeOK
<1>11. QED
  BY <1>1, <1>2, <1>3, <1>4, <1>5, <1>6, <1>7, <1>8, <1>9, <1>10

LEMMA ListingStep ==
  ASSUME ListingInv, VendorListingNext PROVE ListingInv'
<1>type. VendorListingTypeOK'
  BY ListingTypeStep DEF ListingInv
<1> SUFFICES ASSUME NEW t \in Tasks,
                    \/ create(t) \/ reverifyBusiness(t) \/ runVerification(t)
                    \/ update(t) \/ SaveUpdate(t)
                    \/ createItem(t) \/ deleteItem(t) \/ autoApproveIfEligible(t)
                    \/ approveRestaurant(t) \/ approve(t) \/ SaveApproved(t)
                    \/ AbandonTask(t)
             PROVE  NothingSwappedIn' /\ \A s \in Tasks : ListingTaskInv(s)'
  BY <1>type DEF VendorListingNext, ListingInv
<1> USE NoTaskType DEF ListingInv
<1>t. task \in [Tasks -> TaskType] /\ itemCount \in Nat /\ isApproved \in BOOLEAN
  BY VendorListingAssumption DEF VendorListingTypeOK
<1>1. CASE create(t) \/ reverifyBusiness(t)
  <2>1. /\ task'[t].at = "verdict"
        /\ \A s \in Tasks \ {t} : task'[s] = task[s]
    BY <1>1, BegunTask DEF create, reverifyBusiness
  <2>2. UNCHANGED <<isApproved, verification, content, itemCount, approvedContent, raced>>
    BY <1>1 DEF create, reverifyBusiness
  <2>3. QED
    BY <2>1, <2>2 DEF NothingSwappedIn, ListingTaskInv
<1>2. CASE runVerification(t)
  BY <1>2, <1>t DEF runVerification, Finish, Approving, NothingSwappedIn, ListingTaskInv
<1>3. CASE update(t)
  <2>1. /\ task'[t].at = "saveUpdate" /\ task'[t].wasApproved = isApproved
        /\ \A s \in Tasks \ {t} : task'[s] = task[s]
    BY <1>3, <1>t, BegunTask DEF update
  <2>2. ASSUME isApproved PROVE task'[t].wasApproved
    <3>1. isApproved = TRUE
      BY <2>2, <1>t
    <3>2. QED
      BY <3>1, <2>1
  <2>3. isApproved' = isApproved
    BY <1>3 DEF update
  <2>4. ListingTaskInv(t)'
    BY <2>1, <2>2, <2>3 DEF ListingTaskInv
  <2>5. QED
    BY <1>3, <2>1, <2>4 DEF update, NothingSwappedIn, ListingTaskInv
<1>4. CASE SaveUpdate(t)
  <2>1. isApproved' => raced'
    BY <1>4, <1>t DEF SaveUpdate, ApprovedAfterEdit, ListingTaskInv
  <2>2. raced => raced'
    BY <1>4 DEF SaveUpdate
  <2>3. UNCHANGED <<itemCount, verification>> /\ task' = [task EXCEPT ![t] = NoTask]
    BY <1>4 DEF SaveUpdate, Finish
  <2>4. QED
    BY <1>t, <2>1, <2>2, <2>3 DEF NothingSwappedIn, ListingTaskInv
<1>5. CASE createItem(t)
  <2>1. /\ task'[t].at = "autoCheck"
        /\ \A s \in Tasks \ {t} : task'[s] = task[s]
    BY <1>5, BegunTask DEF createItem
  <2>2. itemCount' > 0
    BY <1>5, <1>t DEF createItem
  <2>3. QED
    BY <1>5, <2>1, <2>2 DEF createItem, NothingSwappedIn, ListingTaskInv
<1>6. CASE deleteItem(t)
  BY <1>6, <1>t DEF deleteItem, NothingSwappedIn, ListingTaskInv
<1>7. CASE autoApproveIfEligible(t)
  BY <1>7, <1>t DEF autoApproveIfEligible, Finish, Confirmed, NothingSwappedIn,
     ListingTaskInv, TaskType
<1>8. CASE approveRestaurant(t)
  <2>1. /\ task'[t].at = "approve" /\ task'[t].byAdmin
        /\ \A s \in Tasks \ {t} : task'[s] = task[s]
    BY <1>8, BegunTask DEF approveRestaurant
  <2>2. QED
    BY <1>8, <2>1 DEF approveRestaurant, NothingSwappedIn, ListingTaskInv
<1>9. CASE approve(t)
  <2>1. /\ task'[t].at = "saveApproved" /\ task[t].at = "approve"
        /\ task'[t].byAdmin = task[t].byAdmin
        /\ \A s \in Tasks \ {t} : task'[s] = task[s]
    BY <1>9, <1>t DEF approve, TaskType
  <2>2. QED
    BY <1>9, <2>1 DEF approve, NothingSwappedIn, ListingTaskInv
<1>10. CASE SaveApproved(t)
  BY <1>10, <1>t DEF SaveApproved, Finish, Editing, NothingSwappedIn, ListingTaskInv
<1>11. CASE AbandonTask(t)
  BY <1>11, <1>t DEF AbandonTask, Finish, NothingSwappedIn, ListingTaskInv
<1>12. QED
  BY <1>1, <1>2, <1>3, <1>4, <1>5, <1>6, <1>7, <1>8, <1>9, <1>10, <1>11

LEMMA ListingInvariant == VendorListingSpec => []ListingInv
<1>1. ListingInv /\ UNCHANGED listingVars => ListingInv'
  BY DEF ListingInv, listingVars, VendorListingTypeOK, NothingSwappedIn, ListingTaskInv
<1>2. QED
  BY ListingInit, ListingStep, <1>1, PTL DEF VendorListingSpec

(* The fields of a vendor and of the requests about it keep their types.    *)
THEOREM ListingTyped == VendorListingSpec => []VendorListingTypeOK
BY ListingInvariant, PTL DEF ListingInv

(* What customers read is what was there when the vendor went live          *)
(* (restaurants.service.ts:284-289), for any number of requests at a time.  *)
THEOREM ListingNotSwapped == VendorListingSpec => []NothingSwappedIn
BY ListingInvariant, PTL DEF ListingInv

(* Every road to approval is closed to an empty menu and to a business      *)
(* nobody vouches for (restaurants.service.ts:416-440).                     *)
THEOREM ListingGoesLiveComplete == VendorListingSpec => GoesLiveComplete
<1> DEFINE Complete ==
      ~ isApproved /\ isApproved' =>
        \/ raced
        \/ /\ itemCount > 0
           /\ \/ verification = "verified"
              \/ \E t \in Tasks : /\ task[t].at = "saveApproved" /\ task[t].byAdmin
                                 /\ task'[t].at = "idle"
<1>1. ASSUME ListingInv, VendorListingNext PROVE Complete
  <2> SUFFICES ASSUME ~ isApproved, isApproved' PROVE Complete
    OBVIOUS
  <2>1. PICK t \in Tasks : SaveApproved(t)
    BY <1>1 DEF VendorListingNext, create, reverifyBusiness, runVerification, update,
       SaveUpdate, ApprovedAfterEdit, createItem, deleteItem, autoApproveIfEligible,
       approveRestaurant, approve, AbandonTask
  <2>2. ListingTaskInv(t) /\ task \in [Tasks -> TaskType]
    BY <1>1 DEF ListingInv, VendorListingTypeOK
  <2>3. task[t].at = "saveApproved" /\ task'[t].at = "idle"
    BY <2>1, <2>2, NoTaskType DEF SaveApproved, Finish
  <2>4. QED
    BY <2>2, <2>3 DEF ListingTaskInv
<1>2. UNCHANGED listingVars => Complete
  BY DEF listingVars
<1>3. QED
  BY ListingInvariant, <1>1, <1>2, PTL DEF VendorListingSpec, GoesLiveComplete

-----------------------------------------------------------------------------
(***************************************************************************)
(* Payout accounts                                                         *)
(***************************************************************************)

(* A job that is about to write an entry. *)
Writing(j) == job[j].at \in {"open", "update", "push"}
Opened(j)  == job[j].at \in {"update", "push", "link"}

(* What a job knows.  A setup holds a new account nobody else has heard of; *)
(* a webhook one that was invited, and until it is garbled nothing newer    *)
(* was handled and no other webhook is about it.                            *)
JobKnows(j) ==
  LET r == job[j] IN
  /\ r.at # "idle" => r.provider \in PayoutProviders
  /\ IF Opened(j) THEN r.account \in Accounts /\ openedAt[r.account] = r.provider
                  ELSE r.account = NoAccount
  /\ r.at = "link" => r.provider = Stripe /\ r.change = 0
  /\ r.at \in {"idle", "open"} => r.change = 0

SetupKnows(j) ==
  LET r == job[j] IN
  r.at \in {"update", "push"} /\ r.change = 0 =>
    /\ r.account \notin invited
    /\ r.provider = Stripe => r.status = "pending"
    /\ \A e \in payoutAccounts : e.reference # r.account
    /\ \A i \in Jobs \ {j} : job[i].account # r.account

WebhookKnows(j) ==
  LET r == job[j] IN
  r.change # 0 =>
    /\ r.provider = Stripe /\ r.account \in invited
    /\ r.change <= changes[r.account]
    /\ r.status = "active" <=> Ready(r.change)
    /\ r.account \notin garbled =>
         /\ handled[r.account] <= r.change
         /\ \A i \in Jobs \ {j} : job[i].account = r.account => job[i].change = 0

(* Whatever another account's job replaces is garbled.                      *)
OthersAreGarbled(j) ==
  Writing(j) /\ job[j].provider = Stripe =>
    \A e \in EntriesAt(Stripe) : e.reference # job[j].account => e.reference \in garbled

(* The account a link is asked for is on the list.                          *)
LinkKnows(j) ==
  job[j].at = "link" /\ job[j].account \notin garbled =>
    \E e \in EntriesAt(Stripe) : e.reference = job[j].account

AccountKnows(a) ==
  /\ handled[a] <= changes[a]
  /\ changes[a] > handled[a] => <<a, changes[a]>> \in events
  /\ \A n \in 1..MaxChanges : <<a, n>> \in events => n <= changes[a]
  /\ changes[a] # 0 => a \in invited
  /\ a \in invited => openedAt[a] = Stripe
  /\ a \in invited \ garbled => \E e \in EntriesAt(Stripe) : e.reference = a

EntryKnows(e) ==
  /\ openedAt[e.reference] = e.provider
  /\ e.provider = Stripe /\ e.reference \notin garbled =>
       (e.status = "active" <=> Ready(handled[e.reference]))

OnboardingInv ==
  /\ OnboardingTypeOK /\ OneEntryPerProvider
  /\ \A j \in Jobs : /\ JobKnows(j) /\ SetupKnows(j) /\ WebhookKnows(j)
                     /\ OthersAreGarbled(j) /\ LinkKnows(j)
  /\ \A a \in Accounts : AccountKnows(a)
  /\ \A e \in payoutAccounts : EntryKnows(e)

LEMMA NoJobType ==
  /\ NoJob \in JobType /\ NoJob.at = "idle"
  /\ NoJob.account = NoAccount /\ NoJob.change = 0
BY OnboardingAssumption DEF NoJob, JobType

LEMMA NotReadyAtFirst == ~ Ready(0)
BY DEF Ready

LEMMA OnboardingInitial == OnboardingInit => OnboardingInv
<1> SUFFICES ASSUME OnboardingInit PROVE OnboardingInv
  OBVIOUS
<1>1. OnboardingTypeOK
  BY NoJobType, OnboardingAssumption DEF OnboardingInit, OnboardingTypeOK
<1>2. \A j \in Jobs : job[j] = NoJob
  BY DEF OnboardingInit
<1>3. \A j \in Jobs : /\ JobKnows(j) /\ SetupKnows(j) /\ WebhookKnows(j)
                      /\ OthersAreGarbled(j) /\ LinkKnows(j)
  BY <1>2, NoJobType DEF JobKnows, SetupKnows, WebhookKnows, OthersAreGarbled, LinkKnows,
     Writing, Opened
<1>4. QED
  BY <1>1, <1>3, OnboardingAssumption
     DEF OnboardingInit, OnboardingInv, OneEntryPerProvider, AccountKnows

(* The fields of one job and of one account. *)
LEMMA OnboardingTypes ==
  ASSUME OnboardingTypeOK
  PROVE  /\ \A j \in Jobs : job[j] \in JobType /\ job[j].change \in Nat
         /\ \A a \in Accounts : /\ changes[a] \in 0..MaxChanges /\ handled[a] \in 0..MaxChanges
                                /\ changes[a] \in Nat /\ handled[a] \in Nat
         /\ \A e \in payoutAccounts : /\ e.provider \in PayoutProviders
                                      /\ e.reference \in Accounts
                                      /\ e.reference # NoAccount
BY OnboardingAssumption DEF OnboardingTypeOK, JobType, Entry

(* A job that comes to nothing disturbs nothing, and neither does a link to *)
(* the form of an account that is on the list.                              *)
LEMMA QuietStep ==
  ASSUME OnboardingInv, job' \in [Jobs -> JobType],
         \A i \in Jobs : job'[i] = job[i] \/ job'[i] = NoJob,
         \/ UNCHANGED invited
         \/ \E a \in Accounts :
              /\ invited' = invited \cup {a} /\ openedAt[a] = Stripe
              /\ a \notin garbled => \E e \in EntriesAt(Stripe) : e.reference = a
              /\ \A i \in Jobs : job[i].at \in {"update", "push"} /\ job[i].change = 0 =>
                                   job[i].account # a,
         UNCHANGED <<payoutAccounts, openedAt, changes, events, handled, garbled>>
  PROVE  OnboardingInv'
<1> USE DEF OnboardingInv
<1>1. OnboardingTypeOK'
  BY DEF OnboardingTypeOK
<1>2. \A b \in Accounts : AccountKnows(b)'
  BY DEF AccountKnows, EntriesAt
<1>3. \A e \in payoutAccounts' : EntryKnows(e)'
  BY DEF EntryKnows
<1>4. ASSUME NEW i \in Jobs
      PROVE (/\ JobKnows(i) /\ SetupKnows(i) /\ WebhookKnows(i)
             /\ OthersAreGarbled(i) /\ LinkKnows(i))'
  <2>1. CASE job'[i] = NoJob
    BY <2>1, NoJobType DEF JobKnows, SetupKnows, WebhookKnows,
       OthersAreGarbled, LinkKnows, Writing, Opened
  <2>2. CASE job'[i] = job[i]
    <3>1. JobKnows(i)' /\ OthersAreGarbled(i)' /\ LinkKnows(i)'
      BY <2>2 DEF JobKnows, OthersAreGarbled, LinkKnows, Writing, Opened, EntriesAt
    <3>2. SetupKnows(i)'
      <4>1. job[i].at \in {"update", "push"} => job[i].account # NoAccount
        BY OnboardingAssumption DEF JobKnows, Opened
      <4>2. QED
        BY <2>2, <4>1, NoJobType DEF SetupKnows
    <3>3. WebhookKnows(i)'
      BY <2>2, NoJobType DEF WebhookKnows
    <3>4. QED
      BY <3>1, <3>2, <3>3
  <2>3. QED
    BY <2>1, <2>2
<1>5. QED
  BY <1>1, <1>2, <1>3, <1>4 DEF OneEntryPerProvider

(* A setup begins: there is no account at Stripe, or it is not for Stripe.  *)
LEMMA SetupStep ==
  ASSUME OnboardingInv, NEW j \in Jobs, NEW p \in PayoutProviders, setup(j, p)
  PROVE  OnboardingInv'
<1> USE DEF OnboardingInv, providerVars
<1> DEFINE r == [at |-> "open", provider |-> p, account |-> NoAccount, status |-> "pending", change |-> 0]
<1>1. /\ r \in JobType /\ r.at = "open" /\ r.provider = p
      /\ r.account = NoAccount /\ r.change = 0
  BY OnboardingAssumption DEF JobType
<1>2. job' = [job EXCEPT ![j] = r]
  BY DEF setup
<1> HIDE DEF r
<1>3. /\ job'[j] = r /\ \A i \in Jobs \ {j} : job'[i] = job[i]
      /\ job' \in [Jobs -> JobType]
  BY <1>1, <1>2 DEF OnboardingTypeOK
<1>4. /\ p = Stripe => EntriesAt(Stripe) = {}
      /\ UNCHANGED <<payoutAccounts, providerVars, events, handled, garbled>>
  BY DEF setup, EntriesAt
<1>5. OnboardingTypeOK'
  BY <1>3, <1>4 DEF OnboardingTypeOK
<1>6. \A a \in Accounts : AccountKnows(a)'
  BY <1>4 DEF AccountKnows, EntriesAt
<1>7. \A e \in payoutAccounts' : EntryKnows(e)'
  BY <1>4 DEF EntryKnows
<1>8. ASSUME NEW i \in Jobs
      PROVE (/\ JobKnows(i) /\ SetupKnows(i) /\ WebhookKnows(i)
             /\ OthersAreGarbled(i) /\ LinkKnows(i))'
  <2>1. CASE i = j
    BY <2>1, <1>1, <1>3, <1>4 DEF JobKnows, SetupKnows, WebhookKnows,
       OthersAreGarbled, LinkKnows, Writing, Opened, EntriesAt
  <2>2. CASE i # j
    <3>1. job'[i] = job[i]
      BY <2>2, <1>3
    <3>2. JobKnows(i)' /\ OthersAreGarbled(i)' /\ LinkKnows(i)'
      BY <3>1, <1>4 DEF JobKnows, OthersAreGarbled, LinkKnows, Writing, Opened, EntriesAt
    <3>3. SetupKnows(i)'
      <4>1. job[i].at \in {"update", "push"} => job[i].account # NoAccount
        BY OnboardingAssumption DEF JobKnows, Opened
      <4>2. QED
        BY <3>1, <4>1, <1>1, <1>3, <1>4 DEF SetupKnows
    <3>4. WebhookKnows(i)'
      BY <3>1, <1>1, <1>3, <1>4 DEF WebhookKnows
    <3>5. QED
      BY <3>2, <3>3, <3>4
  <2>3. QED
    BY <2>1, <2>2
<1>9. QED
  BY <1>4, <1>5, <1>6, <1>7, <1>8 DEF OneEntryPerProvider

(* The account a provider opens is new to everybody.                        *)
LEMMA OpenAccountStep ==
  ASSUME OnboardingInv, NEW j \in Jobs, OpenAccount(j)
  PROVE  OnboardingInv'
<1> USE DEF OnboardingInv
<1> DEFINE p == job[j].provider
<1>1. PICK a \in Accounts :
        /\ openedAt[a] = NoPayoutProvider
        /\ openedAt' = [openedAt EXCEPT ![a] = p]
        /\ job' = [job EXCEPT ![j].at = "update", ![j].account = a,
                              ![j].status = IF p = Stripe THEN "pending" ELSE "active"]
  BY DEF OpenAccount
<1>2. /\ job[j].at = "open" /\ p \in PayoutProviders /\ job[j].change = 0
      /\ job[j].account = NoAccount /\ job[j] \in JobType
      /\ UNCHANGED <<payoutAccounts, invited, changes, events, handled, garbled>>
  BY OnboardingTypes DEF OpenAccount, JobKnows, Opened
<1>3. /\ job'[j].at = "update" /\ job'[j].account = a /\ job'[j].provider = p
      /\ job'[j].change = 0 /\ job'[j].status \in {"pending", "active"}
      /\ p = Stripe => job'[j].status = "pending"
      /\ \A i \in Jobs \ {j} : job'[i] = job[i]
      /\ job' \in [Jobs -> JobType]
  BY <1>1, <1>2 DEF OnboardingTypeOK, JobType
<1>4. /\ openedAt'[a] = p /\ \A b \in Accounts \ {a} : openedAt'[b] = openedAt[b]
      /\ openedAt' \in [Accounts -> PayoutProviders \cup {NoPayoutProvider}]
  BY <1>1, <1>2 DEF OnboardingTypeOK
<1>5. NoPayoutProvider \notin PayoutProviders /\ Stripe \in PayoutProviders /\ NoAccount \notin Accounts
  BY OnboardingAssumption
<1>6. a \notin invited /\ changes[a] = 0 /\ \A e \in payoutAccounts : e.reference # a
  BY <1>1, <1>5, OnboardingTypes DEF AccountKnows, EntryKnows
<1>7. \A i \in Jobs : job[i].account # a
  BY <1>1, <1>5, OnboardingTypes DEF JobKnows, Opened
<1> HIDE DEF p
<1>8. OnboardingTypeOK'
  BY <1>2, <1>3, <1>4 DEF OnboardingTypeOK
<1>9. \A b \in Accounts : AccountKnows(b)'
  BY <1>2, <1>4, <1>6 DEF AccountKnows, EntriesAt
<1>10. \A e \in payoutAccounts' : EntryKnows(e)'
  BY <1>2, <1>4, <1>6, OnboardingTypes DEF EntryKnows
<1>11. ASSUME NEW i \in Jobs
       PROVE (/\ JobKnows(i) /\ SetupKnows(i) /\ WebhookKnows(i)
              /\ OthersAreGarbled(i) /\ LinkKnows(i))'
  <2>1. CASE i = j
    <3>1. JobKnows(i)' /\ WebhookKnows(i)' /\ LinkKnows(i)'
      BY <2>1, <1>2, <1>3, <1>4 DEF JobKnows, WebhookKnows, LinkKnows, Opened
    <3>2. SetupKnows(i)'
      BY <2>1, <1>2, <1>3, <1>6, <1>7 DEF SetupKnows
    <3>3. OthersAreGarbled(j) /\ job[j].provider = p
      BY DEF p
    <3>4. OthersAreGarbled(i)'
      BY <2>1, <3>3, <1>2, <1>3, <1>5, OnboardingTypes DEF OthersAreGarbled, Writing, EntriesAt
    <3>5. QED
      BY <3>1, <3>2, <3>4
  <2>2. CASE i # j
    <3>1. job'[i] = job[i] /\ job[i].account # a
      BY <2>2, <1>3, <1>7
    <3>2. JobKnows(i)' /\ OthersAreGarbled(i)' /\ LinkKnows(i)'
      BY <3>1, <1>2, <1>4 DEF JobKnows, OthersAreGarbled, LinkKnows, Writing, Opened, EntriesAt
    <3>3. SetupKnows(i)'
      BY <3>1, <1>2, <1>3 DEF SetupKnows
    <3>4. WebhookKnows(i)'
      BY <3>1, <1>2, <1>3 DEF WebhookKnows
    <3>5. QED
      BY <3>2, <3>3, <3>4
  <2>3. QED
    BY <2>1, <2>2
<1>12. QED
  BY <1>2, <1>8, <1>9, <1>10, <1>11 DEF OneEntryPerProvider

(* Stripe tells of a change, or of one again.                               *)
LEMMA EventStep ==
  ASSUME OnboardingInv, NEW a \in Accounts, AccountUpdated(a) \/ \E n \in 1..MaxChanges : Redeliver(a, n)
  PROVE  OnboardingInv'
<1> USE DEF OnboardingInv, providerVars
<1>1. PICK n \in 1..MaxChanges :
        /\ events' = events \cup {<<a, n>>}
        /\ \/ changes' = changes /\ n <= changes[a]
           \/ n = changes[a] + 1 /\ changes' = [changes EXCEPT ![a] = n] /\ a \in invited
  BY OnboardingTypes, OnboardingAssumption DEF AccountUpdated, Redeliver
<1>2. UNCHANGED <<payoutAccounts, job, openedAt, invited, handled, garbled>>
  BY DEF AccountUpdated, Redeliver
<1>3. /\ \A b \in Accounts \ {a} : changes'[b] = changes[b]
      /\ changes'[a] \in Nat /\ changes[a] <= changes'[a] /\ n <= changes'[a]
      /\ changes'[a] # 0 => a \in invited
      /\ changes'[a] # changes[a] => changes'[a] = n
      /\ changes' \in [Accounts -> 0..MaxChanges]
  <2>0. AccountKnows(a)
    OBVIOUS
  <2>1. /\ changes \in [Accounts -> 0..MaxChanges] /\ changes[a] \in Nat /\ n \in Nat
        /\ changes[a] # 0 => a \in invited
    BY <2>0, OnboardingTypes, OnboardingAssumption DEF OnboardingTypeOK, AccountKnows
  <2>2. QED
    BY <1>1, <2>1
<1>4. OnboardingTypeOK'
  BY <1>1, <1>2, <1>3 DEF OnboardingTypeOK
<1>5. ASSUME NEW b \in Accounts PROVE AccountKnows(b)'
  <2>0. AccountKnows(b) /\ changes[b] \in Nat /\ handled[b] \in Nat
    BY OnboardingTypes
  <2>1. CASE b = a
    BY <2>0, <2>1, <1>1, <1>2, <1>3 DEF AccountKnows, EntriesAt
  <2>2. CASE b # a
    BY <2>0, <2>2, <1>1, <1>2, <1>3 DEF AccountKnows, EntriesAt
  <2>3. QED
    BY <2>1, <2>2
<1>6. \A e \in payoutAccounts' : EntryKnows(e)'
  BY <1>2 DEF EntryKnows
<1>7. \A i \in Jobs : /\ JobKnows(i)' /\ SetupKnows(i)' /\ OthersAreGarbled(i)'
                      /\ LinkKnows(i)'
  BY <1>2 DEF JobKnows, SetupKnows, OthersAreGarbled, LinkKnows, Writing, Opened, EntriesAt
<1>8. ASSUME NEW i \in Jobs PROVE WebhookKnows(i)'
  <2>0. job[i] \in JobType /\ job[i].change \in Nat /\ JobKnows(i)
    BY OnboardingTypes
  <2>1. job[i].change # 0 => job[i].account \in Accounts
    BY <2>0 DEF JobKnows, Opened, JobType
  <2>2. job[i].change # 0 => changes[job[i].account] <= changes'[job[i].account]
                             /\ changes'[job[i].account] \in Nat
                             /\ changes[job[i].account] \in Nat
    BY <2>1, <1>3, OnboardingTypes
  <2>3. WebhookKnows(i)
    OBVIOUS
  <2>4. QED
    BY <1>2, <2>0, <2>1, <2>2, <2>3 DEF WebhookKnows
<1>9. QED
  BY <1>2, <1>4, <1>5, <1>6, <1>7, <1>8 DEF OneEntryPerProvider

(* A webhook begins, or is answered at once.                                *)
LEMMA WebhookStep ==
  ASSUME OnboardingInv, NEW j \in Jobs, NEW a \in Accounts, NEW n \in 1..MaxChanges,
         handleStripeAccountWebhook(j, a, n)
  PROVE  OnboardingInv'
<1> USE DEF OnboardingInv, providerVars
<1> DEFINE known == \E e \in EntriesAt(Stripe) : e.reference = a
           wasActive == \E e \in EntriesAt(Stripe) : e.reference = a /\ e.status = "active"
           stale == n < handled[a] \/ \E i \in Jobs : job[i].account = a /\ job[i].change # 0
           r == [at |-> "update", provider |-> Stripe, account |-> a,
                 status |-> IF IsActive(n) THEN "active" ELSE "pending", change |-> n]
<1>0. /\ job[j].at = "idle" /\ <<a, n>> \in events
      /\ garbled' = IF stale THEN garbled \cup {a} ELSE garbled
      /\ UNCHANGED <<payoutAccounts, providerVars>>
  BY DEF handleStripeAccountWebhook
<1>1. n \in Nat /\ n # 0 /\ n <= changes[a] /\ a \in invited /\ openedAt[a] = Stripe
  <2>1. AccountKnows(a)
    OBVIOUS
  <2>2. /\ n \in Nat /\ n # 0 /\ n <= changes[a]
    BY <2>1, <1>0, OnboardingAssumption DEF AccountKnows
  <2>3. changes[a] \in Nat
    BY OnboardingTypes
  <2>4. QED
    BY <2>1, <2>2, <2>3 DEF AccountKnows
<1>2. /\ \A b \in Accounts : b \notin garbled' => b \notin garbled
      /\ a \notin garbled' => ~ stale
      /\ garbled' \in SUBSET Accounts
  BY <1>0 DEF OnboardingTypeOK
<1>3. CASE known /\ IsActive(n) # wasActive /\ job' = [job EXCEPT ![j] = r] /\ UNCHANGED <<events, handled>>
  <2>1. /\ r \in JobType /\ r.at = "update" /\ r.provider = Stripe /\ r.account = a
        /\ r.change = n /\ (r.status = "active" <=> Ready(n))
    BY <1>1, OnboardingAssumption DEF JobType, IsActive
  <2> HIDE DEF r
  <2>2. /\ job'[j] = r /\ \A i \in Jobs \ {j} : job'[i] = job[i]
        /\ job' \in [Jobs -> JobType]
    BY <1>3, <2>1 DEF OnboardingTypeOK
  <2>3. OnboardingTypeOK'
    BY <1>0, <1>2, <1>3, <2>2 DEF OnboardingTypeOK
  <2>4. \A b \in Accounts : AccountKnows(b)'
    BY <1>0, <1>2, <1>3 DEF AccountKnows, EntriesAt
  <2>5. \A e \in payoutAccounts' : EntryKnows(e)'
    BY <1>0, <1>2, <1>3, OnboardingTypes DEF EntryKnows
  <2>6. ASSUME NEW i \in Jobs
        PROVE (/\ JobKnows(i) /\ SetupKnows(i) /\ WebhookKnows(i)
               /\ OthersAreGarbled(i) /\ LinkKnows(i))'
    <3>1. CASE i = j
      <4>1. JobKnows(i)' /\ SetupKnows(i)' /\ LinkKnows(i)'
        BY <3>1, <2>1, <2>2, <1>0, <1>1, OnboardingAssumption DEF JobKnows, SetupKnows, LinkKnows, Opened
      <4>2. WebhookKnows(i)'
        BY <3>1, <2>1, <2>2, <1>0, <1>1, <1>2, <1>3, OnboardingTypes DEF WebhookKnows
      <4>3. OthersAreGarbled(i)'
        BY <3>1, <2>1, <2>2, <1>0, <1>3 DEF OthersAreGarbled, OneEntryPerProvider, EntriesAt
      <4>4. QED
        BY <4>1, <4>2, <4>3
    <3>2. CASE i # j
      <4>1. job'[i] = job[i]
        BY <3>2, <2>2
      <4>2. JobKnows(i)' /\ LinkKnows(i)' /\ OthersAreGarbled(i)'
        <5>1. \A b : b \in garbled => b \in garbled'
          BY <1>0
        <5>2. job[i].account \in garbled' \/ job[i].account \notin garbled
          BY <5>1
        <5>3. QED
          BY <4>1, <1>0, <5>1 DEF JobKnows, LinkKnows, OthersAreGarbled, Opened, Writing, EntriesAt
      <4>3. SetupKnows(i)'
        BY <4>1, <2>1, <2>2, <1>0, <1>1 DEF SetupKnows
      <4>4. WebhookKnows(i)'
        BY <4>1, <2>1, <2>2, <1>0, <1>2, <1>3 DEF WebhookKnows
      <4>5. QED
        BY <4>2, <4>3, <4>4
    <3>3. QED
      BY <3>1, <3>2
  <2>7. QED
    BY <1>0, <2>3, <2>4, <2>5, <2>6 DEF OneEntryPerProvider
<1>4. CASE /\ ~ (known /\ IsActive(n) # wasActive)
           /\ events' = events \ {<<a, n>>}
           /\ handled' = [handled EXCEPT ![a] = IF n > @ THEN n ELSE @]
           /\ UNCHANGED job
  <2>1. /\ handled' \in [Accounts -> 0..MaxChanges]
        /\ \A b \in Accounts \ {a} : handled'[b] = handled[b]
        /\ handled'[a] = IF n > handled[a] THEN n ELSE handled[a]
    BY <1>4 DEF OnboardingTypeOK
  <2>2. OnboardingTypeOK'
    BY <1>0, <1>2, <1>4, <2>1 DEF OnboardingTypeOK
  <2>3. ASSUME NEW b \in Accounts PROVE AccountKnows(b)'
    <3>0. AccountKnows(b) /\ changes[b] \in Nat /\ handled[b] \in Nat
      BY OnboardingTypes
    <3>1. CASE b = a
      BY <3>0, <3>1, <1>0, <1>1, <1>2, <1>4, <2>1 DEF AccountKnows, EntriesAt
    <3>2. CASE b # a
      BY <3>0, <3>2, <1>0, <1>1, <1>2, <1>4, <2>1 DEF AccountKnows, EntriesAt
    <3>3. QED
      BY <3>1, <3>2
  <2>4. ASSUME NEW e \in payoutAccounts' PROVE EntryKnows(e)'
    <3>0. e \in payoutAccounts /\ EntryKnows(e) /\ e.reference \in Accounts /\ openedAt' = openedAt
      BY <1>0, OnboardingTypes
    <3>1. CASE e.reference # a
      BY <3>0, <3>1, <1>2, <2>1 DEF EntryKnows
    <3>2. CASE e.reference = a /\ e.provider = Stripe /\ a \notin garbled'
      <4>1. ~ stale /\ handled[a] \in Nat
        BY <3>2, <1>2, OnboardingTypes
      <4>2. handled'[a] = n
        BY <4>1, <2>1, <1>1
      <4>3. wasActive <=> e.status = "active"
        BY <3>0, <3>2 DEF EntriesAt, OneEntryPerProvider
      <4>4. known
        BY <3>0, <3>2 DEF EntriesAt
      <4>5. Ready(n) <=> e.status = "active"
        BY <4>3, <4>4, <1>4 DEF IsActive, Ready
      <4>6. QED
        BY <3>0, <3>2, <4>2, <4>5 DEF EntryKnows
    <3>3. QED
      BY <3>0, <3>1, <3>2 DEF EntryKnows
  <2>5. \A i \in Jobs : (JobKnows(i) /\ SetupKnows(i) /\ OthersAreGarbled(i) /\ LinkKnows(i))'
    BY <1>0, <1>4 DEF JobKnows, SetupKnows, OthersAreGarbled, LinkKnows, Opened, Writing, EntriesAt
  <2>6. ASSUME NEW i \in Jobs PROVE WebhookKnows(i)'
    <3>1. CASE job[i].change # 0 /\ job[i].account = a
      <4>1. a \in garbled'
        BY <3>1, <1>0
      <4>2. QED
        BY <3>1, <4>1, <1>0, <1>4 DEF WebhookKnows
    <3>2. CASE job[i].change # 0 /\ job[i].account # a
      <4>0. job[i].account \in invited
        BY <3>2 DEF WebhookKnows
      <4>1. handled'[job[i].account] = handled[job[i].account]
        BY <3>2, <4>0, <2>1 DEF OnboardingTypeOK
      <4>2. QED
        BY <3>2, <4>1, <1>0, <1>2, <1>4, <4>0 DEF WebhookKnows, OnboardingTypeOK
    <3>3. QED
      BY <3>1, <3>2, <1>4 DEF WebhookKnows
  <2>7. QED
    BY <1>0, <2>2, <2>3, <2>4, <2>5, <2>6 DEF OneEntryPerProvider
<1>5. QED
  BY <1>3, <1>4 DEF handleStripeAccountWebhook

(* An entry is overwritten or added.                                        *)
LEMMA SaveStep ==
  ASSUME OnboardingInv, NEW j \in Jobs, job[j].at \in {"update", "push"},
         payoutAccounts' = (payoutAccounts \ EntriesAt(job[j].provider)) \cup {NewEntry(j)},
         Garble(j), Told(j), Saved(j), UNCHANGED providerVars
  PROVE  OnboardingInv'
<1> USE DEF OnboardingInv, providerVars
<1> DEFINE a == job[j].account
           p == job[j].provider
           c == job[j].change
<1>1. /\ job[j] \in JobType /\ a \in Accounts /\ p \in PayoutProviders /\ openedAt[a] = p
      /\ c \in Nat /\ c \in 0..MaxChanges /\ a # NoAccount
  BY OnboardingTypes, OnboardingAssumption DEF JobKnows, Opened, JobType
<1>2. /\ NewEntry(j) \in Entry /\ NewEntry(j).provider = p /\ NewEntry(j).reference = a
      /\ NewEntry(j).status = job[j].status
  BY <1>1 DEF NewEntry, Entry, JobType
<1>3. /\ \A e \in payoutAccounts' : e = NewEntry(j) \/ (e \in payoutAccounts /\ e.provider # p)
      /\ NewEntry(j) \in payoutAccounts'
      /\ \A e \in payoutAccounts : e.provider # p => e \in payoutAccounts'
  BY DEF EntriesAt
(* Who else was about to write this provider's entry is garbled, and so is  *)
(* then what this job wrote.                                                *)
<1>4. /\ garbled' \in SUBSET Accounts /\ garbled \subseteq garbled'
      /\ \A i \in Jobs \ {j} : Writing(i) /\ job[i].provider = p =>
           /\ a \in garbled'
           /\ job[i].account # NoAccount => job[i].account \in garbled'
  <2>1. \A i \in Jobs : job[i].account \in Accounts \cup {NoAccount}
    BY OnboardingTypes DEF JobType
  <2>2. \A i \in Jobs \ {j} : Writing(i) /\ job[i].provider = p <=> i \in Beside(j)
    BY DEF Beside, Writing
  <2>3. garbled' = garbled \cup (IF Beside(j) = {} THEN {}
                           ELSE {job[i].account : i \in Beside(j) \cup {j}} \ {NoAccount})
    BY DEF Garble
  <2>4. Beside(j) \subseteq Jobs
    BY DEF Beside
  <2>5. garbled \in SUBSET Accounts
    BY DEF OnboardingTypeOK
  <2>6. QED
    BY <1>1, <2>1, <2>2, <2>3, <2>4, <2>5
<1>5. /\ \A i \in Jobs \ {j} : job'[i] = job[i]
      /\ \/ job'[j] = NoJob
         \/ /\ p = Stripe /\ c = 0 /\ job'[j].at = "link" /\ job'[j].account = a
            /\ job'[j].provider = p /\ job'[j].change = 0
      /\ job' \in [Jobs -> JobType]
  BY <1>1, NoJobType DEF Saved, OnboardingTypeOK, JobType
<1>6. /\ \A b \in Accounts \ {a} : handled'[b] = handled[b]
      /\ handled'[a] = IF c > handled[a] THEN c ELSE handled[a]
      /\ handled' \in [Accounts -> 0..MaxChanges]
  <2>1. handled \in [Accounts -> 0..MaxChanges] /\ handled[a] \in Nat
    BY <1>1 DEF OnboardingTypeOK
  <2>2. CASE c = 0
    BY <2>1, <2>2, <1>1 DEF Told
  <2>3. CASE c # 0
    BY <2>1, <2>3, <1>1 DEF Told
  <2>4. QED
    BY <2>2, <2>3
<1>7. events' = events \ {<<a, c>>}
  BY DEF Told
<1>8. /\ SetupKnows(j) /\ WebhookKnows(j) /\ JobKnows(j) /\ OthersAreGarbled(j)
      /\ c = 0 => a \notin invited
      /\ c # 0 => p = Stripe /\ c <= changes[a]
  BY DEF SetupKnows, WebhookKnows
<1>9. UNCHANGED <<openedAt, invited, changes>>
  OBVIOUS
<1>a. /\ Stripe \in PayoutProviders
      /\ \A e \in payoutAccounts : e.reference \in Accounts /\ e.provider \in PayoutProviders
  BY OnboardingTypes, OnboardingAssumption
<1> HIDE DEF a, p, c
<1>10. OnboardingTypeOK'
  <2>1. payoutAccounts' \in SUBSET Entry
    BY <1>2, <1>3 DEF OnboardingTypeOK
  <2>2. QED
    BY <2>1, <1>4, <1>5, <1>6, <1>7, <1>9 DEF OnboardingTypeOK
<1>11. OneEntryPerProvider'
  BY <1>2, <1>3 DEF OneEntryPerProvider
(* A replaced account's job is another's, and was garbled before.           *)
<1>12. ASSUME NEW b \in Accounts, b \notin garbled', \E e \in EntriesAt(Stripe) : e.reference = b
       PROVE  \E e \in EntriesAt(Stripe)' : e.reference = b
  <2>1. PICK e \in payoutAccounts : e.provider = Stripe /\ e.reference = b
    BY <1>12 DEF EntriesAt
  <2>2. CASE p = Stripe
    <3>1. b = a
      BY <2>1, <2>2, <1>4, <1>8, <1>12 DEF OthersAreGarbled, Writing, EntriesAt, a, p
    <3>2. QED
      BY <3>1, <2>2, <1>2, <1>3 DEF EntriesAt
  <2>3. CASE p # Stripe
    BY <2>1, <2>3, <1>3 DEF EntriesAt
  <2>4. QED
    BY <2>2, <2>3
<1>13. ASSUME NEW b \in Accounts PROVE AccountKnows(b)'
  <2>1. AccountKnows(b) /\ changes[b] \in Nat /\ handled[b] \in Nat
    BY OnboardingTypes
  <2>2. /\ handled'[b] <= changes'[b]
        /\ changes'[b] > handled'[b] => <<b, changes'[b]>> \in events'
    <3>1. CASE b = a
      <4>1. handled'[b] <= changes[b] /\ handled'[b] >= c /\ handled'[b] >= handled[b]
        BY <2>1, <3>1, <1>1, <1>6, <1>8 DEF AccountKnows
      <4>2. QED
        BY <2>1, <3>1, <4>1, <1>1, <1>6, <1>7, <1>9 DEF AccountKnows
    <3>2. CASE b # a
      BY <2>1, <3>2, <1>6, <1>7, <1>9 DEF AccountKnows
    <3>3. QED
      BY <3>1, <3>2
  <2>3. b \in invited \ garbled' => \E e \in EntriesAt(Stripe)' : e.reference = b
    BY <2>1, <1>4, <1>12 DEF AccountKnows
  <2>4. QED
    BY <2>1, <2>2, <2>3, <1>7, <1>9 DEF AccountKnows
<1>14. ASSUME NEW e \in payoutAccounts' PROVE EntryKnows(e)'
  <2>1. CASE e = NewEntry(j)
    <3>1. openedAt'[e.reference] = e.provider
      BY <2>1, <1>1, <1>2, <1>9 DEF a, p
    <3>2. ASSUME p = Stripe, a \notin garbled' PROVE job[j].status = "active" <=> Ready(handled'[a])
      <4>1. handled[a] \in Nat /\ AccountKnows(a) /\ changes[a] \in Nat
        BY <1>1, OnboardingTypes
      <4>2. CASE c = 0
        <5>1. job[j].status = "pending"
          BY <3>2, <4>2, <1>8 DEF SetupKnows, c, p
        <5>2. handled'[a] = 0
          BY <4>1, <4>2, <1>6, <1>8 DEF AccountKnows
        <5>3. QED
          BY <5>1, <5>2, NotReadyAtFirst
      <4>3. CASE c # 0
        <5>1. handled[a] <= c /\ (job[j].status = "active" <=> Ready(c))
          BY <3>2, <4>3, <1>4, <1>8 DEF WebhookKnows, a, c
        <5>2. handled'[a] = c
          BY <4>1, <5>1, <1>1, <1>6
        <5>3. QED
          BY <5>1, <5>2
      <4>4. QED
        BY <4>2, <4>3
    <3>3. QED
      BY <2>1, <3>1, <3>2, <1>2 DEF EntryKnows
  <2>2. CASE e \in payoutAccounts /\ e.provider # p
    <3>1. EntryKnows(e) /\ e.reference \in Accounts
      BY <2>2, <1>a
    <3>2. e.reference # a
      BY <2>2, <3>1, <1>1 DEF EntryKnows
    <3>3. handled'[e.reference] = handled[e.reference]
      BY <3>1, <3>2, <1>6
    <3>4. QED
      BY <3>1, <3>3, <1>4, <1>9 DEF EntryKnows
  <2>3. QED
    BY <1>3, <2>1, <2>2
<1>15. ASSUME NEW i \in Jobs
       PROVE (/\ JobKnows(i) /\ SetupKnows(i) /\ WebhookKnows(i)
              /\ OthersAreGarbled(i) /\ LinkKnows(i))'
  <2>1. CASE i = j
    <3>1. CASE job'[j] = NoJob
      BY <2>1, <3>1, NoJobType DEF JobKnows, SetupKnows, WebhookKnows,
         OthersAreGarbled, LinkKnows, Writing, Opened
    <3>2. CASE /\ p = Stripe /\ c = 0 /\ job'[j].at = "link" /\ job'[j].account = a
               /\ job'[j].provider = p /\ job'[j].change = 0
      <4>1. \E e \in EntriesAt(Stripe)' : e.reference = a
        BY <3>2, <1>2, <1>3 DEF EntriesAt
      <4>2. QED
        BY <2>1, <3>2, <4>1, <1>1, <1>9, <1>a DEF JobKnows, SetupKnows, WebhookKnows,
           OthersAreGarbled, LinkKnows, Writing, Opened
    <3>3. QED
      BY <3>1, <3>2, <1>5
  <2>2. CASE i # j
    <3>0. job'[i] = job[i] /\ JobKnows(i) /\ SetupKnows(i) /\ WebhookKnows(i)
          /\ OthersAreGarbled(i) /\ LinkKnows(i)
      BY <2>2, <1>5
    <3>1. JobKnows(i)'
      BY <3>0, <1>9 DEF JobKnows, Opened
    <3>2. LinkKnows(i)'
      <4>1. job[i].at = "link" => job[i].account \in Accounts
        BY <3>0 DEF JobKnows, Opened
      <4>2. QED
        BY <3>0, <4>1, <1>4, <1>12 DEF LinkKnows
    <3>3. SetupKnows(i)'
      <4> SUFFICES ASSUME job[i].at \in {"update", "push"}, job[i].change = 0
                   PROVE  SetupKnows(i)'
        BY <3>0 DEF SetupKnows
      <4>1. /\ job[i].account # a /\ job[i].account # NoAccount /\ job[i].account \notin invited
            /\ job[i].provider = Stripe => job[i].status = "pending"
            /\ \A e \in payoutAccounts : e.reference # job[i].account
            /\ \A k \in Jobs \ {i} : job[k].account # job[i].account
        BY <2>2, <3>0, OnboardingAssumption DEF SetupKnows, JobKnows, Opened, a
      <4>2. \A k \in Jobs \ {i} : job'[k].account # job[i].account
        BY <4>1, <1>5, NoJobType
      <4>3. \A e \in payoutAccounts' : e.reference # job[i].account
        BY <4>1, <1>2, <1>3
      <4>4. QED
        BY <3>0, <4>1, <4>2, <4>3, <1>9 DEF SetupKnows
    <3>4. WebhookKnows(i)'
      <4> SUFFICES ASSUME job[i].change # 0 PROVE WebhookKnows(i)'
        BY <3>0 DEF WebhookKnows
      <4>1. /\ job[i].account \in invited /\ job[i].account \in Accounts
            /\ job[i].account \notin garbled => handled[job[i].account] <= job[i].change
        BY <3>0 DEF WebhookKnows, OnboardingTypeOK
      <4>2. job[i].account \notin garbled' => handled'[job[i].account] = handled[job[i].account]
        <5>1. CASE job[i].account # a
          BY <5>1, <4>1, <1>6
        <5>2. CASE job[i].account = a
          <6>1. a \notin garbled => c = 0
            BY <2>2, <3>0, <5>2 DEF WebhookKnows, a, c
          <6>2. c # 0
            BY <4>1, <5>2, <1>8
          <6>3. QED
            BY <5>2, <6>1, <6>2, <1>4
        <5>3. QED
          BY <5>1, <5>2
      <4>3. \A k \in Jobs \ {i} : job'[k].account = job[i].account =>
                job'[k].change = 0 \/ job'[k] = job[k]
        BY <1>5, NoJobType
      <4>4. QED
        BY <3>0, <4>1, <4>2, <4>3, <1>4, <1>9 DEF WebhookKnows
    <3>5. OthersAreGarbled(i)'
      <4> SUFFICES ASSUME Writing(i), job[i].provider = Stripe, NEW e \in EntriesAt(Stripe)',
                          e.reference # job[i].account
                   PROVE  e.reference \in garbled'
        BY <3>0 DEF OthersAreGarbled, Writing
      <4>1. CASE e = NewEntry(j)
        BY <4>1, <2>2, <1>2, <1>4 DEF EntriesAt
      <4>2. CASE e \in payoutAccounts /\ e.provider # p
        BY <4>2, <3>0, <1>4 DEF OthersAreGarbled, EntriesAt
      <4>3. QED
        BY <4>1, <4>2, <1>3 DEF EntriesAt
    <3>6. QED
      BY <3>1, <3>2, <3>3, <3>4, <3>5
  <2>3. QED
    BY <2>1, <2>2
<1>16. QED
  BY <1>10, <1>11, <1>13, <1>14, <1>15

LEMMA OnboardingStep ==
  ASSUME OnboardingInv, OnboardingNext PROVE OnboardingInv'
<1> USE DEF OnboardingInv
<1>0. \A j \in Jobs : job[j] \in JobType /\ job[j].provider \in PayoutProviders \cup {NoPayoutProvider}
  BY OnboardingTypes DEF JobType
<1>1. ASSUME NEW j \in Jobs, UpdateEntry(j) PROVE OnboardingInv'
  <2>1. CASE EntriesAt(job[j].provider) = {}
    <3> DEFINE r == [job[j] EXCEPT !.at = "push"]
    <3>1. /\ job' = [job EXCEPT ![j] = r] /\ job[j].at = "update"
          /\ UNCHANGED <<payoutAccounts, providerVars, events, handled, garbled>>
      BY <1>1, <2>1 DEF UpdateEntry
    <3>2. /\ r \in JobType /\ r.at = "push" /\ r.provider = job[j].provider
          /\ r.account = job[j].account /\ r.status = job[j].status /\ r.change = job[j].change
      BY <1>0 DEF JobType
    <3> HIDE DEF r
    <3>3. /\ job'[j] = r /\ \A i \in Jobs \ {j} : job'[i] = job[i]
          /\ job' \in [Jobs -> JobType]
      BY <3>1, <3>2 DEF OnboardingTypeOK
    <3>4. /\ OnboardingTypeOK' /\ \A a \in Accounts : AccountKnows(a)'
          /\ \A e \in payoutAccounts' : EntryKnows(e)'
      BY <3>1, <3>3 DEF OnboardingTypeOK, AccountKnows, EntryKnows, EntriesAt, providerVars
    <3>5. \A i \in Jobs : /\ job'[i].account = job[i].account /\ job'[i].change = job[i].change
                          /\ job'[i].provider = job[i].provider /\ job'[i].status = job[i].status
                          /\ job'[i].at = job[i].at \/ (job[i].at = "update" /\ job'[i].at = "push")
      BY <3>1, <3>2, <3>3
    <3>6. ASSUME NEW i \in Jobs
          PROVE (/\ JobKnows(i) /\ SetupKnows(i) /\ WebhookKnows(i)
                 /\ OthersAreGarbled(i) /\ LinkKnows(i))'
      <4>1. JobKnows(i)' /\ OthersAreGarbled(i)' /\ LinkKnows(i)'
        BY <3>1, <3>5 DEF JobKnows, OthersAreGarbled, LinkKnows, Opened, Writing, EntriesAt, providerVars
      <4>2. SetupKnows(i)'
        BY <3>1, <3>5 DEF SetupKnows, providerVars
      <4>3. WebhookKnows(i)'
        BY <3>1, <3>5 DEF WebhookKnows, providerVars
      <4>4. QED
        BY <4>1, <4>2, <4>3
    <3>7. QED
      BY <3>1, <3>4, <3>6 DEF OneEntryPerProvider
  <2>2. CASE EntriesAt(job[j].provider) # {}
    <3>1. PICK e \in EntriesAt(job[j].provider) :
            payoutAccounts' = (payoutAccounts \ {e}) \cup {NewEntry(j)}
      BY <1>1, <2>2 DEF UpdateEntry
    <3>2. EntriesAt(job[j].provider) = {e}
      BY <3>1 DEF EntriesAt, OneEntryPerProvider
    <3>3. QED
      BY <1>1, <2>2, <3>1, <3>2, SaveStep DEF UpdateEntry
  <2>3. QED
    BY <2>1, <2>2
<1>2. ASSUME NEW j \in Jobs, PushEntry(j) PROVE OnboardingInv'
  <2>1. CASE StillNone(j)
    <3>1. payoutAccounts' = (payoutAccounts \ EntriesAt(job[j].provider)) \cup {NewEntry(j)}
      BY <1>2, <2>1 DEF PushEntry, StillNone
    <3>2. QED
      BY <1>2, <2>1, <3>1, SaveStep DEF PushEntry
  <2>2. CASE ~ StillNone(j)
    <3>1. job' = [job EXCEPT ![j] = NoJob] /\ UNCHANGED invited
          /\ UNCHANGED <<payoutAccounts, openedAt, changes, events, handled, garbled>>
      BY <1>2, <2>2 DEF PushEntry, providerVars
    <3>2. job' \in [Jobs -> JobType] /\ \A i \in Jobs : job'[i] = job[i] \/ job'[i] = NoJob
      BY <3>1, NoJobType DEF OnboardingTypeOK
    <3>3. QED
      BY <3>1, <3>2, QuietStep
  <2>3. QED
    BY <2>1, <2>2
<1>3. ASSUME NEW j \in Jobs, DropJob(j) PROVE OnboardingInv'
  <2>1. job' = [job EXCEPT ![j] = NoJob] /\ UNCHANGED invited
        /\ UNCHANGED <<payoutAccounts, openedAt, changes, events, handled, garbled>>
    BY <1>3 DEF DropJob, providerVars
  <2>2. job' \in [Jobs -> JobType] /\ \A i \in Jobs : job'[i] = job[i] \/ job'[i] = NoJob
    BY <2>1, NoJobType DEF OnboardingTypeOK
  <2>3. QED
    BY <2>1, <2>2, QuietStep
<1>4. ASSUME NEW j \in Jobs, createOnboardingLink(j) PROVE OnboardingInv'
  <2> DEFINE a == job[j].account
  <2>1. /\ job[j].at = "link" /\ job' = [job EXCEPT ![j] = NoJob] /\ invited' = invited \cup {a}
        /\ UNCHANGED <<payoutAccounts, openedAt, changes, events, handled, garbled>>
    BY <1>4 DEF createOnboardingLink
  <2>2. job' \in [Jobs -> JobType] /\ \A i \in Jobs : job'[i] = job[i] \/ job'[i] = NoJob
    BY <2>1, NoJobType DEF OnboardingTypeOK
  <2>3. a \in Accounts /\ openedAt[a] = Stripe
    BY <2>1 DEF JobKnows, Opened
  <2>4. a \notin garbled => \E e \in EntriesAt(Stripe) : e.reference = a
    BY <2>1 DEF LinkKnows
  <2>5. \A i \in Jobs : job[i].at \in {"update", "push"} /\ job[i].change = 0 => job[i].account # a
    BY <2>1 DEF SetupKnows
  <2> HIDE DEF a
  <2>6. QED
    BY <2>1, <2>2, <2>3, <2>4, <2>5, QuietStep
<1>5. ASSUME NEW e \in payoutAccounts, linkAgain(e) PROVE OnboardingInv'
  <2> DEFINE a == e.reference
  <2>1. /\ e \in EntriesAt(Stripe) /\ UNCHANGED job /\ invited' = invited \cup {a}
        /\ UNCHANGED <<payoutAccounts, openedAt, changes, events, handled, garbled>>
    BY <1>5 DEF linkAgain
  <2>2. job' \in [Jobs -> JobType] /\ \A i \in Jobs : job'[i] = job[i] \/ job'[i] = NoJob
    BY <2>1 DEF OnboardingTypeOK
  <2>3. a \in Accounts /\ openedAt[a] = Stripe
    BY <2>1, OnboardingTypes DEF EntryKnows, EntriesAt
  <2>4. a \notin garbled => \E f \in EntriesAt(Stripe) : f.reference = a
    BY <2>1
  <2>5. \A i \in Jobs : job[i].at \in {"update", "push"} /\ job[i].change = 0 => job[i].account # a
    BY DEF SetupKnows
  <2> HIDE DEF a
  <2>6. QED
    BY <2>1, <2>2, <2>3, <2>4, <2>5, QuietStep
<1>6. QED
  BY <1>1, <1>2, <1>3, <1>4, <1>5, SetupStep, OpenAccountStep, WebhookStep, EventStep
     DEF OnboardingNext

LEMMA OnboardingInvariant == OnboardingSpec => []OnboardingInv
<1>1. OnboardingInv /\ UNCHANGED onboardingVars => OnboardingInv'
  BY DEF OnboardingInv, onboardingVars, providerVars, OnboardingTypeOK, OneEntryPerProvider,
     JobKnows, SetupKnows, WebhookKnows, OthersAreGarbled, LinkKnows, AccountKnows,
     EntryKnows, Opened, Writing, EntriesAt
<1>2. QED
  BY OnboardingInitial, OnboardingStep, <1>1, PTL DEF OnboardingSpec

(* The list of accounts and the jobs that change it keep their types.       *)
THEOREM OnboardingTyped == OnboardingSpec => []OnboardingTypeOK
BY OnboardingInvariant, PTL DEF OnboardingInv

(* One entry per provider (restaurants.service.ts:542), for any number of   *)
(* requests and webhooks at a time.                                         *)
THEOREM OnboardingOneEntry == OnboardingSpec => []OneEntryPerProvider
BY OnboardingInvariant, PTL DEF OnboardingInv

(* What the webhooks leave on the list is what Stripe said last, about any  *)
(* account whose requests and events did not cross.                         *)
THEOREM OnboardingFollowsStripe == OnboardingSpec => []StatusFollowsStripe
<1>1. ASSUME OnboardingInv PROVE StatusFollowsStripe
  <2> SUFFICES ASSUME NEW a \in invited \ garbled, \A n \in 1..MaxChanges : <<a, n>> \notin events
               PROVE  Ready(changes[a]) <=>
                        \E e \in payoutAccounts : e.reference = a /\ e.status = "active"
    BY DEF StatusFollowsStripe
  <2>1. a \in Accounts /\ AccountKnows(a)
    BY <1>1 DEF OnboardingInv, OnboardingTypeOK
  <2>2. changes[a] \in 0..MaxChanges /\ handled[a] \in Nat /\ changes[a] \in Nat
    BY <1>1, <2>1, OnboardingTypes DEF OnboardingInv
  <2>3. handled[a] = changes[a]
    BY <2>1, <2>2, OnboardingAssumption DEF AccountKnows
  <2>4. PICK e \in payoutAccounts : e.provider = Stripe /\ e.reference = a
    BY <2>1 DEF AccountKnows, EntriesAt
  <2>5. \A f \in payoutAccounts : f.reference = a => f = e
    BY <1>1, <2>4 DEF OnboardingInv, EntryKnows, OneEntryPerProvider
  <2>6. e.status = "active" <=> Ready(changes[a])
    BY <1>1, <2>3, <2>4 DEF OnboardingInv, EntryKnows
  <2>7. QED
    BY <2>4, <2>5, <2>6
<1>2. QED
  BY OnboardingInvariant, <1>1, PTL

-----------------------------------------------------------------------------
(***************************************************************************)
(* A store's catalog                                                       *)
(***************************************************************************)

Used == {c \in Categories : shelf[c] # "unused"}

(* What the steps of an edit tell of it.                                    *)
EditFits(e) ==
  LET r == edit[e] IN
  /\ r.kind = "none" <=> r.at = "idle"
  /\ r.kind = "create" <=> r.at = "create"
  /\ r.kind = "file" <=> r.at \in {"file", "refile"}
  /\ r.kind = "delete" => r.at \in {"walk", "deleteProducts", "deleteCategories"}
  /\ r.kind = "move" => r.at \in {"walk", "saveParent"}
  /\ r.at \in {"deleteProducts", "deleteCategories"} => r.kind = "delete"
  /\ r.at = "saveParent" => r.kind = "move"
  /\ r.kind \in {"move", "delete"} => r.category \in Categories
  /\ r.kind = "create" => r.to \in Used \cup {Root}
  /\ r.kind = "move" => r.to \in (Used \cup {Root}) \ {r.category}
  /\ r.kind = "move" /\ r.at = "walk" => r.to # Root
  /\ r.kind = "file" => r.to \in Categories
  /\ r.at = "refile" => r.product \in Products
  /\ r.frontier \subseteq Doomed(e)

(* U holds x and whatever is above it.                                      *)
Above(U, x) ==
  /\ x \in U /\ U \subseteq Used
  /\ \A y \in U \cap There : parent[y] \in U \cup {Root}

(* A move has found nothing above its destination so far, except below what *)
(* it will look at next...                                                  *)
MoveKnows(e) ==
  LET r == edit[e] IN
  r.kind = "move" /\ r.to # Root =>
    /\ r.at = "walk" =>
         \E U \in SUBSET Categories :
           /\ Above(U, r.to)
           /\ \A x \in U \cap There : parent[x] \in Doomed(e) \ r.frontier => x \in r.found
    /\ r.at = "saveParent" =>
         \E U \in SUBSET Categories : Above(U, r.to) /\ r.category \notin U

CatalogBase ==
  /\ CatalogTypeOK
  /\ \A e \in Edits : EditFits(e)
  /\ \A c \in There : parent[c] \in Used \cup {Root}

ForestInv ==
  CatalogBase /\ CategoriesFormAForest /\ (movedTogether \/ \A e \in Edits : MoveKnows(e))

(* ...and a deletion has found all that is below its category.              *)
DeleteKnows(e) ==
  LET r == edit[e] IN
  /\ r.kind \in {"create", "move"} => r.to \in There \cup {Root}
  /\ r.kind = "file" => r.to \in There
  /\ r.kind = "delete" =>
       \A x \in There : parent[x] \in Doomed(e) \ r.frontier => x \in Doomed(e)
  /\ r.at \in {"deleteProducts", "deleteCategories"} => r.frontier = {}
  /\ r.at = "deleteCategories" => \A p \in Products : filed[p] \notin Doomed(e)

OrphanInv ==
  CatalogBase /\ NothingIsOrphaned /\ (deletedUnder \/ \A e \in Edits : DeleteKnows(e))

(* What an edit does: it begins, it reads, or it writes.                    *)
Begins(e) ==
  \/ \E p \in Categories \cup {Root} : createCategory(e, p)
  \/ \E c \in Categories, p \in Categories \cup {Root} : updateCategory(e, c, p)
  \/ \E c \in Categories : deleteCategory(e, c)
  \/ \E c \in Categories : createProduct(e, c)
  \/ \E c \in Categories, q \in Products : updateProduct(e, q, c)

Reads(e) == collectDescendantIds(e) \/ WalkDone(e) \/ AbandonEdit(e)

Writes(e) ==
  \/ \E c \in Categories : InsertCategory(e, c)
  \/ \E p \in Products : InsertProduct(e, p)
  \/ SaveParent(e) \/ DeleteProducts(e) \/ DeleteCategories(e) \/ SaveProduct(e)

LEMMA CatalogSteps ==
  ASSUME CatalogNext
  PROVE  \/ \E e \in Edits : Begins(e) \/ Reads(e) \/ Writes(e)
         \/ \E p \in Products : deleteProduct(p)
BY DEF CatalogNext, Begins, Reads, Writes

LEMMA NoEditType == NoEdit \in EditType /\ NoEdit.at = "idle" /\ NoEdit.kind = "none"
BY DEF NoEdit, EditType

(* An edit that a step leaves alone fits as before.                         *)
LEMMA FitsKept ==
  ASSUME NEW f \in Edits, EditFits(f), edit'[f] = edit[f], Used \subseteq Used'
  PROVE  EditFits(f)'
BY DEF EditFits, Doomed

(* What only one edit does to itself.                                       *)
LEMMA OwnStep ==
  ASSUME CatalogBase, NEW e \in Edits, NEW r \in EditType,
         edit' = [edit EXCEPT ![e] = r], shelf' \in [Categories -> {"unused", "there", "deleted"}],
         Used \subseteq Used', EditFits(e)'
  PROVE  /\ edit' \in [Edits -> EditType]
         /\ \A f \in Edits : EditFits(f)'
         /\ edit'[e] = r
         /\ \A f \in Edits : f # e => edit'[f] = edit[f]
<1>1. /\ edit \in [Edits -> EditType]
      /\ \A f \in Edits : EditFits(f)
  BY DEF CatalogBase, CatalogTypeOK
<1>2. /\ edit' \in [Edits -> EditType] /\ edit'[e] = r
      /\ \A f \in Edits : f # e => edit'[f] = edit[f]
  BY <1>1
<1>3. \A f \in Edits : EditFits(f)'
  BY <1>1, <1>2, FitsKept
<1> QED BY <1>2, <1>3

(* The base holds when only edits change.                                   *)
LEMMA EditsAlone ==
  ASSUME CatalogBase, Unwritten, NEW e \in Edits, NEW r \in EditType,
         edit' = [edit EXCEPT ![e] = r], EditFits(e)'
  PROVE  CatalogBase'
<1>1. /\ CatalogTypeOK
      /\ \A c \in There : parent[c] \in Used \cup {Root}
  BY DEF CatalogBase
<1>2. /\ There' = There /\ Used' = Used /\ parent' = parent /\ shelf' = shelf
      /\ filed' = filed /\ unusedProducts' = unusedProducts
      /\ movedTogether' = movedTogether /\ deletedUnder' = deletedUnder
  BY DEF Unwritten, shelfVars, productVars, There, Used
<1>3. /\ edit' \in [Edits -> EditType]
      /\ \A f \in Edits : EditFits(f)'
  BY <1>1, <1>2, OwnStep DEF CatalogTypeOK
<1>4. CatalogTypeOK'
  BY <1>1, <1>2, <1>3 DEF CatalogTypeOK
<1> QED BY <1>1, <1>2, <1>3, <1>4 DEF CatalogBase

LEMMA BaseBeginnings ==
  ASSUME CatalogBase, NEW e \in Edits, Begins(e)
  PROVE  CatalogBase'
<1>1. CatalogTypeOK /\ NoEdit \in EditType
  BY NoEditType DEF CatalogBase
<1>2. There \subseteq Used /\ There \subseteq Categories /\ Unwritten
  <2>1. There \subseteq Used /\ There \subseteq Categories
    BY DEF There, Used
  <2>2. Unwritten
    BY Zenon DEF Begins, createCategory, updateCategory, deleteCategory, createProduct, updateProduct
  <2> QED BY <2>1, <2>2
<1>3. Used' = Used
  BY <1>2 DEF Used, Unwritten, shelfVars
<1>4. CASE \E p \in Categories \cup {Root} : createCategory(e, p)
  <2>0. PICK p \in Categories \cup {Root} : createCategory(e, p)
    BY <1>4
  <2> DEFINE r == [NoEdit EXCEPT !.at = "create", !.kind = "create", !.to = p]
  <2>1. edit' = [edit EXCEPT ![e] = r] /\ r \in EditType /\ p \in Used \cup {Root}
    BY <1>2, <2>0 DEF createCategory, StartEdit, EditType, NoEdit
  <2>2. edit'[e] = r
    BY <1>1, <2>1 DEF CatalogTypeOK
  <2>3. /\ edit'[e].at = "create" /\ edit'[e].kind = "create" /\ edit'[e].to = p
        /\ edit'[e].frontier = {}
    BY <2>2 DEF NoEdit
  <2>4. p \in Used' \cup {Root}
    BY <1>3, <2>1
  <2>5. EditFits(e)'
    BY <2>3, <2>4 DEF EditFits
  <2> QED BY <1>2, <2>1, <2>5, EditsAlone
<1>5. CASE \E c \in Categories, p \in Categories \cup {Root} : updateCategory(e, c, p)
  <2>0. PICK c \in Categories, p \in Categories \cup {Root} : updateCategory(e, c, p)
    BY <1>5
  <2> DEFINE r == [NoEdit EXCEPT !.at = IF p = Root THEN "saveParent" ELSE "walk",
                                 !.kind = "move", !.category = c, !.to = p,
                                 !.frontier = {c}]
  <2>1. edit' = [edit EXCEPT ![e] = r] /\ r \in EditType /\ p \in (Used \cup {Root}) \ {c}
    BY <1>2, <2>0, CatalogAssumption DEF updateCategory, StartEdit, EditType, NoEdit
  <2>2. edit'[e] = r
    BY <1>1, <2>1 DEF CatalogTypeOK
  <2>3. /\ edit'[e].at = IF p = Root THEN "saveParent" ELSE "walk"
        /\ edit'[e].kind = "move" /\ edit'[e].category = c /\ edit'[e].to = p
        /\ edit'[e].frontier = {c}
    BY <2>2 DEF NoEdit
  <2>4. p \in (Used' \cup {Root}) \ {c}
    BY <1>3, <2>1
  <2>5. EditFits(e)'
    BY <2>3, <2>4 DEF EditFits, Doomed
  <2> QED BY <1>2, <2>1, <2>5, EditsAlone
<1>6. CASE \E c \in Categories : deleteCategory(e, c)
  <2>0. PICK c \in Categories : deleteCategory(e, c)
    BY <1>6
  <2> DEFINE r == [NoEdit EXCEPT !.at = "walk", !.kind = "delete", !.category = c,
                                 !.frontier = {c}]
  <2>1. edit' = [edit EXCEPT ![e] = r] /\ r \in EditType
    BY <2>0 DEF deleteCategory, StartEdit, EditType, NoEdit
  <2>2. edit'[e] = r
    BY <1>1, <2>1 DEF CatalogTypeOK
  <2>3. EditFits(e)'
    BY <2>2 DEF EditFits, NoEdit, Doomed
  <2> QED BY <1>2, <2>1, <2>3, EditsAlone
<1>7. CASE \E c \in Categories : createProduct(e, c)
  <2>0. PICK c \in Categories : createProduct(e, c)
    BY <1>7
  <2> DEFINE r == [NoEdit EXCEPT !.at = "file", !.kind = "file", !.to = c]
  <2>1. edit' = [edit EXCEPT ![e] = r] /\ r \in EditType
    BY <2>0 DEF createProduct, StartEdit, EditType, NoEdit
  <2>2. edit'[e] = r
    BY <1>1, <2>1 DEF CatalogTypeOK
  <2>3. EditFits(e)'
    BY <2>2 DEF EditFits, NoEdit, Doomed
  <2> QED BY <1>2, <2>1, <2>3, EditsAlone
<1>8. CASE \E c \in Categories, q \in Products : updateProduct(e, q, c)
  <2>0. PICK c \in Categories, q \in Products : updateProduct(e, q, c)
    BY <1>8
  <2> DEFINE r == [NoEdit EXCEPT !.at = "refile", !.kind = "file", !.to = c, !.product = q]
  <2>1. edit' = [edit EXCEPT ![e] = r] /\ r \in EditType
    BY <2>0 DEF updateProduct, StartEdit, EditType, NoEdit
  <2>2. edit'[e] = r
    BY <1>1, <2>1 DEF CatalogTypeOK
  <2>3. EditFits(e)'
    BY <2>2 DEF EditFits, NoEdit, Doomed
  <2> QED BY <1>2, <2>1, <2>3, EditsAlone
<1> QED BY <1>4, <1>5, <1>6, <1>7, <1>8 DEF Begins

LEMMA BaseReads ==
  ASSUME CatalogBase, NEW e \in Edits, Reads(e)
  PROVE  CatalogBase'
<1>1. /\ CatalogTypeOK /\ NoEdit \in EditType /\ edit[e] \in EditType
      /\ EditFits(e)
  BY NoEditType DEF CatalogBase, CatalogTypeOK
<1>2. Unwritten
  BY DEF Reads, collectDescendantIds, WalkDone, AbandonEdit
<1>3. Used' = Used
  BY <1>2 DEF Used, Unwritten, shelfVars
<1>4. CASE collectDescendantIds(e)
  <2> DEFINE r == [edit[e] EXCEPT !.frontier = NextLevel(e),
                                  !.found = edit[e].found \cup NextLevel(e)]
  <2>1. NextLevel(e) \subseteq Categories
    BY DEF NextLevel, Children, There
  <2>2. edit' = [edit EXCEPT ![e] = r]
    BY <1>1, <1>4 DEF collectDescendantIds, CatalogTypeOK, EditType
  <2>3. r \in EditType /\ edit'[e] = r
    BY <1>1, <2>1, <2>2 DEF CatalogTypeOK, EditType
  <2>4. EditFits(e)'
    BY <1>1, <1>3, <2>3 DEF EditFits, Doomed, EditType
  <2> QED BY <1>2, <2>2, <2>3, <2>4, EditsAlone
<1>5. CASE WalkDone(e)
  <2>1. ASSUME EndEdit(e)
        PROVE  CatalogBase'
    <3>1. edit' = [edit EXCEPT ![e] = NoEdit] /\ edit'[e] = NoEdit
      BY <1>1, <2>1 DEF EndEdit, CatalogTypeOK
    <3>2. EditFits(e)'
      BY <3>1 DEF EditFits, NoEdit, Doomed
    <3> QED BY <1>1, <1>2, <3>1, <3>2, EditsAlone
  <2>2. ASSUME NEW at \in {"deleteProducts", "saveParent"}, StepEdit(e, at),
               edit[e].kind = IF at = "saveParent" THEN "move" ELSE "delete"
        PROVE  CatalogBase'
    <3> DEFINE r == [edit[e] EXCEPT !.at = at]
    <3>1. edit' = [edit EXCEPT ![e] = r] /\ r \in EditType /\ edit'[e] = r
      BY <1>1, <2>2 DEF StepEdit, CatalogTypeOK, EditType
    <3>2. EditFits(e)'
      BY <1>1, <1>3, <2>2, <3>1 DEF EditFits, Doomed, EditType
    <3> QED BY <1>2, <3>1, <3>2, EditsAlone
  <2>3. edit[e].kind = "delete" \/ edit[e].kind = "move"
    BY <1>1, <1>5 DEF WalkDone, EditFits, EditType
  <2> QED BY <1>5, <2>1, <2>2, <2>3 DEF WalkDone
<1>6. CASE AbandonEdit(e)
  <2>1. edit' = [edit EXCEPT ![e] = NoEdit] /\ edit'[e] = NoEdit
    BY <1>1, <1>6 DEF AbandonEdit, EndEdit, CatalogTypeOK
  <2>2. EditFits(e)'
    BY <2>1 DEF EditFits, NoEdit, Doomed
  <2> QED BY <1>1, <1>2, <2>1, <2>2, EditsAlone
<1> QED BY <1>4, <1>5, <1>6 DEF Reads

(* ...and when something is written.                                        *)
LEMMA BaseWrites ==
  ASSUME CatalogBase, NEW e \in Edits, Writes(e)
  PROVE  CatalogBase'
<1>1. /\ CatalogTypeOK /\ NoEdit \in EditType /\ edit[e] \in EditType
      /\ EditFits(e) /\ \A x \in There : parent[x] \in Used \cup {Root}
      /\ There \subseteq Used /\ Used \subseteq Categories
  BY NoEditType DEF CatalogBase, CatalogTypeOK, There, Used
<1>2. movedTogether' \in BOOLEAN /\ deletedUnder' \in BOOLEAN
  BY <1>1 DEF Writes, CatalogTypeOK, InsertCategory, InsertProduct, SaveParent, DeleteProducts,
    DeleteCategories, SaveProduct, NoteWrite
<1>3. /\ shelf' \in [Categories -> {"unused", "there", "deleted"}]
      /\ parent' \in [Categories -> Categories \cup {Root}]
      /\ filed' \in [Products -> Categories \cup {NoCategory}]
      /\ unusedProducts' \in SUBSET Products
      /\ Used \subseteq Used'
      /\ \A x \in There' : parent'[x] \in Used' \cup {Root}
  <2>1. CASE \E c \in Categories : InsertCategory(e, c)
    <3>0. PICK c \in Categories : InsertCategory(e, c)
      BY <2>1
    <3>1. edit[e].to \in Used \cup {Root}
      BY <1>1, <3>0 DEF InsertCategory, EditFits
    <3>2. /\ shelf' = [shelf EXCEPT ![c] = "there"]
          /\ parent' = [parent EXCEPT ![c] = edit[e].to]
          /\ filed' = filed /\ unusedProducts' = unusedProducts
      BY <3>0 DEF InsertCategory, productVars
    <3>3. Used' = Used \cup {c} /\ There' = There \cup {c}
      BY <1>1, <3>2 DEF Used, There, CatalogTypeOK
    <3> QED BY <1>1, <3>1, <3>2, <3>3 DEF CatalogTypeOK
  <2>2. CASE (\E p \in Products : InsertProduct(e, p)) \/ DeleteProducts(e) \/ SaveProduct(e)
    <3>1. There' = There /\ Used' = Used /\ parent' = parent /\ shelf' = shelf
      BY <2>2 DEF InsertProduct, DeleteProducts, SaveProduct, shelfVars, There, Used
    <3>2. /\ filed' \in [Products -> Categories \cup {NoCategory}]
          /\ unusedProducts' \in SUBSET Products
      <4>1. CASE \E p \in Products : InsertProduct(e, p)
        BY <1>1, <4>1 DEF InsertProduct, CatalogTypeOK, EditFits
      <4>2. CASE DeleteProducts(e)
        BY <1>1, <4>2 DEF DeleteProducts, CatalogTypeOK
      <4>3. CASE SaveProduct(e)
        BY <1>1, <4>3 DEF SaveProduct, CatalogTypeOK, EditFits
      <4> QED BY <2>2, <4>1, <4>2, <4>3
    <3> QED BY <1>1, <3>1, <3>2 DEF CatalogTypeOK
  <2>3. CASE SaveParent(e)
    <3>1. edit[e].to \in Used \cup {Root}
      BY <1>1, <2>3 DEF SaveParent, EditFits
    <3>2. /\ shelf' = shelf /\ filed' = filed /\ unusedProducts' = unusedProducts
          /\ parent' = parent \/ parent' = [parent EXCEPT ![edit[e].category] = edit[e].to]
      BY <2>3 DEF SaveParent, productVars
    <3>3. Used' = Used /\ There' = There
      BY <3>2 DEF Used, There
    <3> QED BY <1>1, <3>1, <3>2, <3>3 DEF CatalogTypeOK, There
  <2>4. CASE DeleteCategories(e)
    <3>1. /\ shelf' = [x \in Categories |->
                         IF x \in Doomed(e) /\ shelf[x] = "there" THEN "deleted" ELSE shelf[x]]
          /\ parent' = parent /\ filed' = filed /\ unusedProducts' = unusedProducts
      BY <2>4 DEF DeleteCategories, productVars
    <3>2. Used' = Used /\ There' \subseteq There
      BY <1>1, <3>1 DEF Used, There, CatalogTypeOK
    <3> QED BY <1>1, <3>1, <3>2 DEF CatalogTypeOK
  <2> QED BY <2>1, <2>2, <2>3, <2>4 DEF Writes
<1>4. /\ edit' \in [Edits -> EditType]
      /\ \A f \in Edits : EditFits(f)'
  <2>2. CASE DeleteProducts(e)
    <3> DEFINE r == [edit[e] EXCEPT !.at = "deleteCategories"]
    <3>1. edit' = [edit EXCEPT ![e] = r] /\ r \in EditType /\ edit'[e] = r
      BY <1>1, <2>2 DEF DeleteProducts, StepEdit, CatalogTypeOK, EditType
    <3>2. edit[e].kind = "delete"
      BY <1>1, <2>2 DEF DeleteProducts, EditFits
    <3>3. EditFits(e)'
      BY <1>1, <1>3, <2>2, <3>1, <3>2 DEF EditFits, Doomed, EditType, DeleteProducts
    <3> QED BY <1>1, <1>3, <3>1, <3>3, OwnStep
  <2>3. CASE EndEdit(e)
    <3>1. edit' = [edit EXCEPT ![e] = NoEdit] /\ edit'[e] = NoEdit
      BY <1>1, <2>3 DEF EndEdit, CatalogTypeOK
    <3>2. EditFits(e)'
      BY <3>1 DEF EditFits, NoEdit, Doomed
    <3> QED BY <1>1, <1>3, <3>1, <3>2, OwnStep
  <2> QED BY <2>2, <2>3 DEF Writes, InsertCategory, InsertProduct, SaveParent, DeleteCategories,
    SaveProduct
<1>5. CatalogTypeOK'
  BY <1>2, <1>3, <1>4 DEF CatalogTypeOK
<1> QED BY <1>3, <1>4, <1>5 DEF CatalogBase

LEMMA BaseDeletedProduct ==
  ASSUME CatalogBase, NEW p \in Products, deleteProduct(p)
  PROVE  CatalogBase'
<1>1. There' = There /\ Used' = Used
  BY DEF deleteProduct, shelfVars, There, Used
<1>2. CatalogTypeOK'
  BY DEF CatalogBase, CatalogTypeOK, deleteProduct, shelfVars
<1>3. \A e \in Edits : EditFits(e)'
  BY <1>1, FitsKept DEF CatalogBase, deleteProduct
<1> QED BY <1>1, <1>2, <1>3 DEF CatalogBase, deleteProduct, shelfVars

LEMMA CatalogBegins == CatalogInit => CatalogBase
<1> SUFFICES ASSUME CatalogInit
             PROVE  CatalogBase
  OBVIOUS
<1>1. /\ CatalogTypeOK /\ There = {}
      /\ \A e \in Edits : edit[e] = NoEdit
  BY NoEditType DEF CatalogInit, CatalogTypeOK, There
<1>2. \A e \in Edits : EditFits(e)
  BY <1>1 DEF EditFits, NoEdit, Doomed
<1> QED BY <1>1, <1>2 DEF CatalogBase

LEMMA CatalogBaseStep == CatalogBase /\ [CatalogNext]_catalogVars => CatalogBase'
<1>1. ASSUME CatalogBase, CatalogNext
      PROVE  CatalogBase'
  BY <1>1, CatalogSteps, BaseBeginnings, BaseReads, BaseWrites, BaseDeletedProduct
<1>2. ASSUME CatalogBase, UNCHANGED catalogVars
      PROVE  CatalogBase'
  BY <1>2 DEF catalogVars, shelfVars, productVars, CatalogBase, CatalogTypeOK, EditFits, Doomed,
    There, Used
<1> QED BY <1>1, <1>2

(* Whatever requests are answered at a time, the catalog keeps the types    *)
(* the database gives it, and an edit the fields its steps read.            *)
THEOREM CatalogTyped == CatalogSpec => []CatalogTypeOK
<1>1. CatalogBase => CatalogTypeOK
  BY DEF CatalogBase
<1> QED BY <1>1, CatalogBegins, CatalogBaseStep, PTL DEF CatalogSpec

(* What a step leaves of the categories that a move has looked at.          *)
LEMMA AboveKept ==
  ASSUME CatalogBase, NEW U \in SUBSET Categories, NEW x, Above(U, x),
         Used \subseteq Used',
         \A y \in There' \cap Used : y \in There /\ parent'[y] = parent[y]
  PROVE  Above(U, x)'
BY DEF Above

LEMMA MoveKept ==
  ASSUME CatalogBase, NEW f \in Edits, MoveKnows(f), edit'[f] = edit[f],
         Used \subseteq Used',
         \A y \in There' \cap Used : y \in There /\ parent'[y] = parent[y]
  PROVE  MoveKnows(f)'
<1> SUFFICES ASSUME edit[f].kind = "move", edit[f].to # Root
             PROVE  MoveKnows(f)'
  BY DEF MoveKnows
<1>1. ASSUME edit[f].at = "walk"
      PROVE  \E U \in SUBSET Categories :
               /\ Above(U, edit[f].to)'
               /\ \A y \in U \cap There' :
                    parent'[y] \in Doomed(f) \ edit[f].frontier => y \in edit[f].found
  <2>1. PICK U \in SUBSET Categories :
               /\ Above(U, edit[f].to)
               /\ \A y \in U \cap There :
                    parent[y] \in Doomed(f) \ edit[f].frontier => y \in edit[f].found
    BY <1>1 DEF MoveKnows
  <2>2. PICK x : x = edit[f].to
    OBVIOUS
  <2>3. Above(U, x)'
    BY <2>1, <2>2, AboveKept
  <2>4. U \subseteq Used
    BY <2>1 DEF Above
  <2> QED BY <2>1, <2>2, <2>3, <2>4 DEF Above
<1>2. ASSUME edit[f].at = "saveParent"
      PROVE  \E U \in SUBSET Categories : Above(U, edit[f].to)' /\ edit[f].category \notin U
  <2>1. PICK U \in SUBSET Categories : Above(U, edit[f].to) /\ edit[f].category \notin U
    BY <1>2 DEF MoveKnows
  <2>2. PICK x : x = edit[f].to
    OBVIOUS
  <2>3. Above(U, x)'
    BY <2>1, <2>2, AboveKept
  <2> QED BY <2>1, <2>2, <2>3 DEF Above
<1> QED BY <1>1, <1>2 DEF MoveKnows, Doomed, Above

LEMMA NothingWritten ==
  ASSUME NEW e \in Edits, Begins(e) \/ Reads(e)
  PROVE  Unwritten /\ There' = There /\ Used' = Used /\ parent' = parent
<1>1. Unwritten
  <2>1. CASE Begins(e)
    BY Zenon, <2>1 DEF Begins, createCategory, updateCategory, deleteCategory, createProduct,
      updateProduct
  <2>2. CASE Reads(e)
    BY Zenon, <2>2 DEF Reads, collectDescendantIds, WalkDone, AbandonEdit
  <2> QED BY <2>1, <2>2
<1> QED BY <1>1 DEF Unwritten, shelfVars, There, Used

LEMMA BegunEdit ==
  ASSUME NEW e \in Edits, Begins(e)
  PROVE  \E r : StartEdit(e, r)
BY Zenon DEF Begins, createCategory, updateCategory, deleteCategory, createProduct, updateProduct

(* Most steps leave the parent of every category alone that is in use.      *)
ParentsStay ==
  /\ Used \subseteq Used'
  /\ \A y \in There' \cap Used : y \in There /\ parent'[y] = parent[y]

LEMMA MostParentsStay ==
  ASSUME CatalogBase, NEW e \in Edits,
         Begins(e) \/ Reads(e) \/ (Writes(e) /\ ~ SaveParent(e))
  PROVE  ParentsStay
<1>1. CatalogTypeOK
  BY DEF CatalogBase
<1>2. CASE Begins(e) \/ Reads(e)
  BY <1>2, NothingWritten DEF ParentsStay
<1>3. CASE \E c \in Categories : InsertCategory(e, c)
  <2>1. PICK c \in Categories : InsertCategory(e, c)
    BY <1>3
  <2>2. c \notin Used /\ Used' = Used \cup {c} /\ There' = There \cup {c}
    BY <1>1, <2>1 DEF InsertCategory, Used, There, CatalogTypeOK
  <2> QED BY <1>1, <2>1, <2>2 DEF InsertCategory, ParentsStay, CatalogTypeOK, There
<1>4. CASE DeleteCategories(e)
  <2>1. parent' = parent /\ Used' = Used /\ There' \subseteq There
    BY <1>1, <1>4 DEF DeleteCategories, Used, There, CatalogTypeOK
  <2> QED BY <2>1 DEF ParentsStay
<1>5. CASE (\E p \in Products : InsertProduct(e, p)) \/ DeleteProducts(e) \/ SaveProduct(e)
  BY <1>5 DEF InsertProduct, DeleteProducts, SaveProduct, shelfVars, ParentsStay, There, Used
<1> QED BY <1>2, <1>3, <1>4, <1>5 DEF Writes

(* What an edit that begins, reads or writes does to the others: nothing.   *)
LEMMA OthersStay ==
  ASSUME CatalogBase, NEW e \in Edits, Begins(e) \/ Reads(e) \/ Writes(e)
  PROVE  \A f \in Edits : f # e => edit'[f] = edit[f]
<1>1. edit \in [Edits -> EditType]
  BY DEF CatalogBase, CatalogTypeOK
<1>2. \E r : edit' = [edit EXCEPT ![e] = r]
  <2>1. CASE Begins(e)
    BY <2>1, BegunEdit DEF StartEdit
  <2>2. CASE Reads(e)
    BY <2>2 DEF Reads, collectDescendantIds, WalkDone, AbandonEdit, StepEdit, EndEdit
  <2>3. CASE Writes(e)
    BY <2>3 DEF Writes, InsertCategory, InsertProduct, SaveParent, DeleteProducts,
      DeleteCategories, SaveProduct, StepEdit, EndEdit
  <2> QED BY <2>1, <2>2, <2>3
<1> QED BY <1>1, <1>2

(* A move begins with everything in use above its destination.              *)
LEMMA MoveBegins ==
  ASSUME CatalogBase, NEW e \in Edits, Begins(e)
  PROVE  MoveKnows(e)'
<1>1. CatalogTypeOK /\ There \subseteq Used /\ Used \in SUBSET Categories
  BY DEF CatalogBase, There, Used
<1>2. CASE \E c \in Categories, p \in Categories \cup {Root} : updateCategory(e, c, p)
  <2>1. PICK c \in Categories, p \in Categories \cup {Root} : updateCategory(e, c, p)
    BY <1>2
  <2>2. edit'[e] = [NoEdit EXCEPT !.at = IF p = Root THEN "saveParent" ELSE "walk",
                                 !.kind = "move", !.category = c, !.to = p,
                                 !.frontier = {c}]
    BY <1>1, <2>1 DEF updateCategory, StartEdit, CatalogTypeOK
  <2>3. /\ edit'[e].at = IF p = Root THEN "saveParent" ELSE "walk"
        /\ edit'[e].to = p /\ edit'[e].category = c
        /\ edit'[e].frontier = {c} /\ edit'[e].found = {}
    BY <2>2 DEF NoEdit
  <2>4. There' = There /\ Used' = Used /\ parent' = parent
    BY <2>1 DEF updateCategory, Unwritten, shelfVars, There, Used
  <2>5. p \in Used \cup {Root}
    BY <1>1, <2>1 DEF updateCategory
  <2>6. p # Root => Above(Used, p)
    BY <2>5 DEF CatalogBase, Above
  <2>7. p # Root => Above(Used, p)'
    BY <2>4, <2>6 DEF Above
  <2>8. Doomed(e)' \ {c} = {}
    BY <2>3 DEF Doomed
  <2> QED BY <1>1, <2>3, <2>4, <2>7, <2>8 DEF MoveKnows
<1>3. CASE ~ \E c \in Categories, p \in Categories \cup {Root} : updateCategory(e, c, p)
  <2>1. \E r : StartEdit(e, r) /\ r.kind \in {"create", "delete", "file"}
    <3>1. CASE \E p \in Categories \cup {Root} : createCategory(e, p)
      <4>1. PICK p \in Categories \cup {Root} : createCategory(e, p)
        BY <3>1
      <4> DEFINE r == [NoEdit EXCEPT !.at = "create", !.kind = "create", !.to = p]
      <4>2. r.kind = "create"
        BY DEF NoEdit
      <4>3. StartEdit(e, r)
        BY <4>1 DEF createCategory
      <4> QED BY Zenon, <4>2, <4>3
    <3>2. CASE \E c \in Categories : deleteCategory(e, c)
      <4>1. PICK c \in Categories : deleteCategory(e, c)
        BY <3>2
      <4> DEFINE r == [NoEdit EXCEPT !.at = "walk", !.kind = "delete", !.category = c,
                                     !.frontier = {c}]
      <4>2. r.kind = "delete"
        BY DEF NoEdit
      <4>3. StartEdit(e, r)
        BY <4>1 DEF deleteCategory
      <4> QED BY Zenon, <4>2, <4>3
    <3>3. CASE \E c \in Categories : createProduct(e, c)
      <4>1. PICK c \in Categories : createProduct(e, c)
        BY <3>3
      <4> DEFINE r == [NoEdit EXCEPT !.at = "file", !.kind = "file", !.to = c]
      <4>2. r.kind = "file"
        BY DEF NoEdit
      <4>3. StartEdit(e, r)
        BY <4>1 DEF createProduct
      <4> QED BY Zenon, <4>2, <4>3
    <3>4. CASE \E c \in Categories, q \in Products : updateProduct(e, q, c)
      <4>1. PICK c \in Categories, q \in Products : updateProduct(e, q, c)
        BY <3>4
      <4> DEFINE r == [NoEdit EXCEPT !.at = "refile", !.kind = "file", !.to = c,
                                     !.product = q]
      <4>2. r.kind = "file"
        BY DEF NoEdit
      <4>3. StartEdit(e, r)
        BY <4>1 DEF updateProduct
      <4> QED BY Zenon, <4>2, <4>3
    <3> QED BY <1>3, <3>1, <3>2, <3>3, <3>4 DEF Begins
  <2>2. edit'[e].kind # "move"
    BY <1>1, <2>1 DEF StartEdit, CatalogTypeOK
  <2> QED BY <2>2 DEF MoveKnows
<1> QED BY <1>2, <1>3

(* ...and its walk narrows that down to what is not below its category.     *)
LEMMA MoveReads ==
  ASSUME CatalogBase, NEW e \in Edits, MoveKnows(e), Reads(e)
  PROVE  MoveKnows(e)'
<1>1. /\ CatalogTypeOK /\ edit[e] \in EditType /\ EditFits(e)
  BY DEF CatalogBase, CatalogTypeOK
<1>2. There' = There /\ Used' = Used /\ parent' = parent
  BY DEF Reads, collectDescendantIds, WalkDone, AbandonEdit, Unwritten, shelfVars, There, Used
<1>3. CASE edit'[e].kind # "move" \/ edit'[e].to = Root
  BY <1>3 DEF MoveKnows
<1>4. CASE collectDescendantIds(e) /\ edit'[e].kind = "move" /\ edit'[e].to # Root
  <2>1. /\ edit[e].at = "walk" /\ edit'[e].at = "walk"
        /\ edit[e].kind = "move" /\ edit'[e].to = edit[e].to
        /\ edit'[e].category = edit[e].category
        /\ edit'[e].frontier = NextLevel(e)
        /\ edit'[e].found = edit[e].found \cup NextLevel(e)
    BY <1>1, <1>4 DEF collectDescendantIds, CatalogTypeOK, EditType
  <2>2. PICK U \in SUBSET Categories :
               /\ Above(U, edit[e].to)
               /\ \A y \in U \cap There :
                    parent[y] \in Doomed(e) \ edit[e].frontier => y \in edit[e].found
    BY <1>4, <2>1 DEF MoveKnows
  <2>3. \A y \in U \cap There :
          parent[y] \in Doomed(e)' \ NextLevel(e) => y \in edit[e].found \cup NextLevel(e)
    BY <2>1, <2>2 DEF Doomed, NextLevel, Children
  <2>4. Above(U, edit[e].to)'
    BY <1>2, <2>1, <2>2 DEF Above
  <2> QED BY <1>2, <2>1, <2>3, <2>4 DEF MoveKnows
<1>5. CASE WalkDone(e) /\ edit'[e].kind = "move" /\ edit'[e].to # Root
  <2>1. /\ edit[e].at = "walk" /\ edit[e].frontier = {} /\ ~ isDescendant(e)
        /\ edit[e].kind = "move" /\ edit'[e].at = "saveParent"
        /\ edit'[e].to = edit[e].to /\ edit'[e].category = edit[e].category
    BY <1>1, <1>5 DEF WalkDone, StepEdit, EndEdit, NoEdit, CatalogTypeOK, EditType
  <2>2. PICK U \in SUBSET Categories :
               /\ Above(U, edit[e].to)
               /\ \A y \in U \cap There :
                    parent[y] \in Doomed(e) \ edit[e].frontier => y \in edit[e].found
    BY <1>5, <2>1 DEF MoveKnows
  <2>3. edit[e].to \notin Doomed(e)
    BY <1>1, <2>1 DEF isDescendant, Doomed, EditFits
  <2>4. PICK V \in SUBSET Categories : V = U \ Doomed(e)
    OBVIOUS
  <2>5. Above(V, edit[e].to) /\ edit[e].category \notin V
    BY <2>1, <2>2, <2>3, <2>4 DEF Above, Doomed
  <2>6. Above(V, edit[e].to)'
    BY <1>2, <2>1, <2>5 DEF Above
  <2> QED BY <2>1, <2>5, <2>6 DEF MoveKnows
<1>6. CASE AbandonEdit(e)
  BY <1>1, <1>6 DEF AbandonEdit, EndEdit, NoEdit, CatalogTypeOK, MoveKnows
<1> QED BY <1>3, <1>4, <1>5, <1>6 DEF Reads

(* What an edit has written ends a move, and one that another move has not  *)
(* joined leaves no other knowledge to spoil.                               *)
LEMMA MoveWrites ==
  ASSUME CatalogBase, \A f \in Edits : MoveKnows(f), NEW e \in Edits, Writes(e)
  PROVE  movedTogether' \/ \A f \in Edits : MoveKnows(f)'
<1>1. /\ CatalogTypeOK /\ edit[e] \in EditType /\ EditFits(e)
      /\ \A f \in Edits : f # e => edit'[f] = edit[f]
  BY OthersStay DEF CatalogBase, CatalogTypeOK
<1>2. MoveKnows(e)'
  <2>1. CASE EndEdit(e)
    BY <1>1, <2>1 DEF EndEdit, NoEdit, CatalogTypeOK, MoveKnows
  <2>2. CASE DeleteProducts(e)
    BY <1>1, <2>2 DEF DeleteProducts, StepEdit, CatalogTypeOK, EditType, EditFits, MoveKnows
  <2> QED BY <2>1, <2>2 DEF Writes, InsertCategory, InsertProduct, SaveParent, DeleteCategories,
    SaveProduct
<1>3. CASE ~ SaveParent(e)
  <2>1. ParentsStay
    BY <1>3, MostParentsStay
  <2> QED BY <1>1, <1>2, <2>1, MoveKept DEF ParentsStay
<1>4. CASE SaveParent(e) /\ edit[e].category \notin There
  <2>1. There' = There /\ Used' = Used /\ parent' = parent
    BY <1>4 DEF SaveParent, There, Used
  <2> QED BY <1>1, <1>2, <2>1, MoveKept
<1>5. CASE SaveParent(e) /\ edit[e].category \in There
  <2>1. movedTogether' \/ \A f \in Edits \ {e} : edit[f].kind # "move"
    BY <1>1, <1>5 DEF SaveParent, NoteWrite, Others, EditFits
  <2>2. (\A f \in Edits \ {e} : edit'[f].kind # "move") => \A f \in Edits \ {e} : MoveKnows(f)'
    BY DEF MoveKnows
  <2> QED BY <1>1, <1>2, <2>1, <2>2
<1> QED BY <1>3, <1>4, <1>5

(* The forest outlives whatever takes categories away...                    *)
LEMMA FewerCategories ==
  ASSUME CategoriesFormAForest, movedTogether => movedTogether', There' \subseteq There,
         \A c \in There' : parent'[c] = parent[c]
  PROVE  CategoriesFormAForest'
BY DEF CategoriesFormAForest

(* ...a new category, which has nothing below it yet...                     *)
LEMMA OneMoreCategory ==
  ASSUME CatalogBase, CategoriesFormAForest, NEW e \in Edits, NEW c \in Categories,
         InsertCategory(e, c)
  PROVE  CategoriesFormAForest'
<1>1. /\ CatalogTypeOK /\ EditFits(e) /\ There \subseteq Used /\ Root \notin Categories
      /\ \A x \in There : parent[x] \in Used \cup {Root}
  BY CatalogAssumption DEF CatalogBase, CatalogTypeOK, There, Used
<1>2. /\ There' = There \cup {c} /\ c \notin Used
      /\ parent'[c] = edit[e].to /\ \A x \in There : parent'[x] = parent[x]
      /\ edit[e].to \in Used \cup {Root}
      /\ movedTogether => movedTogether'
  BY <1>1 DEF InsertCategory, There, Used, CatalogTypeOK, EditFits, NoteWrite
<1>3. CASE ~ movedTogether
  <2> SUFFICES ASSUME NEW s \in SUBSET There', s # {}, \A x \in s : parent'[x] \in s
               PROVE  FALSE
    BY DEF CategoriesFormAForest
  <2>1. PICK x \in s : TRUE
    OBVIOUS
  <2>2. \A y \in s : y # c => parent[y] # c
    BY <1>1, <1>2
  <2>3. s \ {c} \in SUBSET There /\ \A y \in s \ {c} : parent[y] \in s \ {c}
    BY <1>1, <1>2, <2>2
  <2>4. s \ {c} # {}
    BY <1>1, <1>2, <2>1
  <2> QED BY <1>3, <2>3, <2>4 DEF CategoriesFormAForest
<1>4. CASE movedTogether
  BY <1>2, <1>4 DEF CategoriesFormAForest
<1> QED BY <1>3, <1>4

(* ...and a move to where nothing above is the category that moves.         *)
LEMMA MovedCategory ==
  ASSUME CatalogBase, CategoriesFormAForest, NEW e \in Edits, MoveKnows(e), SaveParent(e),
         edit[e].category \in There
  PROVE  CategoriesFormAForest'
<1>1. /\ CatalogTypeOK /\ EditFits(e) /\ Root \notin Categories /\ There \subseteq Categories
  BY CatalogAssumption DEF CatalogBase, CatalogTypeOK, There
<1>2. PICK c \in There : c = edit[e].category
  OBVIOUS
<1>3. PICK t : t = edit[e].to
  OBVIOUS
<1>4. /\ There' = There
      /\ parent'[c] = t /\ \A x \in There : x # c => parent'[x] = parent[x]
      /\ movedTogether => movedTogether'
  BY <1>1, <1>2, <1>3 DEF SaveParent, There, CatalogTypeOK, NoteWrite
<1>5. CASE ~ movedTogether
  <2> SUFFICES ASSUME NEW s \in SUBSET There, s # {}, \A x \in s : parent'[x] \in s
               PROVE  FALSE
    BY <1>4 DEF CategoriesFormAForest
  <2>1. CASE c \notin s
    BY <1>4, <1>5, <2>1 DEF CategoriesFormAForest
  <2>2. CASE c \in s
    <3>1. t \in s /\ t # Root
      BY <1>1, <1>4, <2>2
    <3>2. PICK V \in SUBSET Categories : Above(V, t) /\ c \notin V
      BY <1>1, <1>2, <1>3, <3>1 DEF MoveKnows, SaveParent, EditFits
    <3>3. s \cap V # {}
      BY <3>1, <3>2 DEF Above
    <3>4. \A x \in s \cap V : parent[x] \in s \cap V
      BY <1>1, <1>4, <3>2 DEF Above
    <3>5. s \cap V \in SUBSET There
      OBVIOUS
    <3> QED BY <1>5, <3>3, <3>4, <3>5 DEF CategoriesFormAForest
  <2> QED BY <2>1, <2>2
<1>6. CASE movedTogether
  BY <1>4, <1>6 DEF CategoriesFormAForest
<1> QED BY <1>5, <1>6

LEMMA ForestBegins == CatalogInit => ForestInv
<1> SUFFICES ASSUME CatalogInit
             PROVE  ForestInv
  OBVIOUS
<1>1. There = {} /\ \A e \in Edits : edit[e].kind = "none"
  BY DEF CatalogInit, There, NoEdit
<1>2. CategoriesFormAForest /\ \A e \in Edits : MoveKnows(e)
  BY <1>1 DEF CategoriesFormAForest, MoveKnows
<1> QED BY <1>2, CatalogBegins DEF ForestInv

LEMMA ForestStep ==
  ASSUME ForestInv, CatalogNext
  PROVE  ForestInv'
<1>1. CatalogBase /\ CategoriesFormAForest /\ (movedTogether \/ \A f \in Edits : MoveKnows(f))
  BY DEF ForestInv
<1>2. CatalogBase'
  BY <1>1, CatalogBaseStep
<1>3. ASSUME NEW e \in Edits, Begins(e) \/ Reads(e)
      PROVE  ForestInv'
  <2>1. Unwritten /\ There' = There /\ Used' = Used /\ parent' = parent
    BY <1>3, NothingWritten
  <2>2. movedTogether' = movedTogether
    BY <2>1 DEF Unwritten
  <2>3. CategoriesFormAForest'
    BY <1>1, <2>1, <2>2, FewerCategories
  <2>4. (\A f \in Edits : MoveKnows(f)) => \A f \in Edits : MoveKnows(f)'
    <3> SUFFICES ASSUME \A f \in Edits : MoveKnows(f), NEW f \in Edits
                 PROVE  MoveKnows(f)'
      OBVIOUS
    <3>1. CASE f = e
      BY <1>1, <1>3, <3>1, MoveBegins, MoveReads
    <3>2. CASE f # e
      BY <1>1, <1>3, <2>1, <3>2, OthersStay, MoveKept
    <3> QED BY <3>1, <3>2
  <2> QED BY <1>1, <1>2, <2>2, <2>3, <2>4 DEF ForestInv
<1>4. ASSUME NEW e \in Edits, Writes(e)
      PROVE  ForestInv'
  <2>1. movedTogether => movedTogether'
    BY <1>4 DEF Writes, InsertCategory, InsertProduct, SaveParent, DeleteProducts,
      DeleteCategories, SaveProduct, NoteWrite
  <2>2. movedTogether' \/ \A f \in Edits : MoveKnows(f)'
    BY <1>1, <1>4, <2>1, MoveWrites
  <2>3. CategoriesFormAForest'
    <3>1. CASE \E c \in Categories : InsertCategory(e, c)
      BY <1>1, <3>1, OneMoreCategory
    <3>2. CASE SaveParent(e) /\ edit[e].category \in There
      <4>1. CASE movedTogether
        BY <2>1, <4>1 DEF CategoriesFormAForest
      <4>2. CASE \A f \in Edits : MoveKnows(f)
        BY <1>1, <3>2, <4>2, MovedCategory
      <4> QED BY <1>1, <4>1, <4>2
    <3>3. CASE SaveParent(e) /\ edit[e].category \notin There
      <4>1. There' = There /\ parent' = parent
        BY <3>3 DEF SaveParent, There
      <4> QED BY <1>1, <2>1, <4>1, FewerCategories
    <3>4. CASE /\ ~ SaveParent(e)
               /\ ~ \E c \in Categories : InsertCategory(e, c)
      <4>1. There' \subseteq There /\ parent' = parent
        BY <1>4, <3>4 DEF Writes, InsertProduct, DeleteProducts, DeleteCategories, SaveProduct,
          shelfVars, There
      <4> QED BY <1>1, <2>1, <4>1, FewerCategories
    <3> QED BY <3>1, <3>2, <3>3, <3>4
  <2> QED BY <1>2, <2>2, <2>3 DEF ForestInv
<1>5. ASSUME NEW p \in Products, deleteProduct(p)
      PROVE  ForestInv'
  <2>1. There' = There /\ Used' = Used /\ parent' = parent /\ edit' = edit
        /\ movedTogether' = movedTogether
    BY <1>5 DEF deleteProduct, shelfVars, There, Used
  <2>2. CategoriesFormAForest'
    BY <1>1, <2>1, FewerCategories
  <2>3. (\A f \in Edits : MoveKnows(f)) => \A f \in Edits : MoveKnows(f)'
    BY <1>1, <2>1, MoveKept
  <2> QED BY <1>1, <1>2, <2>1, <2>2, <2>3 DEF ForestInv
<1> QED BY <1>3, <1>4, <1>5, CatalogSteps

(* Unless two moves were under way at once, categories never form a loop,   *)
(* so the walk down from one ends: a move only ever saves a destination     *)
(* with nothing above it that it is moving, however requests interleave.    *)
THEOREM CatalogIsAForest == CatalogSpec => []CategoriesFormAForest
<1>1. ForestInv /\ [CatalogNext]_catalogVars => ForestInv'
  <2>1. ASSUME ForestInv, UNCHANGED catalogVars
        PROVE  ForestInv'
    BY <2>1, CatalogBaseStep DEF catalogVars, shelfVars, ForestInv, CategoriesFormAForest,
      MoveKnows, Above, Doomed, There, Used
  <2> QED BY <2>1, ForestStep
<1>2. ForestInv => CategoriesFormAForest
  BY DEF ForestInv
<1> QED BY <1>1, <1>2, ForestBegins, PTL DEF CatalogSpec

LEMMA DeleteBegins ==
  ASSUME CatalogBase, NEW e \in Edits, Begins(e)
  PROVE  DeleteKnows(e)'
<1>1. CatalogTypeOK
  BY DEF CatalogBase
<1>2. Unwritten /\ There' = There /\ parent' = parent
  BY NothingWritten
<1>3. CASE \E p \in Categories \cup {Root} : createCategory(e, p)
  <2>1. PICK p \in Categories \cup {Root} : createCategory(e, p)
    BY <1>3
  <2>2. edit'[e] = [NoEdit EXCEPT !.at = "create", !.kind = "create", !.to = p]
    BY <1>1, <2>1 DEF createCategory, StartEdit, CatalogTypeOK
  <2>3. edit'[e].at = "create" /\ edit'[e].kind = "create" /\ edit'[e].to = p
    BY <2>2 DEF NoEdit
  <2>4. p \in There \cup {Root}
    BY <2>1 DEF createCategory
  <2> QED BY <1>2, <2>3, <2>4 DEF DeleteKnows
<1>4. CASE \E c \in Categories, p \in Categories \cup {Root} : updateCategory(e, c, p)
  <2>1. PICK c \in Categories, p \in Categories \cup {Root} : updateCategory(e, c, p)
    BY <1>4
  <2>2. edit'[e] = [NoEdit EXCEPT !.at = IF p = Root THEN "saveParent" ELSE "walk",
                                 !.kind = "move", !.category = c, !.to = p,
                                 !.frontier = {c}]
    BY <1>1, <2>1 DEF updateCategory, StartEdit, CatalogTypeOK
  <2>3. /\ edit'[e].at \in {"saveParent", "walk"} /\ edit'[e].kind = "move"
        /\ edit'[e].to = p
    BY <2>2 DEF NoEdit
  <2>4. p \in There \cup {Root}
    BY <2>1 DEF updateCategory
  <2> QED BY <1>2, <2>3, <2>4 DEF DeleteKnows
<1>5. CASE \E c \in Categories : deleteCategory(e, c)
  <2>1. PICK c \in Categories : deleteCategory(e, c)
    BY <1>5
  <2>2. edit'[e] = [NoEdit EXCEPT !.at = "walk", !.kind = "delete", !.category = c,
                                 !.frontier = {c}]
    BY <1>1, <2>1 DEF deleteCategory, StartEdit, CatalogTypeOK
  <2>3. /\ edit'[e].at = "walk" /\ edit'[e].kind = "delete" /\ edit'[e].category = c
        /\ edit'[e].frontier = {c} /\ edit'[e].found = {}
    BY <2>2 DEF NoEdit
  <2>4. Doomed(e)' \ edit'[e].frontier = {}
    BY <2>3 DEF Doomed
  <2> QED BY <2>3, <2>4 DEF DeleteKnows
<1>6. CASE \E c \in Categories : createProduct(e, c)
  <2>1. PICK c \in Categories : createProduct(e, c)
    BY <1>6
  <2>2. edit'[e] = [NoEdit EXCEPT !.at = "file", !.kind = "file", !.to = c]
    BY <1>1, <2>1 DEF createProduct, StartEdit, CatalogTypeOK
  <2>3. edit'[e].at = "file" /\ edit'[e].kind = "file" /\ edit'[e].to = c
    BY <2>2 DEF NoEdit
  <2>4. c \in There
    BY <2>1 DEF createProduct, IsLeaf
  <2> QED BY <1>2, <2>3, <2>4 DEF DeleteKnows
<1>7. CASE \E c \in Categories, q \in Products : updateProduct(e, q, c)
  <2>1. PICK c \in Categories, q \in Products : updateProduct(e, q, c)
    BY <1>7
  <2>2. edit'[e] = [NoEdit EXCEPT !.at = "refile", !.kind = "file", !.to = c, !.product = q]
    BY <1>1, <2>1 DEF updateProduct, StartEdit, CatalogTypeOK
  <2>3. edit'[e].at = "refile" /\ edit'[e].kind = "file" /\ edit'[e].to = c
    BY <2>2 DEF NoEdit
  <2>4. c \in There
    BY <2>1 DEF updateProduct, IsLeaf
  <2> QED BY <1>2, <2>3, <2>4 DEF DeleteKnows
<1> QED BY <1>3, <1>4, <1>5, <1>6, <1>7 DEF Begins

LEMMA DeleteReads ==
  ASSUME CatalogBase, NEW e \in Edits, DeleteKnows(e), Reads(e)
  PROVE  DeleteKnows(e)'
<1>1. CatalogTypeOK /\ edit[e] \in EditType /\ EditFits(e)
  BY DEF CatalogBase, CatalogTypeOK
<1>2. Unwritten /\ There' = There /\ parent' = parent
  BY NothingWritten
<1>3. filed' = filed
  BY <1>2 DEF Unwritten, productVars
<1>4. CASE collectDescendantIds(e)
  <2>1. /\ edit[e].at = "walk" /\ edit'[e].at = "walk"
        /\ edit'[e].kind = edit[e].kind /\ edit'[e].to = edit[e].to
        /\ edit'[e].category = edit[e].category
        /\ edit'[e].frontier = NextLevel(e)
        /\ edit'[e].found = edit[e].found \cup NextLevel(e)
    BY <1>1, <1>4 DEF collectDescendantIds, CatalogTypeOK, EditType
  <2>2. Doomed(e)' = Doomed(e) \cup NextLevel(e)
    BY <2>1 DEF Doomed
  <2>3. (\A x \in There : parent[x] \in Doomed(e) \ edit[e].frontier => x \in Doomed(e))
          => \A x \in There : parent[x] \in Doomed(e)' \ NextLevel(e) => x \in Doomed(e)'
    BY <2>2 DEF NextLevel, Children
  <2> QED BY <1>2, <2>1, <2>3 DEF DeleteKnows
<1>5. CASE WalkDone(e) /\ ~ EndEdit(e)
  <2>1. /\ edit[e].at = "walk" /\ edit'[e].at \in {"deleteProducts", "saveParent"}
        /\ edit'[e].kind = edit[e].kind /\ edit'[e].to = edit[e].to
        /\ edit'[e].category = edit[e].category
        /\ edit'[e].found = edit[e].found
        /\ edit[e].frontier = {} /\ edit'[e].frontier = {}
    BY <1>1, <1>5 DEF WalkDone, StepEdit, CatalogTypeOK, EditType
  <2>2. Doomed(e)' = Doomed(e)
    BY <2>1 DEF Doomed
  <2> QED BY <1>2, <2>1, <2>2 DEF DeleteKnows
<1>6. CASE EndEdit(e)
  BY <1>1, <1>6 DEF EndEdit, NoEdit, CatalogTypeOK, DeleteKnows
<1> QED BY <1>4, <1>5, <1>6 DEF Reads, AbandonEdit

(* Only one deletion, and nothing else with it: what it deletes is closed   *)
(* under going down, and no product is filed there any more.                *)
LEMMA DeletionWrites ==
  ASSUME CatalogBase, NothingIsOrphaned, ~ deletedUnder', NEW e \in Edits, DeleteKnows(e),
         DeleteProducts(e) \/ DeleteCategories(e)
  PROVE  NothingIsOrphaned' /\ \A f \in Edits : DeleteKnows(f)'
<1>1. /\ CatalogTypeOK /\ edit[e] \in EditType /\ EditFits(e) /\ ~ deletedUnder
      /\ Doomed(e) \subseteq Categories /\ NoCategory \notin Categories
      /\ edit[e].kind = "delete" /\ Writes(e)
  BY CatalogAssumption DEF CatalogBase, CatalogTypeOK, DeleteProducts, DeleteCategories, NoteWrite,
    EditFits, Doomed, EditType, Writes
<1>2. \A f \in Edits : f # e => edit[f].at = "idle" /\ edit[f].kind = "none" /\ edit'[f] = edit[f]
  BY <1>1, OthersStay DEF DeleteProducts, DeleteCategories, NoteWrite, CatalogBase, EditFits
<1>3. \A f \in Edits : f # e => DeleteKnows(f)'
  BY <1>2 DEF DeleteKnows
<1>4. CASE DeleteProducts(e)
  <2>1. /\ edit'[e].at = "deleteCategories" /\ edit'[e].kind = "delete"
        /\ edit'[e].category = edit[e].category /\ edit'[e].found = edit[e].found
        /\ edit'[e].frontier = edit[e].frontier
    BY <1>1, <1>4 DEF DeleteProducts, StepEdit, CatalogTypeOK, EditType
  <2>2. Doomed(e)' = Doomed(e) /\ There' = There /\ parent' = parent
    BY <1>4, <2>1 DEF Doomed, DeleteProducts, shelfVars, There
  <2>3. \A p \in Products : filed'[p] \notin Doomed(e) /\ filed'[p] \in {filed[p], NoCategory}
    BY <1>1, <1>4 DEF DeleteProducts
  <2>4. DeleteKnows(e)'
    BY <1>1, <1>4, <2>1, <2>2, <2>3 DEF DeleteKnows, DeleteProducts
  <2>5. NothingIsOrphaned'
    BY <1>1, <2>2, <2>3 DEF NothingIsOrphaned
  <2> QED BY <1>3, <2>4, <2>5
<1>5. CASE DeleteCategories(e)
  <2>1. There' = There \ Doomed(e) /\ parent' = parent /\ filed' = filed
    BY <1>1, <1>5 DEF DeleteCategories, There, CatalogTypeOK, productVars
  <2>2. DeleteKnows(e)'
    BY <1>1, <1>5 DEF DeleteCategories, EndEdit, NoEdit, CatalogTypeOK, DeleteKnows
  <2>3. NothingIsOrphaned'
    BY <1>1, <1>5, <2>1 DEF NothingIsOrphaned, DeleteKnows, DeleteCategories
  <2> QED BY <1>3, <2>2, <2>3
<1> QED BY <1>4, <1>5

(* ...and nobody is deleting while another edit writes.                     *)
LEMMA OtherWrites ==
  ASSUME CatalogBase, NothingIsOrphaned, ~ deletedUnder', \A f \in Edits : DeleteKnows(f),
         NEW e \in Edits, Writes(e), ~ DeleteProducts(e), ~ DeleteCategories(e)
  PROVE  NothingIsOrphaned' /\ \A f \in Edits : DeleteKnows(f)'
<1>1. /\ CatalogTypeOK /\ edit[e] \in EditType /\ EditFits(e)
  BY DEF CatalogBase, CatalogTypeOK
<1>2. /\ edit'[e] = NoEdit
      /\ \A f \in Edits : f # e => edit'[f] = edit[f]
  BY <1>1, OthersStay DEF Writes, InsertCategory, InsertProduct, SaveParent, SaveProduct, EndEdit,
    CatalogTypeOK
<1>3. /\ There \subseteq There'
      /\ deletedUnder => deletedUnder'
      /\ deletedUnder' \/ ~ Others(e, "delete") \/
           (There' = There /\ parent' = parent /\ filed' = filed)
  <2>1. CASE \E c \in Categories : InsertCategory(e, c)
    BY <1>1, <2>1 DEF InsertCategory, NoteWrite, There, CatalogTypeOK
  <2>2. CASE \E p \in Products : InsertProduct(e, p)
    BY <2>2 DEF InsertProduct, NoteWrite, There, shelfVars
  <2>3. CASE SaveParent(e)
    BY <2>3 DEF SaveParent, NoteWrite, There, productVars
  <2>4. CASE SaveProduct(e)
    BY <2>4 DEF SaveProduct, NoteWrite, There, shelfVars
  <2> QED BY <2>1, <2>2, <2>3, <2>4 DEF Writes
<1>4. \A f \in Edits : DeleteKnows(f)'
  <2> SUFFICES ASSUME NEW f \in Edits
               PROVE  DeleteKnows(f)'
    OBVIOUS
  <2>1. CASE f = e
    BY <1>2, <2>1 DEF DeleteKnows, NoEdit
  <2>2. CASE f # e /\ edit[f].kind # "delete"
    <3>1. edit'[f] = edit[f] /\ edit[f].at \notin {"deleteProducts", "deleteCategories"}
      BY <1>2, <2>2 DEF CatalogBase, EditFits
    <3>2. /\ edit[f].kind \in {"create", "move"} => edit[f].to \in There' \cup {Root}
          /\ edit[f].kind = "file" => edit[f].to \in There'
      BY <1>3 DEF DeleteKnows
    <3> QED BY <2>2, <3>1, <3>2 DEF DeleteKnows
  <2>3. CASE f # e /\ edit[f].kind = "delete"
    <3>1. There' = There /\ parent' = parent /\ filed' = filed
      BY <1>3, <2>3 DEF Others
    <3> QED BY <1>2, <2>3, <3>1 DEF DeleteKnows, Doomed
  <2> QED BY <2>1, <2>2, <2>3
<1>5. /\ edit[e].kind \in {"create", "move"} => edit[e].to \in There \cup {Root}
      /\ edit[e].kind = "file" => edit[e].to \in There
  BY DEF DeleteKnows
<1>6. NothingIsOrphaned'
  <2>1. /\ \A p \in Products : filed[p] \in There \cup {NoCategory}
        /\ \A c \in There : parent[c] \in There \cup {Root}
    BY <1>3 DEF NothingIsOrphaned
  <2>2. CASE \E c \in Categories : InsertCategory(e, c)
    <3>1. PICK c \in Categories : InsertCategory(e, c)
      BY <2>2
    <3>2. /\ There' = There \cup {c} /\ parent'[c] = edit[e].to /\ c \notin There
          /\ \A x \in There : parent'[x] = parent[x]
          /\ filed' = filed /\ edit[e].kind = "create"
      BY <1>1, <3>1 DEF InsertCategory, There, CatalogTypeOK, EditFits, productVars
    <3> QED BY <1>5, <2>1, <3>2 DEF NothingIsOrphaned
  <2>3. CASE \E p \in Products : InsertProduct(e, p)
    <3>1. PICK p \in Products : InsertProduct(e, p)
      BY <2>3
    <3>2. /\ There' = There /\ parent' = parent /\ edit[e].kind = "file"
          /\ filed' = [filed EXCEPT ![p] = edit[e].to]
      BY <1>1, <3>1 DEF InsertProduct, There, EditFits, shelfVars
    <3> QED BY <1>1, <1>5, <2>1, <3>2 DEF NothingIsOrphaned, CatalogTypeOK
  <2>4. CASE SaveParent(e)
    <3>1. /\ There' = There /\ filed' = filed /\ edit[e].kind = "move"
          /\ parent' = parent \/ parent' = [parent EXCEPT ![edit[e].category] = edit[e].to]
      BY <1>1, <2>4 DEF SaveParent, There, EditFits, productVars
    <3> QED BY <1>1, <1>5, <2>1, <3>1 DEF NothingIsOrphaned, CatalogTypeOK, There
  <2>5. CASE SaveProduct(e)
    <3>1. /\ There' = There /\ parent' = parent /\ edit[e].kind = "file"
          /\ filed' = filed \/ filed' = [filed EXCEPT ![edit[e].product] = edit[e].to]
      BY <1>1, <2>5 DEF SaveProduct, There, EditFits, shelfVars
    <3> QED BY <1>1, <1>5, <2>1, <3>1 DEF NothingIsOrphaned, CatalogTypeOK
  <2> QED BY <2>2, <2>3, <2>4, <2>5 DEF Writes
<1> QED BY <1>4, <1>6

LEMMA OrphanBegins == CatalogInit => OrphanInv
<1> SUFFICES ASSUME CatalogInit
             PROVE  OrphanInv
  OBVIOUS
<1>1. /\ There = {} /\ \A p \in Products : filed[p] = NoCategory
      /\ \A e \in Edits : edit[e].kind = "none" /\ edit[e].at = "idle"
  BY DEF CatalogInit, There, NoEdit
<1>2. NothingIsOrphaned /\ \A e \in Edits : DeleteKnows(e)
  BY <1>1 DEF NothingIsOrphaned, DeleteKnows
<1> QED BY <1>2, CatalogBegins DEF OrphanInv

LEMMA OrphanStep ==
  ASSUME OrphanInv, CatalogNext
  PROVE  OrphanInv'
<1>1. CatalogBase /\ NothingIsOrphaned /\ (deletedUnder \/ \A f \in Edits : DeleteKnows(f))
  BY DEF OrphanInv
<1>2. CatalogBase'
  BY <1>1, CatalogBaseStep
<1>3. CASE deletedUnder'
  BY <1>2, <1>3 DEF OrphanInv, NothingIsOrphaned
<1>4. ASSUME ~ deletedUnder', NEW e \in Edits, Begins(e) \/ Reads(e)
      PROVE  OrphanInv'
  <2>1. Unwritten /\ There' = There /\ parent' = parent
    BY <1>4, NothingWritten
  <2>2. deletedUnder' = deletedUnder /\ filed' = filed
    BY <2>1 DEF Unwritten, productVars
  <2>3. NothingIsOrphaned'
    BY <1>1, <2>1, <2>2 DEF NothingIsOrphaned
  <2>4. \A f \in Edits : f # e => DeleteKnows(f)'
    BY <1>1, <1>4, <2>1, <2>2, OthersStay DEF DeleteKnows, Doomed
  <2>5. DeleteKnows(e)'
    BY <1>1, <1>4, <2>2, DeleteBegins, DeleteReads
  <2> QED BY <1>2, <2>3, <2>4, <2>5 DEF OrphanInv
<1>5. ASSUME ~ deletedUnder', NEW e \in Edits, Writes(e)
      PROVE  OrphanInv'
  <2>1. ~ deletedUnder
    BY <1>5 DEF Writes, InsertCategory, InsertProduct, SaveParent, DeleteProducts,
      DeleteCategories, SaveProduct, NoteWrite
  <2>2. NothingIsOrphaned' /\ \A f \in Edits : DeleteKnows(f)'
    BY <1>1, <1>5, <2>1, DeletionWrites, OtherWrites
  <2> QED BY <1>2, <2>2 DEF OrphanInv
<1>6. ASSUME ~ deletedUnder', NEW p \in Products, deleteProduct(p)
      PROVE  OrphanInv'
  <2>1. /\ There' = There /\ parent' = parent /\ edit' = edit /\ deletedUnder' = deletedUnder
        /\ filed' = [filed EXCEPT ![p] = NoCategory]
    BY <1>6 DEF deleteProduct, shelfVars, There
  <2>2. NothingIsOrphaned'
    BY <1>1, <1>6, <2>1 DEF NothingIsOrphaned, CatalogBase, CatalogTypeOK
  <2>3. \A f \in Edits : edit[f].kind = "delete" => NoCategory \notin Doomed(f)
    BY <1>1, CatalogAssumption DEF CatalogBase, CatalogTypeOK, EditFits, Doomed, EditType
  <2>4. \A f \in Edits : edit[f].at = "deleteCategories" => edit[f].kind = "delete"
    BY <1>1 DEF CatalogBase, EditFits
  <2>5. \A f \in Edits : DeleteKnows(f)'
    BY <1>1, <1>6, <2>1, <2>3, <2>4 DEF DeleteKnows, Doomed, CatalogBase, CatalogTypeOK
  <2> QED BY <1>2, <2>2, <2>5 DEF OrphanInv
<1> QED BY <1>3, <1>4, <1>5, <1>6, CatalogSteps

(* Unless something was written while a deletion was under way, deleting a  *)
(* category never leaves a product without its category or a category       *)
(* without its parent, not even halfway or when the request dies.           *)
THEOREM CatalogLosesNothing == CatalogSpec => []NothingIsOrphaned
<1>1. OrphanInv /\ [CatalogNext]_catalogVars => OrphanInv'
  <2>1. ASSUME OrphanInv, UNCHANGED catalogVars
        PROVE  OrphanInv'
    BY <2>1, CatalogBaseStep DEF catalogVars, shelfVars, productVars, OrphanInv,
      NothingIsOrphaned, DeleteKnows, Doomed, There
  <2> QED BY <2>1, OrphanStep
<1>2. OrphanInv => NothingIsOrphaned
  BY DEF OrphanInv
<1> QED BY <1>1, <1>2, OrphanBegins, PTL DEF CatalogSpec

-----------------------------------------------------------------------------
(***************************************************************************)
(* Ratings                                                                 *)
(***************************************************************************)

Pending(v) == PostsOn(v, {"aggregate", "write"})

PostFits(p) == post[p].at # "idle" => post[p].order \in Reviewables /\ post[p].stars \in Stars

(* What is on the target's document when nobody is posting about it...      *)
Settled(v) ==
  Pending(v) = {} /\ v \notin drifted =>
    avgRating[v] = Average(v) /\ reviewCount[v] = Cardinality(ReviewsOf(v))

(* ...because a post that nobody overtook writes the numbers as they are,   *)
(* unless another is still to write them.                                   *)
Fresh(p) ==
  LET v == TargetOf[post[p].order] IN
  post[p].at = "write" /\ ~ post[p].overtaken =>
    \/ post[p].avg = Average(v) /\ post[p].count = Cardinality(ReviewsOf(v))
    \/ \E q \in Pending(v) : q # p

RatingsInv ==
  /\ RatingsTypeOK
  /\ \A p \in Posts : PostFits(p) /\ Fresh(p)
  /\ \A v \in Targets : Settled(v)

LEMMA Quotient ==
  ASSUME NEW a \in Nat, NEW b \in Nat, b > 0
  PROVE  /\ a \div b \in Nat
         /\ b * (a \div b) <= a /\ a < b * (a \div b) + b
OBVIOUS

LEMMA StarsCounted ==
  ASSUME RatingsTypeOK, NEW v \in Targets
  PROVE  /\ IsFiniteSet(ReviewsOf(v)) /\ Cardinality(ReviewsOf(v)) \in Nat
         /\ ReviewsOf(v) # {} => Cardinality(ReviewsOf(v)) > 0
         /\ Total(v) \in Nat
<1>1. IsFiniteSet(ReviewsOf(v)) /\ Cardinality(ReviewsOf(v)) \in Nat
  <2>1. ReviewsOf(v) \in SUBSET Reviewables /\ IsFiniteSet(Reviewables)
    BY RatingsAssumption DEF ReviewsOf
  <2> QED BY <2>1, FS_Subset, FS_CardinalityType
<1>2. IsFiniteSet(1..5)
  BY FS_Interval, 1 \in Int, 5 \in Int
<1>3. IsFiniteSet(ReviewsOf(v) \X (1..5))
  BY <1>1, <1>2, FS_Product
<1>4. Total(v) \in Nat
  <2> DEFINE S == {s \in ReviewsOf(v) \X (1..5) : s[2] <= review[s[1]]}
  <2>1. S \in SUBSET (ReviewsOf(v) \X (1..5))
    OBVIOUS
  <2>2. IsFiniteSet(S)
    BY <1>3, <2>1, FS_Subset
  <2>3. Cardinality(S) \in Nat
    BY <2>2, FS_CardinalityType
  <2> QED BY <2>3 DEF Total
<1>5. ReviewsOf(v) # {} => Cardinality(ReviewsOf(v)) # 0
  BY <1>1, FS_EmptySet
<1> QED BY <1>1, <1>4, <1>5

LEMMA AverageIsRight ==
  ASSUME RatingsTypeOK, NEW v \in Targets
  PROVE  LET n == Cardinality(ReviewsOf(v)) off == 10 * Total(v) - n * Average(v) IN
           /\ Average(v) \in Nat
           /\ -n <= 2 * off /\ 2 * off <= n
           /\ n = 0 => Average(v) = 0
<1>1. /\ Cardinality(ReviewsOf(v)) \in Nat /\ Total(v) \in Nat
      /\ ReviewsOf(v) # {} => Cardinality(ReviewsOf(v)) > 0
  BY StarsCounted
<1>2. PICK n \in Nat : n = Cardinality(ReviewsOf(v))
  BY <1>1
<1>3. PICK t \in Nat : t = Total(v)
  BY <1>1
<1>4. CASE ReviewsOf(v) = {}
  <2>1. n = 0 /\ t = 0
    <3>1. Total(v) = Cardinality({})
      BY <1>4 DEF Total
    <3> QED BY <1>2, <1>3, <1>4, <3>1, FS_EmptySet
  <2>2. Average(v) = 0
    BY <1>4 DEF Average
  <2> QED BY <1>2, <1>3, <2>1, <2>2
<1>5. CASE ReviewsOf(v) # {}
  <2>1. n > 0
    BY <1>1, <1>2, <1>5
  <2>2. PICK q : q = (20 * t + n) \div (2 * n)
    OBVIOUS
  <2>3. q \in Nat /\ (2 * n) * q <= 20 * t + n /\ 20 * t + n < (2 * n) * q + 2 * n
    <3>1. 20 * t + n \in Nat /\ 2 * n \in Nat /\ 2 * n > 0
      BY <2>1
    <3> QED BY <2>2, <3>1, Quotient
  <2>4. Average(v) = q
    BY <1>2, <1>3, <1>5, <2>2 DEF Average, round1
  <2>5. PICK m \in Nat : m = n * q
    BY <2>3
  <2>6. (2 * n) * q = 2 * m
    BY <2>3, <2>5
  <2>7. -n <= 2 * (10 * t - m) /\ 2 * (10 * t - m) <= n
    BY <2>3, <2>6
  <2> QED BY <1>2, <1>3, <2>1, <2>3, <2>4, <2>5, <2>7
<1> QED BY <1>4, <1>5

LEMMA NumbersStay ==
  ASSUME NEW v, \A o \in Reviewables : TargetOf[o] = v => review'[o] = review[o]
  PROVE  /\ Cardinality(ReviewsOf(v))' = Cardinality(ReviewsOf(v))
         /\ Average(v)' = Average(v)
<1>1. ReviewsOf(v)' = ReviewsOf(v)
  BY DEF ReviewsOf
<1>2. {s \in ReviewsOf(v) \X (1..5) : s[2] <= review'[s[1]]}
        = {s \in ReviewsOf(v) \X (1..5) : s[2] <= review[s[1]]}
  BY DEF ReviewsOf
<1>3. Total(v)' = Total(v)
  BY <1>1, <1>2 DEF Total
<1> QED BY <1>1, <1>3 DEF Average

LEMMA NoPostType == NoPost \in PostType /\ NoPost.at = "idle"
BY DEF NoPost, PostType

(* What a post does to the others.                                          *)
LEMMA PassedOver ==
  ASSUME RatingsTypeOK, NEW p \in Posts, NEW v,
         post' = PassOver(v, [post EXCEPT ![p] = NoPost])
  PROVE  /\ post' \in [Posts -> PostType] /\ post'[p] = NoPost
         /\ \A q \in Posts : q # p =>
              /\ post'[q].at = post[q].at /\ post'[q].order = post[q].order
              /\ post'[q].stars = post[q].stars
              /\ post'[q].avg = post[q].avg /\ post'[q].count = post[q].count
              /\ q \notin PostsOn(v, {"write"}) => post'[q] = post[q]
              /\ q \in PostsOn(v, {"write"}) => post'[q].overtaken
<1>1. post \in [Posts -> PostType] /\ NoPost \in PostType /\ NoPost.at = "idle"
  BY NoPostType DEF RatingsTypeOK
<1>2. post' = [q \in Posts |->
                 IF q \in PostsOn(v, {"write"}) /\ [post EXCEPT ![p] = NoPost][q].at = "write"
                   THEN [[post EXCEPT ![p] = NoPost][q] EXCEPT !.overtaken = TRUE]
                   ELSE [post EXCEPT ![p] = NoPost][q]]
  BY DEF PassOver
<1>3. post'[p] = NoPost
  BY <1>1, <1>2
<1>4. ASSUME NEW q \in Posts, q # p
      PROVE  post'[q] = IF q \in PostsOn(v, {"write"})
                          THEN [post[q] EXCEPT !.overtaken = TRUE] ELSE post[q]
  BY <1>1, <1>2, <1>4 DEF PostsOn
<1>5. \A q \in Posts : q # p =>
        post'[q] = IF q \in PostsOn(v, {"write"})
                     THEN [post[q] EXCEPT !.overtaken = TRUE] ELSE post[q]
  BY <1>4
<1>6. \A q \in Posts : post[q] \in PostType /\ [post[q] EXCEPT !.overtaken = TRUE] \in PostType
  BY <1>1 DEF PostType
<1>7. post' \in [Posts -> PostType]
  BY <1>1, <1>2, <1>3, <1>5, <1>6
<1>8. ASSUME NEW q \in Posts, q # p
      PROVE  /\ post'[q].at = post[q].at /\ post'[q].order = post[q].order
             /\ post'[q].stars = post[q].stars
             /\ post'[q].avg = post[q].avg /\ post'[q].count = post[q].count
             /\ q \notin PostsOn(v, {"write"}) => post'[q] = post[q]
             /\ q \in PostsOn(v, {"write"}) => post'[q].overtaken
  <2>1. post[q] \in PostType
    BY <1>1
  <2>2. CASE q \in PostsOn(v, {"write"})
    <3>1. post'[q] = [post[q] EXCEPT !.overtaken = TRUE]
      BY <1>4, <1>8, <2>2
    <3> QED BY <2>1, <2>2, <3>1 DEF PostType
  <2>3. CASE q \notin PostsOn(v, {"write"})
    BY <1>4, <1>8, <2>3
  <2> QED BY <2>2, <2>3
<1> QED BY <1>3, <1>7, <1>8

LEMMA RatingsBegin == RatingsInit => RatingsInv
<1> SUFFICES ASSUME RatingsInit
             PROVE  RatingsInv
  OBVIOUS
<1>1. /\ \A p \in Posts : post[p].at = "idle"
      /\ \A v \in Targets : avgRating[v] = 0 /\ reviewCount[v] = 0 /\ ReviewsOf(v) = {}
  BY DEF RatingsInit, NoPost, ReviewsOf
<1>2. RatingsTypeOK
  BY NoPostType DEF RatingsInit, RatingsTypeOK
<1>3. \A p \in Posts : PostFits(p) /\ Fresh(p)
  BY <1>1 DEF PostFits, Fresh
<1>4. \A v \in Targets : Settled(v)
  BY <1>1, FS_EmptySet DEF Settled, Average
<1> QED BY <1>2, <1>3, <1>4 DEF RatingsInv

(* A request only joins, and joining disturbs nobody.                       *)
LEMMA PostBegins ==
  ASSUME RatingsInv, NEW p \in Posts, NEW o \in Reviewables, NEW s \in Stars,
         createReview(p, o, s)
  PROVE  RatingsInv'
<1>1. /\ RatingsTypeOK /\ post[p].at = "idle"
      /\ review' = review /\ avgRating' = avgRating /\ reviewCount' = reviewCount
      /\ drifted' = drifted
  BY DEF RatingsInv, createReview
<1> DEFINE r == [NoPost EXCEPT !.at = "insert", !.order = o, !.stars = s]
<1>2. r \in PostType /\ r.at = "insert" /\ r.order = o /\ r.stars = s
  BY DEF NoPost, PostType
<1>3. post' = [post EXCEPT ![p] = r]
  BY DEF createReview
<1> HIDE DEF r
<1>4. /\ post' \in [Posts -> PostType] /\ post'[p] = r
      /\ \A q \in Posts : q # p => post'[q] = post[q]
  BY <1>1, <1>2, <1>3 DEF RatingsTypeOK
<1>5. \A v : Pending(v)' = Pending(v)
  BY <1>1, <1>2, <1>4 DEF Pending, PostsOn
<1>6. \A v : Average(v)' = Average(v) /\ ReviewsOf(v)' = ReviewsOf(v)
  BY <1>1 DEF Average, ReviewsOf, Total
<1>7. RatingsTypeOK'
  BY <1>1, <1>4 DEF RatingsTypeOK
<1>8. PostFits(p)' /\ Fresh(p)'
  BY <1>2, <1>4 DEF PostFits, Fresh
<1>9. ASSUME NEW q \in Posts, q # p
      PROVE  PostFits(q)' /\ Fresh(q)'
  BY <1>4, <1>5, <1>6, <1>9 DEF RatingsInv, PostFits, Fresh
<1>10. \A v \in Targets : Settled(v)'
  BY <1>1, <1>5, <1>6 DEF RatingsInv, Settled
<1> QED BY <1>7, <1>8, <1>9, <1>10 DEF RatingsInv

LEMMA PostInserts ==
  ASSUME RatingsInv, NEW p \in Posts, InsertReview(p)
  PROVE  RatingsInv'
<1>1. /\ RatingsTypeOK /\ post[p].at = "insert" /\ post[p] \in PostType
      /\ post[p].order \in Reviewables /\ post[p].stars \in Stars
      /\ avgRating' = avgRating /\ reviewCount' = reviewCount
      /\ drifted' = drifted
  BY DEF RatingsInv, RatingsTypeOK, PostFits, InsertReview
<1>2. PICK o \in Reviewables : o = post[p].order
  BY <1>1
<1>3. CASE review[o] # 0
  <2>1. review' = review /\ post' = [post EXCEPT ![p] = NoPost]
    BY <1>2, <1>3 DEF InsertReview
  <2>2. /\ post' \in [Posts -> PostType] /\ post'[p].at = "idle"
        /\ \A q \in Posts : q # p => post'[q] = post[q]
    BY <1>1, <2>1, NoPostType DEF RatingsTypeOK
  <2>3. \A v : Pending(v)' = Pending(v)
    BY <1>1, <2>2 DEF Pending, PostsOn
  <2>4. \A v : Average(v)' = Average(v) /\ ReviewsOf(v)' = ReviewsOf(v)
    BY <2>1 DEF Average, ReviewsOf, Total
  <2>5. RatingsTypeOK'
    BY <1>1, <2>1, <2>2 DEF RatingsTypeOK
  <2>6. PostFits(p)' /\ Fresh(p)'
    BY <2>2 DEF PostFits, Fresh
  <2>7. ASSUME NEW q \in Posts, q # p
        PROVE  PostFits(q)' /\ Fresh(q)'
    BY <2>2, <2>3, <2>4, <2>7 DEF RatingsInv, PostFits, Fresh
  <2>8. \A v \in Targets : Settled(v)'
    BY <1>1, <2>3, <2>4 DEF RatingsInv, Settled
  <2> QED BY <2>5, <2>6, <2>7, <2>8 DEF RatingsInv
<1>4. CASE review[o] = 0
  <2>1. /\ review' = [review EXCEPT ![o] = post[p].stars]
        /\ post' = [post EXCEPT ![p].at = "aggregate"]
    BY <1>2, <1>4 DEF InsertReview
  <2>2. /\ post' \in [Posts -> PostType]
        /\ post'[p].at = "aggregate" /\ post'[p].order = o /\ post'[p].stars = post[p].stars
        /\ \A q \in Posts : q # p => post'[q] = post[q]
    BY <1>1, <1>2, <2>1 DEF RatingsTypeOK, PostType
  <2>3. /\ p \in Pending(TargetOf[o])'
        /\ \A v : Pending(v) \subseteq Pending(v)'
    BY <1>1, <2>2 DEF Pending, PostsOn
  <2>4. \A v : v # TargetOf[o] =>
          Average(v)' = Average(v) /\ Cardinality(ReviewsOf(v))' = Cardinality(ReviewsOf(v))
    <3> SUFFICES ASSUME NEW v, v # TargetOf[o]
                 PROVE  /\ Average(v)' = Average(v)
                        /\ Cardinality(ReviewsOf(v))' = Cardinality(ReviewsOf(v))
      OBVIOUS
    <3>1. \A x \in Reviewables : TargetOf[x] = v => review'[x] = review[x]
      BY <1>1, <2>1 DEF RatingsTypeOK
    <3> QED BY <3>1, NumbersStay
  <2>5. RatingsTypeOK'
    BY <1>1, <2>1, <2>2 DEF RatingsTypeOK
  <2>6. PostFits(p)' /\ Fresh(p)'
    BY <1>1, <2>2 DEF PostFits, Fresh
  <2>7. ASSUME NEW q \in Posts, q # p
        PROVE  PostFits(q)' /\ Fresh(q)'
    <3>1. PostFits(q) /\ Fresh(q) /\ post'[q] = post[q]
      BY <2>2, <2>7 DEF RatingsInv
    <3>2. CASE TargetOf[post[q].order] = TargetOf[o]
      BY <2>3, <2>7, <3>1, <3>2 DEF PostFits, Fresh
    <3>3. CASE TargetOf[post[q].order] # TargetOf[o]
      BY <2>3, <2>4, <3>1, <3>3 DEF PostFits, Fresh
    <3> QED BY <3>2, <3>3
  <2>8. \A v \in Targets : Settled(v)'
    BY <1>1, <2>3, <2>4 DEF RatingsInv, Settled
  <2> QED BY <2>5, <2>6, <2>7, <2>8 DEF RatingsInv
<1> QED BY <1>3, <1>4

LEMMA PostAggregates ==
  ASSUME RatingsInv, NEW p \in Posts, recomputeTargetRating(p)
  PROVE  RatingsInv'
<1>1. /\ RatingsTypeOK /\ post[p].at = "aggregate" /\ post[p] \in PostType
      /\ post[p].order \in Reviewables /\ post[p].stars \in Stars
      /\ review' = review /\ avgRating' = avgRating /\ reviewCount' = reviewCount
      /\ drifted' = drifted
  BY DEF RatingsInv, RatingsTypeOK, PostFits, recomputeTargetRating
<1>2. PICK v \in Targets : v = TargetOf[post[p].order]
  BY <1>1, RatingsAssumption
<1>3. PICK a, n : a = Average(v) /\ n = Cardinality(ReviewsOf(v))
  OBVIOUS
<1>4. a \in Nat /\ n \in Nat
  BY <1>1, <1>3, AverageIsRight, StarsCounted
<1>5. post' = [post EXCEPT ![p].at = "write", ![p].avg = a, ![p].count = n]
  BY <1>2, <1>3 DEF recomputeTargetRating
<1>6. /\ post' \in [Posts -> PostType]
      /\ post'[p].at = "write" /\ post'[p].avg = a /\ post'[p].count = n
      /\ post'[p].order = post[p].order /\ post'[p].stars = post[p].stars
      /\ \A q \in Posts : q # p => post'[q] = post[q]
  BY <1>1, <1>4, <1>5 DEF RatingsTypeOK, PostType
<1>7. \A w : Pending(w)' = Pending(w)
  BY <1>1, <1>6 DEF Pending, PostsOn
<1>8. \A w : Average(w)' = Average(w) /\ ReviewsOf(w)' = ReviewsOf(w)
  BY <1>1 DEF Average, ReviewsOf, Total
<1>9. RatingsTypeOK'
  BY <1>1, <1>6 DEF RatingsTypeOK
<1>10. PostFits(p)' /\ Fresh(p)'
  BY <1>1, <1>2, <1>3, <1>6, <1>8 DEF PostFits, Fresh
<1>11. ASSUME NEW q \in Posts, q # p
       PROVE  PostFits(q)' /\ Fresh(q)'
  BY <1>6, <1>7, <1>8, <1>11 DEF RatingsInv, PostFits, Fresh
<1>12. \A w \in Targets : Settled(w)'
  BY <1>1, <1>7, <1>8 DEF RatingsInv, Settled
<1> QED BY <1>9, <1>10, <1>11, <1>12 DEF RatingsInv

(* Whoever leaves passes over the others that write about its target; those *)
(* that go on without it know.                                              *)
LEMMA OthersGoOn ==
  ASSUME RatingsInv, NEW p \in Posts, NEW v \in Targets, v = TargetOf[post[p].order],
         post' = PassOver(v, [post EXCEPT ![p] = NoPost]), review' = review
  PROVE  /\ post' \in [Posts -> PostType]
         /\ \A q \in Posts : PostFits(q)' /\ Fresh(q)'
         /\ \A w : Pending(w)' = Pending(w) \ {p}
         /\ \A w : Average(w)' = Average(w) /\ ReviewsOf(w)' = ReviewsOf(w)
<1>1. /\ RatingsTypeOK /\ NoPost.at = "idle"
      /\ \A q \in Posts : PostFits(q) /\ Fresh(q)
  BY NoPostType DEF RatingsInv
<1>2. /\ post' \in [Posts -> PostType] /\ post'[p] = NoPost
      /\ \A q \in Posts : q # p =>
           /\ post'[q].at = post[q].at /\ post'[q].order = post[q].order
           /\ post'[q].stars = post[q].stars
           /\ post'[q].avg = post[q].avg /\ post'[q].count = post[q].count
           /\ q \notin PostsOn(v, {"write"}) => post'[q] = post[q]
           /\ q \in PostsOn(v, {"write"}) => post'[q].overtaken
  BY ZenonT(40), <1>1, PassedOver
<1>3. \A w : Pending(w)' = Pending(w) \ {p}
  <2>1. post'[p].at = "idle"
    BY <1>1, <1>2
  <2>2. \A q \in Posts : q # p => post'[q].at = post[q].at /\ post'[q].order = post[q].order
    BY <1>2
  <2> QED BY <2>1, <2>2 DEF Pending, PostsOn
<1>4. \A w : Average(w)' = Average(w) /\ ReviewsOf(w)' = ReviewsOf(w)
  BY DEF Average, ReviewsOf, Total
<1>5. PostFits(p)' /\ Fresh(p)'
  BY <1>1, <1>2 DEF PostFits, Fresh
<1>6. ASSUME NEW q \in Posts, q # p
      PROVE  PostFits(q)' /\ Fresh(q)'
  <2>1. PostFits(q)'
    BY <1>1, <1>2, <1>6 DEF PostFits
  <2>2. CASE q \in PostsOn(v, {"write"})
    BY <1>2, <1>6, <2>1, <2>2 DEF Fresh
  <2>3. CASE post[q].at # "write"
    <3>1. post'[q].at # "write"
      BY <1>2, <1>6, <2>3
    <3> QED BY <2>1, <3>1 DEF Fresh
  <2>4. CASE post[q].at = "write" /\ TargetOf[post[q].order] # v
    <3>1. post'[q] = post[q]
      BY <1>2, <1>6, <2>4 DEF PostsOn
    <3>2. p \notin Pending(TargetOf[post[q].order])
      BY <2>4 DEF Pending, PostsOn
    <3>3. Pending(TargetOf[post[q].order])' = Pending(TargetOf[post[q].order])
      BY <1>3, <3>1, <3>2
    <3>4. Fresh(q)
      BY <1>1
    <3> QED BY <1>4, <2>1, <3>1, <3>3, <3>4 DEF Fresh
  <2> QED BY <2>1, <2>2, <2>3, <2>4 DEF PostsOn
<1> QED BY <1>2, <1>3, <1>4, <1>5, <1>6

LEMMA PostWrites ==
  ASSUME RatingsInv, NEW p \in Posts, updateRatingStats(p)
  PROVE  RatingsInv'
<1>1. /\ RatingsTypeOK /\ post[p].at = "write" /\ post[p] \in PostType
      /\ post[p].order \in Reviewables /\ review' = review /\ Fresh(p)
  BY DEF RatingsInv, RatingsTypeOK, PostFits, updateRatingStats
<1>2. PICK v \in Targets : v = TargetOf[post[p].order]
  BY <1>1, RatingsAssumption
<1>3. /\ avgRating' = [avgRating EXCEPT ![v] = post[p].avg]
      /\ reviewCount' = [reviewCount EXCEPT ![v] = post[p].count]
      /\ drifted' = IF post[p].overtaken THEN drifted \cup {v} ELSE drifted \ {v}
      /\ post' = PassOver(v, [post EXCEPT ![p] = NoPost])
  BY <1>2 DEF updateRatingStats
<1>4. /\ post' \in [Posts -> PostType]
      /\ \A q \in Posts : PostFits(q)' /\ Fresh(q)'
      /\ \A w : Pending(w)' = Pending(w) \ {p}
      /\ \A w : Average(w)' = Average(w) /\ ReviewsOf(w)' = ReviewsOf(w)
  BY <1>1, <1>2, <1>3, OthersGoOn
<1>5. RatingsTypeOK'
  BY <1>1, <1>3, <1>4 DEF RatingsTypeOK, PostType
<1>6. Settled(v)'
  <2>1. CASE Pending(v)' = {} /\ v \notin drifted'
    <3>1. Pending(v) \subseteq {p} /\ ~ post[p].overtaken
      BY <1>3, <1>4, <2>1
    <3>2. post[p].avg = Average(v) /\ post[p].count = Cardinality(ReviewsOf(v))
      BY <1>1, <1>2, <3>1 DEF Fresh
    <3> QED BY <1>1, <1>3, <1>4, <3>2 DEF Settled, RatingsTypeOK
  <2> QED BY <2>1 DEF Settled
<1>7. ASSUME NEW w \in Targets, w # v
      PROVE  Settled(w)'
  <2>1. p \notin Pending(w)
    BY <1>2, <1>7 DEF Pending, PostsOn
  <2>2. avgRating'[w] = avgRating[w] /\ reviewCount'[w] = reviewCount[w]
    BY <1>1, <1>3, <1>7 DEF RatingsTypeOK
  <2> QED BY <1>3, <1>4, <1>7, <2>1, <2>2 DEF RatingsInv, Settled
<1> QED BY <1>4, <1>5, <1>6, <1>7 DEF RatingsInv

LEMMA PostIsLost ==
  ASSUME RatingsInv, NEW p \in Posts, LosePost(p)
  PROVE  RatingsInv'
<1>1. /\ RatingsTypeOK /\ post[p].at # "idle" /\ post[p] \in PostType
      /\ post[p].order \in Reviewables
      /\ review' = review /\ avgRating' = avgRating /\ reviewCount' = reviewCount
  BY DEF RatingsInv, RatingsTypeOK, PostFits, LosePost
<1>2. PICK v \in Targets : v = TargetOf[post[p].order]
  BY <1>1, RatingsAssumption
<1>3. CASE post[p].at = "insert"
  <2>1. post' = [post EXCEPT ![p] = NoPost] /\ drifted' = drifted
    BY <1>3 DEF LosePost
  <2>2. /\ post' \in [Posts -> PostType] /\ post'[p].at = "idle"
        /\ \A q \in Posts : q # p => post'[q] = post[q]
    BY <1>1, <2>1, NoPostType DEF RatingsTypeOK
  <2>3. \A w : Pending(w)' = Pending(w)
    BY <1>3, <2>2 DEF Pending, PostsOn
  <2>4. \A w : Average(w)' = Average(w) /\ ReviewsOf(w)' = ReviewsOf(w)
    BY <1>1 DEF Average, ReviewsOf, Total
  <2>5. RatingsTypeOK'
    BY <1>1, <2>1, <2>2 DEF RatingsTypeOK
  <2>6. PostFits(p)' /\ Fresh(p)'
    BY <2>2 DEF PostFits, Fresh
  <2>7. ASSUME NEW q \in Posts, q # p
        PROVE  PostFits(q)' /\ Fresh(q)'
    BY <2>2, <2>3, <2>4, <2>7 DEF RatingsInv, PostFits, Fresh
  <2>8. \A w \in Targets : Settled(w)'
    BY <1>1, <2>1, <2>3, <2>4 DEF RatingsInv, Settled
  <2> QED BY <2>5, <2>6, <2>7, <2>8 DEF RatingsInv
<1>4. CASE post[p].at # "insert"
  <2>1. /\ post' = PassOver(v, [post EXCEPT ![p] = NoPost])
        /\ drifted' = drifted \cup {v}
    BY <1>2, <1>4 DEF LosePost
  <2>2. /\ post' \in [Posts -> PostType]
        /\ \A q \in Posts : PostFits(q)' /\ Fresh(q)'
        /\ \A w : Pending(w)' = Pending(w) \ {p}
        /\ \A w : Average(w)' = Average(w) /\ ReviewsOf(w)' = ReviewsOf(w)
    BY <1>1, <1>2, <2>1, OthersGoOn
  <2>3. RatingsTypeOK'
    BY <1>1, <2>1, <2>2 DEF RatingsTypeOK
  <2>4. ASSUME NEW w \in Targets, w \notin drifted'
        PROVE  Settled(w)'
    <3>1. p \notin Pending(w) /\ w \notin drifted
      BY <1>2, <2>1, <2>4 DEF Pending, PostsOn
    <3> QED BY <1>1, <2>2, <3>1 DEF RatingsInv, Settled
  <2>5. \A w \in Targets : w \in drifted' => Settled(w)'
    BY DEF Settled
  <2> QED BY <2>2, <2>3, <2>4, <2>5 DEF RatingsInv
<1> QED BY <1>3, <1>4

LEMMA RatingsStep == RatingsInv /\ [RatingsNext]_ratingVars => RatingsInv'
<1>1. ASSUME RatingsInv, RatingsNext
      PROVE  RatingsInv'
  BY <1>1, PostBegins, PostInserts, PostAggregates, PostWrites, PostIsLost DEF RatingsNext
<1>2. ASSUME RatingsInv, UNCHANGED ratingVars
      PROVE  RatingsInv'
  <2>1. /\ review' = review /\ avgRating' = avgRating /\ reviewCount' = reviewCount
        /\ post' = post /\ drifted' = drifted
    BY <1>2 DEF ratingVars
  <2>2. \A v : /\ Average(v)' = Average(v) /\ ReviewsOf(v)' = ReviewsOf(v)
              /\ Pending(v)' = Pending(v)
    BY <2>1 DEF Average, Total, ReviewsOf, Pending, PostsOn
  <2> QED BY <1>2, <2>1, <2>2 DEF RatingsInv, RatingsTypeOK, PostFits, Fresh, Settled
<1> QED BY <1>1, <1>2

(* Whenever nobody is posting about a target, its count is that of its      *)
(* reviews and its average theirs to the nearest tenth, however many posts  *)
(* about it overlapped: only a write that another overtook last, or one     *)
(* that was lost, is excused.                                               *)
THEOREM RatingsAreRight == RatingsSpec => []RatingIsRight
<1>1. RatingsInv => RatingIsRight
  <2> SUFFICES ASSUME RatingsInv, NEW v \in Targets, Pending(v) = {}, v \notin drifted
               PROVE  LET n == Cardinality(ReviewsOf(v))
                          off == 10 * Total(v) - n * avgRating[v] IN
                        /\ reviewCount[v] = n
                        /\ -n <= 2 * off /\ 2 * off <= n
                        /\ n = 0 => avgRating[v] = 0
    BY DEF RatingIsRight, Pending
  <2>1. avgRating[v] = Average(v) /\ reviewCount[v] = Cardinality(ReviewsOf(v))
    BY DEF RatingsInv, Settled
  <2> QED BY <2>1, AverageIsRight DEF RatingsInv
<1> QED BY <1>1, RatingsBegin, RatingsStep, PTL DEF RatingsSpec

THEOREM RatingsTyped == RatingsSpec => []RatingsTypeOK
<1>1. RatingsInv => RatingsTypeOK
  BY DEF RatingsInv
<1> QED BY <1>1, RatingsBegin, RatingsStep, PTL DEF RatingsSpec
=================================================================================
