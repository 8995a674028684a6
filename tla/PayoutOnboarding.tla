---------------------------- MODULE PayoutOnboarding ----------------------------
(***************************************************************************)
(* How a vendor connects the accounts it is paid out to                    *)
(* (backend/src/payments/*-payouts.controller.ts, the account webhook of   *)
(* payments.service.ts, and applyPayoutAccountUpdate, which restaurants,   *)
(* stores and riders each have).  A bank account at Paystack or Flutterwave*)
(* is usable at once.  At Stripe the vendor goes on to Stripe's own form,  *)
(* and only a webhook tells that he has filled it in, or that Stripe wants *)
(* something else of him since.  A job is a request or a webhook call.     *)
(* Vendors share nothing, so there is one; bank details are left out.      *)
(***************************************************************************)
EXTENDS Integers

CONSTANTS
  PayoutProviders, Stripe,
  Accounts,          \* bound: accounts opened at the providers
  Jobs,              \* bound: requests and webhooks being answered at a time
  MaxChanges,        \* bound: times Stripe changes its mind about an account
  NoPayoutProvider, NoAccount

ASSUME OnboardingAssumption ==
  /\ Stripe \in PayoutProviders
  /\ MaxChanges \in Nat
  /\ NoPayoutProvider \notin PayoutProviders /\ NoAccount \notin Accounts

VARIABLES
  payoutAccounts,    \* the vendor document's list
  job,
  (* the providers, external *)
  openedAt,          \* where an account was opened
  invited,           \* Stripe accounts the vendor holds a link to the form of
  changes,           \* odd: the account may charge and has its details
  events,            \* account.updated events on their way
  (* history *)
  handled,           \* the latest change of each account a webhook has told
  garbled            \* accounts an accident happened to

providerVars == <<openedAt, invited, changes>>
onboardingVars == <<payoutAccounts, job, providerVars, events, handled, garbled>>

Entry == [provider : PayoutProviders, status : {"pending", "active"}, reference : Accounts]

NoJob == [at |-> "idle", provider |-> NoPayoutProvider, account |-> NoAccount,
          status |-> "pending", change |-> 0]

JobType ==
  [at : {"idle", "open", "update", "push", "link"},
   provider : PayoutProviders \cup {NoPayoutProvider},
   account  : Accounts \cup {NoAccount},
   status   : {"pending", "active"},
   change   : 0..MaxChanges]            \* 0: a request, not a webhook

OnboardingTypeOK ==
  /\ payoutAccounts \in SUBSET Entry
  /\ job \in [Jobs -> JobType]
  /\ openedAt \in [Accounts -> PayoutProviders \cup {NoPayoutProvider}]
  /\ invited \in SUBSET Accounts /\ garbled \in SUBSET Accounts
  /\ changes \in [Accounts -> 0..MaxChanges]
  /\ handled \in [Accounts -> 0..MaxChanges]
  /\ events \in SUBSET (Accounts \X (1..MaxChanges))

OnboardingInit ==
  /\ payoutAccounts = {}
  /\ job = [j \in Jobs |-> NoJob]
  /\ openedAt = [a \in Accounts |-> NoPayoutProvider]
  /\ invited = {} /\ garbled = {} /\ events = {}
  /\ changes = [a \in Accounts |-> 0]
  /\ handled = [a \in Accounts |-> 0]

-----------------------------------------------------------------------------
EntriesAt(p) == {e \in payoutAccounts : e.provider = p}

Ready(n) == n % 2 = 1

(* Stripe is asked for an account only if there is none; a bank account     *)
(* replaces the one before.                                                 *)
setup(j, p) ==
  /\ job[j].at = "idle"
  /\ p = Stripe => EntriesAt(p) = {}
  /\ job' = [job EXCEPT ![j] = [at |-> "open", provider |-> p, account |-> NoAccount,
                                status |-> "pending", change |-> 0]]
  /\ UNCHANGED <<payoutAccounts, providerVars, events, handled, garbled>>

(* The provider opens the account.  If it refuses, nothing has happened.    *)
OpenAccount(j) ==
  LET p == job[j].provider IN
  /\ job[j].at = "open"
  /\ \E a \in Accounts :
     /\ openedAt[a] = NoPayoutProvider
     /\ openedAt' = [openedAt EXCEPT ![a] = p]
     /\ job' = [job EXCEPT ![j].at = "update", ![j].account = a,
                           ![j].status = IF p = Stripe THEN "pending" ELSE "active"]
  /\ UNCHANGED <<payoutAccounts, invited, changes, events, handled, garbled>>

(* Another job that is about to write the entry of the same provider.       *)
Beside(j) == {i \in Jobs \ {j} : job[i].at \in {"open", "update", "push"}
                                 /\ job[i].provider = job[j].provider}

Garble(j) ==
  garbled' = garbled \cup (IF Beside(j) = {} THEN {}
                           ELSE {job[i].account : i \in Beside(j) \cup {j}} \ {NoAccount})

Told(j) ==
  /\ events' = events \ {<<job[j].account, job[j].change>>}
  /\ handled' = IF job[j].change = 0 THEN handled
                ELSE [handled EXCEPT ![job[j].account] =
                        IF job[j].change > @ THEN job[j].change ELSE @]

Saved(j) == IF job[j].provider = Stripe /\ job[j].change = 0
              THEN job' = [job EXCEPT ![j].at = "link"]
              ELSE job' = [job EXCEPT ![j] = NoJob]

NewEntry(j) == [provider |-> job[j].provider, status |-> job[j].status,
                reference |-> job[j].account]

(* applyPayoutAccountUpdate, its two queries: overwrite the entry there is, *)
UpdateEntry(j) ==
  /\ job[j].at = "update"
  /\ IF EntriesAt(job[j].provider) = {}
       THEN /\ job' = [job EXCEPT ![j].at = "push"]
            /\ UNCHANGED <<payoutAccounts, events, handled, garbled>>
       ELSE /\ \E e \in EntriesAt(job[j].provider) :
                 payoutAccounts' = (payoutAccounts \ {e}) \cup {NewEntry(j)}
            /\ Garble(j) /\ Told(j) /\ Saved(j)
  /\ UNCHANGED providerVars

(* Mutant: the push does not look again. *)
PushesAnyway(j) == TRUE

StillNone(j) == EntriesAt(job[j].provider) = {}

(* or add one if there is still none, which is an error if there is.        *)
PushEntry(j) ==
  /\ job[j].at = "push"
  /\ IF StillNone(j)
       THEN /\ payoutAccounts' = payoutAccounts \cup {NewEntry(j)}
            /\ Garble(j) /\ Told(j) /\ Saved(j)
       ELSE /\ job' = [job EXCEPT ![j] = NoJob]
            /\ UNCHANGED <<payoutAccounts, events, handled, garbled>>
  /\ UNCHANGED providerVars

createOnboardingLink(j) ==
  /\ job[j].at = "link"
  /\ invited' = invited \cup {job[j].account}
  /\ job' = [job EXCEPT ![j] = NoJob]
  /\ UNCHANGED <<payoutAccounts, openedAt, changes, events, handled, garbled>>

(* A setup that finds a reference: only a new link.                         *)
linkAgain(e) ==
  /\ e \in EntriesAt(Stripe)
  /\ invited' = invited \cup {e.reference}
  /\ UNCHANGED <<payoutAccounts, job, openedAt, changes, events, handled, garbled>>

(* Stripe (external): the form is filled in, or something is missing again. *)
AccountUpdated(a) ==
  /\ a \in invited /\ changes[a] < MaxChanges
  /\ changes' = [changes EXCEPT ![a] = @ + 1]
  /\ events' = events \cup {<<a, changes[a] + 1>>}
  /\ UNCHANGED <<payoutAccounts, job, openedAt, invited, handled, garbled>>

(* Events are sent again, and in any order. *)
Redeliver(a, n) ==
  /\ n <= changes[a]
  /\ events' = events \cup {<<a, n>>}
  /\ UNCHANGED <<payoutAccounts, job, providerVars, handled, garbled>>

(* Mutant: details are enough, whether or not the account may charge. *)
OnceSubmitted(n) == n >= 1

IsActive(n) == Ready(n)

handleStripeAccountWebhook(j, a, n) ==
  LET wasActive == \E e \in EntriesAt(Stripe) : e.reference = a /\ e.status = "active"
      known     == \E e \in EntriesAt(Stripe) : e.reference = a
      r == [at |-> "update", provider |-> Stripe, account |-> a,
            status |-> IF IsActive(n) THEN "active" ELSE "pending", change |-> n]
      stale == n < handled[a] \/ \E i \in Jobs : job[i].account = a /\ job[i].change # 0
  IN
  /\ job[j].at = "idle" /\ <<a, n>> \in events
  /\ garbled' = IF stale THEN garbled \cup {a} ELSE garbled
  /\ IF known /\ IsActive(n) # wasActive
       THEN job' = [job EXCEPT ![j] = r] /\ UNCHANGED <<events, handled>>
       ELSE /\ events' = events \ {<<a, n>>}
            /\ handled' = [handled EXCEPT ![a] = IF n > @ THEN n ELSE @]
            /\ UNCHANGED job
  /\ UNCHANGED <<payoutAccounts, providerVars>>

(* A restart of the server (external): Stripe sends an event again that was *)
(* not answered.                                                            *)
DropJob(j) ==
  /\ job[j].at # "idle"
  /\ job' = [job EXCEPT ![j] = NoJob]
  /\ UNCHANGED <<payoutAccounts, providerVars, events, handled, garbled>>

OnboardingNext ==
  \/ \E j \in Jobs :
       \/ \E p \in PayoutProviders : setup(j, p)
       \/ OpenAccount(j) \/ UpdateEntry(j) \/ PushEntry(j) \/ createOnboardingLink(j)
       \/ \E a \in Accounts, n \in 1..MaxChanges : handleStripeAccountWebhook(j, a, n)
       \/ DropJob(j)
  \/ \E e \in payoutAccounts : linkAgain(e)
  \/ \E a \in Accounts : AccountUpdated(a) \/ \E n \in 1..MaxChanges : Redeliver(a, n)

OnboardingSpec == OnboardingInit /\ [][OnboardingNext]_onboardingVars

-----------------------------------------------------------------------------
(* Properties *)

(* A vendor has at most one account per provider to be paid to (restaurants.*)
(* service.ts:542), although finding and adding it are two queries.         *)
OneEntryPerProvider ==
  \A e, f \in payoutAccounts : e.provider = f.provider => e = f

(* Once Stripe's events about an account have been heard, the vendor can be *)
(* paid to it exactly if Stripe says so; unless events overtook each other, *)
(* or two requests each opened an account, of which only one is kept        *)
(* (payments.service.ts:459-460 knows nothing of the other).                *)
StatusFollowsStripe ==
  \A a \in invited \ garbled :
    /\ \A n \in 1..MaxChanges : <<a, n>> \notin events
    /\ \A j \in Jobs : job[j].account # a
    => (Ready(changes[a]) <=>
          \E e \in payoutAccounts : e.reference = a /\ e.status = "active")
=============================================================================
