----------------------------- MODULE AdCampaigns -----------------------------
(***************************************************************************)
(* Sponsored listings (backend/src/ad-campaigns/ad-campaigns.service.ts):  *)
(* an administrator creates a campaign for a vendor, the vendor pays for   *)
(* it at a payment provider, and a daily sweep puts it up on its first day *)
(* and takes it down after its last.  What customers see is not the        *)
(* campaign but a copy on the vendor's own document, `sponsoredUntil',     *)
(* written after the campaign's status and not together with it.           *)
(*                                                                         *)
(* A request is a record in `req': `at' names what it does next, and the   *)
(* awaits of a handler are the steps between.  Time is counted in days.    *)
(* Notifications and prices are left out: nothing is decided by them.      *)
(***************************************************************************)
EXTENDS Integers, FiniteSets

CONSTANTS
  Vendors,      \* restaurants and stores
  Campaigns,    \* bound: campaign documents the database has room for
  Refs,         \* bound: checkout sessions the providers open
  Providers,
  Requests,     \* HTTP requests the server can be handling at a time
  Cron,         \* the scheduler's own job, not one of Requests
  Sweepers,     \* bound: Cron, and the requests an administrator sweeps in
  LastDay,      \* bound: the day the clock stops at
  Leads,        \* days from a campaign's creation to its startDate
  Durations,    \* durationDays an administrator chooses
  MaxFaults,    \* bound: handlers cut off and writes that fail
  NoVendor, NoProvider, NoRef, NoCampaign

Threads == Requests \cup {Cron}
Days    == 1..LastDay
Never   == 0                \* sponsoredUntil = null

ASSUME CampaignsAssumption ==
  /\ IsFiniteSet(Threads)
  /\ Cron \notin Requests
  /\ Cron \in Sweepers /\ Sweepers \subseteq Threads
  /\ LastDay \in Nat \ {0}
  /\ Leads \subseteq Nat
  /\ Durations \subseteq Nat \ {0}
  /\ MaxFaults \in Nat
  /\ NoVendor \notin Vendors /\ NoProvider \notin Providers
  /\ NoRef \notin Refs /\ NoCampaign \notin Campaigns

VARIABLES
  today,
  (* the campaign documents *)
  vendorOf,             \* NoVendor: there is no such document yet
  status, paymentStatus,
  startDate, endDate,
  paymentProvider, paymentRef,
  refsOf,               \* paymentRefs
  markedPaidManually,
  (* the vendor documents *)
  sponsoredUntil,
  (* the providers, external: a session and what became of it *)
  sessionAt, session,
  (* requests, and history *)
  req,
  faults,
  disturbed             \* vendors to whose sponsorship an accident happened

campaignVars == <<vendorOf, status, paymentStatus, startDate, endDate,
                  paymentProvider, paymentRef, refsOf, markedPaidManually>>
moneyVars    == <<sessionAt, session>>
vars == <<today, campaignVars, sponsoredUntil, moneyVars, req, faults, disturbed>>

L == INSTANCE CampaignLifecycle WITH
       cancelling <- {c \in Campaigns :
                        \E t \in Threads : req[t].at = "cancel" /\ req[t].campaign = c}

Request ==
  [at : {"idle", "saveRef", "verify", "markPaid", "markFailed",
         "saveManual", "cancel", "activating", "ending", "setSponsorship"},
   campaign : Campaigns \cup {NoCampaign},
   provider : Providers \cup {NoProvider},
   ref      : Refs \cup {NoRef},
   day      : Days \cup {Never},      \* the sweep's `now'
   todo     : SUBSET Campaigns,       \* what the sweep still has to look at
   until    : Nat,                    \* the sponsorship it writes
   back     : {"idle", "activating", "ending"}]   \* what it does afterwards

Idle == [at |-> "idle", campaign |-> NoCampaign, provider |-> NoProvider,
         ref |-> NoRef, day |-> Never, todo |-> {}, until |-> Never,
         back |-> "idle"]

TypeOK ==
  /\ today \in Days
  /\ vendorOf \in [Campaigns -> Vendors \cup {NoVendor}]
  /\ status \in [Campaigns -> L!Statuses \cup {"none"}]
  /\ paymentStatus \in [Campaigns -> {"pending", "succeeded", "failed"}]
  /\ startDate \in [Campaigns -> Nat]
  /\ endDate \in [Campaigns -> Nat]
  /\ \A c \in Campaigns : vendorOf[c] # NoVendor => startDate[c] < endDate[c]
  /\ paymentProvider \in [Campaigns -> Providers \cup {NoProvider}]
  /\ paymentRef \in [Campaigns -> Refs \cup {NoRef}]
  /\ refsOf \in [Campaigns -> SUBSET Refs]
  /\ markedPaidManually \in SUBSET Campaigns
  /\ sponsoredUntil \in [Vendors -> Nat]
  /\ sessionAt \in [Refs -> Providers \cup {NoProvider}]
  /\ session \in [Refs -> {"none", "open", "paid", "failed"}]
  /\ req \in [Threads -> Request]
  /\ faults \in 0..MaxFaults
  /\ disturbed \in SUBSET Vendors

Init ==
  /\ today = 1
  /\ vendorOf = [c \in Campaigns |-> NoVendor]
  /\ status = [c \in Campaigns |-> "none"]
  /\ paymentStatus = [c \in Campaigns |-> "pending"]
  /\ startDate = [c \in Campaigns |-> 0]
  /\ endDate = [c \in Campaigns |-> 0]
  /\ paymentProvider = [c \in Campaigns |-> NoProvider]
  /\ paymentRef = [c \in Campaigns |-> NoRef]
  /\ refsOf = [c \in Campaigns |-> {}]
  /\ markedPaidManually = {}
  /\ sponsoredUntil = [v \in Vendors |-> Never]
  /\ sessionAt = [r \in Refs |-> NoProvider]
  /\ session = [r \in Refs |-> "none"]
  /\ req = [t \in Threads |-> Idle]
  /\ faults = 0
  /\ disturbed = {}

-----------------------------------------------------------------------------
(* Requests *)

Open(t, r) == req[t].at = "idle" /\ req' = [req EXCEPT ![t] = r]

Goto(t, at) == req' = [req EXCEPT ![t].at = at]

Close(t) == req' = [req EXCEPT ![t] = Idle]

On(at, c) == [Idle EXCEPT !.at = at, !.campaign = c]

Sweep(at, day, todo) == [Idle EXCEPT !.at = at, !.day = day, !.todo = todo]

(* About to write c's vendor's sponsorship; for a sweep, with what it has   *)
(* still to do.                                                             *)
Write(c, until, sweep, back) ==
  [sweep EXCEPT !.at = "setSponsorship", !.campaign = c, !.until = until, !.back = back]

(* Requests that have changed whether a campaign of v is up, and have yet   *)
(* to tell v's document.                                                    *)
Writers(v) ==
  {t \in Threads : req[t].at = "setSponsorship" /\ vendorOf[req[t].campaign] = v}

-----------------------------------------------------------------------------
(* Creation *)

(* The partial unique index.  The handler's own look at the campaigns of v  *)
(* only makes for a better error message.                                   *)
Taken(v) == \E c \in Campaigns : vendorOf[c] = v /\ status[c] \in L!NonTerminal

EndOf(first, days) == first + days

create(c, v, lead, days) ==
  /\ vendorOf[c] = NoVendor
  /\ ~ Taken(v)
  /\ vendorOf' = [vendorOf EXCEPT ![c] = v]
  /\ status' = [status EXCEPT ![c] = "pending_payment"]
  /\ startDate' = [startDate EXCEPT ![c] = today + lead]
  /\ endDate' = [endDate EXCEPT ![c] = EndOf(today + lead, days)]
  /\ UNCHANGED <<today, paymentStatus, paymentProvider, paymentRef, refsOf,
                 markedPaidManually, sponsoredUntil, moneyVars, req, faults, disturbed>>

-----------------------------------------------------------------------------
(* Payment *)

(* The provider opens a session.  If it refuses, nothing has happened. *)
initiateCampaignPayment(t, c, p) ==
  /\ status[c] = "pending_payment"
  /\ \E r \in Refs :
     /\ session[r] = "none"
     /\ session' = [session EXCEPT ![r] = "open"]
     /\ sessionAt' = [sessionAt EXCEPT ![r] = p]
     /\ Open(t, [On("saveRef", c) EXCEPT !.provider = p, !.ref = r])
  /\ UNCHANGED <<today, campaignVars, sponsoredUntil, faults, disturbed>>

(* Only now does the vendor get the session's address.                      *)
SaveRef(t) ==
  LET c == req[t].campaign
      r == req[t].ref
  IN
  /\ req[t].at = "saveRef"
  /\ paymentProvider' = [paymentProvider EXCEPT ![c] = req[t].provider]
  /\ paymentRef' = [paymentRef EXCEPT ![c] = r]
  /\ refsOf' = [refsOf EXCEPT ![c] = refsOf[c] \cup {r}]
  /\ Close(t)
  /\ UNCHANGED <<today, vendorOf, status, paymentStatus, startDate, endDate,
                 markedPaidManually, sponsoredUntil, moneyVars, faults, disturbed>>

(* At the provider (external): a session that was handed to the vendor is   *)
(* paid, or fails, whatever has become of the campaign meanwhile.           *)
Settle(r) ==
  /\ session[r] = "open"
  /\ \E c \in Campaigns : r \in refsOf[c]
  /\ \E s \in {"paid", "failed"} : session' = [session EXCEPT ![r] = s]
  /\ UNCHANGED <<today, campaignVars, sponsoredUntil, sessionAt, req, faults, disturbed>>

(* Mutant: the event's outcome is not looked at. *)
AnyEventIsPayment(r) == "markPaid"

Outcome(r) == IF session[r] = "paid" THEN "markPaid" ELSE "markFailed"

(* Mutant: only the latest attempt is looked up. *)
IsLatestOf(r, c) == r = paymentRef[c]

IsOf(r, c) == r \in refsOf[c]

(* A webhook may come late, again, or while the campaign has moved on.      *)
handleWebhook(t, r) ==
  /\ session[r] \in {"paid", "failed"}
  /\ \E c \in Campaigns :
     /\ IsOf(r, c)
     /\ paymentProvider[c] = sessionAt[r]
     /\ Open(t, On(Outcome(r), c))
  /\ UNCHANGED <<today, campaignVars, sponsoredUntil, moneyVars, faults, disturbed>>

verifyPayment(t, c) ==
  /\ status[c] = "pending_payment"
  /\ paymentRef[c] # NoRef
  /\ Open(t, [On("verify", c) EXCEPT !.ref = paymentRef[c]])
  /\ UNCHANGED <<today, campaignVars, sponsoredUntil, moneyVars, faults, disturbed>>

(* The provider's answer, or an error. *)
Verified(t) ==
  /\ req[t].at = "verify"
  /\ Goto(t, Outcome(req[t].ref)) \/ Close(t)
  /\ UNCHANGED <<today, campaignVars, sponsoredUntil, moneyVars, faults, disturbed>>

markPaidManually(t, c) ==
  /\ status[c] = "pending_payment"
  /\ Open(t, On("saveManual", c))
  /\ UNCHANGED <<today, campaignVars, sponsoredUntil, moneyVars, faults, disturbed>>

SaveManual(t) ==
  /\ req[t].at = "saveManual"
  /\ markedPaidManually' = markedPaidManually \cup {req[t].campaign}
  /\ Goto(t, "markPaid")
  /\ UNCHANGED <<today, vendorOf, status, paymentStatus, startDate, endDate,
                 paymentProvider, paymentRef, refsOf, sponsoredUntil, moneyVars,
                 faults, disturbed>>

(* Mutant: the update is not conditional on the status. *)
WhateverItsStatus(c) == TRUE

AwaitsPayment(c) == status[c] = "pending_payment"

HasBegun(c) == startDate[c] <= today

(* A status change that makes a sponsorship write due: a second one due at  *)
(* the same time is an accident.                                            *)
DisturbIfWriting(v) ==
  disturbed' = IF Writers(v) # {} THEN disturbed \cup {v} ELSE disturbed

markPaid(t) ==
  LET c == req[t].campaign IN
  /\ req[t].at = "markPaid"
  /\ IF AwaitsPayment(c)
     THEN /\ paymentStatus' = [paymentStatus EXCEPT ![c] = "succeeded"]
          /\ IF HasBegun(c)
             THEN /\ status' = [status EXCEPT ![c] = "active"]
                  /\ req' = [req EXCEPT ![t] = Write(c, endDate[c], Idle, "idle")]
                  /\ DisturbIfWriting(vendorOf[c])
             ELSE /\ status' = [status EXCEPT ![c] = "scheduled"]
                  /\ Close(t)
                  /\ UNCHANGED disturbed
     ELSE /\ Close(t)
          /\ UNCHANGED <<status, paymentStatus, disturbed>>
  /\ UNCHANGED <<today, vendorOf, startDate, endDate, paymentProvider, paymentRef,
                 refsOf, markedPaidManually, sponsoredUntil, moneyVars, faults>>

markPaymentFailed(t) ==
  LET c == req[t].campaign IN
  /\ req[t].at = "markFailed"
  /\ paymentStatus' = IF AwaitsPayment(c)
                      THEN [paymentStatus EXCEPT ![c] = "failed"]
                      ELSE paymentStatus
  /\ Close(t)
  /\ UNCHANGED <<today, vendorOf, status, startDate, endDate, paymentProvider,
                 paymentRef, refsOf, markedPaidManually, sponsoredUntil, moneyVars,
                 faults, disturbed>>

-----------------------------------------------------------------------------
(* Cancellation: the check is on the copy that was read, the save is not    *)
(* conditional.                                                             *)

cancel(t, c) ==
  /\ L!canTransition(status[c], "cancelled")
  /\ Open(t, On("cancel", c))
  /\ UNCHANGED <<today, campaignVars, sponsoredUntil, moneyVars, faults, disturbed>>

SaveCancelled(t) ==
  LET c == req[t].campaign IN
  /\ req[t].at = "cancel"
  /\ status' = [status EXCEPT ![c] = "cancelled"]
  /\ disturbed' = IF status[c] = "active" THEN disturbed \cup {vendorOf[c]}
                  ELSE disturbed
  /\ Close(t)
  /\ UNCHANGED <<today, vendorOf, paymentStatus, startDate, endDate, paymentProvider,
                 paymentRef, refsOf, markedPaidManually, sponsoredUntil, moneyVars, faults>>

-----------------------------------------------------------------------------
(* The daily sweep, which an administrator may also start by hand           *)

ToActivate(day) ==
  {c \in Campaigns : status[c] = "scheduled" /\ startDate[c] <= day}

(* Mutant: a campaign is taken down only after the day it ends on. *)
PastTheirEnd(day) == {c \in Campaigns : status[c] = "active" /\ endDate[c] < day}

ToEnd(day) == {c \in Campaigns : status[c] = "active" /\ endDate[c] <= day}

runLifecycleSweep(t) ==
  /\ Open(t, Sweep("activating", today, ToActivate(today)))
  /\ UNCHANGED <<today, campaignVars, sponsoredUntil, moneyVars, faults, disturbed>>

(* One campaign of the first pass: an update conditional on the status, and *)
(* if it applies a sponsorship to be written.                               *)
Activate(t, c) ==
  /\ req[t].at = "activating" /\ c \in req[t].todo
  /\ IF status[c] = "scheduled"
     THEN /\ status' = [status EXCEPT ![c] = "active"]
          /\ req' = [req EXCEPT ![t] =
               Write(c, endDate[c], [req[t] EXCEPT !.todo = @ \ {c}], "activating")]
          /\ DisturbIfWriting(vendorOf[c])
     ELSE /\ req' = [req EXCEPT ![t].todo = @ \ {c}]
          /\ UNCHANGED <<status, disturbed>>
  /\ UNCHANGED <<today, vendorOf, paymentStatus, startDate, endDate, paymentProvider,
                 paymentRef, refsOf, markedPaidManually, sponsoredUntil, moneyVars, faults>>

SecondPass(t) ==
  /\ req[t].at = "activating" /\ req[t].todo = {}
  /\ req' = [req EXCEPT ![t] = Sweep("ending", req[t].day, ToEnd(req[t].day))]
  /\ UNCHANGED <<today, campaignVars, sponsoredUntil, moneyVars, faults, disturbed>>

(* Mutant: the vendor's document is left as it is. *)
StaysUp(c) == endDate[c]

OnceEnded(c) == Never

End(t, c) ==
  /\ req[t].at = "ending" /\ c \in req[t].todo
  /\ IF status[c] = "active"
     THEN /\ status' = [status EXCEPT ![c] = "ended"]
          /\ req' = [req EXCEPT ![t] =
               Write(c, OnceEnded(c), [req[t] EXCEPT !.todo = @ \ {c}], "ending")]
          /\ DisturbIfWriting(vendorOf[c])
     ELSE /\ req' = [req EXCEPT ![t].todo = @ \ {c}]
          /\ UNCHANGED <<status, disturbed>>
  /\ UNCHANGED <<today, vendorOf, paymentStatus, startDate, endDate, paymentProvider,
                 paymentRef, refsOf, markedPaidManually, sponsoredUntil, moneyVars, faults>>

SweepDone(t) ==
  /\ req[t].at = "ending" /\ req[t].todo = {}
  /\ Close(t)
  /\ UNCHANGED <<today, campaignVars, sponsoredUntil, moneyVars, faults, disturbed>>

-----------------------------------------------------------------------------
(* The vendor's document *)

(* Back to the sweep's loop, or the end of the request. *)
Return(t) ==
  req' = [req EXCEPT ![t] = IF req[t].back = "idle" THEN Idle
                            ELSE Sweep(req[t].back, req[t].day, req[t].todo)]

setSponsorship(t) ==
  /\ req[t].at = "setSponsorship"
  /\ sponsoredUntil' =
       [sponsoredUntil EXCEPT ![vendorOf[req[t].campaign]] = req[t].until]
  /\ Return(t)
  /\ UNCHANGED <<today, campaignVars, moneyVars, faults, disturbed>>

(* The write fails: the sweep logs it and goes on with the next campaign, a *)
(* payment's request ends in an error.                                      *)
SponsorshipFails(t) ==
  /\ faults < MaxFaults
  /\ req[t].at = "setSponsorship"
  /\ disturbed' = disturbed \cup {vendorOf[req[t].campaign]}
  /\ Return(t)
  /\ faults' = faults + 1
  /\ UNCHANGED <<today, campaignVars, sponsoredUntil, moneyVars>>

(* A restart cuts the request off. *)
Die(t) ==
  /\ faults < MaxFaults
  /\ req[t].at # "idle"
  /\ disturbed' = IF req[t].at = "setSponsorship"
                  THEN disturbed \cup {vendorOf[req[t].campaign]} ELSE disturbed
  /\ Close(t)
  /\ faults' = faults + 1
  /\ UNCHANGED <<today, campaignVars, sponsoredUntil, moneyVars>>

NextDay ==
  /\ today < LastDay
  /\ today' = today + 1
  /\ UNCHANGED <<campaignVars, sponsoredUntil, moneyVars, req, faults, disturbed>>

-----------------------------------------------------------------------------
PaymentStep(t) ==
  \/ SaveRef(t) \/ Verified(t) \/ SaveManual(t)
  \/ markPaid(t) \/ markPaymentFailed(t)

SweepStep(t) ==
  \/ \E c \in Campaigns : Activate(t, c) \/ End(t, c)
  \/ SecondPass(t) \/ SweepDone(t)

(* A request under way goes on. *)
Continue(t) ==
  PaymentStep(t) \/ SaveCancelled(t) \/ SweepStep(t) \/ setSponsorship(t)

Start(t) ==
  \/ \E c \in Campaigns :
       \/ \E p \in Providers : initiateCampaignPayment(t, c, p)
       \/ verifyPayment(t, c) \/ markPaidManually(t, c) \/ cancel(t, c)
  \/ \E r \in Refs : handleWebhook(t, r)

Next ==
  \/ \E c \in Campaigns, v \in Vendors, lead \in Leads, days \in Durations :
       create(c, v, lead, days)
  \/ \E t \in Requests : Start(t)
  \/ \E t \in Threads :
       Continue(t) \/ SponsorshipFails(t) \/ Die(t)
  \/ \E t \in Sweepers : runLifecycleSweep(t)
  \/ \E r \in Refs : Settle(r)
  \/ NextDay

(* The scheduler starts a sweep again and again, a request under way goes   *)
(* on, days pass, and a provider repeats an unanswered webhook.             *)
Fairness ==
  /\ WF_vars(runLifecycleSweep(Cron))
  /\ \A t \in Threads : WF_vars(Continue(t))
  /\ \A r \in Refs : SF_vars(\E t \in Requests : handleWebhook(t, r))

Spec     == Init /\ [][Next]_vars
FairSpec == Spec /\ Fairness

-----------------------------------------------------------------------------
(* Safety *)

(* A vendor has at most one campaign under way, so that there is never a    *)
(* doubt which of them the vendor's sponsorship stands for.                 *)
OneCampaignAtATime ==
  \A c, d \in Campaigns :
    /\ vendorOf[c] = vendorOf[d] /\ vendorOf[c] # NoVendor
    /\ status[c] \in L!NonTerminal /\ status[d] \in L!NonTerminal
    => c = d

PaidFor(c) == c \in markedPaidManually \/ \E r \in refsOf[c] : session[r] = "paid"

(* Whatever webhooks, verifications and administrators race: a campaign is  *)
(* scheduled, shown or ended only if one of its own sessions was paid or an *)
(* administrator vouches for it.                                            *)
NothingShownUnpaid ==
  \A c \in Campaigns :
    status[c] \in {"scheduled", "active", "ended"} =>
      paymentStatus[c] = "succeeded" /\ PaidFor(c)

(* `until' is what the vendor's document should say of v's campaigns. *)
IsUp(c, v) == vendorOf[c] = v /\ status[c] = "active"

Rightful(v, until) ==
  IF \E c \in Campaigns : IsUp(c, v)
  THEN \A c \in Campaigns : IsUp(c, v) => until = endDate[c]
  ELSE until = Never

(* Between requests a vendor is sponsored until the end of its active       *)
(* campaign, and not at all without one.  Only three accidents break this:  *)
(* a request cut off before its sponsorship write, two such writes for one  *)
(* vendor under way at once, and a cancellation saved over a campaign that  *)
(* has gone live since it was read.                                         *)
SponsoredWhileActive ==
  \A v \in Vendors \ disturbed :
    Writers(v) = {} => Rightful(v, sponsoredUntil[v])

(* No campaign is shown before the day it was sold for. *)
NotBeforeItsDay ==
  \A c \in Campaigns : status[c] \in {"active", "ended"} => startDate[c] <= today

(* What is shown was sold: paid for, and for a time that has come, whatever *)
(* webhooks, administrators and sweeps race.                                *)
ShownAsSold == NothingShownUnpaid /\ NotBeforeItsDay

(* The inductive invariant behind these.  What a request r has read stays   *)
(* true of its campaign, whoever gets in between...                         *)
Knows(r) ==
  /\ r.at \notin {"idle", "activating", "ending"} => r.campaign # NoCampaign
  /\ r.campaign # NoCampaign => vendorOf[r.campaign] # NoVendor
  /\ r.at = "saveRef" => r.ref \in Refs
  /\ r.at = "verify" => r.ref \in refsOf[r.campaign]
  /\ r.at = "markPaid" => PaidFor(r.campaign)
  /\ r.day <= today
  /\ "activating" \in {r.at, r.back} =>
       \A c \in r.todo : vendorOf[c] # NoVendor /\ startDate[c] <= today

RequestsKnow ==
  /\ \A c \in Campaigns :
       /\ status[c] = "none" <=> vendorOf[c] = NoVendor
       /\ refsOf[c] # {} => vendorOf[c] # NoVendor
       /\ paymentRef[c] # NoRef => paymentRef[c] \in refsOf[c]
  /\ \A t \in Threads : Knows(req[t])

(* ...and the one write that is due is the right one. *)
OneRightWriter ==
  \A v \in Vendors \ disturbed : \A t \in Writers(v) :
    Writers(v) = {t} /\ Rightful(v, req[t].until)

IInv ==
  /\ TypeOK /\ RequestsKnow /\ OneRightWriter
  /\ OneCampaignAtATime /\ NothingShownUnpaid /\ SponsoredWhileActive
  /\ NotBeforeItsDay

(* Statuses move along AD_CAMPAIGN_TRANSITIONS, but for late cancellations. *)
FollowsLifecycle == L!LifecycleSpec

(* Liveness *)

(* Once its last day has come, a campaign does not stay up, whatever        *)
(* restarts and failed writes the sweeps meet.                              *)
CampaignsEnd ==
  \A c \in Campaigns :
    (status[c] = "active" /\ endDate[c] <= today) ~> (status[c] # "active")

(* A payment through the campaign's current provider is never lost for      *)
(* good: sooner or later the campaign stops waiting for payment, unless     *)
(* the vendor turns to another provider.                                    *)
PaymentsCount ==
  \A c \in Campaigns, r \in Refs :
    (r \in refsOf[c] /\ session[r] = "paid")
      ~> (status[c] # "pending_payment" \/ paymentProvider[c] # sessionAt[r])
=============================================================================
