-------------------------- MODULE AdCampaigns_proofs --------------------------
(***************************************************************************)
(* Proofs about AdCampaigns, for any number of vendors, campaigns,         *)
(* sessions, requests, days and faults.                                    *)
(***************************************************************************)
EXTENDS AdCampaigns, TLAPS

(* Request t becomes r, the others stay as they are. *)
Moves(t, r) ==
  /\ r \in Request
  /\ req' = [u \in Threads |-> IF u = t THEN r ELSE req[u]]

(* What is never taken back. *)
Grows ==
  /\ \A c \in Campaigns : vendorOf[c] # NoVendor =>
       vendorOf'[c] = vendorOf[c] /\ startDate'[c] = startDate[c]
  /\ \A c \in Campaigns : refsOf[c] \subseteq refsOf'[c]
  /\ markedPaidManually \subseteq markedPaidManually'
  /\ \A r \in Refs : session[r] = "paid" => session'[r] = "paid"
  /\ today <= today'

-----------------------------------------------------------------------------
(* Records *)

LEMMA IdleIsRequest == Idle \in Request
  BY DEF Idle, Request, Never

LEMMA OnIsRequest ==
  ASSUME NEW c \in Campaigns,
         NEW at \in {"saveRef", "verify", "markPaid", "markFailed", "saveManual", "cancel"}
  PROVE  /\ On(at, c) \in Request
         /\ On(at, c).at = at /\ On(at, c).campaign = c
         /\ On(at, c).day = Never /\ On(at, c).back = "idle"
  BY DEF On, Idle, Request, Never

LEMMA SweepIsRequest ==
  ASSUME NEW at \in {"activating", "ending"}, NEW day \in Days \cup {Never},
         NEW todo \in SUBSET Campaigns
  PROVE  /\ Sweep(at, day, todo) \in Request
         /\ Sweep(at, day, todo).at = at /\ Sweep(at, day, todo).day = day
         /\ Sweep(at, day, todo).todo = todo /\ Sweep(at, day, todo).back = "idle"
         /\ Sweep(at, day, todo).campaign = NoCampaign
  BY DEF Sweep, Idle, Request, Never

LEMMA WriteIsRequest ==
  ASSUME NEW c \in Campaigns, NEW until \in Nat, NEW sweep \in Request,
         NEW back \in {"idle", "activating", "ending"}
  PROVE  /\ Write(c, until, sweep, back) \in Request
         /\ Write(c, until, sweep, back).at = "setSponsorship"
         /\ Write(c, until, sweep, back).campaign = c
         /\ Write(c, until, sweep, back).until = until
         /\ Write(c, until, sweep, back).day = sweep.day
         /\ Write(c, until, sweep, back).todo = sweep.todo
         /\ Write(c, until, sweep, back).back = back
  BY DEF Write, Request, Never

LEMMA MovesTo ==
  ASSUME TypeOK, NEW t \in Threads, NEW r \in Request,
         req' = [req EXCEPT ![t] = r]
  PROVE  Moves(t, r) /\ req'[t] = r
  BY DEF TypeOK, Moves

LEMMA CloseMoves ==
  ASSUME TypeOK, NEW t \in Threads, Close(t)
  PROVE  Moves(t, Idle)
  BY IdleIsRequest, MovesTo DEF Close

LEMMA GotoMoves ==
  ASSUME TypeOK, NEW t \in Threads, NEW at \in {"markPaid", "markFailed"}, Goto(t, at)
  PROVE  Moves(t, [req[t] EXCEPT !.at = at])
<1> DEFINE r == [req[t] EXCEPT !.at = at]
<1>1. req[t] \in Request
  BY DEF TypeOK
<1>2. r \in Request
  BY <1>1 DEF Request
<1>3. req' = [req EXCEPT ![t] = r]
  BY DEF Goto
<1> HIDE DEF r
<1>4. Moves(t, r)
  BY <1>2, <1>3, MovesTo
<1> QED BY <1>4 DEF r

LEMMA ReturnMoves ==
  ASSUME TypeOK, NEW t \in Threads, Return(t)
  PROVE  \E r \in Request :
           /\ Moves(t, r)
           /\ \/ r = Idle
              \/ /\ r = Sweep(req[t].back, req[t].day, req[t].todo)
                 /\ req[t].back \in {"activating", "ending"}
<1> DEFINE r == IF req[t].back = "idle" THEN Idle
                ELSE Sweep(req[t].back, req[t].day, req[t].todo)
<1>1. /\ req[t].back \in {"idle", "activating", "ending"}
      /\ req[t].day \in Days \cup {Never} /\ req[t].todo \in SUBSET Campaigns
  BY DEF TypeOK, Request
<1>2. r \in Request
  BY <1>1, IdleIsRequest, SweepIsRequest
<1>3. req' = [req EXCEPT ![t] = r]
  BY DEF Return
<1>4. \/ r = Idle
      \/ /\ r = Sweep(req[t].back, req[t].day, req[t].todo)
         /\ req[t].back \in {"activating", "ending"}
  BY <1>1
<1> HIDE DEF r
<1> QED BY <1>2, <1>3, <1>4, MovesTo

-----------------------------------------------------------------------------
(* Types *)

Base == TypeOK /\ RequestsKnow

LEMMA Working ==
  ASSUME Base, NEW t \in Threads, req[t].at \notin {"idle", "activating", "ending"}
  PROVE  /\ req[t].campaign \in Campaigns
         /\ vendorOf[req[t].campaign] \in Vendors
         /\ status[req[t].campaign] # "none"
<1>1. req[t] \in Request
  BY DEF Base, TypeOK
<1>2. Knows(req[t]) /\ req[t].campaign # NoCampaign /\ vendorOf[req[t].campaign] # NoVendor
  BY DEF Base, RequestsKnow, Knows
<1>3. req[t].campaign \in Campaigns
  BY <1>1, <1>2 DEF Request
<1> QED BY <1>2, <1>3 DEF Base, TypeOK, RequestsKnow

LEMMA MovesType ==
  ASSUME NEW t \in Threads, NEW r, TypeOK, Moves(t, r)
  PROVE  req' \in [Threads -> Request]
  BY DEF TypeOK, Moves

LEMMA CreateType ==
  ASSUME TypeOK, CampaignsAssumption, NEW c \in Campaigns, NEW v \in Vendors,
         NEW lead \in Leads, NEW days \in Durations, create(c, v, lead, days)
  PROVE  TypeOK'
<1>1. today \in Nat /\ lead \in Nat /\ days \in Nat \ {0}
  BY DEF TypeOK, CampaignsAssumption, Days
<1>2. today + lead \in Nat /\ EndOf(today + lead, days) \in Nat
      /\ today + lead < EndOf(today + lead, days)
  BY <1>1 DEF EndOf
<1>3. /\ startDate' \in [Campaigns -> Nat] /\ endDate' \in [Campaigns -> Nat]
      /\ vendorOf' \in [Campaigns -> Vendors \cup {NoVendor}]
      /\ \A d \in Campaigns : vendorOf'[d] # NoVendor => startDate'[d] < endDate'[d]
  BY <1>2 DEF TypeOK, create
<1>4. status' \in [Campaigns -> L!Statuses \cup {"none"}]
  BY DEF TypeOK, create, L!Statuses
<1> QED BY <1>3, <1>4 DEF TypeOK, create, moneyVars

LEMMA InitiateEffect ==
  ASSUME TypeOK, NEW t \in Threads, NEW c \in Campaigns, NEW p \in Providers,
         initiateCampaignPayment(t, c, p)
  PROVE  \E r \in Request :
           /\ Moves(t, r) /\ r.campaign = c /\ r.at = "saveRef" /\ r.ref \in Refs
           /\ r.day = Never /\ r.back = "idle" /\ req[t].at = "idle"
<1>1. PICK ref \in Refs : Open(t, [On("saveRef", c) EXCEPT !.provider = p, !.ref = ref])
  BY DEF initiateCampaignPayment
<1> DEFINE r == [On("saveRef", c) EXCEPT !.provider = p, !.ref = ref]
<1>2. r \in Request /\ r.campaign = c /\ r.at = "saveRef" /\ r.ref \in Refs
      /\ r.day = Never /\ r.back = "idle"
  BY DEF On, Idle, Request, Never
<1>3. req[t].at = "idle" /\ req' = [req EXCEPT ![t] = r]
  BY <1>1 DEF Open
<1> HIDE DEF r
<1> QED BY <1>2, <1>3, MovesTo

LEMMA OpenOnEffect ==
  ASSUME TypeOK, NEW t \in Threads, NEW c \in Campaigns,
         NEW at \in {"markPaid", "markFailed", "saveManual", "cancel"},
         Open(t, On(at, c))
  PROVE  Moves(t, On(at, c)) /\ req[t].at = "idle"
  BY OnIsRequest, MovesTo DEF Open

LEMMA VerifyEffect ==
  ASSUME TypeOK, NEW t \in Threads, NEW c \in Campaigns, verifyPayment(t, c)
  PROVE  \E r \in Request :
           /\ Moves(t, r) /\ r.campaign = c /\ r.at = "verify" /\ r.ref = paymentRef[c]
           /\ r.day = Never /\ r.back = "idle" /\ req[t].at = "idle"
<1> DEFINE r == [On("verify", c) EXCEPT !.ref = paymentRef[c]]
<1>1. paymentRef[c] \in Refs \cup {NoRef}
  BY DEF TypeOK
<1>2. /\ r \in Request /\ r.campaign = c /\ r.at = "verify" /\ r.ref = paymentRef[c]
      /\ r.day = Never /\ r.back = "idle"
  BY <1>1 DEF On, Idle, Request, Never
<1>3. req[t].at = "idle" /\ req' = [req EXCEPT ![t] = r]
  BY DEF verifyPayment, Open
<1> HIDE DEF r
<1> QED BY <1>2, <1>3, MovesTo

LEMMA OutcomeIs == ASSUME NEW r PROVE Outcome(r) \in {"markPaid", "markFailed"}
  BY DEF Outcome

LEMMA ActivateEffect ==
  ASSUME TypeOK, NEW t \in Threads, NEW c \in Campaigns, Activate(t, c)
  PROVE  \E r \in Request :
           /\ Moves(t, r) /\ r.day = req[t].day /\ r.todo = req[t].todo \ {c}
           /\ \/ /\ status[c] = "scheduled"
                 /\ r.at = "setSponsorship" /\ r.campaign = c
                 /\ r.until = endDate[c] /\ r.back = "activating"
              \/ /\ status[c] # "scheduled"
                 /\ r.at = req[t].at /\ r.campaign = req[t].campaign
                 /\ r.back = req[t].back
<1> DEFINE s == [req[t] EXCEPT !.todo = @ \ {c}]
           w == Write(c, endDate[c], s, "activating")
<1>1. req[t] \in Request /\ endDate[c] \in Nat
  BY DEF TypeOK
<1>2. /\ s \in Request /\ s.at = req[t].at /\ s.campaign = req[t].campaign
      /\ s.day = req[t].day /\ s.todo = req[t].todo \ {c} /\ s.back = req[t].back
  BY <1>1 DEF Request
<1>4. status[c] = "scheduled" => req' = [req EXCEPT ![t] = w]
  BY DEF Activate
<1>5. status[c] # "scheduled" => req' = [req EXCEPT ![t] = s]
  BY DEF Activate
<1> HIDE DEF s
<1>3. /\ w \in Request /\ w.at = "setSponsorship" /\ w.campaign = c
      /\ w.until = endDate[c] /\ w.back = "activating"
      /\ w.day = s.day /\ w.todo = s.todo
  BY <1>1, <1>2, WriteIsRequest
<1> HIDE DEF w
<1>6. status[c] = "scheduled" => Moves(t, w)
  BY <1>3, <1>4, MovesTo
<1>7. status[c] # "scheduled" => Moves(t, s)
  BY <1>2, <1>5, MovesTo
<1>8. CASE status[c] = "scheduled"
  BY <1>2, <1>3, <1>6, <1>8
<1>9. CASE status[c] # "scheduled"
  BY <1>2, <1>7, <1>9
<1> QED BY <1>8, <1>9

LEMMA EndEffect ==
  ASSUME TypeOK, NEW t \in Threads, NEW c \in Campaigns, End(t, c)
  PROVE  \E r \in Request :
           /\ Moves(t, r) /\ r.day = req[t].day /\ r.todo = req[t].todo \ {c}
           /\ \/ /\ status[c] = "active"
                 /\ r.at = "setSponsorship" /\ r.campaign = c
                 /\ r.until = Never /\ r.back = "ending"
              \/ /\ status[c] # "active"
                 /\ r.at = req[t].at /\ r.campaign = req[t].campaign
                 /\ r.back = req[t].back
<1> DEFINE s == [req[t] EXCEPT !.todo = @ \ {c}]
           w == Write(c, OnceEnded(c), s, "ending")
<1>1. req[t] \in Request /\ OnceEnded(c) = Never /\ Never \in Nat
  BY DEF TypeOK, OnceEnded, Never
<1>2. /\ s \in Request /\ s.at = req[t].at /\ s.campaign = req[t].campaign
      /\ s.day = req[t].day /\ s.todo = req[t].todo \ {c} /\ s.back = req[t].back
  BY <1>1 DEF Request
<1>4. status[c] = "active" => req' = [req EXCEPT ![t] = w]
  BY DEF End
<1>5. status[c] # "active" => req' = [req EXCEPT ![t] = s]
  BY DEF End
<1> HIDE DEF s
<1>3. /\ w \in Request /\ w.at = "setSponsorship" /\ w.campaign = c
      /\ w.until = Never /\ w.back = "ending"
      /\ w.day = s.day /\ w.todo = s.todo
  BY <1>1, <1>2, WriteIsRequest
<1> HIDE DEF w
<1>6. status[c] = "active" => Moves(t, w)
  BY <1>3, <1>4, MovesTo
<1>7. status[c] # "active" => Moves(t, s)
  BY <1>2, <1>5, MovesTo
<1>8. CASE status[c] = "active"
  BY <1>2, <1>3, <1>6, <1>8
<1>9. CASE status[c] # "active"
  BY <1>2, <1>7, <1>9
<1> QED BY <1>8, <1>9

LEMMA SweepEffect ==
  ASSUME TypeOK, NEW t \in Threads, runLifecycleSweep(t)
  PROVE  /\ Moves(t, Sweep("activating", today, ToActivate(today)))
         /\ req[t].at = "idle"
<1>1. today \in Days /\ ToActivate(today) \in SUBSET Campaigns
  BY DEF TypeOK, ToActivate
<1> QED BY <1>1, SweepIsRequest, MovesTo DEF runLifecycleSweep, Open

LEMMA SecondPassEffect ==
  ASSUME TypeOK, NEW t \in Threads, SecondPass(t)
  PROVE  /\ Moves(t, Sweep("ending", req[t].day, ToEnd(req[t].day)))
         /\ req[t].at = "activating"
<1>1. req[t].day \in Days \cup {Never} /\ ToEnd(req[t].day) \in SUBSET Campaigns
  BY DEF TypeOK, Request, ToEnd
<1> QED BY <1>1, SweepIsRequest, MovesTo DEF SecondPass

(* A payment that makes a campaign go live, is scheduled, or comes to       *)
(* nothing.                                                                 *)
LEMMA markPaidEffect ==
  ASSUME TypeOK, NEW t \in Threads, NEW c \in Campaigns, c = req[t].campaign, markPaid(t)
  PROVE  \/ /\ status[c] = "pending_payment" /\ startDate[c] <= today
            /\ status' = [status EXCEPT ![c] = "active"]
            /\ paymentStatus' = [paymentStatus EXCEPT ![c] = "succeeded"]
            /\ Moves(t, Write(c, endDate[c], Idle, "idle"))
            /\ DisturbIfWriting(vendorOf[c])
         \/ /\ status[c] = "pending_payment"
            /\ status' = [status EXCEPT ![c] = "scheduled"]
            /\ paymentStatus' = [paymentStatus EXCEPT ![c] = "succeeded"]
            /\ Moves(t, Idle) /\ UNCHANGED disturbed
         \/ Moves(t, Idle) /\ UNCHANGED <<status, paymentStatus, disturbed>>
<1> DEFINE w == Write(c, endDate[c], Idle, "idle")
<1>1. w \in Request
  BY IdleIsRequest, WriteIsRequest DEF TypeOK
<1>2. (AwaitsPayment(c) /\ HasBegun(c)) => req' = [req EXCEPT ![t] = w]
  BY DEF markPaid
<1>3. ~ (AwaitsPayment(c) /\ HasBegun(c)) => Close(t)
  BY DEF markPaid
<1> HIDE DEF w
<1>4. (AwaitsPayment(c) /\ HasBegun(c)) => Moves(t, w)
  BY <1>1, <1>2, MovesTo
<1>5. ~ (AwaitsPayment(c) /\ HasBegun(c)) => Moves(t, Idle)
  BY <1>3, CloseMoves
<1>6. CASE AwaitsPayment(c) /\ HasBegun(c)
  BY <1>4, <1>6 DEF markPaid, AwaitsPayment, HasBegun, w
<1>7. CASE AwaitsPayment(c) /\ ~ HasBegun(c)
  BY <1>5, <1>7 DEF markPaid, AwaitsPayment
<1>8. CASE ~ AwaitsPayment(c)
  BY <1>5, <1>8 DEF markPaid
<1> QED BY <1>6, <1>7, <1>8

(* A step that changes nothing but requests. *)
OnlyRequests == UNCHANGED <<today, campaignVars, sponsoredUntil, moneyVars, faults, disturbed>>

LEMMA OnlyRequestsType ==
  ASSUME TypeOK, NEW t \in Threads, NEW r, Moves(t, r), OnlyRequests
  PROVE  TypeOK'
  BY MovesType DEF TypeOK, OnlyRequests, campaignVars, moneyVars

LEMMA StartType ==
  ASSUME TypeOK, NEW t \in Threads, NEW c \in Campaigns,
         \/ \E p \in Providers : initiateCampaignPayment(t, c, p)
         \/ verifyPayment(t, c) \/ markPaidManually(t, c) \/ cancel(t, c)
         \/ \E r \in Refs : handleWebhook(t, r)
  PROVE  TypeOK'
<1>1. CASE \E p \in Providers : initiateCampaignPayment(t, c, p)
  <2>a. PICK p \in Providers : initiateCampaignPayment(t, c, p)
    BY <1>1
  <2>b. PICK r \in Request : Moves(t, r)
    BY <2>a, InitiateEffect
  <2>1. req' \in [Threads -> Request]
    BY <2>b, MovesType
  <2>2. session' \in [Refs -> {"none", "open", "paid", "failed"}]
        /\ sessionAt' \in [Refs -> Providers \cup {NoProvider}]
    BY <2>a DEF TypeOK, initiateCampaignPayment
  <2>3. UNCHANGED <<today, campaignVars, sponsoredUntil, faults, disturbed>>
    BY <1>1 DEF initiateCampaignPayment
  <2> QED BY <2>1, <2>2, <2>3 DEF TypeOK, campaignVars
<1>2. CASE verifyPayment(t, c)
  BY <1>2, VerifyEffect, OnlyRequestsType DEF verifyPayment, OnlyRequests
<1>3. CASE markPaidManually(t, c)
  BY <1>3, OpenOnEffect, OnlyRequestsType DEF markPaidManually, OnlyRequests
<1>4. CASE cancel(t, c)
  BY <1>4, OpenOnEffect, OnlyRequestsType DEF cancel, OnlyRequests
<1>5. CASE \E r \in Refs : handleWebhook(t, r)
  <2>1. PICK r \in Refs, d \in Campaigns : Open(t, On(Outcome(r), d))
    BY <1>5 DEF handleWebhook
  <2>2. Moves(t, On(Outcome(r), d))
    BY <2>1, OutcomeIs, OpenOnEffect
  <2>3. OnlyRequests
    BY <1>5 DEF handleWebhook, OnlyRequests
  <2> QED BY <2>2, <2>3, OnlyRequestsType
<1> QED BY <1>1, <1>2, <1>3, <1>4, <1>5

LEMMA PaymentType ==
  ASSUME Base, NEW t \in Threads, PaymentStep(t)
  PROVE  TypeOK'
<1> USE DEF Base
<1> DEFINE c == req[t].campaign
<1>1. CASE SaveRef(t)
  <2>1. req[t] \in Request
    BY DEF TypeOK
  <2>2. c \in Campaigns
    BY <1>1, Working DEF SaveRef
  <2>3. req[t].ref \in Refs \cup {NoRef} /\ req[t].provider \in Providers \cup {NoProvider}
    BY <2>1 DEF Request
  <2>4. req' \in [Threads -> Request]
    BY <1>1, CloseMoves, MovesType DEF SaveRef
  <2>5. paymentRef' \in [Campaigns -> Refs \cup {NoRef}]
        /\ paymentProvider' \in [Campaigns -> Providers \cup {NoProvider}]
    BY <1>1, <2>2, <2>3 DEF TypeOK, SaveRef
  <2>6. refsOf' \in [Campaigns -> SUBSET Refs]
    <3>1. req[t].ref \in Refs
      BY <1>1 DEF RequestsKnow, Knows, SaveRef
    <3> QED BY <1>1, <2>2, <2>3, <3>1 DEF TypeOK, SaveRef
  <2> QED BY <1>1, <2>4, <2>5, <2>6 DEF TypeOK, SaveRef, moneyVars
<1>2. CASE Verified(t)
  <2>1. \/ Goto(t, "markPaid") \/ Goto(t, "markFailed") \/ Close(t)
    BY <1>2, OutcomeIs DEF Verified, Outcome
  <2>2. \E r : Moves(t, r)
    BY <2>1, GotoMoves, CloseMoves
  <2> QED BY <1>2, <2>2, OnlyRequestsType DEF Verified, OnlyRequests
<1>3. CASE SaveManual(t)
  <2>1. c \in Campaigns
    BY <1>3, Working DEF SaveManual
  <2>2. req' \in [Threads -> Request]
    BY <1>3, GotoMoves, MovesType DEF SaveManual
  <2> QED BY <1>3, <2>1, <2>2 DEF TypeOK, SaveManual, moneyVars
<1>4. CASE markPaid(t)
  <2>1. c \in Campaigns /\ vendorOf[c] \in Vendors
    BY <1>4, Working DEF markPaid
  <2>2. /\ \E r : Moves(t, r)
        /\ status' \in {status, [status EXCEPT ![c] = "active"],
                        [status EXCEPT ![c] = "scheduled"]}
        /\ paymentStatus' \in {paymentStatus, [paymentStatus EXCEPT ![c] = "succeeded"]}
        /\ disturbed' \in {disturbed, disturbed \cup {vendorOf[c]}}
    BY <1>4, <2>1, markPaidEffect DEF DisturbIfWriting
  <2>3. req' \in [Threads -> Request]
    BY <2>2, MovesType
  <2>4. /\ status' \in [Campaigns -> L!Statuses \cup {"none"}]
        /\ paymentStatus' \in [Campaigns -> {"pending", "succeeded", "failed"}]
        /\ disturbed' \in SUBSET Vendors
    BY <2>1, <2>2 DEF TypeOK, L!Statuses
  <2> QED BY <1>4, <2>3, <2>4 DEF TypeOK, markPaid, moneyVars
<1>5. CASE markPaymentFailed(t)
  <2>1. req' \in [Threads -> Request]
    BY <1>5, CloseMoves, MovesType DEF markPaymentFailed
  <2>2. paymentStatus' \in [Campaigns -> {"pending", "succeeded", "failed"}]
    BY <1>5 DEF TypeOK, markPaymentFailed
  <2> QED BY <1>5, <2>1, <2>2 DEF TypeOK, markPaymentFailed, moneyVars
<1> QED BY <1>1, <1>2, <1>3, <1>4, <1>5 DEF PaymentStep

LEMMA SweepType ==
  ASSUME Base, NEW t \in Threads,
         SweepStep(t) \/ runLifecycleSweep(t) \/ SaveCancelled(t)
  PROVE  TypeOK'
<1> USE DEF Base
<1>1. ASSUME NEW c \in Campaigns, Activate(t, c)  PROVE TypeOK'
  <2>1. PICK r \in Request : Moves(t, r)
    BY <1>1, ActivateEffect
  <2>2. req' \in [Threads -> Request]
    BY <2>1, MovesType
  <2>3. status' \in {status, [status EXCEPT ![c] = "active"]}
        /\ (status' # status => vendorOf[c] \in Vendors)
    BY <1>1 DEF TypeOK, RequestsKnow, Activate
  <2>4. status' \in [Campaigns -> L!Statuses \cup {"none"}]
    BY <2>3 DEF TypeOK, L!Statuses
  <2>5. disturbed' \in SUBSET Vendors
    BY <1>1 DEF TypeOK, RequestsKnow, Activate, DisturbIfWriting
  <2> QED BY <1>1, <2>2, <2>4, <2>5 DEF TypeOK, Activate, moneyVars
<1>2. ASSUME NEW c \in Campaigns, End(t, c)  PROVE TypeOK'
  <2>1. PICK r \in Request : Moves(t, r)
    BY <1>2, EndEffect
  <2>2. req' \in [Threads -> Request]
    BY <2>1, MovesType
  <2>4. status' \in [Campaigns -> L!Statuses \cup {"none"}]
    BY <1>2 DEF TypeOK, L!Statuses, End
  <2>5. disturbed' \in SUBSET Vendors
    BY <1>2 DEF TypeOK, RequestsKnow, End, DisturbIfWriting
  <2> QED BY <1>2, <2>2, <2>4, <2>5 DEF TypeOK, End, moneyVars
<1>3. CASE SecondPass(t)
  BY <1>3, SecondPassEffect, OnlyRequestsType DEF SecondPass, OnlyRequests
<1>4. CASE SweepDone(t)
  BY <1>4, CloseMoves, OnlyRequestsType DEF SweepDone, OnlyRequests
<1>5. CASE runLifecycleSweep(t)
  BY <1>5, SweepEffect, OnlyRequestsType DEF runLifecycleSweep, OnlyRequests
<1>6. CASE SaveCancelled(t)
  <2>1. vendorOf[req[t].campaign] \in Vendors
    BY <1>6, Working DEF SaveCancelled
  <2>2. req' \in [Threads -> Request]
    BY <1>6, CloseMoves, MovesType DEF SaveCancelled
  <2>3. status' \in [Campaigns -> L!Statuses \cup {"none"}]
    BY <1>6 DEF TypeOK, L!Statuses, SaveCancelled
  <2>4. disturbed' \in SUBSET Vendors
    BY <1>6, <2>1 DEF TypeOK, SaveCancelled
  <2> QED BY <1>6, <2>2, <2>3, <2>4 DEF TypeOK, SaveCancelled, moneyVars
<1> QED BY <1>1, <1>2, <1>3, <1>4, <1>5, <1>6 DEF SweepStep

LEMMA WriteType ==
  ASSUME Base, CampaignsAssumption, NEW t \in Threads,
         setSponsorship(t) \/ SponsorshipFails(t) \/ Die(t)
  PROVE  TypeOK'
<1> USE DEF Base
<1>1. req[t] \in Request /\ faults \in Nat /\ MaxFaults \in Nat
  BY DEF TypeOK, CampaignsAssumption
<1>2. \E r : Moves(t, r)
  BY ReturnMoves, CloseMoves DEF setSponsorship, SponsorshipFails, Die
<1>3. req' \in [Threads -> Request]
  BY <1>2, MovesType
<1>4. req[t].at = "setSponsorship" => vendorOf[req[t].campaign] \in Vendors
  BY Working
<1>5. CASE setSponsorship(t)
  <2>1. sponsoredUntil' \in [Vendors -> Nat]
    BY <1>1, <1>5 DEF TypeOK, setSponsorship, Request
  <2> QED BY <1>3, <1>5, <2>1 DEF TypeOK, setSponsorship, campaignVars, moneyVars
<1>6. CASE SponsorshipFails(t)
  <2>1. faults' \in 0..MaxFaults /\ disturbed' \in SUBSET Vendors
    BY <1>1, <1>4, <1>6 DEF TypeOK, SponsorshipFails
  <2> QED BY <1>3, <1>6, <2>1 DEF TypeOK, SponsorshipFails, campaignVars, moneyVars
<1>7. CASE Die(t)
  <2>1. faults' \in 0..MaxFaults /\ disturbed' \in SUBSET Vendors
    BY <1>1, <1>4, <1>7 DEF TypeOK, Die
  <2> QED BY <1>3, <1>7, <2>1 DEF TypeOK, Die, campaignVars, moneyVars
<1> QED BY <1>5, <1>6, <1>7

LEMMA OutsideType ==
  ASSUME TypeOK, CampaignsAssumption, NextDay \/ \E r \in Refs : Settle(r)
  PROVE  TypeOK'
<1>1. CASE NextDay
  BY <1>1 DEF TypeOK, CampaignsAssumption, NextDay, Days, campaignVars, moneyVars
<1>2. CASE \E r \in Refs : Settle(r)
  BY <1>2 DEF TypeOK, Settle, campaignVars
<1> QED BY <1>1, <1>2

LEMMA ThreadsOf == Requests \subseteq Threads /\ Cron \in Threads
  BY DEF Threads

LEMMA TypeStep ==
  ASSUME Base, CampaignsAssumption, [Next]_vars
  PROVE  TypeOK'
<1>1. CASE UNCHANGED vars
  BY <1>1 DEF Base, TypeOK, vars, campaignVars, moneyVars
<1>2. ASSUME NEW c \in Campaigns, NEW v \in Vendors, NEW lead \in Leads,
             NEW days \in Durations, create(c, v, lead, days)
      PROVE  TypeOK'
  BY <1>2, CreateType DEF Base
<1>3. ASSUME NEW t \in Requests, Start(t)  PROVE TypeOK'
  <2>1. t \in Threads /\ TypeOK
    BY ThreadsOf DEF Base
  <2>2. ASSUME NEW r \in Refs, handleWebhook(t, r)  PROVE TypeOK'
    <3>1. \E c \in Campaigns : TRUE
      BY <2>2 DEF handleWebhook
    <3> QED BY <2>1, <2>2, <3>1, StartType
  <2> QED BY <1>3, <2>1, <2>2, StartType DEF Start
<1>4. ASSUME NEW t \in Threads,
             Continue(t) \/ SponsorshipFails(t) \/ Die(t) \/ runLifecycleSweep(t)
      PROVE  TypeOK'
  BY <1>4, PaymentType, SweepType, WriteType DEF Continue
<1>5. CASE NextDay \/ \E r \in Refs : Settle(r)
  BY <1>5, OutsideType DEF Base
<1>6. Sweepers \subseteq Threads
  BY DEF CampaignsAssumption
<1> QED BY <1>1, <1>2, <1>3, <1>4, <1>5, <1>6 DEF Next

-----------------------------------------------------------------------------
(* What requests know *)

LEMMA GrowsAlways ==
  ASSUME Base, CampaignsAssumption, [Next]_vars
  PROVE  Grows
<1> USE DEF Base
<1>0. today \in Nat
  BY DEF TypeOK, Days
<1>1. CASE UNCHANGED vars
  BY <1>0, <1>1 DEF Grows, vars, campaignVars, moneyVars
<1>2. ASSUME NEW c \in Campaigns, NEW v \in Vendors, NEW lead \in Leads,
             NEW days \in Durations, create(c, v, lead, days)
      PROVE  Grows
  BY <1>0, <1>2 DEF Grows, create, moneyVars, TypeOK
<1>3. ASSUME NEW t \in Requests, Start(t)  PROVE Grows
  <2>1. UNCHANGED <<today, campaignVars>>
    BY <1>3 DEF Start, initiateCampaignPayment, verifyPayment, markPaidManually,
                cancel, handleWebhook
  <2>2. \A r \in Refs : session[r] = "paid" => session'[r] = "paid"
    BY <1>3 DEF TypeOK, Start, initiateCampaignPayment, verifyPayment, markPaidManually,
                cancel, handleWebhook, moneyVars
  <2> QED BY <1>0, <2>1, <2>2 DEF Grows, campaignVars
<1>4. ASSUME NEW t \in Threads, PaymentStep(t)  PROVE Grows
  <2>1. CASE SaveRef(t)
    BY <1>0, <2>1 DEF Grows, TypeOK, SaveRef, moneyVars
  <2>2. CASE Verified(t)
    BY <1>0, <2>2 DEF Grows, Verified, campaignVars, moneyVars
  <2>3. CASE SaveManual(t)
    BY <1>0, <2>3 DEF Grows, SaveManual, moneyVars
  <2>4. CASE markPaid(t)
    BY <1>0, <2>4 DEF Grows, markPaid, moneyVars
  <2>5. CASE markPaymentFailed(t)
    BY <1>0, <2>5 DEF Grows, markPaymentFailed, moneyVars
  <2> QED BY <1>4, <2>1, <2>2, <2>3, <2>4, <2>5 DEF PaymentStep
<1>5. ASSUME NEW t \in Threads, SweepStep(t) \/ runLifecycleSweep(t) \/ SaveCancelled(t)
      PROVE  Grows
  <2>1. ASSUME NEW c \in Campaigns, Activate(t, c) \/ End(t, c)  PROVE Grows
    BY <1>0, <2>1 DEF Grows, Activate, End, moneyVars
  <2>2. CASE SecondPass(t) \/ SweepDone(t) \/ runLifecycleSweep(t)
    BY <1>0, <2>2 DEF Grows, SecondPass, SweepDone, runLifecycleSweep, campaignVars, moneyVars
  <2>3. CASE SaveCancelled(t)
    BY <1>0, <2>3 DEF Grows, SaveCancelled, moneyVars
  <2> QED BY <1>5, <2>1, <2>2, <2>3 DEF SweepStep
<1>6. ASSUME NEW t \in Threads, setSponsorship(t) \/ SponsorshipFails(t) \/ Die(t)
      PROVE  Grows
  BY <1>0, <1>6 DEF Grows, setSponsorship, SponsorshipFails, Die, campaignVars, moneyVars
<1>7. CASE NextDay
  BY <1>0, <1>7 DEF Grows, NextDay, campaignVars, moneyVars
<1>8. ASSUME NEW r \in Refs, Settle(r)  PROVE Grows
  BY <1>0, <1>8 DEF Grows, TypeOK, Settle, campaignVars
<1>9. Sweepers \subseteq Threads
  BY DEF CampaignsAssumption
<1> QED BY <1>1, <1>2, <1>3, <1>4, <1>5, <1>6, <1>7, <1>8, <1>9 DEF Next, Continue

LEMMA PaidForPersists ==
  ASSUME TypeOK, Grows, NEW c \in Campaigns, PaidFor(c)
  PROVE  PaidFor(c)'
<1>1. CASE c \in markedPaidManually
  BY <1>1 DEF Grows, PaidFor
<1>2. CASE \E r \in refsOf[c] : session[r] = "paid"
  <2>1. PICK r \in refsOf[c] : session[r] = "paid"
    BY <1>2
  <2>2. r \in Refs
    BY DEF TypeOK
  <2> QED BY <2>1, <2>2 DEF Grows, PaidFor
<1> QED BY <1>1, <1>2 DEF PaidFor

LEMMA KnowsPersists ==
  ASSUME TypeOK, TypeOK', Grows, NEW r \in Request, Knows(r)
  PROVE  Knows(r)'
<1>1. r.campaign \in Campaigns \cup {NoCampaign} /\ r.todo \subseteq Campaigns
  BY DEF Request
<1>2. r.day \in Nat /\ today \in Nat /\ today' \in Nat
  BY DEF TypeOK, Request, Days, Never
<1>3. /\ r.at \notin {"idle", "activating", "ending"} => r.campaign # NoCampaign
      /\ r.campaign # NoCampaign => vendorOf'[r.campaign] # NoVendor
  BY <1>1 DEF Knows, Grows
<1>4. r.at = "verify" => r.ref \in refsOf'[r.campaign]
  BY <1>1 DEF Knows, Grows
<1>5. r.at = "markPaid" => PaidFor(r.campaign)'
  BY <1>1, PaidForPersists DEF Knows
<1>6. r.day <= today'
  BY <1>2 DEF Knows, Grows
<1>7. "activating" \in {r.at, r.back} =>
        \A c \in r.todo : vendorOf'[c] # NoVendor /\ startDate'[c] <= today'
  BY <1>1, <1>2 DEF Knows, Grows, TypeOK
<1> QED BY <1>3, <1>4, <1>5, <1>6, <1>7 DEF Knows

(* It is enough that the request that moves knows what it should. *)
LEMMA MoverKnows ==
  ASSUME Base, TypeOK', Grows, NEW t \in Threads, NEW r, Moves(t, r), Knows(r)'
  PROVE  (\A u \in Threads : Knows(req[u]))'
<1>1. \A u \in Threads : u # t => req'[u] = req[u]
  BY DEF Moves
<1>2. req'[t] = r
  BY DEF Moves
<1>3. ASSUME NEW u \in Threads, u # t  PROVE Knows(req[u])'
  <2>1. req[u] \in Request /\ Knows(req[u])
    BY DEF Base, TypeOK, RequestsKnow
  <2>2. PICK s \in Request : s = req[u] /\ Knows(s)
    BY <2>1
  <2>3. Knows(s)' /\ req'[u] = s
    BY <1>1, <1>3, <2>2, KnowsPersists DEF Base
  <2> QED BY <2>3 DEF Knows
<1>4. Knows(req[t])'
  BY <1>2 DEF Knows
<1> QED BY <1>3, <1>4

LEMMA StatusAndVendor ==
  ASSUME Base, CampaignsAssumption, [Next]_vars
  PROVE  (\A c \in Campaigns : status[c] = "none" <=> vendorOf[c] = NoVendor)'
<1> USE DEF Base
<1>0. \A c \in Campaigns : status[c] = "none" <=> vendorOf[c] = NoVendor
  BY DEF RequestsKnow
<1>1. CASE UNCHANGED <<status, vendorOf>>
  BY <1>0, <1>1
<1>2. ASSUME NEW d \in Campaigns, status[d] # "none", vendorOf' = vendorOf,
             \E s \in L!Statuses : status' = [status EXCEPT ![d] = s]
      PROVE  (\A c \in Campaigns : status[c] = "none" <=> vendorOf[c] = NoVendor)'
  BY <1>0, <1>2 DEF TypeOK, L!Statuses
<1>3. ASSUME NEW d \in Campaigns, NEW v \in Vendors, NEW lead \in Leads,
             NEW days \in Durations, create(d, v, lead, days)
      PROVE  (\A c \in Campaigns : status[c] = "none" <=> vendorOf[c] = NoVendor)'
  BY <1>0, <1>3 DEF TypeOK, CampaignsAssumption, create
<1>4. ASSUME NEW t \in Threads, markPaid(t)
      PROVE  \/ UNCHANGED <<status, vendorOf>>
             \/ \E d \in Campaigns :
                  /\ status[d] # "none" /\ vendorOf' = vendorOf
                  /\ \E s \in L!Statuses : status' = [status EXCEPT ![d] = s]
  BY <1>4, Working, markPaidEffect DEF markPaid, L!Statuses
<1>5. ASSUME NEW t \in Threads, SaveCancelled(t)
      PROVE  \E d \in Campaigns :
                  /\ status[d] # "none" /\ vendorOf' = vendorOf
                  /\ \E s \in L!Statuses : status' = [status EXCEPT ![d] = s]
  BY <1>5, Working DEF SaveCancelled, L!Statuses
<1>6. ASSUME NEW t \in Threads, NEW d \in Campaigns, Activate(t, d) \/ End(t, d)
      PROVE  \/ UNCHANGED <<status, vendorOf>>
             \/ /\ status[d] # "none" /\ vendorOf' = vendorOf
                /\ \E s \in L!Statuses : status' = [status EXCEPT ![d] = s]
  BY <1>6 DEF Activate, End, L!Statuses
<1>7. ASSUME NEW t \in Threads,
             \/ SaveRef(t) \/ Verified(t) \/ SaveManual(t) \/ markPaymentFailed(t)
             \/ SecondPass(t) \/ SweepDone(t) \/ runLifecycleSweep(t)
             \/ setSponsorship(t) \/ SponsorshipFails(t) \/ Die(t)
      PROVE  UNCHANGED <<status, vendorOf>>
  BY <1>7 DEF SaveRef, Verified, SaveManual, markPaymentFailed, SecondPass, SweepDone,
     runLifecycleSweep, setSponsorship, SponsorshipFails, Die, campaignVars
<1>8. ASSUME NEW t \in Requests, Start(t)  PROVE UNCHANGED <<status, vendorOf>>
  BY <1>8 DEF Start, initiateCampaignPayment, verifyPayment, markPaidManually, cancel,
     handleWebhook, campaignVars
<1>9. CASE UNCHANGED vars \/ NextDay \/ \E r \in Refs : Settle(r)
  BY <1>1, <1>9 DEF vars, NextDay, Settle, campaignVars
<1>10. Sweepers \subseteq Threads
  BY DEF CampaignsAssumption
<1> QED
  BY <1>1, <1>2, <1>3, <1>4, <1>5, <1>6, <1>7, <1>8, <1>9, <1>10
  DEF Next, Continue, PaymentStep, SweepStep

LEMMA RefsAreOfCampaigns ==
  ASSUME Base, Grows, CampaignsAssumption, [Next]_vars
  PROVE  (\A c \in Campaigns :
            /\ refsOf[c] # {} => vendorOf[c] # NoVendor
            /\ paymentRef[c] # NoRef => paymentRef[c] \in refsOf[c])'
<1> USE DEF Base
<1>1. CASE UNCHANGED <<refsOf, paymentRef>>
  BY <1>1 DEF RequestsKnow, Grows
<1>2. ASSUME NEW t \in Threads, SaveRef(t)
      PROVE  (\A c \in Campaigns :
                /\ refsOf[c] # {} => vendorOf[c] # NoVendor
                /\ paymentRef[c] # NoRef => paymentRef[c] \in refsOf[c])'
  <2>1. PICK d \in Campaigns, ref \in Refs :
          /\ vendorOf[d] # NoVendor /\ vendorOf' = vendorOf
          /\ refsOf' = [refsOf EXCEPT ![d] = refsOf[d] \cup {ref}]
          /\ paymentRef' = [paymentRef EXCEPT ![d] = ref]
    BY <1>2, Working DEF SaveRef, RequestsKnow, Knows
  <2> QED BY <2>1 DEF RequestsKnow, TypeOK
<1>3. ASSUME NEW c \in Campaigns, NEW v \in Vendors, NEW lead \in Leads,
             NEW days \in Durations, create(c, v, lead, days)
      PROVE  UNCHANGED <<refsOf, paymentRef>>
  BY <1>3 DEF create
<1>4. ASSUME NEW t \in Threads,
             \/ Verified(t) \/ SaveManual(t) \/ markPaid(t) \/ markPaymentFailed(t)
             \/ SaveCancelled(t) \/ SweepStep(t) \/ runLifecycleSweep(t)
             \/ setSponsorship(t) \/ SponsorshipFails(t) \/ Die(t)
      PROVE  UNCHANGED <<refsOf, paymentRef>>
  BY <1>4 DEF Verified, SaveManual, markPaid, markPaymentFailed, SaveCancelled, SweepStep,
     Activate, End, SecondPass, SweepDone, runLifecycleSweep, setSponsorship,
     SponsorshipFails, Die, campaignVars
<1>5. ASSUME NEW t \in Requests, Start(t)  PROVE UNCHANGED <<refsOf, paymentRef>>
  BY <1>5 DEF Start, initiateCampaignPayment, verifyPayment, markPaidManually, cancel,
     handleWebhook, campaignVars
<1>6. CASE UNCHANGED vars \/ NextDay \/ \E r \in Refs : Settle(r)
  BY <1>1, <1>6 DEF vars, NextDay, Settle, campaignVars
<1>7. Sweepers \subseteq Threads
  BY DEF CampaignsAssumption
<1> QED
  BY <1>1, <1>2, <1>3, <1>4, <1>5, <1>6, <1>7 DEF Next, Continue, PaymentStep

LEMMA IdleKnows == ASSUME TypeOK PROVE Knows(Idle)
<1>1. Idle.at = "idle" /\ Idle.campaign = NoCampaign /\ Idle.day = Never /\ Idle.back = "idle"
  BY DEF Idle
<1>2. Never <= today
  BY DEF TypeOK, Days, Never
<1> QED BY <1>1, <1>2 DEF Knows

LEMMA StartKnows ==
  ASSUME Base, TypeOK', Grows, CampaignsAssumption, NEW t \in Threads,
         \/ \E c \in Campaigns :
              \/ \E p \in Providers : initiateCampaignPayment(t, c, p)
              \/ verifyPayment(t, c) \/ markPaidManually(t, c) \/ cancel(t, c)
         \/ \E r \in Refs : handleWebhook(t, r)
  PROVE  (\A u \in Threads : Knows(req[u]))'
<1> USE DEF Base
<1>0. Never <= today /\ NoCampaign \notin Campaigns
  BY DEF TypeOK, Days, Never, CampaignsAssumption
<1>1. ASSUME NEW c \in Campaigns, vendorOf[c] # NoVendor, NEW r \in Request,
             Moves(t, r), r.campaign = c, r.day = Never, r.back = "idle",
             r.at \in {"saveRef", "verify", "markPaid", "markFailed", "saveManual", "cancel"},
             r.at = "saveRef" => r.ref \in Refs,
             r.at = "verify" => r.ref \in refsOf[c],
             r.at = "markPaid" => PaidFor(c)
      PROVE  (\A u \in Threads : Knows(req[u]))'
  <2>1. Knows(r)
    BY <1>0, <1>1 DEF Knows
  <2>2. Knows(r)'
    BY <1>1, <2>1, KnowsPersists
  <2> QED BY <1>1, <2>2, MoverKnows
<1>2. ASSUME NEW c \in Campaigns, NEW p \in Providers, initiateCampaignPayment(t, c, p)
      PROVE  (\A u \in Threads : Knows(req[u]))'
  <2>1. vendorOf[c] # NoVendor
    BY <1>2 DEF initiateCampaignPayment, RequestsKnow
  <2> QED BY <1>1, <1>2, <2>1, InitiateEffect
<1>3. ASSUME NEW c \in Campaigns, verifyPayment(t, c)
      PROVE  (\A u \in Threads : Knows(req[u]))'
  <2>1. vendorOf[c] # NoVendor /\ paymentRef[c] \in refsOf[c]
    BY <1>3 DEF verifyPayment, RequestsKnow
  <2> QED BY <1>1, <1>3, <2>1, VerifyEffect
<1>4. ASSUME NEW c \in Campaigns, markPaidManually(t, c) \/ cancel(t, c)
      PROVE  (\A u \in Threads : Knows(req[u]))'
  <2>1. vendorOf[c] # NoVendor
    BY <1>4 DEF markPaidManually, cancel, RequestsKnow, L!canTransition, L!Statuses
  <2>2. PICK at \in {"saveManual", "cancel"} : Open(t, On(at, c))
    BY <1>4 DEF markPaidManually, cancel
  <2>3. PICK r \in Request : r = On(at, c)
    BY OnIsRequest
  <2> QED BY <1>1, <2>1, <2>2, <2>3, OnIsRequest, OpenOnEffect
<1>5. ASSUME NEW ref \in Refs, handleWebhook(t, ref)
      PROVE  (\A u \in Threads : Knows(req[u]))'
  <2>1. PICK c \in Campaigns : ref \in refsOf[c] /\ Open(t, On(Outcome(ref), c))
    BY <1>5 DEF handleWebhook, IsOf
  <2>2. vendorOf[c] # NoVendor
    BY <2>1 DEF RequestsKnow
  <2>3. PICK at \in {"markPaid", "markFailed"} : at = Outcome(ref)
    BY OutcomeIs
  <2>4. at = "markPaid" => PaidFor(c)
    BY <2>1, <2>3 DEF Outcome, PaidFor
  <2>5. PICK r \in Request : r = On(at, c)
    BY OnIsRequest
  <2> QED BY <1>1, <2>1, <2>2, <2>3, <2>4, <2>5, OnIsRequest, OpenOnEffect
<1> QED BY <1>2, <1>3, <1>4, <1>5

LEMMA EndingKnows ==
  ASSUME Base, TypeOK', Grows, NEW t \in Threads, Moves(t, Idle)
  PROVE  (\A u \in Threads : Knows(req[u]))'
<1>1. PICK r \in Request : r = Idle
  BY IdleIsRequest
<1>2. Knows(r)
  BY <1>1, IdleKnows DEF Base
<1> QED BY <1>1, <1>2, KnowsPersists, MoverKnows DEF Base

LEMMA PaymentKnows ==
  ASSUME Base, TypeOK', Grows, NEW t \in Threads, PaymentStep(t)
  PROVE  (\A u \in Threads : Knows(req[u]))'
<1> USE DEF Base
<1> DEFINE c == req[t].campaign
<1>0. req[t] \in Request /\ Knows(req[t])
  BY DEF TypeOK, RequestsKnow
<1>1. CASE Close(t)
  BY <1>1, CloseMoves, EndingKnows
<1>2. CASE Verified(t) /\ ~ Close(t)
  <2>1. req[t].at = "verify" /\ c \in Campaigns
    BY <1>2, Working DEF Verified
  <2>2. PICK at \in {"markPaid", "markFailed"} :
          at = Outcome(req[t].ref) /\ Goto(t, at)
    BY <1>2, OutcomeIs DEF Verified
  <2>3. PICK r \in Request : r = [req[t] EXCEPT !.at = at] /\ Moves(t, r)
    BY <1>0, <2>2, GotoMoves DEF Moves
  <2>4. /\ r.at = at /\ r.campaign = c /\ r.day = req[t].day /\ r.todo = req[t].todo
        /\ r.back = req[t].back
    BY <1>0, <2>3 DEF Request
  <2>5. at = "markPaid" => PaidFor(c)
    BY <1>0, <2>1, <2>2 DEF Knows, Outcome, PaidFor
  <2>6. Knows(r)
    BY <1>0, <2>1, <2>2, <2>4, <2>5 DEF Knows
  <2> QED BY <2>3, <2>6, KnowsPersists, MoverKnows
<1>3. CASE SaveManual(t)
  <2>1. req[t].at = "saveManual" /\ c \in Campaigns /\ Goto(t, "markPaid")
    BY <1>3, Working DEF SaveManual
  <2>3. PICK r \in Request : r = [req[t] EXCEPT !.at = "markPaid"] /\ Moves(t, r)
    BY <1>0, <2>1, GotoMoves DEF Moves
  <2>4. /\ r.at = "markPaid" /\ r.campaign = c /\ r.day = req[t].day /\ r.todo = req[t].todo
        /\ r.back = req[t].back
    BY <1>0, <2>3 DEF Request
  <2>5. PICK s \in Request : s = req[t]
    BY <1>0
  <2>6. Knows(s)'
    BY <1>0, <2>5, KnowsPersists
  <2>7. PaidFor(r.campaign)'
    BY <1>3, <2>4 DEF SaveManual, PaidFor
  <2>8. Knows(r)'
    BY <2>1, <2>4, <2>5, <2>6, <2>7 DEF Knows
  <2> QED BY <2>3, <2>8, MoverKnows
<1>4. CASE markPaid(t) /\ ~ Moves(t, Idle)
  <2>1. c \in Campaigns /\ req[t].at = "markPaid"
    BY <1>4, Working DEF markPaid
  <2>2. Moves(t, Write(c, endDate[c], Idle, "idle"))
    BY <1>4, <2>1, markPaidEffect
  <2>3. PICK r \in Request : r = Write(c, endDate[c], Idle, "idle") /\ Moves(t, r)
    BY <2>2 DEF Moves
  <2>4. r.at = "setSponsorship" /\ r.campaign = c /\ r.day = Never /\ r.back = "idle"
    BY <2>1, <2>3, IdleIsRequest, WriteIsRequest DEF TypeOK, Idle
  <2>5. vendorOf[c] # NoVendor /\ c # NoCampaign /\ Never <= today
    BY <1>0, <2>1 DEF Knows, TypeOK, Days, Never
  <2>6. Knows(r)
    BY <2>4, <2>5 DEF Knows
  <2> QED BY <2>3, <2>6, KnowsPersists, MoverKnows
<1>5. CASE Moves(t, Idle)
  BY <1>5, EndingKnows
<1> QED BY <1>1, <1>2, <1>3, <1>4, <1>5 DEF PaymentStep, SaveRef, markPaymentFailed

LEMMA SweepKnows ==
  ASSUME Base, TypeOK', Grows, CampaignsAssumption, NEW t \in Threads,
         SweepStep(t) \/ runLifecycleSweep(t) \/ SaveCancelled(t)
  PROVE  (\A u \in Threads : Knows(req[u]))'
<1> USE DEF Base
<1>0. req[t] \in Request /\ Knows(req[t])
  BY DEF TypeOK, RequestsKnow
<1>1. ASSUME NEW c \in Campaigns, Activate(t, c)
      PROVE  (\A u \in Threads : Knows(req[u]))'
  <2>1. PICK r \in Request :
           /\ Moves(t, r) /\ r.day = req[t].day /\ r.todo = req[t].todo \ {c}
           /\ \/ /\ status[c] = "scheduled"
                 /\ r.at = "setSponsorship" /\ r.campaign = c
                 /\ r.until = endDate[c] /\ r.back = "activating"
              \/ /\ status[c] # "scheduled"
                 /\ r.at = req[t].at /\ r.campaign = req[t].campaign
                 /\ r.back = req[t].back
    BY <1>1, ActivateEffect
  <2>2. status[c] = "scheduled" => vendorOf[c] # NoVendor /\ c # NoCampaign
    BY <1>1 DEF RequestsKnow, Activate, CampaignsAssumption
  <2>3. req[t].at = "activating"
    BY <1>1 DEF Activate
  <2>4. Knows(r)
    BY <1>0, <2>1, <2>2, <2>3 DEF Knows
  <2> QED BY <2>1, <2>4, KnowsPersists, MoverKnows
<1>2. ASSUME NEW c \in Campaigns, End(t, c)
      PROVE  (\A u \in Threads : Knows(req[u]))'
  <2>1. PICK r \in Request :
           /\ Moves(t, r) /\ r.day = req[t].day /\ r.todo = req[t].todo \ {c}
           /\ \/ /\ status[c] = "active"
                 /\ r.at = "setSponsorship" /\ r.campaign = c
                 /\ r.until = Never /\ r.back = "ending"
              \/ /\ status[c] # "active"
                 /\ r.at = req[t].at /\ r.campaign = req[t].campaign
                 /\ r.back = req[t].back
    BY <1>2, EndEffect
  <2>2. status[c] = "active" => vendorOf[c] # NoVendor /\ c # NoCampaign
    BY <1>2 DEF RequestsKnow, End, CampaignsAssumption
  <2>3. req[t].at = "ending"
    BY <1>2 DEF End
  <2>4. Knows(r)
    BY <1>0, <2>1, <2>2, <2>3 DEF Knows
  <2> QED BY <2>1, <2>4, KnowsPersists, MoverKnows
<1>3. CASE SecondPass(t)
  <2>1. PICK r \in Request : r = Sweep("ending", req[t].day, ToEnd(req[t].day)) /\ Moves(t, r)
    BY <1>3, SecondPassEffect DEF Moves
  <2>2. req[t].day \in Days \cup {Never} /\ ToEnd(req[t].day) \in SUBSET Campaigns
    BY <1>0 DEF Request, ToEnd
  <2>3. r.at = "ending" /\ r.campaign = NoCampaign /\ r.day = req[t].day /\ r.back = "idle"
    BY <2>1, <2>2, SweepIsRequest
  <2>4. Knows(r)
    BY <1>0, <2>3 DEF Knows
  <2> QED BY <2>1, <2>4, KnowsPersists, MoverKnows
<1>4. CASE runLifecycleSweep(t)
  <2>1. PICK r \in Request :
          r = Sweep("activating", today, ToActivate(today)) /\ Moves(t, r)
    BY <1>4, SweepEffect DEF Moves
  <2>2. today \in Days /\ ToActivate(today) \in SUBSET Campaigns
    BY DEF TypeOK, ToActivate
  <2>3. r.at = "activating" /\ r.campaign = NoCampaign /\ r.day = today /\ r.back = "idle"
        /\ r.todo = ToActivate(today)
    BY <2>1, <2>2, SweepIsRequest
  <2>4. \A c \in r.todo : vendorOf[c] # NoVendor /\ startDate[c] <= today
    BY <2>3 DEF ToActivate, RequestsKnow
  <2>5. today <= today
    BY <2>2 DEF Days
  <2>6. Knows(r)
    BY <2>3, <2>4, <2>5 DEF Knows
  <2> QED BY <2>1, <2>6, KnowsPersists, MoverKnows
<1>5. CASE SweepDone(t) \/ SaveCancelled(t)
  BY <1>5, CloseMoves, EndingKnows DEF SweepDone, SaveCancelled
<1> QED BY <1>1, <1>2, <1>3, <1>4, <1>5 DEF SweepStep

LEMMA WriteKnows ==
  ASSUME Base, TypeOK', Grows, NEW t \in Threads,
         setSponsorship(t) \/ SponsorshipFails(t) \/ Die(t)
  PROVE  (\A u \in Threads : Knows(req[u]))'
<1> USE DEF Base
<1>0. req[t] \in Request /\ Knows(req[t])
  BY DEF TypeOK, RequestsKnow
<1>1. CASE Close(t)
  BY <1>1, CloseMoves, EndingKnows
<1>2. CASE Return(t)
  <2>1. PICK r \in Request :
           /\ Moves(t, r)
           /\ \/ r = Idle
              \/ /\ r = Sweep(req[t].back, req[t].day, req[t].todo)
                 /\ req[t].back \in {"activating", "ending"}
    BY <1>2, ReturnMoves
  <2>2. CASE r = Idle
    BY <2>1, <2>2, EndingKnows
  <2>3. CASE r # Idle
    <3>1. req[t].day \in Days \cup {Never} /\ req[t].todo \in SUBSET Campaigns
      BY <1>0 DEF Request
    <3>2. /\ r.at = req[t].back /\ r.campaign = NoCampaign /\ r.day = req[t].day
          /\ r.back = "idle" /\ r.todo = req[t].todo /\ r.at \in {"activating", "ending"}
      BY <2>1, <2>3, <3>1, SweepIsRequest
    <3>3. Knows(r)
      BY <1>0, <3>2 DEF Knows
    <3> QED BY <2>1, <3>3, KnowsPersists, MoverKnows
  <2> QED BY <2>2, <2>3
<1> QED BY <1>1, <1>2 DEF setSponsorship, SponsorshipFails, Die

LEMMA KnowStep ==
  ASSUME Base, CampaignsAssumption, [Next]_vars
  PROVE  RequestsKnow'
<1> USE DEF Base
<1>1. TypeOK' /\ Grows
  BY TypeStep, GrowsAlways
<1>2. CASE UNCHANGED req
  <2>1. ASSUME NEW u \in Threads  PROVE Knows(req[u])'
    <3>1. PICK s \in Request : s = req[u] /\ Knows(s)
      BY DEF TypeOK, RequestsKnow
    <3>2. Knows(s)' /\ req'[u] = s
      BY <1>1, <1>2, <3>1, KnowsPersists
    <3> QED BY <3>2 DEF Knows
  <2> QED BY <2>1, StatusAndVendor, RefsAreOfCampaigns, <1>1 DEF RequestsKnow
<1>3. CASE (\A u \in Threads : Knows(req[u]))'
  BY <1>1, <1>3, StatusAndVendor, RefsAreOfCampaigns DEF RequestsKnow
<1>4. ASSUME NEW t \in Requests, Start(t)  PROVE (\A u \in Threads : Knows(req[u]))'
  BY <1>1, <1>4, StartKnows, ThreadsOf DEF Start
<1>5. ASSUME NEW t \in Threads,
             Continue(t) \/ SponsorshipFails(t) \/ Die(t) \/ runLifecycleSweep(t)
      PROVE  (\A u \in Threads : Knows(req[u]))'
  BY <1>1, <1>5, PaymentKnows, SweepKnows, WriteKnows DEF Continue
<1>6. CASE \/ UNCHANGED vars \/ NextDay \/ \E r \in Refs : Settle(r)
           \/ \E c \in Campaigns, v \in Vendors, lead \in Leads, days \in Durations :
                create(c, v, lead, days)
  BY <1>2, <1>6 DEF vars, NextDay, Settle, create
<1>7. Sweepers \subseteq Threads
  BY DEF CampaignsAssumption
<1> QED BY <1>3, <1>4, <1>5, <1>6, <1>7 DEF Next

-----------------------------------------------------------------------------
(* How a campaign's status moves *)

SameCampaigns == UNCHANGED <<vendorOf, startDate, endDate>>

Edge(c, s) ==
  /\ SameCampaigns
  /\ status' = [status EXCEPT ![c] = s]
  /\ \/ /\ status[c] = "pending_payment" /\ s \in {"active", "scheduled"}
        /\ PaidFor(c)
        /\ paymentStatus' = [paymentStatus EXCEPT ![c] = "succeeded"]
        /\ s = "active" => startDate[c] <= today
     \/ /\ status[c] = "scheduled" /\ s = "active" /\ startDate[c] <= today
        /\ UNCHANGED paymentStatus
     \/ status[c] = "active" /\ s = "ended" /\ UNCHANGED paymentStatus
     \/ /\ status[c] # "none" /\ s = "cancelled" /\ UNCHANGED paymentStatus
        /\ \E t \in Threads : SaveCancelled(t) /\ req[t].campaign = c

Created ==
  \E c \in Campaigns, v \in Vendors, lead \in Leads, days \in Durations :
    create(c, v, lead, days)

NoEdge ==
  /\ SameCampaigns /\ UNCHANGED status
  /\ \A c \in Campaigns : status[c] # "pending_payment" =>
       paymentStatus'[c] = paymentStatus[c]

LEMMA StatusStep ==
  ASSUME Base, CampaignsAssumption, [Next]_vars
  PROVE  NoEdge \/ Created \/ \E c \in Campaigns, s \in L!Statuses : Edge(c, s)
<1> USE DEF Base
<1>1. ASSUME NEW t \in Threads, markPaid(t)
      PROVE  NoEdge \/ \E c \in Campaigns, s \in L!Statuses : Edge(c, s)
  <2>1. req[t].at = "markPaid" /\ SameCampaigns
    BY <1>1 DEF markPaid, SameCampaigns
  <2>2. PICK c \in Campaigns : c = req[t].campaign
    BY <2>1, Working
  <2>3. PaidFor(c)
    BY <2>1, <2>2 DEF RequestsKnow, Knows
  <2>4. \/ UNCHANGED <<status, paymentStatus>>
        \/ \E s \in {"active", "scheduled"} :
             /\ status[c] = "pending_payment" /\ status' = [status EXCEPT ![c] = s]
             /\ paymentStatus' = [paymentStatus EXCEPT ![c] = "succeeded"]
             /\ s = "active" => startDate[c] <= today
    BY <1>1, <2>2, markPaidEffect
  <2>5. {"active", "scheduled"} \subseteq L!Statuses
    BY DEF L!Statuses
  <2> QED BY <2>1, <2>3, <2>4, <2>5 DEF NoEdge, Edge
<1>2. ASSUME NEW t \in Threads, NEW c \in Campaigns, Activate(t, c)
      PROVE  NoEdge \/ \E s \in L!Statuses : Edge(c, s)
  <2>1. req[t].at = "activating" /\ c \in req[t].todo
    BY <1>2 DEF Activate
  <2>2. startDate[c] <= today
    BY <2>1 DEF RequestsKnow, Knows
  <2>3. SameCampaigns /\ UNCHANGED paymentStatus
    BY <1>2 DEF Activate, SameCampaigns
  <2>4. \/ UNCHANGED status
        \/ status[c] = "scheduled" /\ status' = [status EXCEPT ![c] = "active"]
    BY <1>2 DEF Activate
  <2>5. "active" \in L!Statuses
    BY DEF L!Statuses
  <2> QED BY <2>2, <2>3, <2>4, <2>5 DEF NoEdge, Edge
<1>3. ASSUME NEW t \in Threads, NEW c \in Campaigns, End(t, c)
      PROVE  NoEdge \/ \E s \in L!Statuses : Edge(c, s)
  <2>3. SameCampaigns /\ UNCHANGED paymentStatus
    BY <1>3 DEF End, SameCampaigns
  <2>4. \/ UNCHANGED status
        \/ status[c] = "active" /\ status' = [status EXCEPT ![c] = "ended"]
    BY <1>3 DEF End
  <2>5. "ended" \in L!Statuses
    BY DEF L!Statuses
  <2> QED BY <2>3, <2>4, <2>5 DEF NoEdge, Edge
<1>4. ASSUME NEW t \in Threads, SaveCancelled(t)
      PROVE  \E c \in Campaigns, s \in L!Statuses : Edge(c, s)
  <2>1. PICK c \in Campaigns : c = req[t].campaign /\ status[c] # "none"
    BY <1>4, Working DEF SaveCancelled
  <2>2. SameCampaigns /\ UNCHANGED paymentStatus /\ status' = [status EXCEPT ![c] = "cancelled"]
    BY <1>4, <2>1 DEF SaveCancelled, SameCampaigns
  <2>3. "cancelled" \in L!Statuses
    BY DEF L!Statuses
  <2> QED BY <1>4, <2>1, <2>2, <2>3 DEF Edge
<1>5. ASSUME NEW t \in Threads, markPaymentFailed(t)  PROVE NoEdge
  BY <1>5 DEF markPaymentFailed, NoEdge, SameCampaigns, AwaitsPayment, TypeOK
<1>6. ASSUME NEW t \in Threads,
             \/ SaveRef(t) \/ Verified(t) \/ SaveManual(t)
             \/ SecondPass(t) \/ SweepDone(t) \/ runLifecycleSweep(t)
             \/ setSponsorship(t) \/ SponsorshipFails(t) \/ Die(t)
      PROVE  NoEdge
  BY <1>6 DEF SaveRef, Verified, SaveManual, SecondPass, SweepDone, runLifecycleSweep,
     setSponsorship, SponsorshipFails, Die, campaignVars, NoEdge, SameCampaigns
<1>7. ASSUME NEW t \in Requests, Start(t)  PROVE NoEdge
  BY <1>7 DEF Start, initiateCampaignPayment, verifyPayment, markPaidManually, cancel,
     handleWebhook, campaignVars, NoEdge, SameCampaigns
<1>8. CASE UNCHANGED vars \/ NextDay \/ \E r \in Refs : Settle(r)
  BY <1>8 DEF vars, NextDay, Settle, campaignVars, NoEdge, SameCampaigns
<1>9. Sweepers \subseteq Threads
  BY DEF CampaignsAssumption
<1> QED
  BY <1>1, <1>2, <1>3, <1>4, <1>5, <1>6, <1>7, <1>8, <1>9
  DEF Next, Created, Continue, PaymentStep, SweepStep

-----------------------------------------------------------------------------
(* The safety properties of campaigns and their payments *)

LEMMA OneCampaignStep ==
  ASSUME Base, CampaignsAssumption, [Next]_vars, OneCampaignAtATime
  PROVE  OneCampaignAtATime'
<1> USE DEF Base
<1>1. CASE NoEdge
  BY <1>1 DEF NoEdge, SameCampaigns, OneCampaignAtATime
<1>2. CASE Created
  BY <1>2 DEF Created, create, Taken, TypeOK, CampaignsAssumption, OneCampaignAtATime
<1>3. ASSUME NEW c \in Campaigns, NEW s \in L!Statuses, Edge(c, s)
      PROVE  OneCampaignAtATime'
  <2>1. s \in L!NonTerminal => status[c] \in L!NonTerminal
    BY <1>3 DEF Edge, L!NonTerminal
  <2>2. /\ vendorOf' = vendorOf
        /\ \A d \in Campaigns : status'[d] \in L!NonTerminal => status[d] \in L!NonTerminal
    BY <1>3, <2>1 DEF Edge, SameCampaigns, TypeOK
  <2> QED BY <2>2 DEF OneCampaignAtATime
<1> QED BY <1>1, <1>2, <1>3, StatusStep

LEMMA NothingUnpaidStep ==
  ASSUME Base, CampaignsAssumption, [Next]_vars, NothingShownUnpaid
  PROVE  NothingShownUnpaid'
<1> USE DEF Base
<1> DEFINE Shown == {"scheduled", "active", "ended"}
<1>1. Grows /\ \A c \in Campaigns : PaidFor(c) => PaidFor(c)'
  BY GrowsAlways, PaidForPersists
<1>2. CASE NoEdge
  BY <1>1, <1>2 DEF NoEdge, NothingShownUnpaid
<1>3. CASE Created
  BY <1>1, <1>3 DEF Created, create, TypeOK, NothingShownUnpaid
<1>4. ASSUME NEW c \in Campaigns, NEW s \in L!Statuses, Edge(c, s)
      PROVE  NothingShownUnpaid'
  <2>1. ASSUME NEW d \in Campaigns, status'[d] \in Shown
        PROVE  paymentStatus'[d] = "succeeded" /\ PaidFor(d)
    <3>1. CASE d = c
      BY <1>4, <2>1, <3>1 DEF Edge, TypeOK, NothingShownUnpaid
    <3>2. CASE d # c
      BY <1>4, <2>1, <3>2 DEF Edge, TypeOK, NothingShownUnpaid
    <3> QED BY <3>1, <3>2
  <2> QED BY <1>1, <2>1 DEF NothingShownUnpaid
<1> QED BY <1>2, <1>3, <1>4, StatusStep

LEMMA NotBeforeStep ==
  ASSUME Base, CampaignsAssumption, [Next]_vars, NotBeforeItsDay
  PROVE  NotBeforeItsDay'
<1> USE DEF Base
<1>1. TypeOK' /\ Grows
  BY TypeStep, GrowsAlways
<1>2. today \in Nat /\ today' \in Nat /\ today <= today'
  BY <1>1 DEF TypeOK, Days, Grows
<1>3. \A c \in Campaigns : startDate[c] \in Nat
  BY DEF TypeOK
<1>4. CASE NoEdge
  BY <1>2, <1>3, <1>4 DEF NoEdge, SameCampaigns, NotBeforeItsDay
<1>5. CASE Created
  BY <1>5 DEF Created, create, TypeOK, NotBeforeItsDay
<1>6. ASSUME NEW c \in Campaigns, NEW s \in L!Statuses, Edge(c, s)
      PROVE  NotBeforeItsDay'
  <2>1. ASSUME NEW d \in Campaigns, status'[d] \in {"active", "ended"}
        PROVE  startDate[d] <= today
    <3>1. CASE d = c
      BY <1>6, <2>1, <3>1 DEF Edge, TypeOK, NotBeforeItsDay
    <3>2. CASE d # c
      BY <1>6, <2>1, <3>2 DEF Edge, TypeOK, NotBeforeItsDay
    <3> QED BY <3>1, <3>2
  <2>2. startDate' = startDate
    BY <1>6 DEF Edge, SameCampaigns
  <2> QED BY <1>2, <1>3, <2>1, <2>2 DEF NotBeforeItsDay
<1> QED BY <1>4, <1>5, <1>6, StatusStep

-----------------------------------------------------------------------------
(* Sponsorships *)

Sponsorships == OneRightWriter /\ SponsoredWhileActive

(* Steps that neither change which campaigns are up nor deal with a write. *)
SameUp ==
  \A c \in Campaigns, v \in Vendors :
    /\ IsUp(c, v)' <=> IsUp(c, v)
    /\ IsUp(c, v) => endDate'[c] = endDate[c]

LEMMA RightfulSame ==
  ASSUME SameUp, NEW v \in Vendors, NEW until, Rightful(v, until)
  PROVE  Rightful(v, until)'
  BY DEF SameUp, Rightful

LEMMA WritersIn ==
  ASSUME Base, NEW v \in Vendors, NEW t \in Writers(v)
  PROVE  /\ t \in Threads /\ req[t].at = "setSponsorship"
         /\ req[t].campaign \in Campaigns /\ vendorOf[req[t].campaign] = v
         /\ req[t].until \in Nat
<1>1. t \in Threads /\ req[t].at = "setSponsorship" /\ vendorOf[req[t].campaign] = v
  BY DEF Writers
<1>2. req[t].campaign \in Campaigns
  BY <1>1, Working
<1>3. req[t] \in Request
  BY <1>1 DEF Base, TypeOK
<1> QED BY <1>1, <1>2, <1>3 DEF Request

LEMMA OtherWriters ==
  ASSUME Base, Grows, NEW t \in Threads, NEW r, Moves(t, r), NEW v \in Vendors
  PROVE  Writers(v)' \ {t} = Writers(v) \ {t}
<1>1. \A u \in Threads : u # t => req'[u] = req[u]
  BY DEF Moves
<1>2. ASSUME NEW u \in Threads, u # t, req[u].at = "setSponsorship"
      PROVE  vendorOf'[req[u].campaign] = vendorOf[req[u].campaign]
  BY <1>2, Working DEF Grows, Base, TypeOK, RequestsKnow
<1> QED BY <1>1, <1>2 DEF Writers

LEMMA CalmStep ==
  ASSUME Base, Grows, Sponsorships, SameUp, NEW t \in Threads, NEW r, Moves(t, r),
         req[t].at # "setSponsorship", r.at # "setSponsorship",
         sponsoredUntil' = sponsoredUntil, disturbed \subseteq disturbed'
  PROVE  Sponsorships'
<1>1. ASSUME NEW v \in Vendors  PROVE Writers(v)' = Writers(v)
  <2>1. req'[t].at # "setSponsorship"
    BY DEF Moves
  <2>2. t \notin Writers(v) /\ t \notin Writers(v)'
    BY <2>1 DEF Writers
  <2> QED BY <2>2, OtherWriters
<1>2. ASSUME NEW v \in Vendors \ disturbed', NEW u \in Writers(v)'
      PROVE  (Writers(v) = {u} /\ Rightful(v, req[u].until))'
  <2>1. u \in Writers(v) /\ v \notin disturbed
    BY <1>1, <1>2
  <2>2. Writers(v) = {u} /\ Rightful(v, req[u].until)
    BY <1>2, <2>1 DEF Sponsorships, OneRightWriter
  <2>3. u # t /\ u \in Threads
    BY <2>1 DEF Writers
  <2>4. req'[u] = req[u]
    BY <2>3 DEF Moves
  <2>5. PICK until : until = req[u].until
    OBVIOUS
  <2>6. Rightful(v, until)'
    BY <2>2, <2>5, RightfulSame
  <2> QED BY <1>1, <2>2, <2>4, <2>5, <2>6 DEF Rightful
<1>3. ASSUME NEW v \in Vendors \ disturbed', Writers(v)' = {}
      PROVE  Rightful(v, sponsoredUntil[v])'
  <2>1. Rightful(v, sponsoredUntil[v])
    BY <1>1, <1>3 DEF Sponsorships, SponsoredWhileActive
  <2>2. PICK until : until = sponsoredUntil[v]
    OBVIOUS
  <2>3. Rightful(v, until)'
    BY <2>1, <2>2, RightfulSame
  <2> QED BY <2>2, <2>3 DEF Rightful
<1> QED BY <1>2, <1>3 DEF Sponsorships, OneRightWriter, SponsoredWhileActive

(* Steps that change no request. *)
LEMMA StillStep ==
  ASSUME Base, Sponsorships, SameUp, req' = req,
         \A c \in Campaigns : vendorOf[c] # NoVendor => vendorOf'[c] = vendorOf[c],
         sponsoredUntil' = sponsoredUntil, disturbed' = disturbed
  PROVE  Sponsorships'
<1>1. ASSUME NEW v \in Vendors  PROVE Writers(v)' = Writers(v)
  <2>1. ASSUME NEW u \in Threads, req[u].at = "setSponsorship"
        PROVE  vendorOf'[req[u].campaign] = vendorOf[req[u].campaign]
    BY <2>1, Working DEF Base, TypeOK, RequestsKnow
  <2> QED BY <2>1 DEF Writers
<1>2. ASSUME NEW v \in Vendors \ disturbed', NEW u \in Writers(v)'
      PROVE  (Writers(v) = {u} /\ Rightful(v, req[u].until))'
  <2>1. Writers(v) = {u} /\ Rightful(v, req[u].until)
    BY <1>1, <1>2 DEF Sponsorships, OneRightWriter
  <2>2. PICK until : until = req[u].until
    OBVIOUS
  <2>3. Rightful(v, until)'
    BY <2>1, <2>2, RightfulSame
  <2> QED BY <1>1, <2>1, <2>2, <2>3 DEF Rightful
<1>3. ASSUME NEW v \in Vendors \ disturbed', Writers(v)' = {}
      PROVE  Rightful(v, sponsoredUntil[v])'
  <2>1. Rightful(v, sponsoredUntil[v])
    BY <1>1, <1>3 DEF Sponsorships, SponsoredWhileActive
  <2>2. PICK until : until = sponsoredUntil[v]
    OBVIOUS
  <2>3. Rightful(v, until)'
    BY <2>1, <2>2, RightfulSame
  <2> QED BY <2>2, <2>3 DEF Rightful
<1> QED BY <1>2, <1>3 DEF Sponsorships, OneRightWriter, SponsoredWhileActive

(* A campaign goes up or comes down, and t is about to write it. *)
LEMMA DueStep ==
  ASSUME Base, Grows, Sponsorships, NEW t \in Threads, NEW r, Moves(t, r),
         NEW c \in Campaigns, vendorOf[c] # NoVendor,
         req[t].at # "setSponsorship",
         r.at = "setSponsorship", r.campaign = c,
         SameCampaigns, DisturbIfWriting(vendorOf[c]),
         \A d \in Campaigns : d # c => status'[d] = status[d],
         Rightful(vendorOf[c], r.until)',
         sponsoredUntil' = sponsoredUntil
  PROVE  Sponsorships'
<1> DEFINE w == vendorOf[c]
<1>0. w \in Vendors /\ w = vendorOf'[c]
  BY DEF Base, TypeOK, SameCampaigns
<1>1. req'[t] = r /\ \A u \in Threads : u # t => req'[u] = req[u]
  BY DEF Moves
<1>2. disturbed \subseteq disturbed' /\ (w \notin disturbed' => Writers(w) = {})
  BY DEF DisturbIfWriting
<1>3. ASSUME NEW v \in Vendors, v # w  PROVE Writers(v)' = Writers(v)
  <2>1. t \notin Writers(v) /\ t \notin Writers(v)'
    BY <1>0, <1>1, <1>3 DEF Writers
  <2> QED BY <2>1, OtherWriters
<1>4. t \in Writers(w)'
  BY <1>0, <1>1 DEF Writers, SameCampaigns
<1>5. ASSUME NEW v \in Vendors, v # w, NEW until, Rightful(v, until)
      PROVE  Rightful(v, until)'
  BY <1>5 DEF Rightful, IsUp, SameCampaigns
<1>6. ASSUME NEW v \in Vendors \ disturbed', NEW u \in Writers(v)'
      PROVE  (Writers(v) = {u} /\ Rightful(v, req[u].until))'
  <2>1. CASE v = w
    <3>1. Writers(w) \ {t} = {}
      BY <1>2, <1>6, <2>1
    <3>2. Writers(w)' = {t}
      BY <1>0, <1>4, <3>1, OtherWriters
    <3> QED BY <1>1, <1>6, <2>1, <3>2 DEF SameCampaigns, Rightful, IsUp
  <2>2. CASE v # w
    <3>1. Writers(v) = {u} /\ Rightful(v, req[u].until)
      BY <1>2, <1>3, <1>6, <2>2 DEF Sponsorships, OneRightWriter
    <3>2. u # t /\ u \in Threads
      BY <3>1 DEF Writers
    <3>3. PICK until : until = req[u].until
      OBVIOUS
    <3>4. Rightful(v, until)'
      BY <1>5, <2>2, <3>1, <3>3
    <3> QED BY <1>1, <1>3, <2>2, <3>1, <3>2, <3>3, <3>4 DEF Rightful
  <2> QED BY <2>1, <2>2
<1>7. ASSUME NEW v \in Vendors \ disturbed', Writers(v)' = {}
      PROVE  Rightful(v, sponsoredUntil[v])'
  <2>1. v # w
    BY <1>4, <1>7 DEF SameCampaigns
  <2>2. Rightful(v, sponsoredUntil[v])
    BY <1>2, <1>3, <1>7, <2>1 DEF Sponsorships, SponsoredWhileActive
  <2>3. PICK until : until = sponsoredUntil[v]
    OBVIOUS
  <2>4. Rightful(v, until)'
    BY <1>5, <2>1, <2>2, <2>3
  <2> QED BY <2>3, <2>4 DEF Rightful
<1> QED BY <1>6, <1>7 DEF Sponsorships, OneRightWriter, SponsoredWhileActive

(* The write that was due is done, or given up. *)
LEMMA WrittenStep ==
  ASSUME Base, Grows, Sponsorships, NEW t \in Threads, NEW r, Moves(t, r),
         req[t].at = "setSponsorship", r.at # "setSponsorship",
         UNCHANGED campaignVars,
         NEW w \in Vendors, w = vendorOf[req[t].campaign],
         \/ /\ sponsoredUntil' = [sponsoredUntil EXCEPT ![w] = req[t].until]
            /\ disturbed' = disturbed
         \/ sponsoredUntil' = sponsoredUntil /\ disturbed' = disturbed \cup {w}
  PROVE  Sponsorships'
<1>1. req'[t] = r /\ \A u \in Threads : u # t => req'[u] = req[u]
  BY DEF Moves
<1>2. t \in Writers(w)
  BY DEF Writers
<1>3. SameUp
  BY DEF SameUp, IsUp, campaignVars
<1>4. disturbed \subseteq disturbed'
  OBVIOUS
<1>5. ASSUME NEW v \in Vendors, v # w  PROVE Writers(v)' = Writers(v)
  <2>1. t \notin Writers(v) /\ t \notin Writers(v)'
    BY <1>1, <1>5 DEF Writers
  <2> QED BY <2>1, OtherWriters
<1>6. w \notin disturbed' => Writers(w) = {t} /\ Writers(w)' = {}
  <2>1. ASSUME w \notin disturbed'  PROVE Writers(w) = {t}
    BY <1>2, <1>4, <2>1 DEF Sponsorships, OneRightWriter
  <2>2. t \notin Writers(w)'
    BY <1>1 DEF Writers
  <2> QED BY <2>1, <2>2, OtherWriters
<1>7. ASSUME NEW v \in Vendors \ disturbed', NEW u \in Writers(v)'
      PROVE  (Writers(v) = {u} /\ Rightful(v, req[u].until))'
  <2>1. v # w
    BY <1>6, <1>7
  <2>2. Writers(v) = {u} /\ Rightful(v, req[u].until)
    BY <1>4, <1>5, <1>7, <2>1 DEF Sponsorships, OneRightWriter
  <2>3. u # t /\ u \in Threads
    BY <1>2, <2>1, <2>2 DEF Writers
  <2>4. PICK until : until = req[u].until
    OBVIOUS
  <2>5. Rightful(v, until)'
    BY <1>3, <2>2, <2>4, RightfulSame
  <2> QED BY <1>1, <1>5, <2>1, <2>2, <2>3, <2>4, <2>5 DEF Rightful
<1>8. ASSUME NEW v \in Vendors \ disturbed', Writers(v)' = {}
      PROVE  Rightful(v, sponsoredUntil[v])'
  <2>1. PICK until : until = sponsoredUntil'[v]
    OBVIOUS
  <2>2. Rightful(v, until)
    <3>1. CASE v = w
      <4>1. w \notin disturbed' /\ sponsoredUntil'[w] = req[t].until
        BY <1>8, <3>1 DEF Base, TypeOK
      <4>2. Rightful(w, req[t].until)
        BY <1>2, <1>4, <4>1 DEF Sponsorships, OneRightWriter
      <4> QED BY <2>1, <3>1, <4>1, <4>2
    <3>2. CASE v # w
      <4>1. sponsoredUntil'[v] = sponsoredUntil[v]
        BY <3>2 DEF Base, TypeOK
      <4>2. Rightful(v, sponsoredUntil[v])
        BY <1>4, <1>5, <1>8, <3>2 DEF Sponsorships, SponsoredWhileActive
      <4> QED BY <2>1, <4>1, <4>2
    <3> QED BY <3>1, <3>2
  <2>3. Rightful(v, until)'
    BY <1>3, <2>2, RightfulSame
  <2> QED BY <2>1, <2>3 DEF Rightful
<1> QED BY <1>7, <1>8 DEF Sponsorships, OneRightWriter, SponsoredWhileActive

(* A campaign of w is cancelled over: w is left out of what is claimed.     *)
LEMMA OverwriteStep ==
  ASSUME Base, Grows, Sponsorships, NEW t \in Threads, NEW r, Moves(t, r),
         req[t].at # "setSponsorship", r.at # "setSponsorship",
         SameCampaigns, NEW c \in Campaigns,
         \E s : status' = [status EXCEPT ![c] = s],
         disturbed' = disturbed \cup {vendorOf[c]},
         sponsoredUntil' = sponsoredUntil
  PROVE  Sponsorships'
<1>1. req'[t] = r /\ \A u \in Threads : u # t => req'[u] = req[u]
  BY DEF Moves
<1>2. ASSUME NEW v \in Vendors  PROVE Writers(v)' = Writers(v)
  <2>1. t \notin Writers(v) /\ t \notin Writers(v)'
    BY <1>1 DEF Writers
  <2> QED BY <2>1, OtherWriters
<1>3. ASSUME NEW v \in Vendors \ disturbed', NEW until, Rightful(v, until)
      PROVE  Rightful(v, until)'
  BY <1>3 DEF Rightful, IsUp, SameCampaigns, Base, TypeOK
<1>4. ASSUME NEW v \in Vendors \ disturbed', NEW u \in Writers(v)'
      PROVE  (Writers(v) = {u} /\ Rightful(v, req[u].until))'
  <2>1. Writers(v) = {u} /\ Rightful(v, req[u].until)
    BY <1>2, <1>4 DEF Sponsorships, OneRightWriter
  <2>2. u # t /\ u \in Threads
    BY <2>1 DEF Writers
  <2>3. PICK until : until = req[u].until
    OBVIOUS
  <2>4. Rightful(v, until)'
    BY <1>3, <1>4, <2>1, <2>3
  <2> QED BY <1>1, <1>2, <2>1, <2>2, <2>3, <2>4 DEF Rightful
<1>5. ASSUME NEW v \in Vendors \ disturbed', Writers(v)' = {}
      PROVE  Rightful(v, sponsoredUntil[v])'
  <2>1. Rightful(v, sponsoredUntil[v])
    BY <1>2, <1>5 DEF Sponsorships, SponsoredWhileActive
  <2>2. PICK until : until = sponsoredUntil[v]
    OBVIOUS
  <2>3. Rightful(v, until)'
    BY <1>3, <1>5, <2>1, <2>2
  <2> QED BY <2>2, <2>3 DEF Rightful
<1> QED BY <1>4, <1>5 DEF Sponsorships, OneRightWriter, SponsoredWhileActive

LEMMA SameUpIfUnchanged ==
  ASSUME UNCHANGED <<vendorOf, status, endDate>>  PROVE SameUp
  BY DEF SameUp, IsUp

LEMMA PaymentSponsors ==
  ASSUME Base, CampaignsAssumption, Grows, Sponsorships, OneCampaignAtATime,
         NEW t \in Threads, PaymentStep(t)
  PROVE  Sponsorships'
<1> USE DEF Base
<1>0. req[t] \in Request /\ Idle.at = "idle"
  BY DEF TypeOK, Idle
<1>1. CASE SaveRef(t) \/ markPaymentFailed(t)
  <2>1. Moves(t, Idle) /\ req[t].at # "setSponsorship"
    BY <1>1, CloseMoves DEF SaveRef, markPaymentFailed
  <2>2. SameUp /\ UNCHANGED <<sponsoredUntil, disturbed>>
    BY <1>1, SameUpIfUnchanged DEF SaveRef, markPaymentFailed
  <2> QED BY <1>0, <2>1, <2>2, CalmStep
<1>2. CASE Verified(t) \/ SaveManual(t)
  <2>1. SameUp /\ UNCHANGED <<sponsoredUntil, disturbed>> /\ req[t].at # "setSponsorship"
    BY <1>2, SameUpIfUnchanged DEF Verified, SaveManual, campaignVars
  <2>2. Close(t) \/ \E at \in {"markPaid", "markFailed"} : Goto(t, at)
    BY <1>2, OutcomeIs DEF Verified, SaveManual
  <2>3. CASE Close(t)
    BY <1>0, <2>1, <2>3, CloseMoves, CalmStep
  <2>4. ASSUME NEW at \in {"markPaid", "markFailed"}, Goto(t, at)  PROVE Sponsorships'
    <3>1. PICK r \in Request : r = [req[t] EXCEPT !.at = at] /\ Moves(t, r)
      BY <2>4, GotoMoves DEF Moves
    <3>2. r.at # "setSponsorship"
      BY <1>0, <3>1 DEF Request
    <3> QED BY <2>1, <3>1, <3>2, CalmStep
  <2> QED BY <2>2, <2>3, <2>4
<1>3. CASE markPaid(t)
  <2>1. req[t].at = "markPaid" /\ SameCampaigns /\ sponsoredUntil' = sponsoredUntil
    BY <1>3 DEF markPaid, SameCampaigns
  <2>2. PICK c \in Campaigns : c = req[t].campaign /\ vendorOf[c] \in Vendors
    BY <2>1, Working
  <2>3. CASE /\ status[c] = "pending_payment" /\ startDate[c] <= today
             /\ status' = [status EXCEPT ![c] = "active"]
             /\ Moves(t, Write(c, endDate[c], Idle, "idle"))
             /\ DisturbIfWriting(vendorOf[c])
    <3>1. PICK r \in Request : r = Write(c, endDate[c], Idle, "idle") /\ Moves(t, r)
      BY <2>3 DEF Moves
    <3>2. r.at = "setSponsorship" /\ r.campaign = c /\ r.until = endDate[c]
      BY <3>1, IdleIsRequest, WriteIsRequest DEF TypeOK
    <3>3. \A d \in Campaigns : IsUp(d, vendorOf[c])' => d = c
      BY <2>1, <2>2, <2>3 DEF IsUp, SameCampaigns, TypeOK, OneCampaignAtATime,
         L!NonTerminal, CampaignsAssumption
    <3>4. IsUp(c, vendorOf[c])' /\ r.until = endDate'[c]
      BY <2>1, <2>3, <3>2 DEF IsUp, SameCampaigns, TypeOK
    <3>5. Rightful(vendorOf[c], r.until)'
      BY <2>1, <3>3, <3>4 DEF Rightful, SameCampaigns
    <3>6. vendorOf[c] # NoVendor /\ \A d \in Campaigns : d # c => status'[d] = status[d]
      BY <2>2, <2>3 DEF TypeOK, CampaignsAssumption
    <3> QED BY <2>1, <2>3, <3>1, <3>2, <3>5, <3>6, DueStep
  <2>4. CASE /\ status[c] = "pending_payment"
             /\ status' = [status EXCEPT ![c] = "scheduled"]
             /\ Moves(t, Idle) /\ UNCHANGED disturbed
    <3>1. SameUp
      BY <2>1, <2>4 DEF SameUp, IsUp, SameCampaigns, TypeOK
    <3> QED BY <1>0, <2>1, <2>4, <3>1, CalmStep
  <2>5. CASE Moves(t, Idle) /\ UNCHANGED <<status, paymentStatus, disturbed>>
    <3>1. SameUp
      BY <2>1, <2>5, SameUpIfUnchanged DEF SameCampaigns
    <3> QED BY <1>0, <2>1, <2>5, <3>1, CalmStep
  <2> QED BY <1>3, <2>2, <2>3, <2>4, <2>5, markPaidEffect
<1> QED BY <1>1, <1>2, <1>3 DEF PaymentStep

LEMMA SweepSponsors ==
  ASSUME Base, CampaignsAssumption, Grows, Sponsorships, OneCampaignAtATime,
         NEW t \in Threads, SweepStep(t) \/ runLifecycleSweep(t) \/ SaveCancelled(t)
  PROVE  Sponsorships'
<1> USE DEF Base
<1>0. req[t] \in Request /\ Idle.at = "idle"
  BY DEF TypeOK, Idle
<1>1. ASSUME NEW c \in Campaigns, Activate(t, c)  PROVE Sponsorships'
  <2>1. /\ req[t].at = "activating" /\ SameCampaigns /\ sponsoredUntil' = sponsoredUntil
        /\ c \in req[t].todo
    BY <1>1 DEF Activate, SameCampaigns
  <2>2. PICK r \in Request :
           /\ Moves(t, r)
           /\ \/ /\ status[c] = "scheduled"
                 /\ r.at = "setSponsorship" /\ r.campaign = c
                 /\ r.until = endDate[c] /\ r.back = "activating"
              \/ /\ status[c] # "scheduled"
                 /\ r.at = req[t].at /\ r.campaign = req[t].campaign
                 /\ r.back = req[t].back
    BY <1>1, ActivateEffect
  <2>3. CASE status[c] = "scheduled"
    <3>1. status' = [status EXCEPT ![c] = "active"] /\ DisturbIfWriting(vendorOf[c])
      BY <1>1, <2>3 DEF Activate
    <3>2. vendorOf[c] # NoVendor /\ vendorOf[c] \in Vendors
      BY <2>3 DEF RequestsKnow, TypeOK
    <3>3. \A d \in Campaigns : IsUp(d, vendorOf[c])' => d = c
      BY <2>1, <2>3, <3>1, <3>2 DEF IsUp, SameCampaigns, TypeOK, OneCampaignAtATime,
         L!NonTerminal
    <3>4. IsUp(c, vendorOf[c])' /\ r.until = endDate'[c]
      BY <2>1, <2>2, <2>3, <3>1 DEF IsUp, SameCampaigns, TypeOK
    <3>5. Rightful(vendorOf[c], r.until)'
      BY <2>1, <3>3, <3>4 DEF Rightful, SameCampaigns
    <3>6. \A d \in Campaigns : d # c => status'[d] = status[d]
      BY <3>1 DEF TypeOK
    <3> QED BY <2>1, <2>2, <2>3, <3>1, <3>2, <3>5, <3>6, DueStep
  <2>4. CASE status[c] # "scheduled"
    <3>1. UNCHANGED <<status, disturbed>>
      BY <1>1, <2>4 DEF Activate
    <3>2. SameUp
      BY <2>1, <3>1, SameUpIfUnchanged DEF SameCampaigns
    <3> QED BY <2>1, <2>2, <2>4, <3>1, <3>2, CalmStep
  <2> QED BY <2>3, <2>4
<1>2. ASSUME NEW c \in Campaigns, End(t, c)  PROVE Sponsorships'
  <2>1. req[t].at = "ending" /\ SameCampaigns /\ sponsoredUntil' = sponsoredUntil
    BY <1>2 DEF End, SameCampaigns
  <2>2. PICK r \in Request :
           /\ Moves(t, r)
           /\ \/ /\ status[c] = "active"
                 /\ r.at = "setSponsorship" /\ r.campaign = c
                 /\ r.until = Never /\ r.back = "ending"
              \/ /\ status[c] # "active"
                 /\ r.at = req[t].at /\ r.campaign = req[t].campaign
                 /\ r.back = req[t].back
    BY <1>2, EndEffect
  <2>3. CASE status[c] = "active"
    <3>1. status' = [status EXCEPT ![c] = "ended"] /\ DisturbIfWriting(vendorOf[c])
      BY <1>2, <2>3 DEF End
    <3>2. vendorOf[c] # NoVendor /\ vendorOf[c] \in Vendors
      BY <2>3 DEF RequestsKnow, TypeOK
    <3>3. \A d \in Campaigns : ~ IsUp(d, vendorOf[c])'
      BY <2>1, <2>3, <3>1, <3>2 DEF IsUp, SameCampaigns, TypeOK, OneCampaignAtATime,
         L!NonTerminal
    <3>4. Rightful(vendorOf[c], r.until)'
      BY <2>1, <2>2, <2>3, <3>3 DEF Rightful, SameCampaigns
    <3>5. \A d \in Campaigns : d # c => status'[d] = status[d]
      BY <3>1 DEF TypeOK
    <3> QED BY <2>1, <2>2, <2>3, <3>1, <3>2, <3>4, <3>5, DueStep
  <2>4. CASE status[c] # "active"
    <3>1. UNCHANGED <<status, disturbed>>
      BY <1>2, <2>4 DEF End
    <3>2. SameUp
      BY <2>1, <3>1, SameUpIfUnchanged DEF SameCampaigns
    <3> QED BY <2>1, <2>2, <2>4, <3>1, <3>2, CalmStep
  <2> QED BY <2>3, <2>4
<1>3. CASE SecondPass(t) \/ runLifecycleSweep(t)
  <2>1. SameUp /\ UNCHANGED <<sponsoredUntil, disturbed>> /\ req[t].at # "setSponsorship"
    BY <1>3, SameUpIfUnchanged, SecondPassEffect, SweepEffect
    DEF SecondPass, runLifecycleSweep, campaignVars
  <2>2. \E at \in {"activating", "ending"}, day \in Days \cup {Never},
           todo \in SUBSET Campaigns : Moves(t, Sweep(at, day, todo))
    <3>1. req[t].day \in Days \cup {Never} /\ today \in Days \cup {Never}
      BY <1>0 DEF Request, TypeOK
    <3>2. ToEnd(req[t].day) \in SUBSET Campaigns /\ ToActivate(today) \in SUBSET Campaigns
      BY DEF ToEnd, ToActivate
    <3> QED BY <1>3, <3>1, <3>2, SecondPassEffect, SweepEffect
  <2>3. PICK r \in Request : Moves(t, r) /\ r.at \in {"activating", "ending"}
    BY <2>2, SweepIsRequest
  <2> QED BY <2>1, <2>3, CalmStep
<1>4. CASE SweepDone(t)
  <2>1. SameUp /\ UNCHANGED <<sponsoredUntil, disturbed>> /\ req[t].at # "setSponsorship"
    BY <1>4, SameUpIfUnchanged DEF SweepDone, campaignVars
  <2> QED BY <1>0, <1>4, <2>1, CloseMoves, CalmStep DEF SweepDone
<1>5. CASE SaveCancelled(t)
  <2>1. /\ req[t].at = "cancel" /\ SameCampaigns /\ sponsoredUntil' = sponsoredUntil
        /\ Moves(t, Idle)
    BY <1>5, CloseMoves DEF SaveCancelled, SameCampaigns
  <2>2. PICK c \in Campaigns : c = req[t].campaign /\ vendorOf[c] \in Vendors
    BY <2>1, Working
  <2>3. status' = [status EXCEPT ![c] = "cancelled"]
    BY <1>5, <2>2 DEF SaveCancelled
  <2>4. CASE status[c] # "active"
    <3>1. SameUp
      BY <2>1, <2>3, <2>4 DEF SameUp, IsUp, SameCampaigns, TypeOK
    <3>2. disturbed' = disturbed
      BY <1>5, <2>2, <2>4 DEF SaveCancelled
    <3> QED BY <1>0, <2>1, <3>1, <3>2, CalmStep
  <2>5. CASE status[c] = "active"
    <3>1. disturbed' = disturbed \cup {vendorOf[c]}
      BY <1>5, <2>2, <2>5 DEF SaveCancelled
    <3> QED BY <1>0, <2>1, <2>2, <2>3, <3>1, OverwriteStep
  <2> QED BY <2>4, <2>5
<1> QED BY <1>1, <1>2, <1>3, <1>4, <1>5 DEF SweepStep

LEMMA WriteSponsors ==
  ASSUME Base, CampaignsAssumption, Grows, Sponsorships, NEW t \in Threads,
         setSponsorship(t) \/ SponsorshipFails(t) \/ Die(t)
  PROVE  Sponsorships'
<1> USE DEF Base
<1>1. UNCHANGED campaignVars /\ SameUp
  BY SameUpIfUnchanged DEF setSponsorship, SponsorshipFails, Die, campaignVars
<1>2. PICK r \in Request : Moves(t, r) /\ r.at # "setSponsorship"
  <2>1. CASE Close(t)
    BY <2>1, CloseMoves, IdleIsRequest DEF Idle
  <2>2. CASE Return(t)
    <3>1. PICK r \in Request :
             /\ Moves(t, r)
             /\ \/ r = Idle
                \/ /\ r = Sweep(req[t].back, req[t].day, req[t].todo)
                   /\ req[t].back \in {"activating", "ending"}
      BY <2>2, ReturnMoves
    <3>2. req[t].day \in Days \cup {Never} /\ req[t].todo \in SUBSET Campaigns
      BY DEF TypeOK, Request
    <3>3. r.at # "setSponsorship"
      BY <3>1, <3>2, SweepIsRequest DEF Idle
    <3> QED BY <3>1, <3>3
  <2> QED BY <2>1, <2>2 DEF setSponsorship, SponsorshipFails, Die
<1>3. CASE req[t].at = "setSponsorship"
  <2>1. PICK w \in Vendors : w = vendorOf[req[t].campaign]
    BY <1>3, Working
  <2>2. \/ /\ sponsoredUntil' = [sponsoredUntil EXCEPT ![w] = req[t].until]
           /\ disturbed' = disturbed
        \/ sponsoredUntil' = sponsoredUntil /\ disturbed' = disturbed \cup {w}
    BY <1>3, <2>1 DEF setSponsorship, SponsorshipFails, Die
  <2> QED BY <1>1, <1>2, <1>3, <2>1, <2>2, WrittenStep
<1>4. CASE req[t].at # "setSponsorship"
  <2>1. UNCHANGED <<sponsoredUntil, disturbed>>
    BY <1>4 DEF setSponsorship, SponsorshipFails, Die
  <2> QED BY <1>1, <1>2, <1>4, <2>1, CalmStep
<1> QED BY <1>3, <1>4

LEMMA SponsorStep ==
  ASSUME Base, CampaignsAssumption, [Next]_vars, Sponsorships, OneCampaignAtATime
  PROVE  Sponsorships'
<1> USE DEF Base
<1>0. Grows
  BY GrowsAlways
<1>1. CASE UNCHANGED vars \/ NextDay \/ \E r \in Refs : Settle(r)
  <2>1. /\ UNCHANGED <<vendorOf, status, endDate, req, sponsoredUntil, disturbed>>
    BY <1>1 DEF vars, NextDay, Settle, campaignVars
  <2> QED BY <2>1, SameUpIfUnchanged, StillStep
<1>2. CASE Created
  <2>1. PICK c \in Campaigns, v \in Vendors, lead \in Leads, days \in Durations :
          create(c, v, lead, days)
    BY <1>2 DEF Created
  <2>2. status[c] = "none" /\ status' = [status EXCEPT ![c] = "pending_payment"]
        /\ vendorOf[c] = NoVendor
        /\ \A d \in Campaigns : d # c => vendorOf'[d] = vendorOf[d] /\ endDate'[d] = endDate[d]
    BY <2>1 DEF create, RequestsKnow, TypeOK
  <2>3. SameUp
    BY <2>2 DEF SameUp, IsUp, TypeOK
  <2>4. UNCHANGED <<req, sponsoredUntil, disturbed>>
    BY <2>1 DEF create
  <2> QED BY <1>0, <2>3, <2>4, StillStep DEF Grows
<1>3. ASSUME NEW t \in Requests, Start(t)  PROVE Sponsorships'
  <2>0. t \in Threads
    BY ThreadsOf
  <2>1. SameUp /\ UNCHANGED <<sponsoredUntil, disturbed>>
    BY <1>3, SameUpIfUnchanged DEF Start, initiateCampaignPayment, verifyPayment,
       markPaidManually, cancel, handleWebhook, campaignVars
  <2>2. ASSUME NEW c \in Campaigns,
               (\E p \in Providers : initiateCampaignPayment(t, c, p)) \/ verifyPayment(t, c)
        PROVE  Sponsorships'
    <3>1. PICK r \in Request :
            Moves(t, r) /\ r.at \in {"saveRef", "verify"} /\ req[t].at = "idle"
      BY <2>0, <2>2, InitiateEffect, VerifyEffect
    <3> QED BY <1>0, <2>0, <2>1, <3>1, CalmStep
  <2>3. ASSUME NEW c \in Campaigns,
               NEW at \in {"markPaid", "markFailed", "saveManual", "cancel"},
               Open(t, On(at, c))
        PROVE  Sponsorships'
    <3>1. PICK r \in Request : r = On(at, c)
      BY OnIsRequest
    <3>2. Moves(t, r) /\ r.at = at /\ req[t].at = "idle"
      BY <2>0, <2>3, <3>1, OnIsRequest, OpenOnEffect
    <3> QED BY <1>0, <2>0, <2>1, <3>2, CalmStep
  <2>4. ASSUME NEW ref \in Refs, handleWebhook(t, ref)
        PROVE  \E c \in Campaigns, at \in {"markPaid", "markFailed"} : Open(t, On(at, c))
    BY <2>4, OutcomeIs DEF handleWebhook
  <2> QED BY <1>3, <2>2, <2>3, <2>4 DEF Start, markPaidManually, cancel
<1>4. ASSUME NEW t \in Threads,
             Continue(t) \/ SponsorshipFails(t) \/ Die(t) \/ runLifecycleSweep(t)
      PROVE  Sponsorships'
  BY <1>0, <1>4, PaymentSponsors, SweepSponsors, WriteSponsors DEF Continue
<1>5. Sweepers \subseteq Threads
  BY DEF CampaignsAssumption
<1> QED BY <1>1, <1>2, <1>3, <1>4, <1>5 DEF Next, Created

-----------------------------------------------------------------------------
(* The inductive invariant *)

LEMMA InitIInv == ASSUME CampaignsAssumption, Init PROVE IInv
<1>1. TypeOK
  BY IdleIsRequest DEF Init, TypeOK, CampaignsAssumption, Days, Never, L!Statuses
<1>2. RequestsKnow
  <2>1. \A t \in Threads : Knows(req[t])
    BY <1>1, IdleKnows DEF Init
  <2> QED BY <2>1 DEF RequestsKnow, Init
<1>3. \A v \in Vendors : Writers(v) = {}
  BY DEF Init, Writers, Idle
<1>4. \A v \in Vendors : Rightful(v, sponsoredUntil[v])
  BY DEF Init, Rightful, IsUp
<1>5. OneRightWriter /\ SponsoredWhileActive
  BY <1>3, <1>4 DEF OneRightWriter, SponsoredWhileActive
<1>6. OneCampaignAtATime /\ NothingShownUnpaid /\ NotBeforeItsDay
  BY DEF Init, OneCampaignAtATime, NothingShownUnpaid, NotBeforeItsDay, L!NonTerminal
<1> QED BY <1>1, <1>2, <1>5, <1>6 DEF IInv

LEMMA StepIInv == ASSUME CampaignsAssumption, IInv, [Next]_vars PROVE IInv'
<1>1. Base /\ Sponsorships /\ OneCampaignAtATime /\ NothingShownUnpaid /\ NotBeforeItsDay
  BY DEF IInv, Base, Sponsorships
<1>2. TypeOK' /\ RequestsKnow'
  BY <1>1, TypeStep, KnowStep
<1>3. OneCampaignAtATime' /\ NothingShownUnpaid' /\ NotBeforeItsDay'
  BY <1>1, OneCampaignStep, NothingUnpaidStep, NotBeforeStep
<1>4. Sponsorships'
  BY <1>1, SponsorStep
<1> QED BY <1>2, <1>3, <1>4 DEF IInv, Sponsorships

LEMMA Invariance == Spec => []IInv
  BY InitIInv, StepIInv, CampaignsAssumption, PTL DEF Spec

(* The types are right, and a campaign ends after it begins.                *)
THEOREM TypeCorrect == Spec => []TypeOK
<1>1. IInv => TypeOK
  BY DEF IInv
<1> QED BY <1>1, Invariance, PTL

(* No two campaigns of one vendor are under way, however many               *)
(* administrators create them at once.                                      *)
THEOREM VendorsHaveOneCampaign == Spec => []OneCampaignAtATime
<1>1. IInv => OneCampaignAtATime
  BY DEF IInv
<1> QED BY <1>1, Invariance, PTL

(* Webhooks, verifications and manual payments may race as they like, and a *)
(* sweep may go on past midnight: nothing is shown that was not paid or     *)
(* vouched for, or before the day it was sold for.                          *)
THEOREM ShownAsItWasSold == Spec => []ShownAsSold
<1>1. IInv => ShownAsSold
  BY DEF IInv, ShownAsSold
<1> QED BY <1>1, Invariance, PTL

(* The vendor's document and the campaigns agree whenever no write is due,  *)
(* unless one of the three accidents has happened to the vendor.            *)
THEOREM SponsorshipIsRight == Spec => []SponsoredWhileActive
<1>1. IInv => SponsoredWhileActive
  BY DEF IInv
<1> QED BY <1>1, Invariance, PTL

-----------------------------------------------------------------------------
(* The lifecycle *)

Cancelling ==
  {c \in Campaigns : \E t \in Threads : req[t].at = "cancel" /\ req[t].campaign = c}

(* The step does not change who is allowed to cancel what. *)
AsideFromCancelling ==
  \/ UNCHANGED req
  \/ \E t \in Threads, r \in Request :
       Moves(t, r) /\ req[t].at # "cancel" /\ r.at # "cancel"

LEMMA SameCancelling == ASSUME AsideFromCancelling PROVE Cancelling' = Cancelling
<1>1. CASE UNCHANGED req
  BY <1>1 DEF Cancelling
<1>2. ASSUME NEW t \in Threads, NEW r \in Request,
             Moves(t, r), req[t].at # "cancel", r.at # "cancel"
      PROVE  Cancelling' = Cancelling
  BY <1>2 DEF Moves, Cancelling
<1> QED BY <1>1, <1>2 DEF AsideFromCancelling

LEMMA OneLessCancelling ==
  ASSUME NEW t \in Threads, Moves(t, Idle), req[t].at = "cancel"
  PROVE  Cancelling' \in {Cancelling, Cancelling \ {req[t].campaign}}
<1>1. /\ req'[t].at = "idle"
      /\ \A u \in Threads : u # t => req'[u] = req[u]
  BY DEF Moves, Idle
<1>2. \A c \in Campaigns : c # req[t].campaign =>
        (c \in Cancelling' <=> c \in Cancelling)
  BY <1>1 DEF Cancelling
<1>3. Cancelling' \subseteq Cancelling
  BY <1>1 DEF Cancelling
<1>4. Cancelling \subseteq Campaigns
  BY DEF Cancelling
<1> QED BY <1>2, <1>3, <1>4

(* Of the steps that move a request, three have to do with cancelling. *)
LEMMA MostAreAside ==
  ASSUME Base, CampaignsAssumption, [Next]_vars
  PROVE  \/ AsideFromCancelling
         \/ \E t \in Threads : SaveCancelled(t) \/ Die(t)
         \/ \E t \in Threads, c \in Campaigns : cancel(t, c)
<1> USE DEF Base
<1>1. ASSUME NEW t \in Requests, Start(t)
      PROVE  AsideFromCancelling \/ \E c \in Campaigns : cancel(t, c)
  <2>0. t \in Threads
    BY DEF Threads
  <2>1. ASSUME NEW c \in Campaigns, NEW p \in Providers, initiateCampaignPayment(t, c, p)
        PROVE  AsideFromCancelling
    <3>1. PICK r \in Request : Moves(t, r) /\ r.at = "saveRef" /\ req[t].at = "idle"
      BY <2>0, <2>1, InitiateEffect
    <3> QED BY <2>0, <3>1 DEF AsideFromCancelling
  <2>2. ASSUME NEW c \in Campaigns, verifyPayment(t, c)
        PROVE  AsideFromCancelling
    <3>1. PICK r \in Request : Moves(t, r) /\ r.at = "verify" /\ req[t].at = "idle"
      BY <2>0, <2>2, VerifyEffect
    <3> QED BY <2>0, <3>1 DEF AsideFromCancelling
  <2>3. ASSUME NEW c \in Campaigns, NEW at \in {"markPaid", "markFailed", "saveManual"},
               Open(t, On(at, c))
        PROVE  AsideFromCancelling
    <3>1. On(at, c) \in Request /\ On(at, c).at # "cancel"
      BY OnIsRequest
    <3>2. Moves(t, On(at, c)) /\ req[t].at # "cancel"
      BY <2>0, <2>3, OpenOnEffect
    <3> QED BY <2>0, <3>1, <3>2 DEF AsideFromCancelling
  <2>4. ASSUME NEW r \in Refs, handleWebhook(t, r)
        PROVE  AsideFromCancelling
    BY <2>3, <2>4, OutcomeIs DEF handleWebhook
  <2>5. ASSUME NEW c \in Campaigns, markPaidManually(t, c)
        PROVE  AsideFromCancelling
    BY <2>3, <2>5 DEF markPaidManually
  <2> QED BY <1>1, <2>1, <2>2, <2>4, <2>5 DEF Start
<1>2. ASSUME NEW t \in Threads, PaymentStep(t)
      PROVE  AsideFromCancelling
  <2>1. req[t].at # "cancel"
    BY <1>2 DEF PaymentStep, SaveRef, Verified, SaveManual, markPaid, markPaymentFailed
  <2>2. ASSUME Moves(t, Idle)  PROVE AsideFromCancelling
    BY <2>1, <2>2, IdleIsRequest DEF AsideFromCancelling, Idle
  <2>3. ASSUME NEW at \in {"markPaid", "markFailed"}, Goto(t, at)
        PROVE  AsideFromCancelling
    <3>1. Moves(t, [req[t] EXCEPT !.at = at])
      BY <2>3, GotoMoves
    <3>2. [req[t] EXCEPT !.at = at].at # "cancel"
      BY DEF TypeOK, Request
    <3>3. [req[t] EXCEPT !.at = at] \in Request
      BY <3>1 DEF Moves
    <3> QED BY <2>1, <3>1, <3>2, <3>3 DEF AsideFromCancelling
  <2>4. CASE markPaid(t)
    <3>1. PICK c \in Campaigns : c = req[t].campaign
      BY <2>4, Working DEF markPaid
    <3>2. endDate[c] \in Nat
      BY DEF TypeOK
    <3>3. /\ Write(c, endDate[c], Idle, "idle") \in Request
          /\ Write(c, endDate[c], Idle, "idle").at # "cancel"
      BY <3>2, IdleIsRequest, WriteIsRequest
    <3>4. Moves(t, Idle) \/ Moves(t, Write(c, endDate[c], Idle, "idle"))
      BY <2>4, <3>1, markPaidEffect
    <3> QED BY <2>1, <2>2, <3>3, <3>4 DEF AsideFromCancelling
  <2>5. CASE SaveRef(t) \/ markPaymentFailed(t)
    BY <2>2, <2>5, CloseMoves DEF SaveRef, markPaymentFailed
  <2>6. CASE Verified(t)
    BY <2>2, <2>3, <2>6, CloseMoves, OutcomeIs DEF Verified
  <2>7. CASE SaveManual(t)
    BY <2>3, <2>7 DEF SaveManual
  <2> QED BY <1>2, <2>4, <2>5, <2>6, <2>7 DEF PaymentStep
<1>3. ASSUME NEW t \in Threads, SweepStep(t) \/ runLifecycleSweep(t)
      PROVE  AsideFromCancelling
  <2>1. req[t].at # "cancel"
    BY <1>3 DEF SweepStep, Activate, End, SecondPass, SweepDone, runLifecycleSweep, Open
  <2>2. ASSUME NEW c \in Campaigns, Activate(t, c) \/ End(t, c)
        PROVE  AsideFromCancelling
    <3>1. PICK r \in Request : Moves(t, r) /\ r.at \in {"setSponsorship", req[t].at}
      BY <2>2, ActivateEffect, EndEffect
    <3> QED BY <2>1, <3>1 DEF AsideFromCancelling
  <2>3. CASE SweepDone(t)
    <3>1. Moves(t, Idle)
      BY <2>3, CloseMoves DEF SweepDone
    <3> QED BY <2>1, <3>1, IdleIsRequest DEF AsideFromCancelling, Idle
  <2>4. ASSUME NEW at \in {"activating", "ending"}, NEW day \in Days \cup {Never},
               NEW todo \in SUBSET Campaigns, Moves(t, Sweep(at, day, todo))
        PROVE  AsideFromCancelling
    BY <2>1, <2>4, SweepIsRequest DEF AsideFromCancelling
  <2>5. CASE SecondPass(t)
    <3>1. req[t].day \in Days \cup {Never} /\ ToEnd(req[t].day) \in SUBSET Campaigns
      BY DEF TypeOK, Request, ToEnd
    <3> QED BY <2>4, <2>5, <3>1, SecondPassEffect
  <2>6. CASE runLifecycleSweep(t)
    <3>1. today \in Days /\ ToActivate(today) \in SUBSET Campaigns
      BY DEF TypeOK, ToActivate
    <3> QED BY <2>4, <2>6, <3>1, SweepEffect
  <2> QED BY <1>3, <2>2, <2>3, <2>5, <2>6 DEF SweepStep
<1>4. ASSUME NEW t \in Threads, setSponsorship(t) \/ SponsorshipFails(t)
      PROVE  AsideFromCancelling
  <2>1. req[t].at = "setSponsorship" /\ Return(t)
    BY <1>4 DEF setSponsorship, SponsorshipFails
  <2>2. PICK r \in Request :
          /\ Moves(t, r)
          /\ \/ r = Idle
             \/ /\ r = Sweep(req[t].back, req[t].day, req[t].todo)
                /\ req[t].back \in {"activating", "ending"}
    BY <2>1, ReturnMoves
  <2>3. req[t].day \in Days \cup {Never} /\ req[t].todo \in SUBSET Campaigns
    BY DEF TypeOK, Request
  <2>4. r.at # "cancel"
    BY <2>2, <2>3, SweepIsRequest DEF Idle
  <2> QED BY <2>1, <2>2, <2>4 DEF AsideFromCancelling
<1>5. CASE Created \/ NextDay \/ (\E r \in Refs : Settle(r)) \/ UNCHANGED vars
  BY <1>5 DEF Created, create, NextDay, Settle, vars, AsideFromCancelling
<1>6. Sweepers \subseteq Threads /\ Requests \subseteq Threads
  BY DEF CampaignsAssumption, Threads
<1> QED
  BY <1>1, <1>2, <1>3, <1>4, <1>5, <1>6 DEF Next, Created, Continue

LEMMA StepFollowsLifecycle ==
  ASSUME Base, CampaignsAssumption, [Next]_vars
  PROVE  [L!LifecycleNext]_<<status, Cancelling>>
<1> USE DEF Base
<1>1. CASE AsideFromCancelling /\ ~ \E t \in Threads : SaveCancelled(t)
  <2>1. Cancelling' = Cancelling
    BY <1>1, SameCancelling
  <2>2. CASE NoEdge
    BY <2>1, <2>2 DEF NoEdge
  <2>3. CASE Created
    <3>1. PICK c \in Campaigns :
            status[c] = "none" /\ status' = [status EXCEPT ![c] = "pending_payment"]
      BY <2>3 DEF Created, create, RequestsKnow
    <3>2. L!Create(c)
      BY <2>1, <3>1 DEF L!Create, Cancelling
    <3> QED BY <3>2 DEF L!LifecycleNext
  <2>4. ASSUME NEW c \in Campaigns, NEW s \in L!Statuses, Edge(c, s)
        PROVE  L!LifecycleNext
    <3>1. /\ s # "cancelled" /\ L!canTransition(status[c], s)
          /\ status' = [status EXCEPT ![c] = s]
      BY <1>1, <2>4 DEF Edge, L!canTransition, L!AD_CAMPAIGN_TRANSITIONS, L!Statuses
    <3>2. L!Advance(c, s)
      BY <2>1, <3>1 DEF L!Advance, Cancelling
    <3> QED BY <3>2 DEF L!LifecycleNext
  <2> QED BY <2>2, <2>3, <2>4, StatusStep
<1>2. ASSUME NEW t \in Threads, NEW c \in Campaigns, cancel(t, c)
      PROVE  L!AskToCancel(c)
  <2>1. Moves(t, On("cancel", c)) /\ req[t].at = "idle"
    BY <1>2, OpenOnEffect DEF cancel
  <2>2. On("cancel", c).at = "cancel" /\ On("cancel", c).campaign = c
    BY OnIsRequest
  <2>3. \A u \in Threads : req'[u] = IF u = t THEN On("cancel", c) ELSE req[u]
    BY <2>1 DEF Moves
  <2>4. Cancelling' = Cancelling \cup {c}
    BY <2>1, <2>2, <2>3 DEF Cancelling
  <2>5. L!canTransition(status[c], "cancelled") /\ UNCHANGED status
    BY <1>2 DEF cancel, campaignVars
  <2> QED BY <2>4, <2>5 DEF L!AskToCancel, Cancelling
<1>3. ASSUME NEW t \in Threads, SaveCancelled(t)
      PROVE  \E c \in Campaigns : L!Cancel(c)
  <2>1. PICK c \in Campaigns : c = req[t].campaign
    BY <1>3, Working DEF SaveCancelled
  <2>2. req[t].at = "cancel" /\ Moves(t, Idle)
        /\ status' = [status EXCEPT ![c] = "cancelled"]
    BY <1>3, <2>1, CloseMoves DEF SaveCancelled
  <2>3. c \in Cancelling
    BY <2>1, <2>2 DEF Cancelling
  <2>4. Cancelling' \in {Cancelling, Cancelling \ {c}}
    BY <2>1, <2>2, OneLessCancelling
  <2> QED BY <2>2, <2>3, <2>4 DEF L!Cancel, Cancelling
<1>4. ASSUME NEW t \in Threads, Die(t)
      PROVE  [L!LifecycleNext]_<<status, Cancelling>>
  <2>1. Moves(t, Idle) /\ UNCHANGED status
    BY <1>4, CloseMoves DEF Die, campaignVars
  <2>2. CASE req[t].at # "cancel"
    <3>1. Cancelling' = Cancelling
      BY <2>1, <2>2, IdleIsRequest, SameCancelling DEF AsideFromCancelling, Idle
    <3> QED BY <2>1, <3>1
  <2>3. CASE req[t].at = "cancel"
    <3>1. PICK c \in Campaigns : c = req[t].campaign
      BY <2>3, Working
    <3>2. Cancelling' \in {Cancelling, Cancelling \ {c}}
      BY <2>1, <2>3, <3>1, OneLessCancelling
    <3>3. CASE Cancelling' = Cancelling
      BY <2>1, <3>3
    <3>4. CASE Cancelling' = Cancelling \ {c}
      <4>1. L!ForgetCancel(c)
        BY <2>1, <3>4 DEF L!ForgetCancel, Cancelling
      <4> QED BY <4>1 DEF L!LifecycleNext
    <3> QED BY <3>2, <3>3, <3>4
  <2> QED BY <2>2, <2>3
<1> QED
  BY <1>1, <1>2, <1>3, <1>4, MostAreAside DEF L!LifecycleNext

(* Whatever webhooks, administrators, sweeps, restarts and failed writes    *)
(* race, a campaign's status moves along AD_CAMPAIGN_TRANSITIONS, except    *)
(* for cancellations that were allowed when they were asked for.            *)
THEOREM ImplementsLifecycle == Spec => FollowsLifecycle
<1>1. Init => L!LifecycleInit
  <2> SUFFICES ASSUME Init PROVE L!LifecycleInit
    OBVIOUS
  <2>1. Cancelling = {}
    BY DEF Init, Idle, Cancelling
  <2> QED BY <2>1 DEF Init, L!LifecycleInit, Cancelling
<1>2. IInv /\ [Next]_vars
        => [L!LifecycleNext]_<<status, Cancelling>>
  BY StepFollowsLifecycle, CampaignsAssumption DEF IInv, Base
<1>3. QED
  BY <1>1, <1>2, Invariance, PTL
     DEF Spec, FollowsLifecycle, L!LifecycleSpec, Cancelling
=============================================================================
