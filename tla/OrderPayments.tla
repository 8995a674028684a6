---------------------------- MODULE OrderPayments ----------------------------
(***************************************************************************)
(* Paying for one order and giving the money back                          *)
(* (backend/src/payments/payments.service.ts and the payment half of       *)
(* backend/src/orders/orders.service.ts).                                  *)
(*                                                                         *)
(* Requests interleave at their awaits: what a handler has read stays in   *)
(* `req' until the step that uses it.  The payment providers are external: *)
(* they hold the checkout sessions, charge and reverse them, and send      *)
(* webhooks that arrive in any order, late, and more than once.            *)
(***************************************************************************)
EXTENDS OrderStateMachine

CONSTANTS
  Providers,       \* payment providers that support the order's currency
  Sessions,        \* checkout sessions the providers can create
  ProviderOf,      \* ProviderOf[s]: the provider that session s belongs to
  Requests,        \* HTTP requests the server can be handling at the same time
  MayDie,          \* TRUE: a request may be cut off between two steps
  OneResolver,     \* TRUE: only one reconciliation request is open at a time
  OutsideRefunds,  \* statuses of orders that are refunded in a dashboard
  NoSession, NoEvent

ASSUME ConstantsAssumption ==
  /\ Providers # {}
  /\ ProviderOf \in [Sessions -> Providers]
  /\ MayDie \in BOOLEAN
  /\ OneResolver \in BOOLEAN
  /\ OutsideRefunds \subseteq OrderStatuses
  /\ NoSession \notin Sessions

VARIABLES
  (* the order document *)
  status, paymentStatus,
  paymentProvider, paymentRef, paymentRefs,   \* the latest, and every reference
  refundReconciliationRequired,
  (* the requests, and what only the administrator knows *)
  req,         \* open requests, with what each of them has read
  unknown,     \* a refund call had no answer and no one has looked it up since
  (* the providers *)
  charge,      \* charge[s]: what has become of session s
  webhooks     \* events the providers have sent and may send again

orderVars    == <<status, paymentStatus, paymentProvider, paymentRef, paymentRefs,
                  refundReconciliationRequired>>
providerVars == <<charge, webhooks>>
vars         == <<orderVars, req, unknown, providerVars>>

PAYMENT_STATUSES == {"pending", "succeeded", "failed", "refunded"}

(* The statuses that matter here: the kitchen and the riders move an order  *)
(* on from PLACED (module OrderFulfilment).                                 *)
PaymentStage ==
  {"PENDING_PAYMENT", "PLACED", "DELIVERED", "CANCELLED", "REFUNDED"}

SessionOrNone == Sessions \cup {NoSession}

WebhookEvent == [name : {"paid", "declined", "refunded"}, session : Sessions]

Request ==
  [kind : {"idle",
           "setPaymentRef",                               \* initiatePayment
           "verify", "markPaid", "markFailed", "saveFailed",  \* confirmation
           "claim", "reverse", "finalize", "revert", "flag",  \* refundOrder
           "claimKnown",                                  \* handleRefundWebhook
           "resolveTrue", "resolveFalse"},                \* reconciliation
   event    : WebhookEvent \cup {NoEvent},  \* the webhook being answered
   session  : SessionOrNone,                \* the reference that was read
   provider : Providers,                    \* the paymentProvider that was read
   from     : REFUNDABLE_STATUSES \cup {"none"}]  \* the status claimed from

Idle == [kind |-> "idle", event |-> NoEvent, session |-> NoSession,
         provider |-> CHOOSE p \in Providers : TRUE, from |-> "none"]

TypeOK ==
  /\ status \in PaymentStage
  /\ paymentStatus \in PAYMENT_STATUSES
  /\ paymentProvider \in Providers
  /\ paymentRef \in SessionOrNone
  /\ paymentRefs \in SUBSET Sessions
  /\ refundReconciliationRequired \in BOOLEAN
  /\ req \in [Requests -> Request]
  /\ unknown \in BOOLEAN
  /\ charge \in [Sessions -> {"unused", "created", "open", "paid", "reversed"}]
  /\ webhooks \in SUBSET WebhookEvent

Init ==
  /\ status = "PENDING_PAYMENT"
  /\ paymentStatus = "pending"
  /\ paymentProvider \in Providers     \* the resolver's default for the currency
  /\ paymentRef = NoSession
  /\ paymentRefs = {}
  /\ refundReconciliationRequired = FALSE
  /\ req = [t \in Requests |-> Idle]
  /\ unknown = FALSE
  /\ charge = [s \in Sessions |-> "unused"]
  /\ webhooks = {}

-----------------------------------------------------------------------------
(* Requests *)

Open(t, kind, event, session) ==
  /\ req[t].kind = "idle"
  /\ req' = [req EXCEPT ![t] =
       [kind |-> kind, event |-> event, session |-> session,
        provider |-> paymentProvider, from |-> "none"]]

(* Request t goes on to another step, having claimed the order from `from'. *)
Goto(t, kind, from) ==
  req' = [req EXCEPT ![t] =
    [kind |-> kind, event |-> req[t].event, session |-> req[t].session,
     provider |-> req[t].provider, from |-> from]]

(* The response goes out.  A provider that sees its webhook answered may    *)
(* stop sending it, or deliver it once more.                                *)
Answered(event) ==
  \/ UNCHANGED webhooks
  \/ webhooks' = webhooks \ {event}

Close(t) ==
  /\ req' = [req EXCEPT ![t] = Idle]
  /\ Answered(req[t].event)

(* A restart or a database error cuts request t off: nothing is rolled back *)
(* and no webhook is answered.                                              *)
Die(t) ==
  /\ MayDie
  /\ req[t].kind # "idle"
  /\ req' = [req EXCEPT ![t] = Idle]
  /\ UNCHANGED <<orderVars, unknown, providerVars>>

-----------------------------------------------------------------------------
(* Checkout *)

(* initiatePayment up to the answer of adapter.initiate, which creates the  *)
(* session; the customer gets its URL only after setPaymentRef.             *)
initiatePayment(t, s) ==
  /\ status = "PENDING_PAYMENT"
  /\ charge[s] = "unused"
  /\ charge' = [charge EXCEPT ![s] = "created"]
  /\ Open(t, "setPaymentRef", NoEvent, s)
  /\ UNCHANGED <<orderVars, unknown, webhooks>>

(* save() on the document as it was read: paymentRefs is pushed to, and     *)
(* paymentProvider written only if it differs from the one read.            *)
setPaymentRef(t) ==
  LET s == req[t].session IN
  /\ req[t].kind = "setPaymentRef"
  /\ paymentRef' = s
  /\ paymentRefs' = paymentRefs \cup {s}
  /\ paymentProvider' = IF ProviderOf[s] # req[t].provider THEN ProviderOf[s]
                        ELSE paymentProvider
  /\ charge' = [charge EXCEPT ![s] = "open"]
  /\ Close(t)
  /\ UNCHANGED <<status, paymentStatus, refundReconciliationRequired, unknown>>

(* The customer at the provider's checkout page (external). *)
Pay(s) ==
  /\ charge[s] = "open"
  /\ charge' = [charge EXCEPT ![s] = "paid"]
  /\ webhooks' = webhooks \cup {[name |-> "paid", session |-> s]}
  /\ UNCHANGED <<orderVars, req, unknown>>

Decline(s) ==
  /\ charge[s] = "open"
  /\ webhooks' = webhooks \cup {[name |-> "declined", session |-> s]}
  /\ UNCHANGED <<orderVars, req, unknown, charge>>

(* Mutant: only the latest reference is looked up (before FDP-65). *)
AcceptsLatestOnly(e) ==
  /\ e.session = paymentRef
  /\ paymentProvider = ProviderOf[e.session]

(* findByPaymentRef, and the check that the provider is the order's own. *)
Accepts(e) ==
  /\ e.session \in paymentRefs \cup {paymentRef}
  /\ paymentProvider = ProviderOf[e.session]

handleWebhook(t, e) ==
  /\ e \in webhooks
  /\ \/ /\ e.name = "paid" /\ Accepts(e)
        /\ Open(t, "markPaid", e, e.session)
        /\ UNCHANGED webhooks
     \/ /\ e.name = "declined" /\ Accepts(e)
        /\ Open(t, "markFailed", e, e.session)
        /\ UNCHANGED webhooks
     \/ /\ e.name # "refunded" /\ ~ Accepts(e)
        /\ Answered(e)
        /\ UNCHANGED req
  /\ UNCHANGED <<orderVars, unknown, charge>>

(* verifyPayment asks the provider about the reference it read. *)
verifyPayment(t) ==
  /\ status = "PENDING_PAYMENT"
  /\ paymentRef # NoSession
  /\ Open(t, "verify", NoEvent, paymentRef)
  /\ UNCHANGED <<orderVars, unknown, providerVars>>

(* Mutant: any session the provider knows counts as paid. *)
SaysExisting(s) == charge[s] # "unused"

(* What adapter.verify answers; a reversed charge was a paid one. *)
SaysPaid(s) == charge[s] \in {"paid", "reversed"}

(* A provider error, which is all that another provider's reference gives,  *)
(* leaves the order as it is.                                               *)
VerifyAnswered(t) ==
  LET s == req[t].session IN
  /\ req[t].kind = "verify"
  /\ \/ Close(t)
     \/ /\ ProviderOf[s] = req[t].provider
        /\ Goto(t, IF SaysPaid(s) THEN "markPaid" ELSE "markFailed", "none")
        /\ UNCHANGED webhooks
  /\ UNCHANGED <<orderVars, unknown, charge>>

markPaidFromWebhook(t) ==
  /\ req[t].kind = "markPaid"
  /\ IF status = "PENDING_PAYMENT"
     THEN status' = "PLACED" /\ paymentStatus' = "succeeded"
     ELSE UNCHANGED <<status, paymentStatus>>
  /\ Close(t)
  /\ UNCHANGED <<paymentProvider, paymentRef, paymentRefs,
                 refundReconciliationRequired, unknown, charge>>

(* Mutant: a refunded payment can be marked failed (before FDP-65). *)
CanFailUnlessSucceeded == paymentStatus \in {"pending", "refunded"}

CanFail == paymentStatus = "pending"

(* markPaymentFailed: the read with its check, and the save.  A value that  *)
(* was read as "failed" is not modified and so not written.                 *)
markPaymentFailed(t) ==
  /\ req[t].kind = "markFailed"
  /\ IF CanFail
     THEN Goto(t, "saveFailed", "none") /\ UNCHANGED webhooks
     ELSE Close(t)
  /\ UNCHANGED <<orderVars, unknown, charge>>

SaveFailed(t) ==
  /\ req[t].kind = "saveFailed"
  /\ paymentStatus' = "failed"
  /\ Close(t)
  /\ UNCHANGED <<status, paymentProvider, paymentRef, paymentRefs,
                 refundReconciliationRequired, unknown, charge>>

(* The kitchen and the riders (module OrderFulfilment). *)
Fulfil ==
  /\ status = "PLACED"
  /\ status' \in {"DELIVERED", "CANCELLED"}
  /\ UNCHANGED <<paymentStatus, paymentProvider, paymentRef, paymentRefs,
                 refundReconciliationRequired, req, unknown, providerVars>>

-----------------------------------------------------------------------------
(* Refunds *)

(* Mutants: the claim's filter forgets the status, or the flag. *)
RefundableWhateverStatus ==
  paymentStatus = "succeeded" /\ ~ refundReconciliationRequired

RefundableThoughFlagged ==
  status \in REFUNDABLE_STATUSES /\ paymentStatus = "succeeded"

Refundable == /\ status \in REFUNDABLE_STATUSES
              /\ paymentStatus = "succeeded"
              /\ ~ refundReconciliationRequired

refundOrder(t) ==
  /\ Refundable
  /\ paymentRef # NoSession
  /\ Open(t, "claim", NoEvent, paymentRef)
  /\ UNCHANGED <<orderVars, unknown, providerVars>>

(* One findOneAndUpdate: the filter is evaluated again, whatever was read.  *)
claimForRefund(t) ==
  /\ req[t].kind \in {"claim", "claimKnown"}
  /\ IF Refundable
     THEN /\ status' = "REFUNDED"
          /\ Goto(t, IF req[t].kind = "claim" THEN "reverse" ELSE "finalize",
                  status)
          /\ UNCHANGED webhooks
     ELSE UNCHANGED status /\ Close(t)
  /\ UNCHANGED <<paymentStatus, paymentProvider, paymentRef, paymentRefs,
                 refundReconciliationRequired, unknown, charge>>

(* The provider reverses the charge (external). *)
Reversed(s) ==
  /\ charge' = [charge EXCEPT ![s] = "reversed"]
  /\ webhooks' = webhooks \cup {[name |-> "refunded", session |-> s]}

Reversible(t) ==
  charge[req[t].session] = "paid" /\ ProviderOf[req[t].session] = req[t].provider

(* Mutant: a rejected refund is taken for a success (Paystack before FDP-65). *)
AnyAnswer(t) == TRUE

(* A repeated call, answered as the first one was. *)
AnsweredAsBefore(t) ==
  /\ charge[req[t].session] = "reversed"
  /\ ProviderOf[req[t].session] = req[t].provider

(* adapter.refund succeeds, is rejected, or ends in a                       *)
(* RefundOutcomeUnknownError with or without the money having moved.  A     *)
(* repeated call is rejected, or answered as the first one was where the    *)
(* provider keeps an idempotency key.                                       *)
AdapterRefund(t) ==
  LET s == req[t].session IN
  /\ req[t].kind = "reverse"
  /\ \/ /\ Goto(t, "finalize", req[t].from)
        /\ \/ Reversible(t) /\ Reversed(s)
           \/ AnsweredAsBefore(t) /\ UNCHANGED providerVars
        /\ UNCHANGED unknown
     \/ /\ Goto(t, "revert", req[t].from)
        /\ UNCHANGED <<unknown, providerVars>>
     \/ /\ Goto(t, "flag", req[t].from)
        /\ unknown' = TRUE
        /\ \/ Reversible(t) /\ Reversed(s)
           \/ UNCHANGED providerVars
  /\ UNCHANGED orderVars

finalizeRefund(t) ==
  /\ req[t].kind = "finalize"
  /\ paymentStatus' = "refunded"
  /\ Close(t)
  /\ UNCHANGED <<status, paymentProvider, paymentRef, paymentRefs,
                 refundReconciliationRequired, unknown, charge>>

(* Mutant: the filter expects the status the claim found. *)
BackAlready == status \in REFUNDABLE_STATUSES /\ paymentStatus = "succeeded"

(* Both of these update only an order whose claim has not been finalized. *)
StillClaimed == status = "REFUNDED" /\ paymentStatus = "succeeded"

revertFailedRefundClaim(t) ==
  /\ req[t].kind = "revert"
  /\ status' = IF StillClaimed THEN req[t].from ELSE status
  /\ Close(t)
  /\ UNCHANGED <<paymentStatus, paymentProvider, paymentRef, paymentRefs,
                 refundReconciliationRequired, unknown, charge>>

flagAmbiguousRefund(t) ==
  /\ req[t].kind = "flag"
  /\ IF StillClaimed
     THEN status' = req[t].from /\ refundReconciliationRequired' = TRUE
     ELSE UNCHANGED <<status, refundReconciliationRequired>>
  /\ Close(t)
  /\ UNCHANGED <<paymentStatus, paymentProvider, paymentRef, paymentRefs,
                 unknown, charge>>

(* A support agent refunds in the provider's dashboard (external). *)
RefundOutside(s) ==
  /\ charge[s] = "paid"
  /\ status \in OutsideRefunds
  /\ Reversed(s)
  /\ UNCHANGED <<orderVars, req, unknown>>

handleRefundWebhook(t, e) ==
  /\ e \in webhooks
  /\ e.name = "refunded"
  /\ IF Accepts(e) /\ status # "REFUNDED"
     THEN Open(t, "claimKnown", e, e.session) /\ UNCHANGED webhooks
     ELSE Answered(e) /\ UNCHANGED req
  /\ UNCHANGED <<orderVars, unknown, charge>>

(* resolveRefundReconciliation: the administrator looks the refund up, and  *)
(* answers truthfully.  True is one findOneAndUpdate and finalizeRefund;    *)
(* false is a save() of the document as it was read.                        *)
resolveRefundReconciliation(t) ==
  /\ refundReconciliationRequired
  /\ OneResolver => \A u \in Requests :
       req[u].kind \notin {"resolveTrue", "resolveFalse"}
  /\ unknown' = FALSE
  /\ Open(t, IF \E s \in paymentRefs : charge[s] = "reversed"
             THEN "resolveTrue" ELSE "resolveFalse", NoEvent, NoSession)
  /\ UNCHANGED <<orderVars, providerVars>>

ResolveTrue(t) ==
  /\ req[t].kind = "resolveTrue"
  /\ IF refundReconciliationRequired
     THEN /\ status' = "REFUNDED"
          /\ refundReconciliationRequired' = FALSE
          /\ Goto(t, "finalize", "none")
          /\ UNCHANGED webhooks
     ELSE UNCHANGED <<status, refundReconciliationRequired>> /\ Close(t)
  /\ UNCHANGED <<paymentStatus, paymentProvider, paymentRef, paymentRefs,
                 unknown, charge>>

ResolveFalse(t) ==
  /\ req[t].kind = "resolveFalse"
  /\ refundReconciliationRequired' = FALSE
  /\ Close(t)
  /\ UNCHANGED <<status, paymentStatus, paymentProvider, paymentRef, paymentRefs,
                 unknown, charge>>

-----------------------------------------------------------------------------
Arrive(t) ==
  \/ \E s \in Sessions : initiatePayment(t, s)
  \/ \E e \in webhooks : handleWebhook(t, e) \/ handleRefundWebhook(t, e)
  \/ verifyPayment(t) \/ refundOrder(t) \/ resolveRefundReconciliation(t)

Proceed(t) ==
  \/ setPaymentRef(t)     \/ VerifyAnswered(t)   \/ markPaidFromWebhook(t)
  \/ markPaymentFailed(t) \/ SaveFailed(t)
  \/ claimForRefund(t)    \/ AdapterRefund(t)    \/ finalizeRefund(t)
  \/ revertFailedRefundClaim(t) \/ flagAmbiguousRefund(t)
  \/ ResolveTrue(t)       \/ ResolveFalse(t)

Outside == \E s \in Sessions : Pay(s) \/ Decline(s) \/ RefundOutside(s)

Next ==
  \/ \E t \in Requests : Arrive(t) \/ Proceed(t) \/ Die(t)
  \/ Fulfil
  \/ Outside

Spec == Init /\ [][Next]_vars

(* A request the server has started runs to its end, and a provider goes on *)
(* sending a webhook until the server has answered it.                      *)
FairSpec ==
  /\ Spec
  /\ \A t \in Requests : WF_vars(Proceed(t))
  /\ \A e \in WebhookEvent : SF_vars(\E t \in Requests : handleWebhook(t, e))

-----------------------------------------------------------------------------
(* Properties that hold however the requests interleave *)

(* No order leaves PENDING_PAYMENT unless the customer has been charged for *)
(* it, on one of the sessions this order was given.                         *)
PlacedMeansCharged ==
  status # "PENDING_PAYMENT" =>
    \E s \in paymentRefs : charge[s] \in {"paid", "reversed"}

(* An order shown as refunded has had a charge reversed, and stays out of   *)
(* the hands of the kitchen and of every other refund.                      *)
RefundedMeansReversed ==
  paymentStatus = "refunded" =>
    /\ status = "REFUNDED"
    /\ \E s \in paymentRefs : charge[s] = "reversed"

(* Of two refunds of one order (a double click, a retry, a webhook against  *)
(* an administrator) one at most is past its claim.                         *)
HasClaim(t) == req[t].kind \in {"reverse", "finalize", "revert", "flag"}

ClaimIsExclusive == \A t, u \in Requests :
  HasClaim(t) /\ HasClaim(u) => t = u

(* While a refund has the order claimed, the order says so: no path takes   *)
(* it back from under the claim.                                            *)
ClaimHoldsTheOrder == \A t \in Requests :
  HasClaim(t) => status = "REFUNDED"

(* The claim is a lock: it is held by one refund, and holds the order.       *)
ClaimIsALock == ClaimIsExclusive /\ ClaimHoldsTheOrder

(* The provider is never asked to refund again while the outcome of an      *)
(* earlier call is unknown and no administrator has looked it up.           *)
NoBlindRetry == [][\A t \in Requests : AdapterRefund(t) => ~ unknown]_vars

FailuresInFlight == {t \in Requests : req[t].kind = "saveFailed"}

(* From the moment the order is placed, through refunds, their reversals    *)
(* and restarts, no report of a declined attempt passes the check of        *)
(* markPaymentFailed, however late or often it comes.  The payment can be   *)
(* written over only by the reports that passed it before and were not yet  *)
(* saved, and each of them saves once.                                      *)
OnlyOvertakenFailuresDowngrade ==
  [][status # "PENDING_PAYMENT" =>
       /\ FailuresInFlight' \subseteq FailuresInFlight
       /\ paymentStatus' = "failed" /\ paymentStatus # "failed"
            => FailuresInFlight' # FailuresInFlight]_vars

MidClaim == status = "REFUNDED" /\ paymentStatus = "succeeded"

(* An order left mid-claim is always in the hands of a request that will    *)
(* finalize it, revert it or flag it for an administrator.                  *)
ClaimIsWatched == MidClaim => \E t \in Requests : HasClaim(t)

(* A customer who has paid gets the order placed. *)
PaidOrderIsPlaced == \A s \in Sessions :
  charge[s] = "paid" ~> status # "PENDING_PAYMENT"

(* A refund that claimed an order is decided: the order does not stay       *)
(* REFUNDED with its payment still standing.                                *)
RefundIsDecided == MidClaim ~> ~ MidClaim

(* Promises of the source that its interleavings break; see the README  *)

(* Never downgrade a payment that another webhook already resolved as final *)
(* (markPaymentFailed, orders.service.ts).                                  *)
NeverDowngraded ==
  [][paymentStatus' = "failed"
       => paymentStatus \notin {"succeeded", "refunded"}]_vars

(* The reference an order keeps, and that a refund will reverse, is of a    *)
(* session the customer has paid.                                           *)
RefundTargetsTheCharge ==
  status # "PENDING_PAYMENT" => charge[paymentRef] \in {"paid", "reversed"}

(* When every charge of a delivered or cancelled order has been reversed    *)
(* and the providers have nothing more to say, the order shows it.          *)
NoRefundForgotten ==
  /\ status \in REFUNDABLE_STATUSES
  /\ \A t \in Requests : req[t].kind = "idle"
  /\ \A e \in webhooks : e.name # "refunded"
  /\ \E s \in paymentRefs : charge[s] = "reversed"
  /\ \A s \in paymentRefs : charge[s] # "paid"
  => refundReconciliationRequired
=============================================================================
