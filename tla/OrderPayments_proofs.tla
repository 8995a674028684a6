------------------------- MODULE OrderPayments_proofs -------------------------
(***************************************************************************)
(* Theorems about OrderPayments for any number of sessions, providers and  *)
(* concurrent requests.                                                    *)
(*                                                                         *)
(* ClaimInv says that a refund's claim is a lock: the request that moved   *)
(* the order to REFUNDED is the only one allowed to move it away.  MoneyInv*)
(* follows the evidence each request carries (a session it saw charged, a  *)
(* charge it saw reversed).  RetryInv follows a refund call whose outcome  *)
(* is unknown until an administrator has looked it up.  PendingInv says    *)
(* that a payment is pending only as long as the order waits for it.       *)
(***************************************************************************)
EXTENDS OrderPayments, TLAPS

-----------------------------------------------------------------------------
(* Types *)

LEMMA Facts ==
  /\ Idle \in Request
  /\ Idle.kind = "idle"
  /\ ProviderOf \in [Sessions -> Providers]
  /\ NoSession \notin Sessions
<1>1. (CHOOSE p \in Providers : TRUE) \in Providers
  BY ConstantsAssumption
<1>2. QED
  BY <1>1, ConstantsAssumption DEF Idle, Request, SessionOrNone

LEMMA TypeInit == Init => TypeOK
  BY Facts DEF Init, TypeOK, PaymentStage, PAYMENT_STATUSES, SessionOrNone

(* A refund that is past its claim remembers where it claimed the order     *)
(* from, or is about to finalize.                                           *)
ClaimedFrom(t) ==
  req[t].kind \in {"reverse", "revert", "flag"} => req[t].from # "none"

(* A request that answers a webhook or acts on a session has one.           *)
HasSession(t) ==
  /\ req[t].kind \in {"setPaymentRef", "verify", "markPaid", "markFailed",
                      "saveFailed", "claim", "reverse"}
       => req[t].session \in Sessions
  /\ req[t].event \in WebhookEvent \cup {NoEvent}

RequestInv ==
  /\ TypeOK
  /\ \A t \in Requests : ClaimedFrom(t) /\ HasSession(t)

LEMMA RequestInit == Init => RequestInv
  BY TypeInit, Facts DEF Init, RequestInv, ClaimedFrom, HasSession, Idle

LEMMA RequestStep ==
  ASSUME RequestInv, [Next]_vars PROVE RequestInv'
<1> USE Facts
<1> USE DEF RequestInv, TypeOK, ClaimedFrom, HasSession, Request, WebhookEvent,
            SessionOrNone
<1>1. ASSUME NEW t \in Requests, Arrive(t) PROVE RequestInv'
  <2>1. ASSUME NEW s \in Sessions, initiatePayment(t, s) PROVE RequestInv'
    BY <2>1 DEF initiatePayment, Open, orderVars
  <2>2. ASSUME NEW e \in webhooks, handleWebhook(t, e) PROVE RequestInv'
    BY <2>2 DEF handleWebhook, Open, Answered, orderVars
  <2>3. ASSUME NEW e \in webhooks, handleRefundWebhook(t, e) PROVE RequestInv'
    BY <2>3 DEF handleRefundWebhook, Open, Answered, orderVars
  <2>4. CASE verifyPayment(t) \/ refundOrder(t)
    BY <2>4 DEF verifyPayment, refundOrder, Open, orderVars, providerVars
  <2>5. CASE resolveRefundReconciliation(t)
    BY <2>5 DEF resolveRefundReconciliation, Open, orderVars, providerVars
  <2>6. QED
    BY <1>1, <2>1, <2>2, <2>3, <2>4, <2>5 DEF Arrive
<1>2. ASSUME NEW t \in Requests, Proceed(t) PROVE RequestInv'
  <2>1. CASE setPaymentRef(t)
    BY <2>1 DEF setPaymentRef, Close, Answered, Idle
  <2>2. CASE VerifyAnswered(t)
    BY <2>2 DEF VerifyAnswered, Close, Answered, Goto, Idle, orderVars
  <2>3. CASE markPaidFromWebhook(t)
    BY <2>3 DEF markPaidFromWebhook, Close, Answered, Idle, PaymentStage,
       PAYMENT_STATUSES
  <2>4. CASE markPaymentFailed(t)
    BY <2>4 DEF markPaymentFailed, Close, Answered, Goto, Idle, orderVars
  <2>5. CASE SaveFailed(t)
    BY <2>5 DEF SaveFailed, Close, Answered, Idle, PAYMENT_STATUSES
  <2>6. CASE claimForRefund(t)
    BY <2>6 DEF claimForRefund, Close, Answered, Goto, Idle, PaymentStage,
       Refundable
  <2>7. CASE AdapterRefund(t)
    <3>1. req[t].session \in Sessions /\ req[t].from # "none"
      BY <2>7 DEF AdapterRefund
    <3>2. /\ charge' \in [Sessions -> {"unused", "created", "open", "paid",
                                      "reversed"}]
          /\ webhooks' \in SUBSET WebhookEvent
      <4>1. CASE Reversed(req[t].session)
        BY <3>1, <4>1 DEF Reversed
      <4>2. CASE UNCHANGED providerVars
        BY <4>2 DEF providerVars
      <4>3. QED
        BY <2>7, <4>1, <4>2 DEF AdapterRefund, providerVars
    <3>6. unknown' \in BOOLEAN
      BY <2>7 DEF AdapterRefund
    <3>3. \E kind \in {"finalize", "revert", "flag"} : Goto(t, kind, req[t].from)
      BY <2>7 DEF AdapterRefund
    <3>4. UNCHANGED orderVars
      BY <2>7 DEF AdapterRefund
    <3>5. QED
      BY <3>1, <3>2, <3>3, <3>4, <3>6 DEF Goto, orderVars
  <2>8. CASE finalizeRefund(t)
    BY <2>8 DEF finalizeRefund, Close, Answered, Idle, PAYMENT_STATUSES
  <2>9. CASE revertFailedRefundClaim(t)
    BY <2>9 DEF revertFailedRefundClaim, Close, Answered, Idle, PaymentStage,
       REFUNDABLE_STATUSES
  <2>10. CASE flagAmbiguousRefund(t)
    BY <2>10 DEF flagAmbiguousRefund, StillClaimed, Close, Answered, Idle,
       PaymentStage, REFUNDABLE_STATUSES
  <2>11. CASE ResolveTrue(t)
    <3>1. CASE refundReconciliationRequired
      <4>1. refundReconciliationRequired' \in BOOLEAN
        BY <2>11, <3>1 DEF ResolveTrue
      <4>2. /\ status' = "REFUNDED"
            /\ Goto(t, "finalize", "none")
            /\ UNCHANGED <<webhooks, paymentStatus, paymentProvider, paymentRef,
                           paymentRefs, unknown, charge>>
        BY <2>11, <3>1 DEF ResolveTrue
      <4>3. QED
        BY <4>1, <4>2 DEF Goto, PaymentStage
    <3>2. CASE ~ refundReconciliationRequired
      BY <2>11, <3>2 DEF ResolveTrue, Close, Answered, Idle
    <3>3. QED
      BY <3>1, <3>2
  <2>12. CASE ResolveFalse(t)
    BY <2>12 DEF ResolveFalse, Close, Answered, Idle
  <2>13. QED
    BY <1>2, <2>1, <2>2, <2>3, <2>4, <2>5, <2>6, <2>7, <2>8, <2>9, <2>10,
       <2>11, <2>12 DEF Proceed
<1>3. ASSUME NEW t \in Requests, Die(t) PROVE RequestInv'
  BY <1>3 DEF Die, Idle, orderVars, providerVars
<1>4. CASE Fulfil
  BY <1>4 DEF Fulfil, PaymentStage, providerVars
<1>5. CASE Outside
  BY <1>5 DEF Outside, Pay, Decline, RefundOutside, Reversed, orderVars
<1>6. CASE UNCHANGED vars
  BY <1>6 DEF vars, orderVars, providerVars
<1>7. QED
  BY <1>1, <1>2, <1>3, <1>4, <1>5, <1>6 DEF Next

(* Every variable keeps its type. *)
THEOREM TypeCorrect == Spec => []TypeOK
<1>1. RequestInv => TypeOK
  BY DEF RequestInv
<1>2. RequestInv /\ [Next]_vars => RequestInv'
  BY RequestStep
<1>3. QED
  BY <1>1, <1>2, RequestInit, PTL DEF Spec
-----------------------------------------------------------------------------
(* The claim of a refund is a lock *)

ClaimInv ==
  /\ RequestInv
  /\ ClaimIsExclusive
  /\ ClaimHoldsTheOrder
  /\ refundReconciliationRequired => status \in REFUNDABLE_STATUSES
  /\ paymentStatus = "refunded" => status = "REFUNDED"

LEMMA ClaimInit == Init => ClaimInv
  BY RequestInit, Facts DEF Init, ClaimInv, ClaimIsExclusive,
     ClaimHoldsTheOrder, HasClaim

(* A step that gives no request the claim and leaves the status alone.      *)
LEMMA NoClaimTaken ==
  ASSUME ClaimInv, RequestInv',
         UNCHANGED <<status, refundReconciliationRequired>>,
         paymentStatus' \in {paymentStatus, "failed"},
         \A u \in Requests : HasClaim(u)' => HasClaim(u)
  PROVE  ClaimInv'
  BY DEF ClaimInv, ClaimIsExclusive, ClaimHoldsTheOrder

(* A request that is not past its claim closes, dies or goes on.            *)
LEMMA KeepsNoClaim ==
  ASSUME RequestInv, NEW t \in Requests,
         \/ req' = [req EXCEPT ![t] = Idle]
         \/ UNCHANGED req
         \/ \E kind, from : /\ kind \notin {"reverse", "finalize", "revert", "flag"}
                            /\ Goto(t, kind, from)
         \/ \E kind, e, s : /\ kind \notin {"reverse", "finalize", "revert", "flag"}
                            /\ Open(t, kind, e, s)
  PROVE  \A u \in Requests : HasClaim(u)' => HasClaim(u)
  BY Facts DEF RequestInv, TypeOK, HasClaim, Goto, Open

(* The request that has the claim gives it up, and puts the status where it *)
(* likes: no other request depends on it.                                   *)
LEMMA ClaimGivenUp ==
  ASSUME ClaimInv, RequestInv', NEW t \in Requests, HasClaim(t),
         req' = [req EXCEPT ![t] = Idle],
         refundReconciliationRequired' => status' \in REFUNDABLE_STATUSES,
         paymentStatus' = "refunded" => status' = "REFUNDED"
  PROVE  ClaimInv'
<1>1. \A u \in Requests : ~ HasClaim(u)'
  BY Facts DEF ClaimInv, RequestInv, TypeOK, ClaimIsExclusive, HasClaim
<1>2. QED
  BY <1>1 DEF ClaimInv, ClaimIsExclusive, ClaimHoldsTheOrder

LEMMA ClaimStep == ASSUME ClaimInv, [Next]_vars PROVE ClaimInv'
<1> USE Facts
<1>0. RequestInv /\ TypeOK /\ RequestInv'
  BY RequestStep DEF ClaimInv, RequestInv
<1>1. ASSUME NEW t \in Requests, Arrive(t) PROVE ClaimInv'
  <2>1. \A u \in Requests : HasClaim(u)' => HasClaim(u)
    <3>1. ASSUME NEW s \in Sessions, initiatePayment(t, s)
          PROVE  Open(t, "setPaymentRef", NoEvent, s)
      BY <3>1 DEF initiatePayment
    <3>2. ASSUME NEW e \in webhooks, handleWebhook(t, e)
          PROVE  \/ Open(t, "markPaid", e, e.session)
                 \/ Open(t, "markFailed", e, e.session)
                 \/ UNCHANGED req
      BY <3>2 DEF handleWebhook
    <3>3. ASSUME NEW e \in webhooks, handleRefundWebhook(t, e)
          PROVE  Open(t, "claimKnown", e, e.session) \/ UNCHANGED req
      BY <3>3 DEF handleRefundWebhook
    <3>4. CASE verifyPayment(t) \/ refundOrder(t)
                \/ resolveRefundReconciliation(t)
      BY <1>0, <3>4, KeepsNoClaim DEF verifyPayment, refundOrder,
         resolveRefundReconciliation
    <3>5. QED
      BY <1>0, <1>1, <3>1, <3>2, <3>3, <3>4, KeepsNoClaim DEF Arrive
  <2>2. UNCHANGED <<status, refundReconciliationRequired, paymentStatus>>
    BY <1>1 DEF Arrive, initiatePayment, handleWebhook, handleRefundWebhook,
       verifyPayment, refundOrder, resolveRefundReconciliation, orderVars
  <2>3. QED
    BY <1>0, <2>1, <2>2, NoClaimTaken
<1>2. ASSUME NEW t \in Requests, Proceed(t) PROVE ClaimInv'
  <2>1. CASE setPaymentRef(t) \/ VerifyAnswered(t) \/ markPaymentFailed(t)
              \/ SaveFailed(t)
    <3>1. \A u \in Requests : HasClaim(u)' => HasClaim(u)
      BY <1>0, <2>1, KeepsNoClaim DEF setPaymentRef, VerifyAnswered,
         markPaymentFailed, SaveFailed, Close
    <3>2. QED
      BY <1>0, <2>1, <3>1, NoClaimTaken DEF setPaymentRef, VerifyAnswered,
         markPaymentFailed, SaveFailed, orderVars
  <2>2. CASE markPaidFromWebhook(t)
    <3>1. \A u \in Requests : HasClaim(u)' => HasClaim(u)
      BY <1>0, <2>2, KeepsNoClaim DEF markPaidFromWebhook, Close
    <3>2. QED
      BY <1>0, <2>2, <3>1 DEF markPaidFromWebhook, ClaimInv, ClaimIsExclusive,
         ClaimHoldsTheOrder, REFUNDABLE_STATUSES
  <2>3. CASE claimForRefund(t) /\ Refundable
    <3>1. \A u \in Requests : ~ HasClaim(u)
      BY <2>3 DEF Refundable, ClaimInv, ClaimHoldsTheOrder, REFUNDABLE_STATUSES
    <3>2. \A u \in Requests : HasClaim(u)' => u = t
      BY <1>0, <2>3, <3>1 DEF claimForRefund, Goto, HasClaim, RequestInv, TypeOK
    <3>3. QED
      BY <1>0, <2>3, <3>2 DEF claimForRefund, Refundable, ClaimInv,
         ClaimIsExclusive, ClaimHoldsTheOrder
  <2>4. CASE claimForRefund(t) /\ ~ Refundable
    <3>1. \A u \in Requests : HasClaim(u)' => HasClaim(u)
      BY <1>0, <2>4, KeepsNoClaim DEF claimForRefund, Close
    <3>2. QED
      BY <1>0, <2>4, <3>1, NoClaimTaken DEF claimForRefund
  <2>5. CASE AdapterRefund(t)
    <3>1. \A u \in Requests : HasClaim(u)' => HasClaim(u)
      BY <1>0, <2>5 DEF AdapterRefund, Goto, HasClaim, RequestInv, TypeOK
    <3>2. QED
      BY <1>0, <2>5, <3>1, NoClaimTaken DEF AdapterRefund, orderVars
  <2>6. CASE finalizeRefund(t)
    <3>1. status = "REFUNDED"
      BY <2>6 DEF finalizeRefund, HasClaim, ClaimInv, ClaimHoldsTheOrder
    <3>2. QED
      BY <1>0, <2>6, <3>1, ClaimGivenUp DEF finalizeRefund, HasClaim, Close,
         ClaimInv
  <2>7. CASE revertFailedRefundClaim(t)
    <3>1. req[t].from \in REFUNDABLE_STATUSES
      BY <1>0, <2>7 DEF revertFailedRefundClaim, RequestInv, ClaimedFrom, TypeOK,
         Request
    <3>2. QED
      BY <1>0, <2>7, <3>1, ClaimGivenUp DEF revertFailedRefundClaim, HasClaim,
         Close, ClaimInv, StillClaimed
  <2>8. CASE flagAmbiguousRefund(t)
    <3>1. req[t].from \in REFUNDABLE_STATUSES
      BY <1>0, <2>8 DEF flagAmbiguousRefund, RequestInv, ClaimedFrom, TypeOK,
         Request
    <3>2. refundReconciliationRequired' => status' \in REFUNDABLE_STATUSES
      BY <2>8, <3>1 DEF flagAmbiguousRefund, ClaimInv
    <3>3. paymentStatus' = "refunded" => status' = "REFUNDED"
      BY <2>8 DEF flagAmbiguousRefund, ClaimInv, StillClaimed
    <3>4. QED
      BY <1>0, <2>8, <3>2, <3>3, ClaimGivenUp DEF flagAmbiguousRefund, HasClaim,
         Close
  <2>9. CASE ResolveTrue(t) /\ refundReconciliationRequired
    <3>1. \A u \in Requests : ~ HasClaim(u)
      BY <2>9 DEF ClaimInv, ClaimHoldsTheOrder, REFUNDABLE_STATUSES
    <3>2. \A u \in Requests : HasClaim(u)' => u = t
      BY <1>0, <2>9, <3>1 DEF ResolveTrue, Goto, HasClaim, RequestInv, TypeOK
    <3>3. status' = "REFUNDED" /\ ~ refundReconciliationRequired'
      BY <2>9 DEF ResolveTrue
    <3>4. QED
      BY <1>0, <3>2, <3>3 DEF ClaimInv, ClaimIsExclusive, ClaimHoldsTheOrder
  <2>10. CASE ResolveTrue(t) /\ ~ refundReconciliationRequired
    <3>1. \A u \in Requests : HasClaim(u)' => HasClaim(u)
      BY <1>0, <2>10, KeepsNoClaim DEF ResolveTrue, Close
    <3>2. QED
      BY <1>0, <2>10, <3>1, NoClaimTaken DEF ResolveTrue
  <2>11. CASE ResolveFalse(t)
    <3>1. \A u \in Requests : HasClaim(u)' => HasClaim(u)
      BY <1>0, <2>11, KeepsNoClaim DEF ResolveFalse, Close
    <3>2. UNCHANGED <<status, paymentStatus>> /\ ~ refundReconciliationRequired'
      BY <2>11 DEF ResolveFalse
    <3>3. QED
      BY <1>0, <3>1, <3>2 DEF ClaimInv, ClaimIsExclusive, ClaimHoldsTheOrder
  <2>12. QED
    BY <1>2, <2>1, <2>2, <2>3, <2>4, <2>5, <2>6, <2>7, <2>8, <2>9, <2>10, <2>11
       DEF Proceed
<1>3. ASSUME NEW t \in Requests, Die(t) PROVE ClaimInv'
  <2>1. \A u \in Requests : HasClaim(u)' => HasClaim(u)
    BY <1>0, <1>3, KeepsNoClaim DEF Die
  <2>2. QED
    BY <1>0, <1>3, <2>1, NoClaimTaken DEF Die, orderVars
<1>4. CASE Fulfil
  BY <1>0, <1>4 DEF Fulfil, ClaimInv, ClaimIsExclusive, ClaimHoldsTheOrder,
     HasClaim, REFUNDABLE_STATUSES
<1>5. CASE Outside \/ UNCHANGED vars
  <2>1. UNCHANGED <<orderVars, req>>
    BY <1>5 DEF Outside, Pay, Decline, RefundOutside, vars
  <2>2. QED
    BY <1>0, <2>1, NoClaimTaken DEF orderVars, HasClaim
<1>6. QED
  BY <1>1, <1>2, <1>3, <1>4, <1>5 DEF Next

(* Of any number of refunds of one order, started by administrators or by   *)
(* webhooks, one at most is past its claim, and while it is no other request *)
(* moves the order out of REFUNDED.                                          *)
THEOREM OneRefundAtATime == Spec => []ClaimIsALock
<1>1. ClaimInv => ClaimIsALock
  BY DEF ClaimInv, ClaimIsALock
<1>2. ClaimInv /\ [Next]_vars => ClaimInv'
  BY ClaimStep
<1>3. QED
  BY <1>1, <1>2, ClaimInit, PTL DEF Spec

-----------------------------------------------------------------------------
(* No request is forgotten mid-claim, unless one is cut off *)

(* If no request is cut off, an order left mid-claim is always being worked *)
(* on.  This is the property a crash breaks (see the README).               *)
THEOREM ClaimStaysWatched == ASSUME ~ MayDie PROVE Spec => []ClaimIsWatched
<1> USE Facts
<1>1. Init => ClaimIsWatched
  BY DEF Init, ClaimIsWatched, MidClaim
<1>2. ASSUME ClaimInv, ClaimIsWatched, [Next]_vars PROVE ClaimIsWatched'
  <2>0. RequestInv /\ TypeOK
    BY <1>2 DEF ClaimInv, RequestInv
  <2>1. ASSUME UNCHANGED <<status, paymentStatus>> \/ ~ MidClaim',
               \A u \in Requests : HasClaim(u) => HasClaim(u)'
        PROVE  ClaimIsWatched'
    BY <1>2, <2>1 DEF ClaimIsWatched, MidClaim
  <2>2. ASSUME NEW t \in Requests, Arrive(t) PROVE ClaimIsWatched'
    <3>1. UNCHANGED <<status, paymentStatus>>
      BY <2>2 DEF Arrive, initiatePayment, handleWebhook, handleRefundWebhook,
         verifyPayment, refundOrder, resolveRefundReconciliation, orderVars
    <3>2. \/ UNCHANGED req
          \/ req[t].kind = "idle" /\ \A u \in Requests \ {t} : req'[u] = req[u]
      BY <2>0, <2>2 DEF Arrive, initiatePayment, handleWebhook, Open,
         handleRefundWebhook, verifyPayment, refundOrder,
         resolveRefundReconciliation, TypeOK
    <3>3. QED
      BY <2>1, <3>1, <3>2 DEF HasClaim
  <2>3. ASSUME NEW t \in Requests, Proceed(t) PROVE ClaimIsWatched'
    <3>1. CASE \/ setPaymentRef(t) \/ VerifyAnswered(t) \/ markPaymentFailed(t)
               \/ ResolveFalse(t)
      <4>1. ~ HasClaim(t) /\ \A u \in Requests \ {t} : req'[u] = req[u]
        BY <2>0, <3>1 DEF setPaymentRef, VerifyAnswered, markPaymentFailed,
           ResolveFalse, Close, Goto, HasClaim, TypeOK
      <4>2. UNCHANGED <<status, paymentStatus>>
        BY <3>1 DEF setPaymentRef, VerifyAnswered, markPaymentFailed,
           ResolveFalse, orderVars
      <4>3. QED
        BY <2>1, <4>1, <4>2 DEF HasClaim
    <3>2. CASE markPaidFromWebhook(t) \/ SaveFailed(t)
      <4>1. ~ HasClaim(t) /\ \A u \in Requests \ {t} : req'[u] = req[u]
        BY <2>0, <3>2 DEF markPaidFromWebhook, SaveFailed, Close, HasClaim, TypeOK
      <4>2. UNCHANGED <<status, paymentStatus>> \/ ~ MidClaim'
        BY <3>2 DEF markPaidFromWebhook, SaveFailed, MidClaim
      <4>3. QED
        BY <2>1, <4>1, <4>2 DEF HasClaim
    <3>3. CASE claimForRefund(t) \/ ResolveTrue(t)
      <4>1. \/ HasClaim(t)'
            \/ /\ UNCHANGED <<status, paymentStatus>> /\ ~ HasClaim(t)
               /\ \A u \in Requests \ {t} : req'[u] = req[u]
        BY <2>0, <3>3 DEF claimForRefund, ResolveTrue, Goto, Close, HasClaim,
           TypeOK
      <4>2. QED
        BY <2>1, <4>1 DEF ClaimIsWatched, HasClaim
    <3>4. CASE AdapterRefund(t)
      <4>1. HasClaim(t)'
        BY <2>0, <3>4 DEF AdapterRefund, Goto, HasClaim, TypeOK
      <4>2. QED
        BY <4>1 DEF ClaimIsWatched
    <3>5. CASE \/ finalizeRefund(t) \/ revertFailedRefundClaim(t)
               \/ flagAmbiguousRefund(t)
      <4>1. req[t].from \in REFUNDABLE_STATUSES \/ finalizeRefund(t)
        BY <2>0, <3>5 DEF revertFailedRefundClaim, flagAmbiguousRefund,
           RequestInv, ClaimedFrom, TypeOK, Request
      <4>2. ~ MidClaim'
        BY <3>5, <4>1 DEF finalizeRefund, revertFailedRefundClaim,
           flagAmbiguousRefund, MidClaim, StillClaimed, REFUNDABLE_STATUSES
      <4>3. QED
        BY <4>2 DEF ClaimIsWatched
    <3>6. QED
      BY <2>3, <3>1, <3>2, <3>3, <3>4, <3>5 DEF Proceed
  <2>4. CASE Fulfil
    BY <2>4 DEF Fulfil, ClaimIsWatched, MidClaim
  <2>5. CASE Outside \/ UNCHANGED vars
    <3>1. UNCHANGED <<orderVars, req>>
      BY <2>5 DEF Outside, Pay, Decline, RefundOutside, vars
    <3>2. QED
      BY <2>1, <3>1 DEF orderVars, HasClaim
  <2>6. QED
    BY <1>2, <2>2, <2>3, <2>4, <2>5 DEF Next, Die
<1>3. ClaimInv /\ [Next]_vars => ClaimInv'
  BY ClaimStep
<1>4. ClaimInv /\ ClaimIsWatched /\ [Next]_vars => ClaimIsWatched'
  BY <1>2
<1>5. QED
  BY <1>1, <1>3, <1>4, ClaimInit, PTL DEF Spec

-----------------------------------------------------------------------------
(* A refund call without an answer is not repeated blindly *)

Resolving(t) == req[t].kind \in {"resolveTrue", "resolveFalse"}

OneIsResolving == \A t, u \in Requests : Resolving(t) /\ Resolving(u) => t = u

(* No reconciliation is on its way to clear the flag of a later refund.     *)
ResolvingWhatIsKnown == \A t \in Requests :
  Resolving(t) => ~ unknown /\ refundReconciliationRequired

(* While an outcome is unknown the order is still claimed or is flagged,    *)
(* and a request that has the claim is about to flag it.                    *)
UnknownIsHeld ==
  unknown => /\ status = "REFUNDED" \/ refundReconciliationRequired
             /\ \A t \in Requests : HasClaim(t) => req[t].kind = "flag"

RetryInv == ClaimInv /\ OneIsResolving /\ ResolvingWhatIsKnown /\ UnknownIsHeld

LEMMA RetryInit == Init => RetryInv
  BY ClaimInit, Facts DEF Init, RetryInv, OneIsResolving, ResolvingWhatIsKnown,
     UnknownIsHeld, Resolving

(* What the flag and the claim rule out. *)
LEMMA RetryFacts ==
  ASSUME RetryInv
  PROVE  /\ unknown => status \in {"REFUNDED", "DELIVERED", "CANCELLED"}
         /\ unknown => ~ Refundable
         /\ \A t \in Requests : HasClaim(t) => /\ status = "REFUNDED"
                                               /\ ~ refundReconciliationRequired
         /\ \A t, u \in Requests : ~ (HasClaim(t) /\ Resolving(u))
  BY DEF RetryInv, ClaimInv, ClaimHoldsTheOrder, UnknownIsHeld, Refundable,
     ResolvingWhatIsKnown, REFUNDABLE_STATUSES

(* A step of t that keeps the outcome, the flag and the claim as they are.  *)
LEMMA QuietStep ==
  ASSUME RetryInv, ClaimInv',
         UNCHANGED <<unknown, refundReconciliationRequired>>,
         unknown => UNCHANGED status,
         \A u \in Requests :
           \/ req'[u] = req[u]
           \/ req'[u].kind \notin {"resolveTrue", "resolveFalse"}
              /\ (HasClaim(u)' => ~ unknown)
  PROVE  RetryInv'
  BY DEF RetryInv, OneIsResolving, ResolvingWhatIsKnown, UnknownIsHeld, HasClaim,
     Resolving

LEMMA RetryStep == ASSUME OneResolver, RetryInv, [Next]_vars PROVE RetryInv'
<1> USE Facts
<1>0. ClaimInv /\ ClaimInv' /\ RequestInv /\ TypeOK
  BY ClaimStep DEF RetryInv, ClaimInv, RequestInv
<1>1. ASSUME NEW t \in Requests, Arrive(t) PROVE RetryInv'
  <2>1. CASE resolveRefundReconciliation(t)
    <3>1. /\ refundReconciliationRequired /\ refundReconciliationRequired'
          /\ ~ unknown'
      BY <2>1 DEF resolveRefundReconciliation, orderVars
    <3>2. \A u \in Requests : ~ Resolving(u)
      BY <2>1 DEF resolveRefundReconciliation, Resolving
    <3>3. \A u \in Requests \ {t} : req'[u] = req[u]
      BY <1>0, <2>1 DEF resolveRefundReconciliation, Open, TypeOK
    <3>4. OneIsResolving'
      BY <3>2, <3>3 DEF OneIsResolving, Resolving
    <3>5. QED
      BY <1>0, <3>1, <3>4 DEF RetryInv, ResolvingWhatIsKnown, UnknownIsHeld
  <2>2. CASE ~ resolveRefundReconciliation(t)
    <3>1. UNCHANGED <<unknown, refundReconciliationRequired, status>>
      BY <1>1, <2>2 DEF Arrive, initiatePayment, handleWebhook, verifyPayment,
         handleRefundWebhook, refundOrder, orderVars
    <3>2. \A u \in Requests :
            \/ req'[u] = req[u]
            \/ req'[u].kind \in {"setPaymentRef", "markPaid", "markFailed",
                                 "verify", "claim", "claimKnown"}
      <4>1. \/ UNCHANGED req
            \/ \E kind \in {"setPaymentRef", "markPaid", "markFailed", "verify",
                           "claim", "claimKnown"} :
                 \E e, q : Open(t, kind, e, q)
        BY <1>1, <2>2 DEF Arrive, initiatePayment, handleWebhook,
           handleRefundWebhook, verifyPayment, refundOrder
      <4>2. QED
        BY <1>0, <4>1 DEF Open, TypeOK
    <3>3. QED
      BY <1>0, <3>1, <3>2, QuietStep DEF HasClaim
  <2>3. QED
    BY <2>1, <2>2
<1>2. ASSUME NEW t \in Requests, Proceed(t) PROVE RetryInv'
  <2>1. CASE \/ setPaymentRef(t) \/ VerifyAnswered(t) \/ markPaidFromWebhook(t)
             \/ markPaymentFailed(t) \/ SaveFailed(t)
    <3>1. /\ UNCHANGED <<unknown, refundReconciliationRequired>>
          /\ UNCHANGED status \/ status = "PENDING_PAYMENT"
      BY <2>1 DEF setPaymentRef, VerifyAnswered, markPaidFromWebhook,
         markPaymentFailed, SaveFailed, orderVars
    <3>2. \A u \in Requests :
            \/ req'[u] = req[u]
            \/ req'[u].kind \in {"idle", "markPaid", "markFailed", "saveFailed"}
      BY <1>0, <2>1 DEF setPaymentRef, VerifyAnswered, markPaidFromWebhook,
         markPaymentFailed, SaveFailed, Close, Goto, TypeOK
    <3>3. QED
      BY <1>0, <3>1, <3>2, QuietStep, RetryFacts DEF HasClaim
  <2>2. CASE claimForRefund(t)
    <3>1. UNCHANGED <<unknown, refundReconciliationRequired>>
      BY <2>2 DEF claimForRefund
    <3>2. unknown => UNCHANGED status /\ req' = [req EXCEPT ![t] = Idle]
      BY <2>2, RetryFacts DEF claimForRefund, Close
    <3>3. \A u \in Requests :
            \/ req'[u] = req[u]
            \/ req'[u].kind \in {"idle", "reverse", "finalize"}
      BY <1>0, <2>2 DEF claimForRefund, Close, Goto, TypeOK
    <3>4. \A u \in Requests : req'[u] = req[u] \/ (unknown => req'[u].kind = "idle")
      BY <1>0, <3>2 DEF TypeOK
    <3>5. QED
      BY <1>0, <3>1, <3>2, <3>3, <3>4, QuietStep DEF HasClaim
  <2>3. CASE AdapterRefund(t)
    <3>1. HasClaim(t) /\ ~ unknown /\ req[t].kind = "reverse"
      BY <2>3 DEF AdapterRefund, HasClaim, RetryInv, UnknownIsHeld
    <3>2. /\ UNCHANGED <<status, refundReconciliationRequired>>
          /\ status = "REFUNDED"
      BY <2>3, <3>1, RetryFacts DEF AdapterRefund, orderVars
    <3>3. \A u \in Requests : u # t => req'[u] = req[u] /\ ~ HasClaim(u)
      BY <1>0, <2>3, <3>1 DEF AdapterRefund, Goto, TypeOK, ClaimInv,
         ClaimIsExclusive
    <3>4. \A u \in Requests : ~ Resolving(u)'
      <4>1. ~ Resolving(t)'
        BY <1>0, <2>3 DEF AdapterRefund, Goto, Resolving, TypeOK
      <4>2. QED
        BY <3>1, <3>3, <4>1, RetryFacts DEF Resolving
    <3>5. unknown' => req'[t].kind = "flag"
      <4>1. UNCHANGED unknown \/ Goto(t, "flag", req[t].from)
        BY <2>3 DEF AdapterRefund
      <4>2. Goto(t, "flag", req[t].from) => req'[t].kind = "flag"
        BY <1>0 DEF Goto, TypeOK
      <4>3. QED
        BY <3>1, <4>1, <4>2
    <3>6. UnknownIsHeld'
      BY <3>2, <3>3, <3>5 DEF UnknownIsHeld, HasClaim
    <3>7. QED
      BY <1>0, <3>4, <3>6 DEF RetryInv, OneIsResolving, ResolvingWhatIsKnown
  <2>4. CASE finalizeRefund(t) \/ revertFailedRefundClaim(t)
    <3>1. ~ unknown
      BY <2>4 DEF finalizeRefund, revertFailedRefundClaim, RetryInv,
         UnknownIsHeld, HasClaim
    <3>2. UNCHANGED <<unknown, refundReconciliationRequired>>
      BY <2>4 DEF finalizeRefund, revertFailedRefundClaim
    <3>3. \A u \in Requests : req'[u] = req[u] \/ req'[u].kind = "idle"
      BY <1>0, <2>4 DEF finalizeRefund, revertFailedRefundClaim, Close, TypeOK
    <3>4. QED
      BY <1>0, <3>1, <3>2, <3>3, QuietStep
  <2>5. CASE flagAmbiguousRefund(t)
    <3>1. HasClaim(t) /\ status = "REFUNDED"
      BY <2>5, RetryFacts DEF flagAmbiguousRefund, HasClaim
    <3>2. status' = "REFUNDED" \/ refundReconciliationRequired'
      BY <2>5, <3>1 DEF flagAmbiguousRefund
    <3>3. \A u \in Requests : ~ HasClaim(u)' /\ ~ Resolving(u)'
      <4>1. req' = [req EXCEPT ![t] = Idle]
        BY <2>5 DEF flagAmbiguousRefund, Close
      <4>2. \A u \in Requests : u # t => req'[u] = req[u] /\ ~ HasClaim(u)
        BY <1>0, <3>1, <4>1 DEF TypeOK, ClaimInv, ClaimIsExclusive
      <4>3. QED
        BY <1>0, <3>1, <4>1, <4>2, RetryFacts DEF HasClaim, Resolving, TypeOK
    <3>4. QED
      BY <1>0, <3>2, <3>3 DEF RetryInv, OneIsResolving, ResolvingWhatIsKnown,
         UnknownIsHeld
  <2>6. CASE ResolveTrue(t) \/ ResolveFalse(t)
    <3>1. Resolving(t) /\ ~ unknown /\ ~ unknown'
      BY <2>6 DEF ResolveTrue, ResolveFalse, Resolving, RetryInv,
         ResolvingWhatIsKnown
    <3>2. \A u \in Requests : ~ Resolving(u)'
      <4>1. ~ Resolving(t)'
        BY <1>0, <2>6 DEF ResolveTrue, ResolveFalse, Goto, Close, Resolving, TypeOK
      <4>2. \A u \in Requests : u # t => req'[u] = req[u] /\ ~ Resolving(u)
        BY <1>0, <2>6, <3>1 DEF ResolveTrue, ResolveFalse, Goto, Close, TypeOK,
           RetryInv, OneIsResolving
      <4>3. QED
        BY <4>1, <4>2 DEF Resolving
    <3>3. QED
      BY <1>0, <3>1, <3>2 DEF RetryInv, OneIsResolving, ResolvingWhatIsKnown,
         UnknownIsHeld
  <2>7. QED
    BY <1>2, <2>1, <2>2, <2>3, <2>4, <2>5, <2>6 DEF Proceed
<1>3. ASSUME NEW t \in Requests, Die(t) PROVE RetryInv'
  <2>1. \A u \in Requests : req'[u] = req[u] \/ req'[u].kind = "idle"
    BY <1>0, <1>3 DEF Die, TypeOK
  <2>2. QED
    BY <1>0, <1>3, <2>1, QuietStep DEF Die, orderVars, HasClaim
<1>4. CASE Fulfil
  <2>1. ~ unknown /\ UNCHANGED <<unknown, refundReconciliationRequired, req>>
    BY <1>4, RetryFacts DEF Fulfil
  <2>2. QED
    BY <1>0, <2>1, QuietStep
<1>5. CASE Outside \/ UNCHANGED vars
  <2>1. UNCHANGED <<orderVars, req, unknown>>
    BY <1>5 DEF Outside, Pay, Decline, RefundOutside, vars
  <2>2. QED
    BY <1>0, <2>1, QuietStep DEF orderVars
<1>6. QED
  BY <1>1, <1>2, <1>3, <1>4, <1>5 DEF Next

(* As long as administrators reconcile an order one at a time, the provider *)
(* is never asked to refund again while the outcome of an earlier call is   *)
(* unknown, whatever crashes, repeats or is delivered late.                 *)
THEOREM NeverRetriedBlindly == ASSUME OneResolver PROVE Spec => NoBlindRetry
<1>1. ASSUME RetryInv, NEW t \in Requests, AdapterRefund(t) PROVE ~ unknown
  BY <1>1 DEF RetryInv, UnknownIsHeld, AdapterRefund, HasClaim
<1>2. RetryInv /\ [Next]_vars
        => /\ RetryInv'
           /\ [\A t \in Requests : AdapterRefund(t) => ~ unknown]_vars
  BY <1>1, RetryStep
<1>3. QED
  BY <1>2, RetryInit, PTL DEF Spec, NoBlindRetry

-----------------------------------------------------------------------------
(* Where the money is *)

WasPaid(s) == charge[s] \in {"paid", "reversed"}

SomethingReversed == \E s \in paymentRefs : charge[s] = "reversed"

(* What the step that request t is about to take rests on. *)
Evidence(t) ==
  LET s == req[t].session IN
  /\ req[t].kind = "setPaymentRef" => charge[s] = "created"
  /\ req[t].kind \in {"verify", "markPaid", "claim", "reverse"}
       => s \in paymentRefs
  /\ req[t].kind = "markPaid" => WasPaid(s)
  /\ req[t].kind = "claimKnown" => s \in paymentRefs /\ charge[s] = "reversed"
  /\ req[t].kind \in {"finalize", "resolveTrue"} => SomethingReversed

OneSetsEachRef == \A t, u \in Requests :
  /\ req[t].kind = "setPaymentRef" /\ req[u].kind = "setPaymentRef"
  /\ req[t].session = req[u].session
  => t = u

WebhooksAreTrue == \A e \in webhooks :
  /\ e.name = "paid" => WasPaid(e.session)
  /\ e.name = "refunded" => charge[e.session] = "reversed"

OrderIsTrue ==
  /\ PlacedMeansCharged
  /\ paymentStatus = "refunded" => SomethingReversed
  /\ paymentRef \in paymentRefs \cup {NoSession}

MoneyInv ==
  /\ ClaimInv
  /\ \A t \in Requests : Evidence(t)
  /\ OneSetsEachRef
  /\ WebhooksAreTrue
  /\ OrderIsTrue

LEMMA MoneyInit == Init => MoneyInv
  BY ClaimInit, Facts DEF Init, MoneyInv, Evidence, OneSetsEachRef,
     WebhooksAreTrue, OrderIsTrue, PlacedMeansCharged

(* Nothing that has been charged or reversed is forgotten, and no reference *)
(* is dropped.                                                              *)
NothingLost ==
  /\ paymentRefs \subseteq paymentRefs'
  /\ \A s \in Sessions : /\ WasPaid(s) => WasPaid(s)'
                         /\ charge[s] = "reversed" => charge'[s] = "reversed"

LEMMA ReversedLosesNothing ==
  ASSUME TypeOK, NEW s \in Sessions, charge[s] \in {"paid", "reversed"},
         Reversed(s), WebhooksAreTrue
  PROVE  /\ \A q \in Sessions : /\ WasPaid(q) => WasPaid(q)'
                                /\ charge[q] = "reversed" => charge'[q] = "reversed"
                                /\ charge[q] = "created" => charge'[q] = "created"
         /\ charge'[s] = "reversed"
         /\ WebhooksAreTrue'
  BY DEF TypeOK, Reversed, WasPaid, WebhooksAreTrue, WebhookEvent

(* A step that only moves request t, and gives it nothing to rest on.       *)
LEMMA RequestsMove ==
  ASSUME MoneyInv, ClaimInv', NEW t \in Requests,
         \A u \in Requests : u # t => req'[u] = req[u],
         Evidence(t)', req'[t].kind = "setPaymentRef" => req'[t] = req[t],
         UNCHANGED charge, NothingLost, webhooks' \subseteq webhooks,
         OrderIsTrue'
  PROVE  MoneyInv'
<1>0. TypeOK /\ \A u \in Requests : HasSession(u)
  BY DEF MoneyInv, ClaimInv, RequestInv
<1>1. \A u \in Requests : u # t => Evidence(u)'
  BY <1>0 DEF MoneyInv, Evidence, NothingLost, WasPaid, SomethingReversed
<1>2. OneSetsEachRef'
  BY DEF MoneyInv, OneSetsEachRef
<1>3. WebhooksAreTrue'
  BY <1>0 DEF MoneyInv, WebhooksAreTrue, WasPaid
<1>4. QED
  BY <1>1, <1>2, <1>3 DEF MoneyInv

(* A step in which a charge may be reversed, and t may go on to finalize.   *)
LEMMA ReversalKeepsMoney ==
  ASSUME MoneyInv, ClaimInv', NEW t \in Requests, NEW s \in Sessions,
         charge[s] \in {"paid", "reversed"}, Reversed(s),
         UNCHANGED orderVars,
         \A u \in Requests : req'[u] = req[u] \/
           (u = t /\ req'[u].kind \in {"finalize", "revert", "flag"}),
         req'[t] # req[t] => s \in paymentRefs
  PROVE  MoneyInv'
<1>0. TypeOK /\ (\A u \in Requests : HasSession(u)) /\ WebhooksAreTrue
  BY DEF MoneyInv, ClaimInv, RequestInv
<1>1. WebhooksAreTrue' /\ charge'[s] = "reversed"
  BY <1>0, ReversedLosesNothing
<1>2. SomethingReversed => SomethingReversed'
  BY <1>0, ReversedLosesNothing DEF SomethingReversed, orderVars, TypeOK
<1>3. ASSUME NEW u \in Requests PROVE Evidence(u)'
  <2>1. CASE req'[u] = req[u]
    <3>1. Evidence(u)
      BY DEF MoneyInv
    <3>2. req[u].session \in paymentRefs => req[u].session \in Sessions
      BY <1>0 DEF TypeOK
    <3>3. req[u].kind = "setPaymentRef" => req[u].session \in Sessions
      BY <1>0 DEF HasSession
    <3>4. QED
      BY <1>0, <1>2, <2>1, <3>1, <3>2, <3>3, ReversedLosesNothing
         DEF Evidence, orderVars
  <2>2. CASE req'[u] # req[u]
    BY <1>1, <2>2 DEF Evidence, SomethingReversed, orderVars
  <2>3. QED
    BY <2>1, <2>2
<1>4. OneSetsEachRef'
  BY DEF MoneyInv, OneSetsEachRef
<1>5. OrderIsTrue'
  BY <1>0, <1>2, ReversedLosesNothing DEF MoneyInv, OrderIsTrue, WasPaid,
     PlacedMeansCharged, orderVars, TypeOK
<1>6. QED
  BY <1>1, <1>3, <1>4, <1>5 DEF MoneyInv

LEMMA MoneyArrive ==
  ASSUME MoneyInv, ClaimInv', NEW t \in Requests, Arrive(t)
  PROVE  MoneyInv'
<1> USE Facts
<1>0. TypeOK /\ \A u \in Requests : HasSession(u)
  BY DEF MoneyInv, ClaimInv, RequestInv
<1>1. ASSUME NEW s \in Sessions, initiatePayment(t, s) PROVE MoneyInv'
  <2>1. \A q \in Sessions : q # s => charge'[q] = charge[q]
    BY <1>0, <1>1 DEF initiatePayment, TypeOK
  <2>2. charge[s] = "unused" /\ charge'[s] = "created"
    BY <1>0, <1>1 DEF initiatePayment, TypeOK
  <2>3. UNCHANGED <<orderVars, webhooks>>
    BY <1>1 DEF initiatePayment
  <2>4. /\ req'[t].kind = "setPaymentRef" /\ req'[t].session = s
        /\ \A u \in Requests : u # t => req'[u] = req[u]
    BY <1>0, <1>1 DEF initiatePayment, Open, TypeOK
  <2>5. SomethingReversed => SomethingReversed'
    BY <1>0, <2>1, <2>2, <2>3 DEF SomethingReversed, orderVars, TypeOK
  <2>6. ASSUME NEW u \in Requests PROVE Evidence(u)'
    <3>1. CASE u = t
      BY <2>2, <2>4, <3>1 DEF Evidence
    <3>2. CASE u # t
      <4>1. Evidence(u) /\ HasSession(u) /\ req'[u] = req[u]
        BY <1>0, <2>4, <3>2 DEF MoneyInv
      <4>2. QED
        BY <1>0, <2>1, <2>2, <2>3, <2>5, <4>1 DEF Evidence, HasSession, WasPaid,
           orderVars, TypeOK
    <3>3. QED
      BY <3>1, <3>2
  <2>7. OneSetsEachRef'
    BY <2>2, <2>4 DEF MoneyInv, OneSetsEachRef, Evidence
  <2>8. WebhooksAreTrue' /\ OrderIsTrue'
    <3>1. \A q \in Sessions : /\ WasPaid(q) => WasPaid(q)'
                              /\ charge[q] = "reversed" => charge'[q] = "reversed"
      BY <2>1, <2>2 DEF WasPaid
    <3>2. WebhooksAreTrue'
      BY <1>0, <2>3, <3>1 DEF MoneyInv, WebhooksAreTrue, TypeOK, WebhookEvent
    <3>3. PlacedMeansCharged'
      BY <1>0, <2>3, <3>1 DEF MoneyInv, OrderIsTrue, PlacedMeansCharged, WasPaid,
         orderVars, TypeOK
    <3>4. QED
      BY <2>3, <2>5, <3>2, <3>3 DEF MoneyInv, OrderIsTrue, orderVars
  <2>9. QED
    BY <2>6, <2>7, <2>8 DEF MoneyInv
<1>2. ASSUME UNCHANGED orderVars, UNCHANGED charge, webhooks' \subseteq webhooks,
             \A u \in Requests : u # t => req'[u] = req[u],
             \/ req'[t] = req[t]
             \/ req'[t].kind # "setPaymentRef" /\ Evidence(t)'
      PROVE  MoneyInv'
  <2>1. NothingLost /\ OrderIsTrue'
    BY <1>2 DEF NothingLost, WasPaid, MoneyInv, OrderIsTrue, PlacedMeansCharged,
       SomethingReversed, orderVars
  <2>2. Evidence(t)'
    BY <1>2 DEF MoneyInv, Evidence, WasPaid, SomethingReversed, orderVars
  <2>3. QED
    BY <1>2, <2>1, <2>2, RequestsMove
<1>3. ASSUME NEW e \in webhooks, handleWebhook(t, e) \/ handleRefundWebhook(t, e)
      PROVE  MoneyInv'
  <2>1. UNCHANGED orderVars /\ UNCHANGED charge /\ webhooks' \subseteq webhooks
    BY <1>3 DEF handleWebhook, handleRefundWebhook, Answered
  <2>2. \A u \in Requests : u # t => req'[u] = req[u]
    BY <1>0, <1>3 DEF handleWebhook, handleRefundWebhook, Open, TypeOK
  <2>3. \/ UNCHANGED req
        \/ Accepts(e) /\ Open(t, "markFailed", e, e.session)
        \/ Accepts(e) /\ Open(t, "markPaid", e, e.session) /\ e.name = "paid"
        \/ Accepts(e) /\ Open(t, "claimKnown", e, e.session) /\ e.name = "refunded"
    BY <1>3 DEF handleWebhook, handleRefundWebhook
  <2>4. e.session \in Sessions
    BY <1>0 DEF TypeOK, WebhookEvent
  <2>5. Accepts(e) => e.session \in paymentRefs
    BY <2>4, Facts DEF Accepts, MoneyInv, OrderIsTrue
  <2>6. \/ req'[t] = req[t]
        \/ req'[t].kind # "setPaymentRef" /\ Evidence(t)'
    <3>1. CASE UNCHANGED req
      BY <3>1
    <3>2. CASE Accepts(e) /\ Open(t, "markFailed", e, e.session)
      BY <1>0, <3>2 DEF Open, Evidence, TypeOK
    <3>3. CASE Accepts(e) /\ Open(t, "markPaid", e, e.session) /\ e.name = "paid"
      BY <1>0, <2>1, <2>5, <3>3 DEF Open, Evidence, TypeOK, MoneyInv, orderVars,
         WebhooksAreTrue, WasPaid
    <3>4. CASE /\ Accepts(e) /\ Open(t, "claimKnown", e, e.session)
               /\ e.name = "refunded"
      BY <1>0, <2>1, <2>5, <3>4 DEF Open, Evidence, TypeOK, MoneyInv, orderVars,
         WebhooksAreTrue
    <3>5. QED
      BY <2>3, <3>1, <3>2, <3>3, <3>4
  <2>7. QED
    BY <1>2, <2>1, <2>2, <2>6
<1>4. CASE verifyPayment(t) \/ refundOrder(t)
  <2>1. UNCHANGED orderVars /\ UNCHANGED charge /\ UNCHANGED webhooks
    BY <1>4 DEF verifyPayment, refundOrder, providerVars
  <2>2. /\ \A u \in Requests : u # t => req'[u] = req[u]
        /\ req'[t].kind \in {"verify", "claim"} /\ req'[t].session = paymentRef
        /\ paymentRef # NoSession
    BY <1>0, <1>4 DEF verifyPayment, refundOrder, Open, TypeOK
  <2>3. paymentRef \in paymentRefs
    BY <2>2 DEF MoneyInv, OrderIsTrue
  <2>4. QED
    BY <1>2, <2>1, <2>2, <2>3 DEF Evidence, orderVars
<1>5. CASE resolveRefundReconciliation(t)
  <2>1. UNCHANGED orderVars /\ UNCHANGED charge /\ UNCHANGED webhooks
    BY <1>5 DEF resolveRefundReconciliation, providerVars
  <2>2. /\ \A u \in Requests : u # t => req'[u] = req[u]
        /\ \/ req'[t].kind = "resolveTrue" /\ SomethingReversed
           \/ req'[t].kind = "resolveFalse"
    BY <1>0, <1>5 DEF resolveRefundReconciliation, Open, TypeOK, SomethingReversed
  <2>3. QED
    BY <1>2, <2>1, <2>2 DEF Evidence, SomethingReversed, orderVars
<1>6. QED
  BY <1>1, <1>3, <1>4, <1>5 DEF Arrive

LEMMA MoneyProceed ==
  ASSUME MoneyInv, ClaimInv', NEW t \in Requests, Proceed(t)
  PROVE  MoneyInv'
<1> USE Facts
<1>0. TypeOK /\ \A u \in Requests : HasSession(u)
  BY DEF MoneyInv, ClaimInv, RequestInv
<1>1. CASE setPaymentRef(t)
  <2> DEFINE s == req[t].session
  <2>1. s \in Sessions /\ charge[s] = "created"
    BY <1>0, <1>1 DEF setPaymentRef, HasSession, MoneyInv, Evidence
  <2>2. /\ charge'[s] = "open"
        /\ \A q \in Sessions : q # s => charge'[q] = charge[q]
    BY <1>0, <1>1, <2>1 DEF setPaymentRef, TypeOK
  <2>3. /\ paymentRef' = s /\ paymentRefs' = paymentRefs \cup {s}
        /\ UNCHANGED <<status, paymentStatus>>
    BY <1>1 DEF setPaymentRef
  <2>4. /\ req'[t] = Idle
        /\ \A u \in Requests : u # t => req'[u] = req[u]
        /\ webhooks' \subseteq webhooks
    BY <1>0, <1>1 DEF setPaymentRef, Close, Answered, TypeOK
  <2>5. \A q \in Sessions : /\ WasPaid(q) => WasPaid(q)'
                            /\ charge[q] = "reversed" => charge'[q] = "reversed"
    BY <2>1, <2>2 DEF WasPaid
  <2>6. SomethingReversed => SomethingReversed'
    BY <1>0, <2>3, <2>5 DEF SomethingReversed, TypeOK
  <2>7. ASSUME NEW u \in Requests PROVE Evidence(u)'
    <3>1. CASE u = t
      BY <2>4, <3>1 DEF Evidence
    <3>2. CASE u # t
      <4>1. Evidence(u) /\ HasSession(u) /\ req'[u] = req[u]
        BY <1>0, <2>4, <3>2 DEF MoneyInv
      <4>2. req[u].kind = "setPaymentRef" => req[u].session # s
        BY <1>1, <3>2 DEF MoneyInv, OneSetsEachRef, setPaymentRef
      <4>3. req[u].session \in paymentRefs => req[u].session \in Sessions
        BY <1>0 DEF TypeOK
      <4>4. QED
        BY <2>2, <2>3, <2>5, <2>6, <4>1, <4>2, <4>3 DEF Evidence, HasSession
    <3>3. QED
      BY <3>1, <3>2
  <2>8. OneSetsEachRef'
    BY <2>4 DEF MoneyInv, OneSetsEachRef
  <2>9. WebhooksAreTrue'
    BY <1>0, <2>4, <2>5 DEF MoneyInv, WebhooksAreTrue, TypeOK, WebhookEvent
  <2>10. PlacedMeansCharged'
    BY <1>0, <2>3, <2>5 DEF MoneyInv, OrderIsTrue, PlacedMeansCharged, WasPaid,
       TypeOK
  <2>11. QED
    BY <2>3, <2>6, <2>7, <2>8, <2>9, <2>10 DEF MoneyInv, OrderIsTrue
<1>2. ASSUME UNCHANGED charge, UNCHANGED paymentRefs, UNCHANGED paymentRef,
             webhooks' \subseteq webhooks,
             \A u \in Requests : u # t => req'[u] = req[u],
             req'[t].kind # "setPaymentRef" /\ Evidence(t)',
             status' # "PENDING_PAYMENT" =>
               \/ status # "PENDING_PAYMENT"
               \/ \E s \in paymentRefs : WasPaid(s),
             paymentStatus' = "refunded" =>
               paymentStatus = "refunded" \/ SomethingReversed
      PROVE  MoneyInv'
  <2>1. NothingLost
    BY <1>2 DEF NothingLost, WasPaid
  <2>2. SomethingReversed => SomethingReversed'
    BY <1>2 DEF SomethingReversed
  <2>3. (\E s \in paymentRefs : WasPaid(s)) => PlacedMeansCharged'
    BY <1>2 DEF PlacedMeansCharged, WasPaid
  <2>4. status # "PENDING_PAYMENT" => \E s \in paymentRefs : WasPaid(s)
    BY DEF MoneyInv, OrderIsTrue, PlacedMeansCharged, WasPaid
  <2>5. status' = "PENDING_PAYMENT" => PlacedMeansCharged'
    BY DEF PlacedMeansCharged
  <2>6. OrderIsTrue'
    BY <1>2, <2>2, <2>3, <2>4, <2>5 DEF MoneyInv, OrderIsTrue
  <2>7. QED
    BY <1>2, <2>1, <2>6, RequestsMove
<1>3. CASE VerifyAnswered(t)
  <2>1. /\ UNCHANGED orderVars /\ UNCHANGED charge /\ webhooks' \subseteq webhooks
        /\ \A u \in Requests : u # t => req'[u] = req[u]
    BY <1>0, <1>3 DEF VerifyAnswered, Close, Goto, Answered, TypeOK
  <2>2. req[t].session \in paymentRefs
    BY <1>3 DEF VerifyAnswered, MoneyInv, Evidence
  <2>3. req'[t].kind # "setPaymentRef" /\ Evidence(t)'
    <3>1. \/ req'[t] = Idle
          \/ req'[t].kind = "markFailed"
          \/ /\ req'[t].kind = "markPaid" /\ req'[t].session = req[t].session
             /\ WasPaid(req[t].session)
      BY <1>0, <1>3 DEF VerifyAnswered, Close, Goto, SaysPaid, WasPaid, TypeOK
    <3>2. QED
      BY <2>1, <2>2, <3>1 DEF Evidence, WasPaid, orderVars
  <2>4. QED
    BY <1>2, <2>1, <2>3 DEF orderVars
<1>4. CASE markPaidFromWebhook(t)
  <2>1. /\ UNCHANGED <<paymentRef, paymentRefs, charge>>
        /\ webhooks' \subseteq webhooks /\ req'[t] = Idle
        /\ \A u \in Requests : u # t => req'[u] = req[u]
        /\ paymentStatus' # paymentStatus => paymentStatus' = "succeeded"
    BY <1>0, <1>4 DEF markPaidFromWebhook, Close, Answered, TypeOK
  <2>2. \E s \in paymentRefs : WasPaid(s)
    BY <1>4 DEF markPaidFromWebhook, MoneyInv, Evidence
  <2>3. QED
    BY <1>2, <2>1, <2>2 DEF Evidence
<1>5. CASE markPaymentFailed(t)
  <2>1. /\ UNCHANGED orderVars /\ UNCHANGED charge /\ webhooks' \subseteq webhooks
        /\ \A u \in Requests : u # t => req'[u] = req[u]
        /\ req'[t].kind \in {"idle", "saveFailed"}
    BY <1>0, <1>5 DEF markPaymentFailed, Close, Goto, Answered, TypeOK
  <2>2. QED
    BY <1>2, <2>1 DEF Evidence, orderVars
<1>6. CASE SaveFailed(t)
  <2>1. /\ UNCHANGED <<status, paymentRef, paymentRefs, charge>>
        /\ webhooks' \subseteq webhooks /\ req'[t] = Idle
        /\ \A u \in Requests : u # t => req'[u] = req[u]
        /\ paymentStatus' = "failed"
    BY <1>0, <1>6 DEF SaveFailed, Close, Answered, TypeOK
  <2>2. QED
    BY <1>2, <2>1 DEF Evidence
<1>7. CASE claimForRefund(t)
  <2>1. /\ UNCHANGED <<paymentStatus, paymentRef, paymentRefs, charge>>
        /\ webhooks' \subseteq webhooks
        /\ \A u \in Requests : u # t => req'[u] = req[u]
        /\ status' # status => status \in REFUNDABLE_STATUSES
    BY <1>0, <1>7 DEF claimForRefund, Refundable, Close, Goto, Answered, TypeOK
  <2>2. \/ req'[t] = Idle
        \/ req[t].kind = "claim" /\ req'[t].kind = "reverse"
           /\ req'[t].session = req[t].session
        \/ req[t].kind = "claimKnown" /\ req'[t].kind = "finalize"
    BY <1>0, <1>7 DEF claimForRefund, Close, Goto, TypeOK
  <2>3. Evidence(t)
    BY DEF MoneyInv
  <2>4. Evidence(t)' /\ req'[t].kind # "setPaymentRef"
    BY <2>1, <2>2, <2>3 DEF Evidence, SomethingReversed
  <2>5. QED
    BY <1>2, <2>1, <2>4 DEF REFUNDABLE_STATUSES
<1>8. CASE AdapterRefund(t)
  <2>1. UNCHANGED orderVars
    BY <1>8 DEF AdapterRefund
  <2>2. \A u \in Requests : u # t => req'[u] = req[u]
    BY <1>0, <1>8 DEF AdapterRefund, Goto, TypeOK
  <2>3. req'[t].kind \in {"finalize", "revert", "flag"}
    BY <1>0, <1>8 DEF AdapterRefund, Goto, TypeOK
  <2>4. req[t].session \in Sessions /\ req[t].session \in paymentRefs
    BY <1>0, <1>8 DEF AdapterRefund, MoneyInv, Evidence, TypeOK
  <2>5. CASE Reversible(t) /\ Reversed(req[t].session)
    <3>1. charge[req[t].session] \in {"paid", "reversed"}
      BY <2>5 DEF Reversible
    <3>2. QED
      BY <2>1, <2>2, <2>3, <2>4, <2>5, <3>1, ReversalKeepsMoney
  <2>6. CASE ~ (Reversible(t) /\ Reversed(req[t].session))
    <3>1. UNCHANGED providerVars
      BY <1>8, <2>6 DEF AdapterRefund, providerVars
    <3>2. req'[t].kind = "finalize" => charge[req[t].session] = "reversed"
      BY <1>0, <1>8, <2>6 DEF AdapterRefund, AnsweredAsBefore, Goto, TypeOK
    <3>3. Evidence(t)'
      BY <2>1, <2>3, <2>4, <3>1, <3>2 DEF Evidence, SomethingReversed, orderVars,
         providerVars
    <3>4. QED
      BY <1>2, <2>1, <2>2, <2>3, <3>1, <3>3 DEF orderVars, providerVars
  <2>7. QED
    BY <2>5, <2>6
<1>9. CASE finalizeRefund(t)
  <2>1. /\ UNCHANGED <<status, paymentRef, paymentRefs, charge>>
        /\ webhooks' \subseteq webhooks /\ req'[t] = Idle
        /\ \A u \in Requests : u # t => req'[u] = req[u]
    BY <1>0, <1>9 DEF finalizeRefund, Close, Answered, TypeOK
  <2>2. SomethingReversed
    BY <1>9 DEF finalizeRefund, MoneyInv, Evidence
  <2>3. QED
    BY <1>2, <2>1, <2>2 DEF Evidence
<1>10. CASE revertFailedRefundClaim(t) \/ flagAmbiguousRefund(t)
  <2>1. /\ UNCHANGED <<paymentStatus, paymentRef, paymentRefs, charge>>
        /\ webhooks' \subseteq webhooks /\ req'[t] = Idle
        /\ \A u \in Requests : u # t => req'[u] = req[u]
        /\ status' # status => status = "REFUNDED"
    BY <1>0, <1>10 DEF revertFailedRefundClaim, flagAmbiguousRefund, Close,
       Answered, StillClaimed, TypeOK
  <2>2. QED
    BY <1>2, <2>1 DEF Evidence
<1>11. CASE ResolveTrue(t)
  <2>1. /\ UNCHANGED <<paymentStatus, paymentRef, paymentRefs, charge>>
        /\ webhooks' \subseteq webhooks
        /\ \A u \in Requests : u # t => req'[u] = req[u]
        /\ req'[t].kind \in {"idle", "finalize"}
    BY <1>0, <1>11 DEF ResolveTrue, Close, Goto, Answered, TypeOK
  <2>2. SomethingReversed
    BY <1>11 DEF ResolveTrue, MoneyInv, Evidence
  <2>3. \E s \in paymentRefs : WasPaid(s)
    BY <2>2 DEF SomethingReversed, WasPaid
  <2>4. Evidence(t)'
    BY <2>1, <2>2 DEF Evidence, SomethingReversed
  <2>5. QED
    BY <1>2, <2>1, <2>3, <2>4
<1>12. CASE ResolveFalse(t)
  <2>1. /\ UNCHANGED <<status, paymentStatus, paymentRef, paymentRefs, charge>>
        /\ webhooks' \subseteq webhooks /\ req'[t] = Idle
        /\ \A u \in Requests : u # t => req'[u] = req[u]
    BY <1>0, <1>12 DEF ResolveFalse, Close, Answered, TypeOK
  <2>2. QED
    BY <1>2, <2>1 DEF Evidence
<1>13. QED
  BY <1>1, <1>3, <1>4, <1>5, <1>6, <1>7, <1>8, <1>9, <1>10, <1>11, <1>12
     DEF Proceed

LEMMA MoneyOutside ==
  ASSUME MoneyInv, ClaimInv', Outside
  PROVE  MoneyInv'
<1>0. TypeOK /\ (\A u \in Requests : HasSession(u)) /\ MoneyInv
  BY DEF MoneyInv, ClaimInv, RequestInv
<1>1. UNCHANGED orderVars /\ UNCHANGED req
  BY DEF Outside, Pay, Decline, RefundOutside
<1>2. ASSUME NEW s \in Sessions, RefundOutside(s) PROVE MoneyInv'
  <2>1. charge[s] \in {"paid", "reversed"} /\ Reversed(s)
    BY <1>2 DEF RefundOutside
  <2>2. CASE Requests # {}
    BY <1>0, <1>1, <2>1, <2>2, ReversalKeepsMoney
  <2>3. CASE Requests = {}
    <3>1. WebhooksAreTrue' /\ (SomethingReversed => SomethingReversed')
      BY <1>0, <1>1, <2>1, ReversedLosesNothing DEF MoneyInv, SomethingReversed,
         orderVars, TypeOK
    <3>2. OrderIsTrue'
      BY <1>0, <1>1, <2>1, <3>1, ReversedLosesNothing DEF MoneyInv, OrderIsTrue,
         WasPaid, PlacedMeansCharged, orderVars, TypeOK
    <3>3. QED
      BY <2>3, <3>1, <3>2 DEF MoneyInv, OneSetsEachRef
  <2>4. QED
    BY <2>2, <2>3
<1>3. ASSUME NEW s \in Sessions, Pay(s) \/ Decline(s) PROVE MoneyInv'
  <2>1. /\ charge[s] = "open"
        /\ \A q \in Sessions : charge'[q] = charge[q] \/ (q = s /\ charge'[q] = "paid")
    BY <1>0, <1>3 DEF Pay, Decline, TypeOK
  <2>2. \A e \in webhooks' : \/ e \in webhooks
                             \/ e.name = "declined"
                             \/ e.name = "paid" /\ e.session = s /\ charge'[s] = "paid"
    BY <1>0, <1>3 DEF Pay, Decline, TypeOK
  <2>3. \A q \in Sessions : /\ WasPaid(q) => WasPaid(q)'
                            /\ charge[q] = "reversed" => charge'[q] = "reversed"
                            /\ charge[q] = "created" => charge'[q] = "created"
    BY <2>1 DEF WasPaid
  <2>4. SomethingReversed => SomethingReversed'
    BY <1>0, <1>1, <2>3 DEF SomethingReversed, orderVars, TypeOK
  <2>5. WebhooksAreTrue'
    BY <1>0, <2>2, <2>3 DEF MoneyInv, WebhooksAreTrue, WasPaid, TypeOK,
       WebhookEvent
  <2>6. ASSUME NEW u \in Requests PROVE Evidence(u)'
    <3>1. Evidence(u) /\ HasSession(u) /\ req'[u] = req[u]
      BY <1>0, <1>1 DEF MoneyInv
    <3>2. req[u].session \in paymentRefs => req[u].session \in Sessions
      BY <1>0 DEF TypeOK
    <3>3. QED
      BY <1>1, <2>3, <2>4, <3>1, <3>2 DEF Evidence, HasSession, orderVars
  <2>7. OrderIsTrue'
    BY <1>0, <1>1, <2>3, <2>4 DEF MoneyInv, OrderIsTrue, PlacedMeansCharged,
       WasPaid, orderVars, TypeOK
  <2>8. OneSetsEachRef'
    BY <1>0, <1>1 DEF MoneyInv, OneSetsEachRef
  <2>9. QED
    BY <2>5, <2>6, <2>7, <2>8 DEF MoneyInv
<1>4. QED
  BY <1>2, <1>3 DEF Outside

LEMMA MoneyStep == ASSUME MoneyInv, [Next]_vars PROVE MoneyInv'
<1> USE Facts
<1>0. ClaimInv' /\ TypeOK
  BY ClaimStep DEF MoneyInv, ClaimInv, RequestInv
<1>1. ASSUME NEW t \in Requests, Die(t) PROVE MoneyInv'
  <2>1. /\ UNCHANGED orderVars /\ UNCHANGED charge /\ UNCHANGED webhooks
        /\ \A u \in Requests : u # t => req'[u] = req[u]
        /\ req'[t] = Idle
    BY <1>0, <1>1 DEF Die, TypeOK, providerVars
  <2>2. NothingLost /\ OrderIsTrue' /\ Evidence(t)'
    BY <2>1 DEF NothingLost, WasPaid, MoneyInv, OrderIsTrue, PlacedMeansCharged,
       SomethingReversed, Evidence, orderVars
  <2>3. QED
    BY <1>0, <2>1, <2>2, RequestsMove
<1>2. CASE Fulfil
  <2>1. /\ status # "PENDING_PAYMENT"
        /\ UNCHANGED <<paymentStatus, paymentRef, paymentRefs, req, charge, webhooks>>
    BY <1>2 DEF Fulfil, providerVars
  <2>2. QED
    BY <1>0, <2>1 DEF MoneyInv, Evidence, OneSetsEachRef, WebhooksAreTrue,
       OrderIsTrue, PlacedMeansCharged, SomethingReversed, WasPaid
<1>3. CASE UNCHANGED vars
  BY <1>0, <1>3 DEF vars, orderVars, providerVars, MoneyInv, Evidence,
     OneSetsEachRef, WebhooksAreTrue, OrderIsTrue, PlacedMeansCharged,
     SomethingReversed, WasPaid
<1>4. QED
  BY <1>0, <1>1, <1>2, <1>3, MoneyArrive, MoneyProceed, MoneyOutside DEF Next

(* No order is placed without a charge, whichever of webhooks, polls and    *)
(* retries confirmed it.                                                    *)
THEOREM PlacedOnlyIfCharged == Spec => []PlacedMeansCharged
<1>1. MoneyInv => PlacedMeansCharged
  BY DEF MoneyInv, OrderIsTrue
<1>2. MoneyInv /\ [Next]_vars => MoneyInv'
  BY MoneyStep
<1>3. QED
  BY <1>1, <1>2, MoneyInit, PTL DEF Spec

(* No order is shown as refunded unless a charge of it has been reversed.   *)
THEOREM RefundedOnlyIfReversed == Spec => []RefundedMeansReversed
<1>1. MoneyInv => RefundedMeansReversed
  BY DEF MoneyInv, ClaimInv, OrderIsTrue, SomethingReversed, RefundedMeansReversed
<1>2. MoneyInv /\ [Next]_vars => MoneyInv'
  BY MoneyStep
<1>3. QED
  BY <1>1, <1>2, MoneyInit, PTL DEF Spec


-----------------------------------------------------------------------------
(* A payment that is final *)

(* A pending payment is that of an order nothing has happened to yet.      *)
PendingInv ==
  /\ RequestInv
  /\ paymentStatus = "pending" =>
       status = "PENDING_PAYMENT" /\ ~ refundReconciliationRequired

LEMMA PendingBegins == Init => PendingInv
  BY RequestInit DEF Init, PendingInv

LEMMA PendingStep ==
  ASSUME PendingInv, [Next]_vars
  PROVE  PendingInv'
<1>0. RequestInv /\ RequestInv'
  BY RequestStep DEF PendingInv
<1>1. ASSUME NEW t \in Requests, Arrive(t) PROVE PendingInv'
  <2>1. UNCHANGED orderVars
    BY <1>1 DEF Arrive, initiatePayment, handleWebhook, handleRefundWebhook,
       verifyPayment, refundOrder, resolveRefundReconciliation
  <2> QED BY <1>0, <2>1 DEF PendingInv, orderVars
<1>2. ASSUME NEW t \in Requests, Proceed(t) PROVE PendingInv'
  <2>1. CASE \/ setPaymentRef(t) \/ VerifyAnswered(t) \/ markPaymentFailed(t)
             \/ AdapterRefund(t) \/ ResolveFalse(t)
    BY <1>0, <2>1 DEF PendingInv, setPaymentRef, VerifyAnswered, markPaymentFailed,
       AdapterRefund, ResolveFalse, orderVars
  <2>2. CASE markPaidFromWebhook(t) \/ SaveFailed(t) \/ finalizeRefund(t)
    BY <1>0, <2>2 DEF PendingInv, markPaidFromWebhook, SaveFailed, finalizeRefund
  <2>3. CASE \/ claimForRefund(t) \/ revertFailedRefundClaim(t)
             \/ flagAmbiguousRefund(t) \/ ResolveTrue(t)
    BY <1>0, <2>3 DEF PendingInv, claimForRefund, Refundable, revertFailedRefundClaim,
       flagAmbiguousRefund, StillClaimed, ResolveTrue
  <2> QED BY <1>2, <2>1, <2>2, <2>3 DEF Proceed
<1>3. CASE Fulfil
  BY <1>0, <1>3 DEF PendingInv, Fulfil
<1>4. ASSUME NEW t \in Requests, Die(t) PROVE PendingInv'
  BY <1>0, <1>4 DEF PendingInv, Die, orderVars
<1>5. CASE Outside \/ UNCHANGED vars
  BY <1>0, <1>5 DEF PendingInv, Outside, Pay, Decline, RefundOutside, vars, orderVars
<1> QED BY <1>1, <1>2, <1>3, <1>4, <1>5 DEF Next

LEMMA ArrivalsDoNotSave ==
  ASSUME RequestInv, NEW t \in Requests, Arrive(t)
  PROVE  /\ paymentStatus' = paymentStatus
         /\ req'[t].kind = "saveFailed" => req[t].kind = "saveFailed"
<1>1. req \in [Requests -> Request]
  BY DEF RequestInv, TypeOK
<1>2. ASSUME NEW kind, NEW event, NEW session, kind # "saveFailed",
             Open(t, kind, event, session)
      PROVE  req'[t].kind # "saveFailed"
  BY <1>1, <1>2 DEF Open
<1>3. CASE \E s \in Sessions : initiatePayment(t, s)
  BY <1>2, <1>3 DEF initiatePayment, orderVars
<1>4. CASE \E e \in webhooks : handleWebhook(t, e)
  BY <1>2, <1>4 DEF handleWebhook, orderVars
<1>5. CASE \E e \in webhooks : handleRefundWebhook(t, e)
  BY <1>2, <1>5 DEF handleRefundWebhook, orderVars
<1>6. CASE verifyPayment(t) \/ refundOrder(t)
  BY <1>2, <1>6 DEF verifyPayment, refundOrder, orderVars
<1>7. CASE resolveRefundReconciliation(t)
  <2>1. PICK kind \in {"resolveTrue", "resolveFalse"} : Open(t, kind, NoEvent, NoSession)
    BY <1>7 DEF resolveRefundReconciliation
  <2> QED BY <1>2, <1>7, <2>1 DEF resolveRefundReconciliation, orderVars
<1> QED BY <1>3, <1>4, <1>5, <1>6, <1>7 DEF Arrive

LEMMA OnlyAfterTheCheck ==
  ASSUME RequestInv, NEW t \in Requests, Proceed(t)
  PROVE  req'[t].kind = "saveFailed" => paymentStatus' = paymentStatus /\ paymentStatus = "pending"
<1>1. req \in [Requests -> Request] /\ Idle.kind = "idle"
  BY Facts DEF RequestInv, TypeOK
<1>2. Close(t) => req'[t].kind = "idle"
  BY <1>1 DEF Close
<1>3. ASSUME NEW kind, NEW from, kind # "saveFailed", Goto(t, kind, from)
      PROVE  req'[t].kind # "saveFailed"
  BY <1>1, <1>3 DEF Goto
<1>4. CASE \/ setPaymentRef(t) \/ markPaidFromWebhook(t) \/ SaveFailed(t) \/ finalizeRefund(t)
           \/ revertFailedRefundClaim(t) \/ flagAmbiguousRefund(t) \/ ResolveFalse(t)
  BY <1>2, <1>4 DEF setPaymentRef, markPaidFromWebhook, SaveFailed, finalizeRefund,
     revertFailedRefundClaim, flagAmbiguousRefund, ResolveFalse
<1>5. CASE VerifyAnswered(t)
  <2>1. Close(t) \/ \E kind \in {"markPaid", "markFailed"} : Goto(t, kind, "none")
    BY <1>5 DEF VerifyAnswered
  <2> QED BY <1>2, <1>3, <2>1
<1>6. CASE markPaymentFailed(t)
  BY <1>2, <1>6 DEF markPaymentFailed, CanFail, orderVars
<1>7. CASE claimForRefund(t)
  <2>1. Close(t) \/ \E kind \in {"reverse", "finalize"} : Goto(t, kind, status)
    BY <1>7 DEF claimForRefund
  <2> QED BY <1>2, <1>3, <2>1
<1>8. CASE AdapterRefund(t)
  <2>1. \E kind \in {"finalize", "revert", "flag"} : Goto(t, kind, req[t].from)
    BY <1>8 DEF AdapterRefund
  <2> QED BY <1>3, <2>1
<1>9. CASE ResolveTrue(t)
  BY <1>2, <1>3, <1>9 DEF ResolveTrue
<1> QED BY <1>4, <1>5, <1>6, <1>7, <1>8, <1>9 DEF Proceed

(* Only request t has changed.                                              *)
LEMMA OthersStay ==
  ASSUME RequestInv, NEW t \in Requests, Arrive(t) \/ Proceed(t) \/ Die(t),
         NEW u \in Requests, u # t
  PROVE  req'[u] = req[u]
<1>1. req \in [Requests -> Request]
  BY DEF RequestInv, TypeOK
<1>2. ASSUME NEW kind, NEW event, NEW session, Open(t, kind, event, session)
      PROVE  req'[u] = req[u]
  BY <1>1, <1>2 DEF Open
<1>3. ASSUME NEW kind, NEW from, Goto(t, kind, from) PROVE req'[u] = req[u]
  BY <1>1, <1>3 DEF Goto
<1>4. Close(t) => req'[u] = req[u]
  BY <1>1 DEF Close
<1>5. CASE Arrive(t)
  <2>1. CASE \E s \in Sessions : initiatePayment(t, s)
    BY <1>2, <2>1 DEF initiatePayment
  <2>2. CASE \E e \in webhooks : handleWebhook(t, e) \/ handleRefundWebhook(t, e)
    BY <1>2, <2>2 DEF handleWebhook, handleRefundWebhook
  <2>3. CASE verifyPayment(t) \/ refundOrder(t)
    BY <1>2, <2>3 DEF verifyPayment, refundOrder
  <2>4. CASE resolveRefundReconciliation(t)
    <3>1. \E kind : Open(t, kind, NoEvent, NoSession)
      BY <2>4 DEF resolveRefundReconciliation
    <3> QED BY <1>2, <3>1
  <2> QED BY <1>5, <2>1, <2>2, <2>3, <2>4 DEF Arrive
<1>6. CASE Proceed(t)
  <2>1. CASE \/ setPaymentRef(t) \/ markPaidFromWebhook(t) \/ SaveFailed(t) \/ finalizeRefund(t)
             \/ revertFailedRefundClaim(t) \/ flagAmbiguousRefund(t) \/ ResolveFalse(t)
    BY <1>4, <2>1 DEF setPaymentRef, markPaidFromWebhook, SaveFailed, finalizeRefund,
       revertFailedRefundClaim, flagAmbiguousRefund, ResolveFalse
  <2>2. CASE VerifyAnswered(t) \/ claimForRefund(t)
    <3>1. Close(t) \/ \E kind, from : Goto(t, kind, from)
      BY <2>2 DEF VerifyAnswered, claimForRefund
    <3> QED BY <1>3, <1>4, <3>1
  <2>3. CASE markPaymentFailed(t) \/ AdapterRefund(t) \/ ResolveTrue(t)
    BY <1>3, <1>4, <2>3 DEF markPaymentFailed, AdapterRefund, ResolveTrue
  <2> QED BY <1>6, <2>1, <2>2, <2>3 DEF Proceed
<1>7. CASE Die(t)
  BY <1>1, <1>7 DEF Die
<1> QED BY <1>5, <1>6, <1>7

(* With any number of requests, restarts included: once the order is        *)
(* placed, no report of a declined attempt passes the check that it did not *)
(* pass before, and each that did writes over the payment once at the most. *)
THEOREM DowngradesAreOvertaken == Spec => OnlyOvertakenFailuresDowngrade
<1> DEFINE Shrinks == status # "PENDING_PAYMENT" =>
             /\ FailuresInFlight' \subseteq FailuresInFlight
             /\ paymentStatus' = "failed" /\ paymentStatus # "failed"
                  => FailuresInFlight' # FailuresInFlight
<1>1. ASSUME PendingInv, [Next]_vars, status # "PENDING_PAYMENT"
      PROVE  Shrinks
  <2>0. /\ RequestInv /\ paymentStatus # "pending"
        /\ req \in [Requests -> Request] /\ Idle.kind = "idle"
    BY <1>1, Facts DEF PendingInv, RequestInv, TypeOK
  <2>1. ASSUME NEW t \in Requests, Arrive(t) \/ Die(t) PROVE Shrinks
    <3>1. /\ paymentStatus' = paymentStatus
          /\ req'[t].kind = "saveFailed" => req[t].kind = "saveFailed"
      BY <2>0, <2>1, ArrivalsDoNotSave DEF Die, orderVars
    <3>2. \A u \in Requests \ {t} : req'[u] = req[u]
      BY <2>0, <2>1, OthersStay
    <3>3. FailuresInFlight' \subseteq FailuresInFlight
      BY <3>1, <3>2 DEF FailuresInFlight
    <3> QED BY <3>1, <3>3
  <2>2. ASSUME NEW t \in Requests, Proceed(t) PROVE Shrinks
    <3>1. req'[t].kind # "saveFailed"
      BY <2>0, <2>2, OnlyAfterTheCheck
    <3>2. \A u \in Requests \ {t} : req'[u] = req[u]
      BY <2>0, <2>2, OthersStay
    <3>3. FailuresInFlight' = FailuresInFlight \ {t}
      BY <3>1, <3>2 DEF FailuresInFlight
    <3>4. CASE SaveFailed(t)
      <4>1. t \in FailuresInFlight
        BY <3>4 DEF SaveFailed, FailuresInFlight
      <4> QED BY <3>3, <4>1
    <3>5. CASE ~ SaveFailed(t)
      <4>1. paymentStatus' = "failed" => paymentStatus = "failed"
        BY <2>2, <3>5 DEF Proceed, setPaymentRef, VerifyAnswered, markPaidFromWebhook,
           markPaymentFailed, claimForRefund, AdapterRefund, finalizeRefund,
           revertFailedRefundClaim, flagAmbiguousRefund, ResolveTrue, ResolveFalse,
           orderVars
      <4> QED BY <3>3, <4>1
    <3> QED BY <3>4, <3>5
  <2>3. CASE Fulfil \/ Outside \/ UNCHANGED vars
    <3>1. req' = req /\ paymentStatus' = paymentStatus
      BY <2>3 DEF Fulfil, Outside, Pay, Decline, RefundOutside, vars, orderVars
    <3> QED BY <3>1 DEF FailuresInFlight
  <2> QED BY <1>1, <2>1, <2>2, <2>3 DEF Next
<1>2. PendingInv /\ [Next]_vars => PendingInv' /\ [Shrinks]_vars
  BY <1>1, PendingStep
<1>3. QED
  BY <1>2, PendingBegins, PTL DEF Spec, OnlyOvertakenFailuresDowngrade
=============================================================================
