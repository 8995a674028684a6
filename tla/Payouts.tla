-------------------------------- MODULE Payouts --------------------------------
(***************************************************************************)
(* Paying one vendor and one rider, week by week, for the orders they      *)
(* served (backend/src/payouts/payout-execution.service.ts and             *)
(* payouts.service.ts), and taking back the vendor's part of orders that   *)
(* are refunded later (orders.service.ts).                                 *)
(*                                                                         *)
(* All the orders are of one provider and one currency: groups of others   *)
(* are paid in the same way and share nothing with these.  Amounts are     *)
(* whole cents.  A worker is a batch (the Monday cron or the manual        *)
(* trigger) at work on one payee, or an administrator who reconciles; what *)
(* it has read stays in `work' until the step that uses it.                *)
(***************************************************************************)
EXTENDS Integers, FiniteSets

CONSTANTS
  Orders,              \* orders of the vendor, all carried by the rider
  Payees,              \* which of "vendor" and "rider" are paid
  MaxEarning,          \* the most anyone earns with one order
  Earns,               \* Earns[k][o]: restaurantPayoutAmount, deliveryFee
  Payouts,             \* payout documents the database has room for
  Workers,             \* batches and reconciliations under way at a time
  MayDie,              \* TRUE: a worker may be cut off between two steps
  FailingSteps,        \* steps at which the database may report an error
  AmbiguousDeductions, \* TRUE: a transfer net of a clawback may be ambiguous
  RefundsMeetPayouts,  \* TRUE: orders are refunded while a payout is open
  NoPayout

Kinds == {"vendor", "rider"}

ASSUME ConstantsAssumption ==
  /\ IsFiniteSet(Orders)
  /\ Payees \subseteq Kinds
  /\ MaxEarning \in Nat
  /\ Earns \in [Kinds -> [Orders -> 1..MaxEarning]]
  /\ MayDie \in BOOLEAN
  /\ AmbiguousDeductions \in BOOLEAN
  /\ RefundsMeetPayouts \in BOOLEAN
  /\ NoPayout \notin Payouts

VARIABLES
  (* the orders *)
  status,          \* status[o]
  claimedBy,       \* claimedBy["vendor"][o]: vendorPayoutId, or riderPayoutId
  refund,          \* how far the refund of each order has come
  payoutRead,      \* the vendorPayoutId that finalizeRefund has read
  (* the payout documents *)
  payee, covers, consumption, payoutStatus, reconciliationRequired,
  (* the clawbacks, one at most for each order *)
  createdAt,       \* place in the order of creation, 0: none
  remainingAmount,
  pending,         \* clawbacks whose status is pending
  (* the server, and the provider *)
  work,            \* what each worker is doing
  moved            \* payouts whose money has really moved

orderVars    == <<status, claimedBy, refund, payoutRead>>
payoutVars   == <<payee, covers, consumption, payoutStatus,
                  reconciliationRequired>>
clawbackVars == <<createdAt, remainingAmount, pending>>
vars         == <<orderVars, payoutVars, clawbackVars, work, moved>>

Amount    == 0..MaxEarning
Deduction == [Orders -> Amount]

Work ==
  [at : {"idle", "applyClawbacks",
         "claim", "transfer", "saveSucceeded", "saveUnknown", "saveRejected",
         "release", "saveFailed",               \* the claims of a payout
         "consume", "saveClawback",             \* its clawback consumption
         "saveResolved"},
   payee  : Kinds,
   payout : Payouts \cup {NoPayout},
   todo   : SUBSET Orders,                      \* what a loop has left to do
   read   : Amount,                             \* remainingAmount as it was read
   next   : {"idle", "saveFailed", "saveResolved"}]  \* what follows the loop

Idle == [at |-> "idle", payee |-> "vendor", payout |-> NoPayout, todo |-> {},
         read |-> 0, next |-> "idle"]

TypeOK ==
  /\ status \in [Orders -> {"OUT_FOR_DELIVERY", "DELIVERED", "REFUNDED"}]
  /\ claimedBy \in [Kinds -> [Orders -> Payouts \cup {NoPayout}]]
  /\ refund \in [Orders -> {"none", "claimed", "finalized", "done"}]
  /\ payoutRead \in [Orders -> Payouts \cup {NoPayout}]
  /\ payee \in [Payouts -> Kinds]
  /\ covers \in [Payouts -> SUBSET Orders]
  /\ consumption \in [Payouts -> Deduction]
  /\ payoutStatus \in
       [Payouts -> {"none", "pending", "processing", "succeeded", "failed"}]
  /\ reconciliationRequired \in [Payouts -> BOOLEAN]
  /\ createdAt \in [Orders -> Nat]
  /\ remainingAmount \in [Orders -> Amount]
  /\ pending \in SUBSET Orders
  /\ work \in [Workers -> Work]
  /\ moved \in SUBSET Payouts

Init ==
  /\ status = [o \in Orders |-> "OUT_FOR_DELIVERY"]
  /\ claimedBy = [k \in Kinds |-> [o \in Orders |-> NoPayout]]
  /\ refund = [o \in Orders |-> "none"]
  /\ payoutRead = [o \in Orders |-> NoPayout]
  /\ payee = [p \in Payouts |-> "vendor"]
  /\ covers = [p \in Payouts |-> {}]
  /\ consumption = [p \in Payouts |-> [o \in Orders |-> 0]]
  /\ payoutStatus = [p \in Payouts |-> "none"]
  /\ reconciliationRequired = [p \in Payouts |-> FALSE]
  /\ createdAt = [o \in Orders |-> 0]
  /\ remainingAmount = [o \in Orders |-> 0]
  /\ pending = {}
  /\ work = [w \in Workers |-> Idle]
  /\ moved = {}

-----------------------------------------------------------------------------
(* Amounts *)

Min2(a, b) == IF a <= b THEN a ELSE b
Max2(a, b) == IF a >= b THEN a ELSE b

(* Every cent of f[x] counts, for every x of S. *)
Sum(f, S) == Cardinality(UNION {{x} \X (1 .. f[x]) : x \in S})

Gross(k, S) == Sum(Earns[k], S)

(* applyClawbacks: the pending clawbacks take what they can of a group's    *)
(* earnings, the oldest first.                                              *)
Older(o) == {x \in pending : createdAt[x] < createdAt[o]}

Owed(S) == Sum(remainingAmount, S)

Netted(k, S) ==
  [o \in Orders |->
    IF k = "vendor" /\ o \in pending
    THEN Min2(remainingAmount[o], Max2(0, Gross(k, S) - Owed(Older(o))))
    ELSE 0]

Deducted(p) == Sum(consumption[p], Orders)

(* grossAmount of the payout document: what is sent. *)
Net(p) == Gross(payee[p], covers[p]) - Deducted(p)

-----------------------------------------------------------------------------
(* Workers *)

Goto(w, at, p, todo, read, next) ==
  work' = [work EXCEPT ![w] =
    [at |-> at, payee |-> work[w].payee, payout |-> p, todo |-> todo,
     read |-> read, next |-> next]]

Finish(w) == work' = [work EXCEPT ![w] = Idle]

AllIdle == \A w \in Workers : work[w].at = "idle"

(* No payout is being made, or waits for an administrator. *)
NoPayoutOpen == AllIdle /\ \A p \in Payouts : ~ reconciliationRequired[p]

NoRefundOpen == \A o \in Orders : refund[o] \in {"none", "done"}

(* A restart cuts worker w off; nothing is rolled back. *)
Die(w) ==
  /\ MayDie
  /\ work[w].at # "idle"
  /\ Finish(w)
  /\ UNCHANGED <<orderVars, payoutVars, clawbackVars, moved>>

(* Steps of executePayout that its catch clause guards: saving the success, *)
(* and applying the consumption, of a payout that was sent.                 *)
InTry(w) == \/ work[w].at = "saveSucceeded"
            \/ /\ work[w].at \in {"consume", "saveClawback"}
               /\ work[w].next = "idle"
               /\ Net(work[w].payout) > 0

(* The database reports an error.  Inside the try block it is handled as if *)
(* the provider had rejected the transfer, elsewhere it ends the worker.    *)
DatabaseError(w) ==
  /\ work[w].at \in FailingSteps
  /\ IF InTry(w) THEN Goto(w, "saveRejected", work[w].payout, {}, 0, "idle")
                 ELSE Finish(w)
  /\ UNCHANGED <<orderVars, payoutVars, clawbackVars, moved>>

-----------------------------------------------------------------------------
(* The weekly batch *)

(* Mutant: the filter on status drops a refunded order (before FDP-109). *)
EarnedOnlyIfKept(k, o) == status[o] = "DELIVERED"

(* The vendor earns with orders that are DELIVERED now, the rider with those *)
(* that have a deliveredAt, which a refund leaves as it is.                 *)
Earned(k, o) ==
  IF k = "vendor" THEN status[o] = "DELIVERED"
  ELSE status[o] \in {"DELIVERED", "REFUNDED"}

Unpaid(k) == {o \in Orders : claimedBy[k][o] = NoPayout /\ Earned(k, o)}

getUnpaidEarnings(w, k) ==
  /\ work[w].at = "idle"
  /\ Unpaid(k) # {}
  /\ RefundsMeetPayouts \/ NoRefundOpen
  /\ work' = [work EXCEPT ![w] =
       [at |-> "applyClawbacks", payee |-> k, payout |-> NoPayout,
        todo |-> Unpaid(k), read |-> 0, next |-> "idle"]]
  /\ UNCHANGED <<orderVars, payoutVars, clawbackVars, moved>>

(* A document slot is free if it was never used, or if its attempt failed   *)
(* for good and nothing refers to it: the history of those is not kept.     *)
Free(p) ==
  /\ \/ payoutStatus[p] = "none"
     \/ payoutStatus[p] = "failed" /\ ~ reconciliationRequired[p]
  /\ p \notin moved
  /\ \A k \in Kinds, o \in Orders : claimedBy[k][o] # p
  /\ \A o \in Orders : payoutRead[o] # p
  /\ \A w \in Workers : work[w].payout # p

(* applyClawbacks reads the pending clawbacks, and executePayout creates a  *)
(* payout that keeps what it is going to take from each.                    *)
createPayout(w) ==
  LET p == CHOOSE q \in Payouts : Free(q) IN
  /\ work[w].at = "applyClawbacks"
  /\ \E q \in Payouts : Free(q)
  /\ payee' = [payee EXCEPT ![p] = work[w].payee]
  /\ covers' = [covers EXCEPT ![p] = work[w].todo]
  /\ \E c \in Deduction :
       /\ c = Netted(work[w].payee, work[w].todo)
       /\ consumption' = [consumption EXCEPT ![p] = c]
  /\ payoutStatus' = [payoutStatus EXCEPT ![p] = "pending"]
  /\ Goto(w, "claim", p, work[w].todo, 0, "idle")
  /\ UNCHANGED <<orderVars, reconciliationRequired, clawbackVars, moved>>

(* Mutant: the update's filter names the order only. *)
ClaimableByAnyone(k, o) == TRUE

Claimable(k, o) == claimedBy[k][o] = NoPayout

SetClaim(k, o, p) ==
  claimedBy' = [claimedBy EXCEPT ![k] = [claimedBy[k] EXCEPT ![o] = p]]

(* updateMany is atomic for each document, not for all of them together. *)
claimOrder(w, o) ==
  LET k == work[w].payee IN
  /\ work[w].at = "claim"
  /\ o \in work[w].todo
  /\ SetClaim(k, o, IF Claimable(k, o) THEN work[w].payout ELSE claimedBy[k][o])
  /\ Goto(w, "claim", work[w].payout, work[w].todo \ {o}, 0, "idle")
  /\ UNCHANGED <<status, refund, payoutRead, payoutVars, clawbackVars, moved>>

HoldsAll(p) == \A o \in covers[p] : claimedBy[payee[p]][o] = p

Consumed(p) == {o \in Orders : consumption[p][o] > 0}

(* The claim race is given up; a payout that clawbacks absorb entirely has  *)
(* succeeded; any other is about to be sent.                                *)
ClaimDone(w) ==
  LET p == work[w].payout IN
  /\ work[w].at = "claim"
  /\ work[w].todo = {}
  /\ \/ /\ ~ HoldsAll(p)
        /\ Goto(w, "release", p, {}, 0, "saveFailed")
        /\ UNCHANGED payoutStatus
     \/ /\ HoldsAll(p) /\ Net(p) = 0
        /\ payoutStatus' = [payoutStatus EXCEPT ![p] = "succeeded"]
        /\ Goto(w, "consume", p, Consumed(p), 0, "idle")
     \/ /\ HoldsAll(p) /\ Net(p) # 0
        /\ payoutStatus' = [payoutStatus EXCEPT ![p] = "processing"]
        /\ Goto(w, "transfer", p, {}, 0, "idle")
  /\ UNCHANGED <<orderVars, payee, covers, consumption, reconciliationRequired,
                 clawbackVars, moved>>

(* The provider accepts the transfer, rejects it, or leaves its outcome     *)
(* unknown, whether or not the money has moved.                             *)
Accepted(w) ==
  LET p == work[w].payout IN
  /\ work[w].at = "transfer"
  /\ moved' = moved \cup {p}
  /\ Goto(w, "saveSucceeded", p, {}, 0, "idle")
  /\ UNCHANGED <<orderVars, payoutVars, clawbackVars>>

Rejected(w) ==
  /\ work[w].at = "transfer"
  /\ Goto(w, "saveRejected", work[w].payout, {}, 0, "idle")
  /\ UNCHANGED <<orderVars, payoutVars, clawbackVars, moved>>

OutcomeUnknown(w) ==
  LET p == work[w].payout IN
  /\ work[w].at = "transfer"
  /\ AmbiguousDeductions \/ Deducted(p) = 0
  /\ moved' \in {moved, moved \cup {p}}
  /\ Goto(w, "saveUnknown", p, {}, 0, "idle")
  /\ UNCHANGED <<orderVars, payoutVars, clawbackVars>>

SaveSucceeded(w) ==
  LET p == work[w].payout IN
  /\ work[w].at = "saveSucceeded"
  /\ payoutStatus' = [payoutStatus EXCEPT ![p] = "succeeded"]
  /\ Goto(w, "consume", p, Consumed(p), 0, "idle")
  /\ UNCHANGED <<orderVars, payee, covers, consumption, reconciliationRequired,
                 clawbackVars, moved>>

(* Not released: no batch may try these orders again. *)
SaveUnknown(w) ==
  LET p == work[w].payout IN
  /\ work[w].at = "saveUnknown"
  /\ payoutStatus' = [payoutStatus EXCEPT ![p] = "failed"]
  /\ reconciliationRequired' = [reconciliationRequired EXCEPT ![p] = TRUE]
  /\ Finish(w)
  /\ UNCHANGED <<orderVars, payee, covers, consumption, clawbackVars, moved>>

SaveRejected(w) ==
  LET p == work[w].payout IN
  /\ work[w].at = "saveRejected"
  /\ payoutStatus' = [payoutStatus EXCEPT ![p] = "failed"]
  /\ Goto(w, "release", p, {}, 0, "idle")
  /\ UNCHANGED <<orderVars, payee, covers, consumption, reconciliationRequired,
                 clawbackVars, moved>>

-----------------------------------------------------------------------------
(* Releasing claims, and consuming clawbacks: loops over documents *)

Release(w, o) ==
  LET k == work[w].payee IN
  /\ work[w].at = "release"
  /\ claimedBy[k][o] = work[w].payout
  /\ SetClaim(k, o, NoPayout)
  /\ UNCHANGED <<status, refund, payoutRead, payoutVars, clawbackVars,
                 work, moved>>

(* Mutant: the claims are not released. *)
NothingToRelease(w) == TRUE

AllReleased(w) == \A o \in Orders : claimedBy[work[w].payee][o] # work[w].payout

(* applyClawbackConsumption takes its list in the order it was made. *)
Oldest(o, S) == o \in S /\ \A x \in S : createdAt[o] <= createdAt[x]

(* findById ... *)
ReadClawback(w) ==
  /\ work[w].at = "consume"
  /\ \E o \in Orders :
       /\ Oldest(o, work[w].todo)
       /\ Goto(w, "saveClawback", work[w].payout, work[w].todo,
               remainingAmount[o], work[w].next)
  /\ UNCHANGED <<orderVars, payoutVars, clawbackVars, moved>>

(* ... and save, from the amount that was read. *)
SaveClawback(w) ==
  /\ work[w].at = "saveClawback"
  /\ \E o \in Orders :
       LET p    == work[w].payout
           left == Max2(0, work[w].read - consumption[p][o])
       IN
       /\ Oldest(o, work[w].todo)
       /\ remainingAmount' = [remainingAmount EXCEPT ![o] = left]
       /\ pending' = IF left = 0 THEN pending \ {o} ELSE pending
       /\ Goto(w, "consume", p, work[w].todo \ {o}, 0, work[w].next)
  /\ UNCHANGED <<orderVars, payoutVars, createdAt, moved>>

LoopDone(w) ==
  /\ \/ work[w].at = "release" /\ AllReleased(w)
     \/ work[w].at = "consume" /\ work[w].todo = {}
  /\ IF work[w].next = "idle" THEN Finish(w)
     ELSE Goto(w, work[w].next, work[w].payout, {}, 0, "idle")
  /\ UNCHANGED <<orderVars, payoutVars, clawbackVars, moved>>

SaveFailed(w) ==
  /\ work[w].at = "saveFailed"
  /\ payoutStatus' = [payoutStatus EXCEPT ![work[w].payout] = "failed"]
  /\ Finish(w)
  /\ UNCHANGED <<orderVars, payee, covers, consumption, reconciliationRequired,
                 clawbackVars, moved>>

(* The administrator has looked the transfer up, and answers truthfully. *)
resolveReconciliation(w, p) ==
  /\ work[w].at = "idle"
  /\ reconciliationRequired[p]
  /\ work' = [work EXCEPT ![w] =
       [at |-> IF p \in moved THEN "consume" ELSE "release",
        payee |-> payee[p], payout |-> p,
        todo |-> IF p \in moved THEN Consumed(p) ELSE {},
        read |-> 0, next |-> "saveResolved"]]
  /\ UNCHANGED <<orderVars, payoutVars, clawbackVars, moved>>

SaveResolved(w) ==
  LET p == work[w].payout IN
  /\ work[w].at = "saveResolved"
  /\ reconciliationRequired' = [reconciliationRequired EXCEPT ![p] = FALSE]
  /\ payoutStatus' = [payoutStatus EXCEPT ![p] =
       IF p \in moved THEN "succeeded" ELSE "failed"]
  /\ Finish(w)
  /\ UNCHANGED <<orderVars, payee, covers, consumption, clawbackVars, moved>>

-----------------------------------------------------------------------------
(* Orders: delivered (module OrderFulfilment), refunded (OrderPayments) *)

Deliver(o) ==
  /\ status[o] = "OUT_FOR_DELIVERY"
  /\ status' = [status EXCEPT ![o] = "DELIVERED"]
  /\ UNCHANGED <<claimedBy, refund, payoutRead, payoutVars, clawbackVars,
                 work, moved>>

claimForRefund(o) ==
  /\ status[o] = "DELIVERED"
  /\ refund[o] = "none"
  /\ RefundsMeetPayouts \/ (NoPayoutOpen /\ NoRefundOpen)
  /\ status' = [status EXCEPT ![o] = "REFUNDED"]
  /\ refund' = [refund EXCEPT ![o] = "claimed"]
  /\ UNCHANGED <<claimedBy, payoutRead, payoutVars, clawbackVars, work, moved>>

revertFailedRefundClaim(o) ==
  /\ refund[o] = "claimed"
  /\ status' = [status EXCEPT ![o] = "DELIVERED"]
  /\ refund' = [refund EXCEPT ![o] = "none"]
  /\ UNCHANGED <<claimedBy, payoutRead, payoutVars, clawbackVars, work, moved>>

(* The document that is read here is the one the clawback is decided by. *)
finalizeRefund(o) ==
  /\ refund[o] = "claimed"
  /\ refund' = [refund EXCEPT ![o] = "finalized"]
  /\ payoutRead' = [payoutRead EXCEPT ![o] = claimedBy["vendor"][o]]
  /\ UNCHANGED <<status, claimedBy, payoutVars, clawbackVars, work, moved>>

(* Mutant: the clawback is recorded whether or not the order was paid out. *)
AlwaysPaidOut(o) == TRUE

PaidOut(o) == payoutRead[o] # NoPayout

NextPlace == 1 + Cardinality({o \in Orders : createdAt[o] > 0})

recordVendorClawbackIfNeeded(o) ==
  /\ refund[o] = "finalized"
  /\ refund' = [refund EXCEPT ![o] = "done"]
  /\ payoutRead' = [payoutRead EXCEPT ![o] = NoPayout]
  /\ IF PaidOut(o)
     THEN /\ createdAt' = [createdAt EXCEPT ![o] = NextPlace]
          /\ remainingAmount' = [remainingAmount EXCEPT ![o] = Earns["vendor"][o]]
          /\ pending' = pending \cup {o}
     ELSE UNCHANGED clawbackVars
  /\ UNCHANGED <<status, claimedBy, payoutVars, work, moved>>

-----------------------------------------------------------------------------
Step(w) ==
  \/ createPayout(w)  \/ ClaimDone(w)
  \/ Accepted(w)      \/ Rejected(w)     \/ OutcomeUnknown(w)
  \/ SaveSucceeded(w) \/ SaveUnknown(w)  \/ SaveRejected(w)
  \/ ReadClawback(w)  \/ SaveClawback(w) \/ LoopDone(w)
  \/ SaveFailed(w)    \/ SaveResolved(w)
  \/ \E o \in Orders : claimOrder(w, o) \/ Release(w, o)

Start(w) ==
  \/ \E k \in Payees : getUnpaidEarnings(w, k)
  \/ \E p \in Payouts : resolveReconciliation(w, p)

Refund(o) ==
  \/ finalizeRefund(o) \/ revertFailedRefundClaim(o)
  \/ recordVendorClawbackIfNeeded(o)

Next ==
  \/ \E w \in Workers : Start(w) \/ Step(w) \/ Die(w) \/ DatabaseError(w)
  \/ \E o \in Orders : Deliver(o) \/ claimForRefund(o) \/ Refund(o)

Spec == Init /\ [][Next]_vars

(* A worker and a refund that are under way go on.  The batch and the       *)
(* administrators come back, week after week, to what there is to do, and a *)
(* provider that rejects transfers accepts one some day.                    *)
FairSpec ==
  /\ Spec
  /\ \A w \in Workers :
       WF_vars(Step(w)) /\ SF_vars(Accepted(w)) /\ SF_vars(Start(w))
  /\ \A o \in Orders : WF_vars(Refund(o))

-----------------------------------------------------------------------------
(* Properties *)

Paid(p) == p \in moved \/ payoutStatus[p] = "succeeded"

(* An order has earned the vendor something while it stays delivered, and   *)
(* the rider whatever becomes of it later.                                  *)
Entitled(k) == {o \in Orders :
  status[o] = "DELIVERED" \/ (k = "rider" /\ status[o] = "REFUNDED")}

PaidFor(k, o) == \E p \in Payouts : payee[p] = k /\ Paid(p) /\ o \in covers[p]

(* An order is never counted in two payouts of the same payee: whatever the *)
(* batches, the reconciliations and the restarts do, the money of two       *)
(* payouts to the vendor, or to the rider, is for different orders.         *)
OrderPaidOnce == \A p, q \in Payouts :
  /\ p # q
  /\ Paid(p) /\ Paid(q)
  /\ payee[p] = payee[q]
  => covers[p] \cap covers[q] = {}

AtRest == NoPayoutOpen /\ NoRefundOpen

Received(k) ==
  LET sent == {p \in Payouts : payee[p] = k /\ p \in moved} IN
  Sum([p \in Payouts |-> Gross(payee[p], covers[p])], sent)
    - Sum([p \in Payouts |-> Deducted(p)], sent)

(* When nothing is under way, what a payee has received, less what the      *)
(* clawbacks still have to take, is what the orders paid for have earned:   *)
(* the vendor has lost the refunded ones and nothing else, the rider none.  *)
PayeeIsSquare ==
  AtRest => \A k \in Payees :
    Received(k) - (IF k = "vendor" THEN Owed(Orders) ELSE 0)
      = Gross(k, {o \in Entitled(k) : PaidFor(k, o)})

(* An order that has been claimed for a payout is paid, or is in the hands  *)
(* of a worker, or waits for an administrator: earnings never get stuck on  *)
(* a payout that has failed for good.                                       *)
ClaimIsAnswered == \A k \in Kinds, o \in Orders :
  LET p == claimedBy[k][o] IN
  p # NoPayout =>
    \/ payoutStatus[p] = "succeeded"
    \/ reconciliationRequired[p]
    \/ \E w \in Workers : work[w].payout = p

(* What the orders have earned the vendor and the rider is paid in the end, *)
(* unless they are refunded first.                                          *)
SomeoneIsOwed == \E k \in Payees : \E o \in Entitled(k) : ~ PaidFor(k, o)

EarningsAreSettled == SomeoneIsOwed ~> ~ SomeoneIsOwed

(* Promises of the source that ambiguous transfers break; see the README  *)

(* A refund is taken out of the vendor's earnings once.                     *)
DeductedOnce == \A o \in Orders :
  Sum([p \in Payouts |-> consumption[p][o]],
      {p \in Payouts : payoutStatus[p] = "succeeded"})
    <= Earns["vendor"][o]
=============================================================================
