---------------------------- MODULE Payouts_proofs ----------------------------
(***************************************************************************)
(* Theorems about Payouts for any number of orders, payout documents and   *)
(* workers, with restarts and ambiguous transfers, however refunds and     *)
(* batches interleave.                                                     *)
(*                                                                         *)
(* LockInv says that an order's claim field is a lock that a payout holds  *)
(* from before its transfer until it is known not to have moved money, and *)
(* that a payout document is in the hands of one batch at a time.          *)
(* AnswerInv follows each claim to the payout that answers for it.         *)
(* LedgerInv is the books of the clawbacks, order by order: what is left   *)
(* and what payouts have taken add up to the vendor's part.  The lemmas on *)
(* sums in between are about Sum alone.                                    *)
(***************************************************************************)
EXTENDS Payouts, FiniteSetTheorems, TLAPS

-----------------------------------------------------------------------------
(* Types *)

(* A worker has a payout document from its creation to the end. *)
HasPayout(w) ==
  work[w].payout # NoPayout <=> work[w].at \notin {"idle", "applyClawbacks"}

TypeInv == TypeOK /\ \A w \in Workers : HasPayout(w)

LEMMA IdleType == Idle \in Work /\ Idle.at = "idle" /\ Idle.payout = NoPayout
BY ConstantsAssumption DEF Idle, Work, Amount, Kinds

LEMMA ZeroType == 0 \in Amount
BY ConstantsAssumption DEF Amount

LEMMA TypeInit == Init => TypeInv
BY IdleType, ZeroType DEF Init, TypeInv, TypeOK, HasPayout, Deduction, Kinds

(* Two ways in which a worker goes on, and both keep the types. *)
LEMMA GotoType ==
  ASSUME TypeInv, NEW w \in Workers, NEW at, NEW p \in Payouts, NEW todo, NEW r,
         NEW next, Goto(w, at, p, todo, r, next),
         at \in {"claim", "transfer", "saveSucceeded", "saveUnknown",
                 "saveRejected", "release", "saveFailed", "consume",
                 "saveClawback", "saveResolved"},
         todo \in SUBSET Orders, r \in Amount,
         next \in {"idle", "saveFailed", "saveResolved"}
  PROVE  work' \in [Workers -> Work] /\ \A v \in Workers : HasPayout(v)'
<1>1. NoPayout \notin Payouts
  BY ConstantsAssumption
<1>2. QED
  BY <1>1 DEF Goto, TypeInv, TypeOK, Work, HasPayout

LEMMA FinishType ==
  ASSUME TypeInv, NEW w \in Workers, Finish(w)
  PROVE  work' \in [Workers -> Work] /\ \A v \in Workers : HasPayout(v)'
BY IdleType DEF Finish, TypeInv, TypeOK, HasPayout

LEMMA SameWorkType ==
  ASSUME TypeInv, UNCHANGED work
  PROVE  work' \in [Workers -> Work] /\ \A v \in Workers : HasPayout(v)'
BY DEF TypeInv, TypeOK, HasPayout

LEMMA WorkFacts ==
  ASSUME TypeInv, NEW w \in Workers
  PROVE  /\ work[w].payee \in Kinds
         /\ work[w].todo \in SUBSET Orders
         /\ work[w].read \in Amount
         /\ work[w].next \in {"idle", "saveFailed", "saveResolved"}
         /\ work[w].at \notin {"idle", "applyClawbacks"} =>
              work[w].payout \in Payouts
BY DEF TypeInv, TypeOK, Work, HasPayout

LEMMA FreePayout ==
  ASSUME \E q \in Payouts : Free(q)
  PROVE  (CHOOSE q \in Payouts : Free(q)) \in Payouts
         /\ Free(CHOOSE q \in Payouts : Free(q))
OBVIOUS

LEMMA ClaimedByType ==
  ASSUME TypeOK, NEW k \in Kinds, NEW o \in Orders
  PROVE  claimedBy[k][o] \in Payouts \cup {NoPayout}
BY DEF TypeOK

LEMMA StepType ==
  ASSUME TypeInv, NEW w \in Workers, Step(w) PROVE TypeInv'
<1> USE DEF orderVars, payoutVars, clawbackVars
<1>0. /\ {} \in SUBSET Orders /\ 0 \in Amount
      /\ \A p \in Payouts : Consumed(p) \in SUBSET Orders
  BY ZeroType DEF Consumed
<1>1. CASE createPayout(w)
  <2> DEFINE p == CHOOSE q \in Payouts : Free(q)
  <2>1. p \in Payouts
    BY <1>1, FreePayout DEF createPayout
  <2>2. PICK c \in Deduction : consumption' = [consumption EXCEPT ![p] = c]
    BY <1>1 DEF createPayout
  <2>3. Goto(w, "claim", p, work[w].todo, 0, "idle")
    BY <1>1 DEF createPayout
  <2>4. work' \in [Workers -> Work] /\ \A v \in Workers : HasPayout(v)'
    BY <2>1, <2>3, <1>0, WorkFacts, GotoType
  <2>5. /\ consumption' \in [Payouts -> Deduction]
        /\ payee' \in [Payouts -> Kinds]
        /\ covers' \in [Payouts -> SUBSET Orders]
        /\ payoutStatus' \in
             [Payouts -> {"none", "pending", "processing", "succeeded", "failed"}]
    BY <1>1, <2>1, <2>2, WorkFacts DEF createPayout, TypeInv, TypeOK
  <2>6. QED
    BY <1>1, <2>4, <2>5 DEF createPayout, TypeInv, TypeOK
<1>2. CASE ClaimDone(w)
  <2>1. work[w].payout \in Payouts
    BY <1>2, WorkFacts DEF ClaimDone
  <2>2. work' \in [Workers -> Work] /\ \A v \in Workers : HasPayout(v)'
    BY <1>2, <2>1, <1>0, GotoType DEF ClaimDone
  <2>3. QED
    BY <1>2, <2>1, <2>2 DEF ClaimDone, TypeInv, TypeOK
<1>3. CASE Accepted(w)
  <2>1. work[w].payout \in Payouts
    BY <1>3, WorkFacts DEF Accepted
  <2>2. work' \in [Workers -> Work] /\ \A v \in Workers : HasPayout(v)'
    BY <1>3, <2>1, <1>0, GotoType DEF Accepted
  <2>3. QED
    BY <1>3, <2>1, <2>2 DEF Accepted, TypeInv, TypeOK
<1>4. CASE Rejected(w)
  <2>1. work[w].payout \in Payouts
    BY <1>4, WorkFacts DEF Rejected
  <2>2. work' \in [Workers -> Work] /\ \A v \in Workers : HasPayout(v)'
    BY <1>4, <2>1, <1>0, GotoType DEF Rejected
  <2>3. QED
    BY <1>4, <2>1, <2>2 DEF Rejected, TypeInv, TypeOK
<1>5. CASE OutcomeUnknown(w)
  <2>1. work[w].payout \in Payouts
    BY <1>5, WorkFacts DEF OutcomeUnknown
  <2>2. work' \in [Workers -> Work] /\ \A v \in Workers : HasPayout(v)'
    BY <1>5, <2>1, <1>0, GotoType DEF OutcomeUnknown
  <2>3. QED
    BY <1>5, <2>1, <2>2 DEF OutcomeUnknown, TypeInv, TypeOK
<1>6. CASE SaveSucceeded(w)
  <2>1. work[w].payout \in Payouts
    BY <1>6, WorkFacts DEF SaveSucceeded
  <2>2. work' \in [Workers -> Work] /\ \A v \in Workers : HasPayout(v)'
    BY <1>6, <2>1, <1>0, GotoType DEF SaveSucceeded
  <2>3. QED
    BY <1>6, <2>1, <2>2 DEF SaveSucceeded, TypeInv, TypeOK
<1>7. CASE SaveUnknown(w)
  <2>2. work' \in [Workers -> Work] /\ \A v \in Workers : HasPayout(v)'
    BY <1>7, FinishType DEF SaveUnknown
  <2>3. QED
    BY <1>7, <2>2 DEF SaveUnknown, TypeInv, TypeOK
<1>8. CASE SaveRejected(w)
  <2>1. work[w].payout \in Payouts
    BY <1>8, WorkFacts DEF SaveRejected
  <2>2. work' \in [Workers -> Work] /\ \A v \in Workers : HasPayout(v)'
    BY <1>8, <2>1, <1>0, GotoType DEF SaveRejected
  <2>3. QED
    BY <1>8, <2>1, <2>2 DEF SaveRejected, TypeInv, TypeOK
<1>9. CASE ReadClawback(w)
  <2>1. work[w].payout \in Payouts /\ work[w].todo \in SUBSET Orders
        /\ work[w].next \in {"idle", "saveFailed", "saveResolved"}
    BY <1>9, WorkFacts DEF ReadClawback
  <2>2. PICK o \in Orders :
          Goto(w, "saveClawback", work[w].payout, work[w].todo,
               remainingAmount[o], work[w].next)
    BY <1>9 DEF ReadClawback
  <2>3. remainingAmount[o] \in Amount
    BY DEF TypeInv, TypeOK
  <2>4. work' \in [Workers -> Work] /\ \A v \in Workers : HasPayout(v)'
    BY <2>1, <2>2, <2>3, GotoType
  <2>5. QED
    BY <1>9, <2>4 DEF ReadClawback, TypeInv, TypeOK
<1>10. CASE SaveClawback(w)
  <2> DEFINE p == work[w].payout
             left(o) == Max2(0, work[w].read - consumption[p][o])
  <2>1. p \in Payouts /\ work[w].todo \in SUBSET Orders
        /\ work[w].next \in {"idle", "saveFailed", "saveResolved"}
    BY <1>10, WorkFacts DEF SaveClawback
  <2>2. PICK o \in Orders :
          /\ remainingAmount' = [remainingAmount EXCEPT ![o] = left(o)]
          /\ pending' = IF left(o) = 0 THEN pending \ {o} ELSE pending
          /\ Goto(w, "consume", p, work[w].todo \ {o}, 0, work[w].next)
    BY <1>10 DEF SaveClawback
  <2>3. left(o) \in Amount
    <3>1. work[w].read \in 0..MaxEarning /\ consumption[p][o] \in 0..MaxEarning
      BY <2>1, WorkFacts DEF TypeInv, TypeOK, Deduction, Amount
    <3>2. left(o) = IF 0 >= work[w].read - consumption[p][o] THEN 0
                    ELSE work[w].read - consumption[p][o]
      BY DEF Max2
    <3>3. QED
      BY <3>1, <3>2, ConstantsAssumption DEF Amount
  <2>7. work[w].todo \ {o} \in SUBSET Orders
    BY <2>1
  <2>4. work' \in [Workers -> Work] /\ \A v \in Workers : HasPayout(v)'
    BY <2>1, <2>2, <2>7, <1>0, GotoType
  <2>5. remainingAmount' \in [Orders -> Amount] /\ pending' \in SUBSET Orders
    BY <2>2, <2>3 DEF TypeInv, TypeOK
  <2>6. QED
    BY <1>10, <2>4, <2>5 DEF SaveClawback, TypeInv, TypeOK
<1>11. CASE LoopDone(w)
  <2>1. work[w].payout \in Payouts
        /\ work[w].next \in {"idle", "saveFailed", "saveResolved"}
    BY <1>11, WorkFacts DEF LoopDone
  <2>2. work' \in [Workers -> Work] /\ \A v \in Workers : HasPayout(v)'
    <3>1. CASE work[w].next = "idle"
      BY <1>11, <3>1, FinishType DEF LoopDone
    <3>2. CASE work[w].next # "idle"
      BY <1>11, <3>2, <2>1, <1>0, GotoType DEF LoopDone
    <3>3. QED
      BY <3>1, <3>2
  <2>3. QED
    BY <1>11, <2>2 DEF LoopDone, TypeInv, TypeOK
<1>12. CASE SaveFailed(w)
  <2>2. work' \in [Workers -> Work] /\ \A v \in Workers : HasPayout(v)'
    BY <1>12, FinishType DEF SaveFailed
  <2>3. QED
    BY <1>12, <2>2 DEF SaveFailed, TypeInv, TypeOK
<1>13. CASE SaveResolved(w)
  <2>2. work' \in [Workers -> Work] /\ \A v \in Workers : HasPayout(v)'
    BY <1>13, FinishType DEF SaveResolved
  <2>3. QED
    BY <1>13, <2>2 DEF SaveResolved, TypeInv, TypeOK
<1>14. ASSUME NEW o \in Orders, claimOrder(w, o) PROVE TypeInv'
  <2>1. work[w].payout \in Payouts /\ work[w].todo \ {o} \in SUBSET Orders
        /\ work[w].payee \in Kinds
    BY <1>14, WorkFacts DEF claimOrder
  <2>2. work' \in [Workers -> Work] /\ \A v \in Workers : HasPayout(v)'
    BY <1>14, <2>1, <1>0, GotoType DEF claimOrder
  <2>3. claimedBy' \in [Kinds -> [Orders -> Payouts \cup {NoPayout}]]
    BY <1>14, <2>1, ClaimedByType DEF claimOrder, SetClaim, TypeInv, TypeOK
  <2>4. QED
    BY <1>14, <2>2, <2>3 DEF claimOrder, TypeInv, TypeOK
<1>15. ASSUME NEW o \in Orders, Release(w, o) PROVE TypeInv'
  <2>2. work' \in [Workers -> Work] /\ \A v \in Workers : HasPayout(v)'
    BY <1>15, SameWorkType DEF Release
  <2>3. claimedBy' \in [Kinds -> [Orders -> Payouts \cup {NoPayout}]]
    BY <1>15, WorkFacts DEF Release, SetClaim, TypeInv, TypeOK
  <2>4. QED
    BY <1>15, <2>2, <2>3 DEF Release, TypeInv, TypeOK
<1>16. QED
  BY <1>1, <1>2, <1>3, <1>4, <1>5, <1>6, <1>7, <1>8, <1>9, <1>10, <1>11,
     <1>12, <1>13, <1>14, <1>15 DEF Step

LEMMA StartType ==
  ASSUME TypeInv, NEW w \in Workers, Start(w) PROVE TypeInv'
<1> USE DEF orderVars, payoutVars, clawbackVars
<1>1. ASSUME NEW k \in Payees, getUnpaidEarnings(w, k) PROVE TypeInv'
  <2>1. k \in Kinds /\ Unpaid(k) \in SUBSET Orders
    BY ConstantsAssumption DEF Unpaid
  <2>2. work' \in [Workers -> Work] /\ \A v \in Workers : HasPayout(v)'
    BY <1>1, <2>1, ZeroType DEF getUnpaidEarnings, TypeInv, TypeOK, Work, HasPayout
  <2>3. QED
    BY <1>1, <2>2 DEF getUnpaidEarnings, TypeInv, TypeOK
<1>2. ASSUME NEW p \in Payouts, resolveReconciliation(w, p) PROVE TypeInv'
  <2>1. /\ payee[p] \in Kinds /\ Consumed(p) \in SUBSET Orders
        /\ p # NoPayout
    BY ConstantsAssumption DEF Consumed, TypeInv, TypeOK
  <2>2. work' \in [Workers -> Work] /\ \A v \in Workers : HasPayout(v)'
    BY <1>2, <2>1, ZeroType DEF resolveReconciliation, TypeInv, TypeOK, Work,
       HasPayout
  <2>3. QED
    BY <1>2, <2>2 DEF resolveReconciliation, TypeInv, TypeOK
<1>3. QED
  BY <1>1, <1>2 DEF Start

LEMMA CutOffType ==
  ASSUME TypeInv, NEW w \in Workers, Die(w) \/ DatabaseError(w) PROVE TypeInv'
<1> USE DEF orderVars, payoutVars, clawbackVars
<1>1. work' \in [Workers -> Work] /\ \A v \in Workers : HasPayout(v)'
  <2>1. CASE Finish(w)
    BY <2>1, FinishType
  <2>2. CASE InTry(w) /\ Goto(w, "saveRejected", work[w].payout, {}, 0, "idle")
    <3>1. work[w].payout \in Payouts
      BY <2>2, WorkFacts DEF InTry
    <3>2. QED
      BY <2>2, <3>1, ZeroType, GotoType
  <2>3. QED
    BY <2>1, <2>2 DEF Die, DatabaseError
<1>2. QED
  BY <1>1 DEF Die, DatabaseError, TypeInv, TypeOK

LEMMA OrderType ==
  ASSUME TypeInv, NEW o \in Orders,
         Deliver(o) \/ claimForRefund(o) \/ Refund(o)
  PROVE  TypeInv'
<1> USE DEF orderVars, payoutVars, clawbackVars
<1>1. work' \in [Workers -> Work] /\ \A v \in Workers : HasPayout(v)'
  BY SameWorkType DEF Deliver, claimForRefund, Refund, finalizeRefund,
     revertFailedRefundClaim, recordVendorClawbackIfNeeded
<1>2. CASE Deliver(o)
  BY <1>1, <1>2 DEF Deliver, TypeInv, TypeOK
<1>6. CASE claimForRefund(o)
  BY <1>1, <1>6 DEF claimForRefund, TypeInv, TypeOK
<1>7. CASE revertFailedRefundClaim(o)
  BY <1>1, <1>7 DEF revertFailedRefundClaim, TypeInv, TypeOK
<1>3. CASE finalizeRefund(o)
  BY <1>1, <1>3, ClaimedByType DEF Kinds, finalizeRefund, TypeInv, TypeOK
<1>4. CASE recordVendorClawbackIfNeeded(o)
  <2>1. NextPlace \in Nat
    <3>1. IsFiniteSet({x \in Orders : createdAt[x] > 0})
      BY ConstantsAssumption, FS_Subset
    <3>2. QED
      BY <3>1, FS_CardinalityType DEF NextPlace
  <2>2. Earns["vendor"][o] \in Amount
    <3>1. Earns["vendor"][o] \in 1..MaxEarning
      BY ConstantsAssumption DEF Kinds
    <3>2. QED
      BY <3>1, ConstantsAssumption DEF Amount
  <2>3. /\ createdAt' \in [Orders -> Nat]
        /\ remainingAmount' \in [Orders -> Amount]
        /\ pending' \in SUBSET Orders
    BY <1>4, <2>1, <2>2 DEF recordVendorClawbackIfNeeded, TypeInv, TypeOK
  <2>4. QED
    BY <1>1, <1>4, <2>3 DEF recordVendorClawbackIfNeeded, TypeInv, TypeOK
<1>5. QED
  BY <1>2, <1>3, <1>4, <1>6, <1>7 DEF Refund

LEMMA TypeStep == ASSUME TypeInv, [Next]_vars PROVE TypeInv'
<1>1. CASE UNCHANGED vars
  BY <1>1 DEF vars, orderVars, payoutVars, clawbackVars, TypeInv, TypeOK, HasPayout
<1>2. QED
  BY <1>1, StepType, StartType, CutOffType, OrderType DEF Next

(* Every variable keeps its type, whatever the constants. *)
THEOREM TypeCorrect == Spec => []TypeOK
<1>1. TypeInv /\ [Next]_vars => TypeInv'
  BY TypeStep
<1>2. TypeInv => TypeOK
  BY DEF TypeInv
<1>3. QED
  BY <1>1, <1>2, TypeInit, PTL DEF Spec

-----------------------------------------------------------------------------
(* An order is never counted in two payouts *)

Resolves(w) ==
  \/ work[w].at = "saveResolved"
  \/ work[w].at \in {"release", "consume", "saveClawback"}
     /\ work[w].next = "saveResolved"

(* The batch that created a payout has it to itself ... *)
Alone(w) ==
  work[w].payout # NoPayout /\ ~ Resolves(w) =>
    /\ ~ reconciliationRequired[work[w].payout]
    /\ \A v \in Workers : v # w => work[v].payout # work[w].payout

(* ... sends it only with every order claimed, and gives claims up only if  *)
(* no money has moved.                                                      *)
Knows(w) ==
  /\ work[w].at = "transfer" => HoldsAll(work[w].payout)
  /\ work[w].at = "saveSucceeded" => work[w].payout \in moved
  /\ work[w].at \in {"claim", "transfer", "saveRejected", "release", "saveFailed"}
       => ~ Paid(work[w].payout)
  /\ work[w].at \in {"consume", "saveClawback"} => work[w].next # "saveFailed"

Locked(p) == Paid(p) => HoldsAll(p)

Unsettled(p) == reconciliationRequired[p] =>
  /\ payoutStatus[p] # "none"
  /\ payoutStatus[p] = "succeeded" => p \in moved

LockInv ==
  /\ TypeInv
  /\ \A w \in Workers : Alone(w) /\ Knows(w)
  /\ \A p \in Payouts : Locked(p) /\ Unsettled(p)

NoLostSave ==
  FailingSteps \cap {"saveSucceeded", "consume", "saveClawback"} = {}

LEMMA LockInit == Init => LockInv
<1>1. ASSUME Init PROVE \A w \in Workers : Alone(w) /\ Knows(w)
  BY <1>1, IdleType DEF Init, Alone, Knows, Idle
<1>2. ASSUME Init PROVE \A p \in Payouts : Locked(p) /\ Unsettled(p)
  BY <1>2 DEF Init, Locked, Unsettled, Paid
<1>3. QED
  BY <1>1, <1>2, TypeInit DEF LockInv

(* A worker that goes on with the same payout, and stops there. *)
LEMMA GotoLock ==
  ASSUME LockInv, TypeInv', NEW w \in Workers,
         NEW at, NEW todo, NEW r, NEW next,
         Goto(w, at, work[w].payout, todo, r, next), Knows(w)',
         work[w].payout # NoPayout, Resolves(w) => Resolves(w)',
         UNCHANGED <<claimedBy, payee, covers, payoutStatus,
                     reconciliationRequired, moved>>
  PROVE  LockInv'
<1> USE DEF LockInv, TypeInv, TypeOK
<1>1. /\ \A v \in Workers : work'[v].payout = work[v].payout
      /\ \A v \in Workers : v # w => work'[v] = work[v]
  BY DEF Goto
<1>2. ASSUME NEW v \in Workers PROVE Alone(v)'
  <2>1. CASE v = w
    BY <1>1, <2>1 DEF Alone
  <2>2. CASE v # w
    <3>1. Resolves(v)' = Resolves(v)
      BY <1>1, <2>2 DEF Resolves
    <3>2. QED
      BY <1>1, <2>2, <3>1 DEF Alone
  <2>3. QED
    BY <2>1, <2>2
<1>3. ASSUME NEW v \in Workers PROVE Knows(v)'
  <2>1. CASE v # w
    <3>1. work'[v] = work[v] /\ Knows(v)
      BY <1>1, <2>1
    <3>2. QED
      BY <3>1 DEF Knows, HoldsAll, Paid
  <2>2. QED
    BY <2>1
<1>4. \A p \in Payouts : Locked(p)' /\ Unsettled(p)'
  BY DEF Locked, Unsettled, HoldsAll, Paid
<1>5. QED
  BY <1>2, <1>3, <1>4

LEMMA FinishLock ==
  ASSUME LockInv, TypeInv', NEW w \in Workers, Finish(w),
         UNCHANGED <<claimedBy, payee, covers, moved>>,
         \A p \in Payouts : Locked(p)' /\ Unsettled(p)',
         \A v \in Workers : v # w /\ work[v].payout # NoPayout =>
            /\ reconciliationRequired'[work[v].payout] =>
                 reconciliationRequired[work[v].payout] \/ Resolves(v)
            /\ Paid(work[v].payout)' => Paid(work[v].payout)
  PROVE  LockInv'
<1> USE DEF LockInv, TypeInv, TypeOK
<1>1. /\ \A v \in Workers : v # w => work'[v] = work[v]
      /\ work'[w] = Idle
  BY DEF Finish
<1>2. ASSUME NEW v \in Workers PROVE Alone(v)'
  <2>1. CASE v = w
    BY <1>1, <2>1, IdleType DEF Alone
  <2>2. CASE v # w
    <3>1. Resolves(v)' = Resolves(v)
      BY <1>1, <2>2 DEF Resolves
    <3>2. Alone(v) /\ work'[v] = work[v]
      BY <1>1, <2>2
    <3>3. QED
      BY <1>1, <2>2, <3>1, <3>2, IdleType DEF Alone
  <2>3. QED
    BY <2>1, <2>2
<1>3. ASSUME NEW v \in Workers PROVE Knows(v)'
  <2>1. CASE v = w
    BY <1>1, <2>1 DEF Knows, Idle
  <2>2. CASE v # w
    <3>1. work'[v] = work[v] /\ Knows(v) /\ HasPayout(v)
      BY <1>1, <2>2
    <3>2. Paid(work[v].payout)' => Paid(work[v].payout)
          \/ work[v].at \in {"idle", "applyClawbacks"}
      BY <2>2, <3>1 DEF HasPayout
    <3>3. work[v].at = "saveSucceeded" => work[v].payout \in moved'
      BY <3>1 DEF Knows
    <3>4. QED
      BY <3>1, <3>2, <3>3 DEF Knows, Paid, HoldsAll
  <2>3. QED
    BY <2>1, <2>2
<1>5. QED
  BY <1>2, <1>3
(* What other workers hold is not the payout of a worker that owns its own. *)
LEMMA OthersApart ==
  ASSUME LockInv, NEW w \in Workers, work[w].payout # NoPayout, ~ Resolves(w),
         NEW v \in Workers, v # w
  PROVE  work[v].payout # work[w].payout
BY DEF LockInv, Alone

LEMMA LockCreate ==
  ASSUME LockInv, TypeInv', NEW w \in Workers, createPayout(w) PROVE LockInv'
<1> DEFINE p == CHOOSE q \in Payouts : Free(q)
<1>1. p \in Payouts /\ Free(p) /\ p # NoPayout
  BY FreePayout, ConstantsAssumption DEF createPayout
<1>2. /\ \A v \in Workers : v # w => work'[v] = work[v] /\ work[v].payout # p
      /\ work'[w].at = "claim" /\ work'[w].payout = p
  <2>1. Goto(w, "claim", p, work[w].todo, 0, "idle")
    BY DEF createPayout
  <2>2. \A v \in Workers : work[v].payout # p
    BY <1>1 DEF Free
  <2>3. work \in [Workers -> Work]
    BY DEF LockInv, TypeInv, TypeOK
  <2> HIDE DEF p
  <2>4. QED
    BY <2>1, <2>2, <2>3 DEF Goto
<1>3. /\ \A q \in Payouts : q # p => /\ payee'[q] = payee[q]
                                     /\ covers'[q] = covers[q]
                                     /\ payoutStatus'[q] = payoutStatus[q]
      /\ payoutStatus'[p] = "pending"
      /\ UNCHANGED <<claimedBy, reconciliationRequired, moved>>
  BY <1>1 DEF createPayout, LockInv, TypeInv, TypeOK, orderVars
<1>4. ~ reconciliationRequired[p] /\ p \notin moved
  BY <1>1 DEF Free, LockInv, Unsettled
<1> HIDE DEF p
<1>5. ASSUME NEW v \in Workers PROVE Alone(v)'
  <2>1. CASE v = w
    BY <1>2, <1>3, <1>4, <2>1 DEF Alone
  <2>2. CASE v # w
    <3>1. Alone(v) /\ work'[v] = work[v] /\ Resolves(v)' = Resolves(v)
      BY <1>2, <2>2 DEF LockInv, Resolves
    <3>2. QED
      BY <1>2, <1>3, <2>2, <3>1 DEF Alone
  <2>3. QED
    BY <2>1, <2>2
<1>6. ASSUME NEW v \in Workers PROVE Knows(v)'
  <2>1. CASE v = w
    BY <1>2, <1>3, <1>4, <2>1 DEF Knows, Paid
  <2>2. CASE v # w
    <3>1. Knows(v) /\ HasPayout(v) /\ work'[v] = work[v] /\ work[v].payout # p
      BY <1>2, <2>2 DEF LockInv, TypeInv
    <3>2. work[v].at \notin {"idle", "applyClawbacks"} =>
            work[v].payout \in Payouts
      BY WorkFacts DEF LockInv
    <3>3. QED
      BY <1>3, <3>1, <3>2 DEF Knows, Paid, HoldsAll
  <2>3. QED
    BY <2>1, <2>2
<1>7. ASSUME NEW q \in Payouts PROVE Locked(q)' /\ Unsettled(q)'
  <2>1. CASE q = p
    BY <1>3, <1>4, <2>1 DEF Locked, Unsettled, Paid
  <2>2. CASE q # p
    BY <1>3, <2>2 DEF LockInv, Locked, Unsettled, Paid, HoldsAll
  <2>3. QED
    BY <2>1, <2>2
<1>8. QED
  BY <1>5, <1>6, <1>7 DEF LockInv

LEMMA LockClaim ==
  ASSUME LockInv, TypeInv', NEW w \in Workers, NEW o \in Orders, claimOrder(w, o)
  PROVE  LockInv'
<1> DEFINE k == work[w].payee
<1>1. /\ \A v \in Workers : v # w => work'[v] = work[v]
      /\ work'[w].at = "claim" /\ work[w].at = "claim"
      /\ work'[w].payout = work[w].payout
      /\ UNCHANGED <<payee, covers, payoutStatus, reconciliationRequired, moved>>
  BY DEF claimOrder, Goto, LockInv, TypeInv, TypeOK, payoutVars
<1>2. ASSUME NEW j \in Kinds, NEW x \in Orders, NEW q \in Payouts,
             claimedBy[j][x] = q
      PROVE  claimedBy'[j][x] = q
  <2>1. k \in Kinds /\ q # NoPayout
    BY WorkFacts, ConstantsAssumption DEF LockInv
  <2>2. claimedBy[k][o] # NoPayout => claimedBy' = claimedBy
    BY <2>1 DEF claimOrder, SetClaim, Claimable, LockInv, TypeInv, TypeOK
  <2>3. \/ j = k /\ x = o
        \/ claimedBy'[j][x] = claimedBy[j][x]
    BY <2>1 DEF claimOrder, SetClaim, LockInv, TypeInv, TypeOK
  <2>4. QED
    BY <1>2, <2>1, <2>2, <2>3
<1>3. ASSUME NEW q \in Payouts, HoldsAll(q) PROVE HoldsAll(q)'
  <2>1. payee[q] \in Kinds /\ covers[q] \in SUBSET Orders
    BY DEF LockInv, TypeInv, TypeOK
  <2>2. \A x \in covers[q] : claimedBy'[payee[q]][x] = q
    BY <1>2, <1>3, <2>1 DEF HoldsAll
  <2>3. QED
    BY <1>1, <2>2 DEF HoldsAll
<1>4. ASSUME NEW v \in Workers PROVE Alone(v)'
  <2>1. Resolves(v)' = Resolves(v) /\ Alone(v)
    BY <1>1 DEF Resolves, LockInv
  <2>2. QED
    BY <1>1, <2>1 DEF Alone
<1>5. ASSUME NEW v \in Workers PROVE Knows(v)'
  <2>1. CASE v = w
    BY <1>1, <2>1 DEF LockInv, Knows, Paid
  <2>2. CASE v # w
    <3>1. Knows(v) /\ work'[v] = work[v]
      BY <1>1, <2>2 DEF LockInv
    <3>2. work[v].at = "transfer" => HoldsAll(work[v].payout)'
      BY <1>3, <3>1, WorkFacts DEF Knows, LockInv
    <3>3. QED
      BY <1>1, <3>1, <3>2 DEF Knows, Paid
  <2>3. QED
    BY <2>1, <2>2
<1>6. ASSUME NEW q \in Payouts PROVE Locked(q)' /\ Unsettled(q)'
  BY <1>1, <1>3 DEF LockInv, Locked, Unsettled, Paid
<1>7. QED
  BY <1>4, <1>5, <1>6 DEF LockInv
(* The owner of a payout changes its status, or moves its money. *)
LEMMA OwnerLock ==
  ASSUME LockInv, TypeInv', NEW w \in Workers,
         NEW at, NEW todo, NEW r, NEW next,
         work[w].payout \in Payouts, ~ Resolves(w),
         Goto(w, at, work[w].payout, todo, r, next), Knows(w)',
         \A q \in Payouts : q # work[w].payout =>
            /\ payoutStatus'[q] = payoutStatus[q]
            /\ q \in moved' <=> q \in moved,
         Paid(work[w].payout)' => HoldsAll(work[w].payout),
         UNCHANGED <<claimedBy, payee, covers, reconciliationRequired>>
  PROVE  LockInv'
<1> DEFINE p == work[w].payout
<1>1. /\ \A v \in Workers : work'[v].payout = work[v].payout
      /\ \A v \in Workers : v # w => work'[v] = work[v] /\ work[v].payout # p
  BY OthersApart, ConstantsAssumption DEF Goto, LockInv, TypeInv, TypeOK
<1>2. ~ reconciliationRequired[p] /\ p # NoPayout
  BY ConstantsAssumption DEF LockInv, Alone
<1>3. ASSUME NEW v \in Workers PROVE Alone(v)'
  <2>1. CASE v = w
    BY <1>1, <1>2, <2>1 DEF Alone
  <2>2. CASE v # w
    <3>1. Resolves(v)' = Resolves(v) /\ Alone(v)
      BY <1>1, <2>2 DEF Resolves, LockInv
    <3>2. QED
      BY <1>1, <2>2, <3>1 DEF Alone
  <2>3. QED
    BY <2>1, <2>2
<1>4. ASSUME NEW v \in Workers PROVE Knows(v)'
  <2>1. CASE v # w
    <3>1. Knows(v) /\ work'[v] = work[v] /\ work[v].payout # p
      BY <1>1, <2>1 DEF LockInv
    <3>2. work[v].at \notin {"idle", "applyClawbacks"} =>
            work[v].payout \in Payouts
      BY WorkFacts DEF LockInv
    <3>3. QED
      BY <3>1, <3>2 DEF Knows, Paid, HoldsAll
  <2>2. QED
    BY <2>1
<1>5. ASSUME NEW q \in Payouts PROVE Locked(q)' /\ Unsettled(q)'
  <2>1. CASE q = p
    <3>1. Paid(q)' => HoldsAll(q)'
      <4>1. Paid(q)' => Paid(work[w].payout)'
        BY <1>1, <2>1 DEF Paid
      <4>2. QED
        BY <4>1, <2>1 DEF HoldsAll
    <3>2. QED
      BY <1>2, <2>1, <3>1 DEF Locked, Unsettled
  <2>2. CASE q # p
    BY <2>2 DEF LockInv, Locked, Unsettled, Paid, HoldsAll
  <2>3. QED
    BY <2>1, <2>2
<1>6. QED
  BY <1>3, <1>4, <1>5 DEF LockInv

LEMMA LockRelease ==
  ASSUME LockInv, TypeInv', NEW w \in Workers, NEW o \in Orders, Release(w, o)
  PROVE  LockInv'
<1> DEFINE k == work[w].payee
           p == work[w].payout
<1>1. /\ UNCHANGED <<payee, covers, payoutStatus, reconciliationRequired, moved,
                     work>>
      /\ work[w].at = "release" /\ k \in Kinds /\ p \in Payouts
  BY WorkFacts DEF Release, payoutVars, LockInv
<1>2. ~ Paid(p)
  BY <1>1 DEF LockInv, Knows
<1>3. ASSUME NEW j \in Kinds, NEW x \in Orders, claimedBy[j][x] # p
      PROVE  claimedBy'[j][x] = claimedBy[j][x]
  BY <1>1, <1>3 DEF Release, SetClaim, LockInv, TypeInv, TypeOK
<1>4. ASSUME NEW q \in Payouts, q # p, HoldsAll(q) PROVE HoldsAll(q)'
  <2>1. payee[q] \in Kinds /\ covers[q] \in SUBSET Orders
    BY DEF LockInv, TypeInv, TypeOK
  <2>2. \A x \in covers[q] : claimedBy'[payee[q]][x] = q
    BY <1>3, <1>4, <2>1 DEF HoldsAll
  <2>3. QED
    BY <1>1, <2>2 DEF HoldsAll
<1>5. ASSUME NEW v \in Workers PROVE Alone(v)' /\ Knows(v)'
  <2>1. Alone(v) /\ Knows(v)
    BY DEF LockInv
  <2>2. work[v].at = "transfer" => HoldsAll(work[v].payout)'
    <3>1. ASSUME work[v].at = "transfer"
          PROVE  work[v].payout \in Payouts /\ work[v].payout # p
      <4>1. work[v].payout \in Payouts /\ ~ Resolves(v) /\ v # w
        BY <1>1, <3>1, WorkFacts DEF Resolves, LockInv
      <4>2. QED
        BY <4>1, <1>1, OthersApart, ConstantsAssumption
    <3>2. QED
      BY <1>1, <1>4, <2>1, <3>1 DEF Knows
  <2>3. QED
    BY <1>1, <2>1, <2>2 DEF Alone, Knows, Resolves, Paid
<1>6. ASSUME NEW q \in Payouts PROVE Locked(q)' /\ Unsettled(q)'
  BY <1>1, <1>2, <1>4 DEF LockInv, Locked, Unsettled, Paid
<1>7. QED
  BY <1>5, <1>6 DEF LockInv
(* What Goto leaves of the worker. *)
LEMMA AfterGoto ==
  ASSUME TypeInv, NEW w \in Workers, NEW at, NEW p, NEW todo, NEW r, NEW next,
         Goto(w, at, p, todo, r, next)
  PROVE  /\ work'[w].at = at /\ work'[w].payout = p /\ work'[w].next = next
BY DEF Goto, TypeInv, TypeOK

LEMMA LockTransfer ==
  ASSUME LockInv, TypeInv', NEW w \in Workers,
         ClaimDone(w) \/ Accepted(w) \/ Rejected(w) \/ OutcomeUnknown(w)
           \/ SaveSucceeded(w) \/ SaveRejected(w)
  PROVE  LockInv'
<1> USE DEF orderVars, payoutVars
<1> DEFINE p == work[w].payout
<1>1. /\ p \in Payouts /\ ~ Resolves(w) /\ Knows(w) /\ TypeInv
      /\ payoutStatus \in [Payouts -> {"none", "pending", "processing",
                                       "succeeded", "failed"}]
      /\ UNCHANGED <<claimedBy, payee, covers, reconciliationRequired>>
  BY WorkFacts DEF ClaimDone, Accepted, Rejected, OutcomeUnknown, SaveSucceeded,
     SaveRejected, Resolves, LockInv, TypeInv, TypeOK
<1>2. CASE ClaimDone(w)
  <2>1. ~ Paid(p) /\ moved' = moved
    BY <1>1, <1>2 DEF ClaimDone, Knows
  <2>2. CASE Goto(w, "release", p, {}, 0, "saveFailed") /\ UNCHANGED payoutStatus
    <3>1. work'[w].at = "release" /\ work'[w].payout = p
      BY <1>1, <2>2, AfterGoto
    <3>2. ~ Paid(work[w].payout)'
      BY <2>1, <2>2, <3>1 DEF Paid
    <3>3. Knows(w)'
      BY <3>1, <3>2 DEF Knows
    <3>4. QED
      BY <1>1, <2>1, <2>2, <3>2, <3>3, OwnerLock
  <2>3. CASE /\ HoldsAll(p)
             /\ payoutStatus' = [payoutStatus EXCEPT ![p] = "succeeded"]
             /\ Goto(w, "consume", p, Consumed(p), 0, "idle")
    <3>1. Knows(w)'
      BY <1>1, <2>3, AfterGoto DEF Knows
    <3>2. QED
      BY <1>1, <2>1, <2>3, <3>1, OwnerLock
  <2>4. CASE /\ HoldsAll(p)
             /\ payoutStatus' = [payoutStatus EXCEPT ![p] = "processing"]
             /\ Goto(w, "transfer", p, {}, 0, "idle")
    <3>1. work'[w].at = "transfer" /\ work'[w].payout = p
      BY <1>1, <2>4, AfterGoto
    <3>2. HoldsAll(p)' /\ ~ Paid(p)'
      BY <1>1, <2>1, <2>4, <3>1 DEF HoldsAll, Paid
    <3>3. Knows(w)'
      BY <1>1, <2>1, <2>4, <3>1 DEF Knows, Paid, HoldsAll
    <3>4. QED
      BY <1>1, <2>1, <2>4, <3>3, OwnerLock
  <2>5. QED
    BY <1>2, <2>2, <2>3, <2>4 DEF ClaimDone
<1>3. CASE Accepted(w)
  <2>1. HoldsAll(p)
    BY <1>1, <1>3 DEF Accepted, Knows
  <2>2. Knows(w)'
    BY <1>1, <1>3, AfterGoto DEF Accepted, Knows
  <2>3. QED
    BY <1>1, <1>3, <2>1, <2>2, OwnerLock DEF Accepted
<1>4. CASE Rejected(w)
  <2>1. ~ Paid(p)
    BY <1>1, <1>4 DEF Rejected, Knows
  <2>2. Knows(w)'
    BY <1>1, <1>4, <2>1, AfterGoto DEF Rejected, Knows, Paid
  <2>3. HoldsAll(p)
    BY <1>1, <1>4 DEF Rejected, Knows
  <2>4. QED
    BY <1>1, <1>4, <2>2, <2>3, OwnerLock DEF Rejected
<1>5. CASE OutcomeUnknown(w)
  <2>1. HoldsAll(p)
    BY <1>1, <1>5 DEF OutcomeUnknown, Knows
  <2>2. Knows(w)'
    BY <1>1, <1>5, AfterGoto DEF OutcomeUnknown, Knows
  <2>3. QED
    BY <1>1, <1>5, <2>1, <2>2, OwnerLock DEF OutcomeUnknown
<1>6. CASE SaveSucceeded(w)
  <2>1. HoldsAll(p)
    BY <1>1, <1>6 DEF SaveSucceeded, Knows, LockInv, Locked, Paid
  <2>2. Knows(w)'
    BY <1>1, <1>6, AfterGoto DEF SaveSucceeded, Knows
  <2>3. QED
    BY <1>1, <1>6, <2>1, <2>2, OwnerLock DEF SaveSucceeded
<1>7. CASE SaveRejected(w)
  <2>1. p \notin moved
    BY <1>1, <1>7 DEF SaveRejected, Knows, Paid
  <2>2. /\ work'[w].at = "release" /\ work'[w].payout = p
        /\ payoutStatus'[p] = "failed" /\ moved' = moved
    BY <1>1, <1>7, AfterGoto DEF SaveRejected
  <2>3. Knows(w)' /\ ~ Paid(p)'
    BY <2>1, <2>2 DEF Knows, Paid
  <2>4. QED
    BY <1>1, <1>7, <2>2, <2>3, OwnerLock DEF SaveRejected
<1>8. QED
  BY <1>2, <1>3, <1>4, <1>5, <1>6, <1>7

LEMMA LockSettle ==
  ASSUME LockInv, TypeInv', NEW w \in Workers,
         SaveUnknown(w) \/ SaveFailed(w) \/ SaveResolved(w)
  PROVE  LockInv'
<1> USE DEF orderVars, payoutVars
<1> DEFINE p == work[w].payout
<1>1. /\ p \in Payouts /\ p # NoPayout /\ Knows(w)
      /\ payoutStatus \in [Payouts -> {"none", "pending", "processing",
                                       "succeeded", "failed"}]
      /\ reconciliationRequired \in [Payouts -> BOOLEAN]
      /\ UNCHANGED <<claimedBy, payee, covers, moved>>
      /\ Finish(w)
      /\ \A q \in Payouts : Locked(q) /\ Unsettled(q)
  <2>1. work[w].at \notin {"idle", "applyClawbacks"} /\ Finish(w)
    BY DEF SaveUnknown, SaveFailed, SaveResolved
  <2>2. p \in Payouts /\ p # NoPayout
    BY <2>1, WorkFacts, ConstantsAssumption DEF LockInv
  <2>3. UNCHANGED <<claimedBy, payee, covers, moved>>
    BY DEF SaveUnknown, SaveFailed, SaveResolved
  <2>4. QED
    BY <2>1, <2>2, <2>3 DEF LockInv, TypeInv, TypeOK
<1>2. \A v \in Workers : v # w => work'[v] = work[v]
  BY <1>1 DEF Finish
<1>3. CASE SaveUnknown(w)
  <2>1. /\ \A q \in Payouts : q # p =>
             /\ payoutStatus'[q] = payoutStatus[q]
             /\ reconciliationRequired'[q] = reconciliationRequired[q]
        /\ payoutStatus'[p] = "failed"
    BY <1>1, <1>3 DEF SaveUnknown
  <2>2. \A v \in Workers : v # w => work[v].payout # p
    BY <1>1, <1>3, OthersApart DEF SaveUnknown, Resolves
  <2>3. \A q \in Payouts : Locked(q)' /\ Unsettled(q)'
    BY <1>1, <2>1 DEF Locked, Unsettled, Paid, HoldsAll
  <2>4. ASSUME NEW v \in Workers, v # w, work[v].payout # NoPayout
        PROVE  /\ reconciliationRequired'[work[v].payout] =>
                    reconciliationRequired[work[v].payout] \/ Resolves(v)
               /\ Paid(work[v].payout)' => Paid(work[v].payout)
    <3>1. work[v].payout \in Payouts
      BY <2>4, WorkFacts DEF LockInv, TypeInv, HasPayout
    <3>2. QED
      BY <1>1, <1>2, <2>1, <2>2, <2>4, <3>1 DEF Paid
  <2>5. QED
    BY <1>1, <2>3, <2>4, FinishLock
<1>4. CASE SaveFailed(w)
  <2>1. /\ \A q \in Payouts : q # p => payoutStatus'[q] = payoutStatus[q]
        /\ payoutStatus'[p] = "failed"
        /\ UNCHANGED reconciliationRequired
    BY <1>1, <1>4 DEF SaveFailed
  <2>3. \A q \in Payouts : Locked(q)' /\ Unsettled(q)'
    BY <1>1, <2>1 DEF Locked, Unsettled, Paid, HoldsAll
  <2>4. ASSUME NEW v \in Workers, v # w, work[v].payout # NoPayout
        PROVE  /\ reconciliationRequired'[work[v].payout] =>
                    reconciliationRequired[work[v].payout] \/ Resolves(v)
               /\ Paid(work[v].payout)' => Paid(work[v].payout)
    <3>1. work[v].payout \in Payouts
      BY <2>4, WorkFacts DEF LockInv, TypeInv, HasPayout
    <3>2. QED
      BY <1>1, <1>2, <2>1, <2>4, <3>1 DEF Paid
  <2>5. QED
    BY <1>1, <2>3, <2>4, FinishLock
<1>5. CASE SaveResolved(w)
  <2>1. /\ \A q \in Payouts : q # p =>
             /\ payoutStatus'[q] = payoutStatus[q]
             /\ reconciliationRequired'[q] = reconciliationRequired[q]
        /\ payoutStatus'[p] = "succeeded" => p \in moved
        /\ ~ reconciliationRequired'[p]
    BY <1>1, <1>5 DEF SaveResolved
  <2>3. \A q \in Payouts : Locked(q)' /\ Unsettled(q)'
    BY <1>1, <2>1 DEF Locked, Unsettled, Paid, HoldsAll
  <2>4. ASSUME NEW v \in Workers, v # w, work[v].payout # NoPayout
        PROVE  /\ reconciliationRequired'[work[v].payout] =>
                    reconciliationRequired[work[v].payout] \/ Resolves(v)
               /\ Paid(work[v].payout)' => Paid(work[v].payout)
    <3>1. work[v].payout \in Payouts
      BY <2>4, WorkFacts DEF LockInv, TypeInv, HasPayout
    <3>2. QED
      BY <1>1, <1>2, <2>1, <2>4, <3>1 DEF Paid
  <2>5. QED
    BY <1>1, <2>3, <2>4, FinishLock
<1>6. QED
  BY <1>3, <1>4, <1>5

LEMMA LockLoop ==
  ASSUME LockInv, TypeInv', NEW w \in Workers,
         ReadClawback(w) \/ SaveClawback(w) \/ LoopDone(w)
  PROVE  LockInv'
<1> USE DEF orderVars, payoutVars
<1> DEFINE p == work[w].payout
           next == work[w].next
<1>1. /\ p \in Payouts /\ p # NoPayout /\ Knows(w) /\ TypeInv
      /\ next \in {"idle", "saveFailed", "saveResolved"}
      /\ UNCHANGED <<claimedBy, payee, covers, payoutStatus,
                     reconciliationRequired, moved>>
  BY WorkFacts, ConstantsAssumption
     DEF ReadClawback, SaveClawback, LoopDone, LockInv
<1>2. CASE ReadClawback(w) \/ SaveClawback(w)
  <2>1. PICK at \in {"consume", "saveClawback"} :
          \E todo, r : Goto(w, at, p, todo, r, next)
    BY <1>2 DEF ReadClawback, SaveClawback
  <2>2. work[w].at \in {"consume", "saveClawback"}
    BY <1>2 DEF ReadClawback, SaveClawback
  <2>3. work'[w].at = at /\ work'[w].next = next
    BY <1>1, <2>1, AfterGoto
  <2>4. Knows(w)' /\ (Resolves(w) => Resolves(w)')
    BY <1>1, <2>2, <2>3 DEF Knows, Resolves
  <2>5. QED
    BY <1>1, <2>1, <2>4, GotoLock
<1>3. CASE LoopDone(w) /\ next = "idle"
  <2>1. \A q \in Payouts : Locked(q)' /\ Unsettled(q)'
    BY <1>1 DEF LockInv, Locked, Unsettled, Paid, HoldsAll
  <2>2. Finish(w)
    BY <1>3 DEF LoopDone
  <2>3. \A v \in Workers : v # w => work'[v] = work[v]
    BY <2>2 DEF Finish
  <2>4. \A v \in Workers : v # w =>
          (Paid(work[v].payout)' => Paid(work[v].payout))
    BY <1>1, <2>3 DEF Paid
  <2>5. QED
    BY <1>1, <2>1, <2>2, <2>4, FinishLock
<1>4. CASE LoopDone(w) /\ next # "idle"
  <2>1. Goto(w, next, p, {}, 0, "idle") /\ work[w].at \in {"release", "consume"}
    BY <1>4 DEF LoopDone
  <2>2. work'[w].at = next /\ work'[w].payout = p
    BY <1>1, <2>1, AfterGoto
  <2>3. Resolves(w) => Resolves(w)'
    BY <1>1, <2>1, <2>2 DEF Resolves
  <2>4. Knows(w)'
    <3>1. next = "saveFailed" => ~ Paid(work[w].payout)'
      BY <1>1, <2>1, <2>2 DEF Knows, Paid
    <3>2. QED
      BY <1>1, <1>4, <2>2, <3>1 DEF Knows
  <2>5. QED
    BY <1>1, <2>1, <2>3, <2>4, GotoLock
<1>5. QED
  BY <1>2, <1>3, <1>4

(* Nothing that LockInv speaks of changes, except what worker w does. *)
LEMMA LockStart ==
  ASSUME LockInv, TypeInv', NEW w \in Workers, Start(w) PROVE LockInv'
<1> USE DEF orderVars, payoutVars
<1>1. /\ UNCHANGED <<claimedBy, payee, covers, payoutStatus,
                     reconciliationRequired, moved>>
      /\ \A v \in Workers : v # w => work'[v] = work[v]
  BY DEF Start, getUnpaidEarnings, resolveReconciliation, LockInv, TypeInv, TypeOK
<1>2. \/ /\ work'[w].at = "applyClawbacks" /\ work'[w].payout = NoPayout
      \/ \E p \in Payouts :
           /\ reconciliationRequired[p]
           /\ work'[w].payout = p
           /\ work'[w].next = "saveResolved"
           /\ work'[w].at = IF p \in moved THEN "consume" ELSE "release"
  BY DEF Start, getUnpaidEarnings, resolveReconciliation, LockInv, TypeInv, TypeOK
<1>3. ASSUME NEW v \in Workers PROVE Alone(v)'
  <2>1. CASE v = w
    BY <1>2, <2>1 DEF Alone, Resolves
  <2>2. CASE v # w
    <3>1. Alone(v) /\ work'[v] = work[v] /\ Resolves(v)' = Resolves(v)
      BY <1>1, <2>2 DEF LockInv, Resolves
    <3>2. work[v].payout # NoPayout /\ ~ Resolves(v)
            => work'[w].payout # work[v].payout
      BY <1>2, <3>1 DEF Alone
    <3>3. QED
      BY <1>1, <2>2, <3>1, <3>2 DEF Alone
  <2>3. QED
    BY <2>1, <2>2
<1>4. ASSUME NEW v \in Workers PROVE Knows(v)'
  <2>1. CASE v = w /\ work'[w].at = "applyClawbacks"
    BY <2>1 DEF Knows
  <2>2. CASE v = w /\ work'[w].at # "applyClawbacks"
    <3>1. PICK p \in Payouts :
             /\ reconciliationRequired[p]
             /\ work'[w].payout = p
             /\ work'[w].next = "saveResolved"
             /\ work'[w].at = IF p \in moved THEN "consume" ELSE "release"
      BY <1>2, <2>2
    <3>2. p \notin moved => ~ Paid(p)
      BY <3>1 DEF LockInv, Unsettled, Paid
    <3>3. QED
      BY <1>1, <2>2, <3>1, <3>2 DEF Knows, Paid
  <2>3. CASE v # w
    <3>1. Knows(v) /\ work'[v] = work[v]
      BY <1>1, <2>3 DEF LockInv
    <3>2. QED
      BY <1>1, <3>1 DEF Knows, Paid, HoldsAll
  <2>4. QED
    BY <2>1, <2>2, <2>3
<1>5. \A q \in Payouts : Locked(q)' /\ Unsettled(q)'
  BY <1>1 DEF LockInv, Locked, Unsettled, Paid, HoldsAll
<1>6. QED
  BY <1>3, <1>4, <1>5 DEF LockInv

(* A worker that is cut off forgets its payout, which stays as it is.  An   *)
(* error while a success is saved would be taken for a rejection.           *)
LEMMA LockCutOff ==
  ASSUME LockInv, TypeInv', NoLostSave, NEW w \in Workers,
         Die(w) \/ DatabaseError(w)
  PROVE  LockInv'
<1> USE DEF orderVars, payoutVars
<1>1. Finish(w)
  BY DEF NoLostSave, Die, DatabaseError, InTry
<1>2. UNCHANGED <<claimedBy, payee, covers, payoutStatus,
                  reconciliationRequired, moved>>
  BY DEF Die, DatabaseError
<1>3. \A q \in Payouts : Locked(q)' /\ Unsettled(q)'
  BY <1>2 DEF LockInv, Locked, Unsettled, Paid, HoldsAll
<1>4. \A v \in Workers : v # w =>
        (Paid(work[v].payout)' => Paid(work[v].payout))
  BY <1>1, <1>2 DEF Finish, Paid
<1>5. QED
  BY <1>1, <1>2, <1>3, <1>4, FinishLock

LEMMA LockSame ==
  ASSUME LockInv, TypeInv',
         UNCHANGED <<claimedBy, payee, covers, payoutStatus,
                     reconciliationRequired, moved, work>>
  PROVE  LockInv'
<1>1. \A w \in Workers : Alone(w)' /\ Knows(w)'
  BY DEF LockInv, Alone, Knows, Resolves, Paid, HoldsAll
<1>2. \A q \in Payouts : Locked(q)' /\ Unsettled(q)'
  BY DEF LockInv, Locked, Unsettled, Paid, HoldsAll
<1>3. QED
  BY <1>1, <1>2 DEF LockInv

LEMMA LockStep == ASSUME LockInv, NoLostSave, [Next]_vars PROVE LockInv'
<1> USE DEF vars, orderVars, payoutVars, clawbackVars
<1>1. TypeInv'
  BY TypeStep DEF LockInv
<1>2. ASSUME NEW w \in Workers, Step(w) PROVE LockInv'
  BY <1>1, <1>2, LockCreate, LockClaim, LockRelease, LockTransfer, LockSettle,
     LockLoop DEF Step
<1>3. ASSUME NEW w \in Workers, Start(w) \/ Die(w) \/ DatabaseError(w)
      PROVE  LockInv'
  BY <1>1, <1>3, LockStart, LockCutOff
<1>4. ASSUME NEW o \in Orders, Deliver(o) \/ claimForRefund(o) \/ Refund(o)
      PROVE  LockInv'
  <2>1. UNCHANGED <<claimedBy, payee, covers, payoutStatus,
                    reconciliationRequired, moved, work>>
    BY <1>4 DEF Deliver, claimForRefund, Refund, finalizeRefund,
       revertFailedRefundClaim, recordVendorClawbackIfNeeded
  <2>2. QED
    BY <1>1, <2>1, LockSame
<1>5. CASE UNCHANGED vars
  BY <1>1, <1>5, LockSame
<1>6. QED
  BY <1>2, <1>3, <1>4, <1>5 DEF Next

LEMMA LockSuffices == LockInv => OrderPaidOnce
<1> SUFFICES ASSUME LockInv, NEW p \in Payouts, NEW q \in Payouts, p # q,
                    Paid(p), Paid(q), payee[p] = payee[q],
                    NEW o \in covers[p] \cap covers[q]
             PROVE  FALSE
  BY DEF OrderPaidOnce
<1>1. HoldsAll(p) /\ HoldsAll(q)
  BY DEF LockInv, Locked
<1>2. claimedBy[payee[p]][o] = p /\ claimedBy[payee[q]][o] = q
  BY <1>1 DEF HoldsAll
<1>3. QED
  BY <1>2

(* Unless the database fails while the success of a transfer is saved, no   *)
(* order is counted in two payouts of the same payee, however many batches  *)
(* and administrators are at work, whatever the provider answers, and       *)
(* wherever they are cut off.                                               *)
THEOREM OrderNeverPaidTwice ==
  ASSUME NoLostSave PROVE Spec => []OrderPaidOnce
<1>1. LockInv /\ [Next]_vars => LockInv'
  BY LockStep
<1>2. QED
  BY <1>1, LockInit, LockSuffices, PTL DEF Spec

-----------------------------------------------------------------------------
(* A claim is answered *)

(* No batch is cut off while it has a payout in hand; administrators and    *)
(* refunds may do what they like.                                           *)
BatchesFinish == ~ MayDie /\ FailingSteps \subseteq {"applyClawbacks", "saveResolved"}

Gone(p) == \A k \in Kinds, o \in Orders : claimedBy[k][o] # p

(* A payout is settled, waits for an administrator, or its batch has it.     *)
Accounted(p) ==
  \/ payoutStatus[p] = "succeeded"
  \/ reconciliationRequired[p]
  \/ \E w \in Workers : work[w].payout = p /\ ~ Resolves(w)

Answered(k, o) ==
  LET p == claimedBy[k][o] IN
  p # NoPayout => payee[p] = k /\ Accounted(p)

(* What a worker has made sure of when it lets go of its payout.            *)
Leaves(w) ==
  LET p == work[w].payout IN
  /\ p # NoPayout => work[w].payee = payee[p]
  /\ work[w].at = "saveFailed" => Gone(p)
  /\ work[w].at = "saveResolved" /\ p \notin moved => Gone(p)
  /\ work[w].at \in {"consume", "saveClawback"} =>
       IF work[w].next = "idle" THEN payoutStatus[p] = "succeeded" ELSE p \in moved

AnswerInv ==
  /\ LockInv
  /\ \A k \in Kinds, o \in Orders : Answered(k, o)
  /\ \A w \in Workers : Leaves(w)

LEMMA AnswerInit == Init => AnswerInv
<1> SUFFICES ASSUME Init PROVE AnswerInv
  OBVIOUS
<1>1. \A k \in Kinds, o \in Orders : Answered(k, o)
  BY DEF Init, Answered
<1>2. \A w \in Workers : Leaves(w)
  BY IdleType DEF Init, Leaves
<1> QED BY <1>1, <1>2, LockInit DEF AnswerInv

LEMMA AnsweredKept ==
  ASSUME AnswerInv, UNCHANGED claimedBy,
         \A q \in Payouts : Gone(q) \/
           (payee'[q] = payee[q] /\ (Accounted(q) => Accounted(q)'))
  PROVE  \A k \in Kinds, o \in Orders : Answered(k, o)'
<1> TAKE k \in Kinds, o \in Orders
<1>1. CASE claimedBy[k][o] = NoPayout
  BY <1>1 DEF Answered
<1>2. CASE claimedBy[k][o] # NoPayout
  <2>1. PICK q \in Payouts : q = claimedBy[k][o]
    BY <1>2, ClaimedByType DEF AnswerInv, LockInv, TypeInv
  <2>2. ~ Gone(q)
    BY <2>1 DEF Gone
  <2>3. payee[q] = k /\ Accounted(q)
    BY <1>2, <2>1 DEF AnswerInv, Answered
  <2>4. payee'[q] = k /\ Accounted(q)'
    BY <2>2, <2>3
  <2>5. q = claimedBy'[k][o]
    BY <2>1
  <2> QED BY <2>4, <2>5 DEF Answered
<1> QED BY <1>1, <1>2

LEMMA OthersLeave ==
  ASSUME AnswerInv, NEW w,
         \A v \in Workers : v # w => work'[v] = work[v],
         \A q \in Payouts : Gone(q) => Gone(q)' \/ \A v \in Workers : work[v].payout = q => v = w,
         moved \subseteq moved',
         \A v \in Workers : v # w /\ work[v].payout # NoPayout =>
           payee'[work[v].payout] = payee[work[v].payout],
         \A v \in Workers : v # w /\ work[v].payout # NoPayout /\ ~ Resolves(v) =>
           payoutStatus'[work[v].payout] = payoutStatus[work[v].payout]
  PROVE  \A v \in Workers : v # w => Leaves(v)'
<1> SUFFICES ASSUME NEW v \in Workers, v # w  PROVE Leaves(v)'
  OBVIOUS
<1>1. Leaves(v) /\ HasPayout(v) /\ work'[v] = work[v]
  BY DEF AnswerInv, LockInv, TypeInv
<1>2. CASE work[v].payout = NoPayout
  BY <1>1, <1>2 DEF Leaves, HasPayout
<1>3. CASE work[v].payout # NoPayout
  <2> DEFINE p == work[v].payout
  <2>1. /\ p \in Payouts /\ work[v].next \in {"idle", "saveFailed", "saveResolved"}
        /\ work[v].at \in {"consume", "saveClawback"} => work[v].next # "saveFailed"
    BY <1>1, <1>3, WorkFacts DEF HasPayout, AnswerInv, LockInv, Knows
  <2>2. (Gone(p) => Gone(p)') /\ payee'[p] = payee[p]
    BY <1>3, <2>1
  <2>3. work'[v].payout = p
    BY <1>1
  <2>4. work[v].at \in {"consume", "saveClawback"} /\ work[v].next = "idle" =>
          payoutStatus'[p] = payoutStatus[p]
    BY <1>3 DEF Resolves
  <2>5. /\ work'[v].payee = payee'[p]
        /\ work'[v].at = "saveFailed" => Gone(p)'
        /\ (work'[v].at = "saveResolved" /\ p \notin moved') => Gone(p)'
        /\ work'[v].at \in {"consume", "saveClawback"} =>
             IF work'[v].next = "idle" THEN payoutStatus'[p] = "succeeded" ELSE p \in moved'
    BY <1>1, <1>3, <2>2, <2>4 DEF Leaves
  <2>6. Gone(p)' => Gone(work[v].payout)'
    BY <2>3 DEF Gone
  <2> HIDE DEF p
  <2> QED BY <2>3, <2>5, <2>6 DEF Leaves, p
<1> QED BY <1>2, <1>3

(* Worker w goes on with the payout it has.                                 *)
LEMMA HolderGoesOn ==
  ASSUME AnswerInv, LockInv', NEW w \in Workers,
         work[w].payout \in Payouts,
         \A v \in Workers : v # w => work'[v] = work[v],
         work'[w].payout = work[w].payout, work'[w].payee = work[w].payee,
         Resolves(w)' = Resolves(w),
         UNCHANGED <<claimedBy, payee, reconciliationRequired>>,
         moved \subseteq moved',
         \A q \in Payouts : q # work[w].payout => payoutStatus'[q] = payoutStatus[q],
         Resolves(w) => UNCHANGED payoutStatus,
         Leaves(w)'
  PROVE  AnswerInv'
<1> DEFINE p == work[w].payout
<1>0. p # NoPayout
  BY ConstantsAssumption
<1>1. \A v \in Workers : /\ work'[v].payout = work[v].payout
                        /\ Resolves(v)' = Resolves(v)
  BY DEF Resolves
<1>2. \A q \in Payouts : Accounted(q) => Accounted(q)'
  <2>1. ASSUME NEW q \in Payouts, q = p, ~ Resolves(w)
        PROVE  Accounted(q)'
    BY <1>1, <2>1 DEF Accounted
  <2>2. ASSUME NEW q \in Payouts, q # p \/ Resolves(w), Accounted(q)
        PROVE  Accounted(q)'
    BY <1>1, <2>2 DEF Accounted
  <2> QED BY <2>1, <2>2
<1>3. \A k \in Kinds, o \in Orders : Answered(k, o)'
  BY <1>2, AnsweredKept
<1>4. ~ Resolves(w) => \A v \in Workers : v # w => work[v].payout # p
  BY <1>0, OthersApart DEF AnswerInv
<1>5. \A v \in Workers : v # w /\ work[v].payout # NoPayout /\ ~ Resolves(v) =>
        payoutStatus'[work[v].payout] = payoutStatus[work[v].payout]
  <2> SUFFICES ASSUME NEW v \in Workers, v # w, work[v].payout # NoPayout, ~ Resolves(v)
               PROVE  payoutStatus'[work[v].payout] = payoutStatus[work[v].payout]
    OBVIOUS
  <2>1. work[v].payout \in Payouts
    BY WorkFacts DEF AnswerInv, LockInv, TypeInv, HasPayout
  <2> QED BY <1>4, <2>1
<1>6. \A q \in Payouts : Gone(q) => Gone(q)'
  BY DEF Gone
<1>7. \A v \in Workers : v # w => Leaves(v)'
  BY <1>5, <1>6, OthersLeave
<1> QED BY <1>3, <1>7 DEF AnswerInv

(* Worker w lets go of its payout, which is settled, or waits, or has given *)
(* its claims up; or somebody else answers for it.                          *)
LEMMA HolderLeaves ==
  ASSUME AnswerInv, LockInv', NEW w \in Workers, Finish(w),
         UNCHANGED <<claimedBy, payee, moved>>,
         \A q \in Payouts : q # work[w].payout =>
           /\ payoutStatus'[q] = payoutStatus[q]
           /\ reconciliationRequired'[q] = reconciliationRequired[q],
         \A v \in Workers : v # w /\ work[v].payout = work[w].payout
                              /\ work[v].payout # NoPayout /\ ~ Resolves(v) =>
           payoutStatus' = payoutStatus,
         work[w].payout # NoPayout =>
           \/ Gone(work[w].payout)
           \/ payoutStatus'[work[w].payout] = "succeeded"
           \/ reconciliationRequired'[work[w].payout]
           \/ Resolves(w) /\ UNCHANGED <<payoutStatus, reconciliationRequired>>
  PROVE  AnswerInv'
<1> DEFINE p == work[w].payout
<1>1. /\ \A v \in Workers : v # w => work'[v] = work[v]
      /\ work'[w] = Idle
  BY DEF Finish, AnswerInv, LockInv, TypeInv, TypeOK
<1>2. \A v \in Workers : v # w => Resolves(v)' = Resolves(v)
  BY <1>1 DEF Resolves
<1>3. ASSUME NEW q \in Payouts, ~ Gone(q), Accounted(q)
      PROVE  Accounted(q)'
  <2>0. q # NoPayout
    BY ConstantsAssumption
  <2>1. CASE q # p
    <3>1. \A v \in Workers : work[v].payout = q => v # w
      BY <2>1
    <3> QED BY <1>1, <1>2, <1>3, <2>1, <3>1 DEF Accounted
  <2>2. CASE q = p /\ ~ (Resolves(w) /\ UNCHANGED <<payoutStatus, reconciliationRequired>>)
    BY <1>3, <2>0, <2>2 DEF Accounted
  <2>3. CASE q = p /\ Resolves(w) /\ UNCHANGED <<payoutStatus, reconciliationRequired>>
    <3>1. \A v \in Workers : ~ Resolves(v) => v # w
      BY <2>3
    <3> QED BY <1>1, <1>2, <1>3, <2>3, <3>1 DEF Accounted
  <2> QED BY <2>1, <2>2, <2>3
<1>4. \A k \in Kinds, o \in Orders : Answered(k, o)'
  BY <1>3, AnsweredKept
<1>5. \A v \in Workers : v # w /\ work[v].payout # NoPayout /\ ~ Resolves(v) =>
        payoutStatus'[work[v].payout] = payoutStatus[work[v].payout]
  <2> SUFFICES ASSUME NEW v \in Workers, v # w, work[v].payout # NoPayout, ~ Resolves(v)
               PROVE  payoutStatus'[work[v].payout] = payoutStatus[work[v].payout]
    OBVIOUS
  <2>1. work[v].payout \in Payouts
    BY WorkFacts DEF AnswerInv, LockInv, TypeInv, HasPayout
  <2> QED BY <2>1
<1>6. \A q \in Payouts : Gone(q) => Gone(q)'
  BY DEF Gone
<1>7. \A v \in Workers : v # w => Leaves(v)'
  BY <1>1, <1>5, <1>6, OthersLeave
<1>8. Leaves(w)'
  BY <1>1, IdleType DEF Leaves, Idle
<1> QED BY <1>4, <1>7, <1>8 DEF AnswerInv

LEMMA AnswerCreate ==
  ASSUME AnswerInv, LockInv', NEW w \in Workers, createPayout(w)
  PROVE  AnswerInv'
<1> DEFINE p == CHOOSE q \in Payouts : Free(q)
<1>1. p \in Payouts /\ Free(p) /\ p # NoPayout
  BY FreePayout, ConstantsAssumption DEF createPayout
<1>2. /\ Gone(p)
      /\ \A v \in Workers : work[v].payout # p
  BY <1>1 DEF Free, Gone
<1>3. /\ \A v \in Workers : v # w => work'[v] = work[v]
      /\ work'[w].at = "claim" /\ work'[w].payout = p
      /\ work'[w].payee = work[w].payee
      /\ work[w].payout = NoPayout
  <2>1. Goto(w, "claim", p, work[w].todo, 0, "idle") /\ work[w].at = "applyClawbacks"
    BY DEF createPayout
  <2>2. work \in [Workers -> Work] /\ HasPayout(w)
    BY DEF AnswerInv, LockInv, TypeInv, TypeOK
  <2> HIDE DEF p
  <2> QED BY <2>1, <2>2 DEF Goto, HasPayout
<1>4. /\ \A q \in Payouts : q # p => /\ payee'[q] = payee[q]
                                     /\ payoutStatus'[q] = payoutStatus[q]
      /\ payee'[p] = work[w].payee
      /\ UNCHANGED <<claimedBy, reconciliationRequired, moved>>
  BY <1>1 DEF createPayout, AnswerInv, LockInv, TypeInv, TypeOK, orderVars
<1> HIDE DEF p
<1>5. ASSUME NEW q \in Payouts, q # p, Accounted(q)
      PROVE  Accounted(q)'
  <2>1. \A v \in Workers : work[v].payout = q => v # w
    BY <1>3, ConstantsAssumption
  <2>2. \A v \in Workers : v # w => Resolves(v)' = Resolves(v)
    BY <1>3 DEF Resolves
  <2> QED BY <1>3, <1>4, <1>5, <2>1, <2>2 DEF Accounted
<1>6. \A k \in Kinds, o \in Orders : Answered(k, o)'
  BY <1>2, <1>4, <1>5, AnsweredKept
<1>7. \A v \in Workers : work[v].payout # NoPayout =>
        work[v].payout \in Payouts /\ work[v].payout # p
  BY <1>2, WorkFacts DEF AnswerInv, LockInv, TypeInv, HasPayout
<1>8. \A q \in Payouts : Gone(q) => Gone(q)'
  BY <1>4 DEF Gone
<1>9. \A v \in Workers : v # w => Leaves(v)'
  BY <1>3, <1>4, <1>7, <1>8, OthersLeave
<1>10. Leaves(w)'
  BY <1>3, <1>4 DEF Leaves
<1> QED BY <1>6, <1>9, <1>10 DEF AnswerInv

LEMMA AnswerClaim ==
  ASSUME AnswerInv, LockInv', NEW w \in Workers, NEW x \in Orders, claimOrder(w, x)
  PROVE  AnswerInv'
<1> DEFINE p == work[w].payout
<1>1. /\ p \in Payouts /\ p # NoPayout /\ ~ Resolves(w) /\ work[w].payee \in Kinds
      /\ work[w].payee = payee[p]
  BY WorkFacts, ConstantsAssumption
     DEF claimOrder, Resolves, AnswerInv, LockInv, Leaves
<1>2. /\ \A v \in Workers : v # w => work'[v] = work[v]
      /\ work'[w].at = "claim" /\ work'[w].payout = p
      /\ work'[w].payee = work[w].payee
      /\ UNCHANGED <<payee, payoutStatus, reconciliationRequired, moved>>
  BY DEF claimOrder, Goto, AnswerInv, LockInv, TypeInv, TypeOK, payoutVars
<1>3. \A v \in Workers : /\ work'[v].payout = work[v].payout
                        /\ Resolves(v)' = Resolves(v)
  BY <1>1, <1>2 DEF Resolves
<1>4. \A q : Accounted(q)' = Accounted(q)
  BY <1>2, <1>3 DEF Accounted
<1>5. Accounted(p)
  BY <1>1 DEF Accounted
<1>6. ASSUME NEW k \in Kinds, NEW o \in Orders
      PROVE  claimedBy'[k][o] = claimedBy[k][o] \/ (claimedBy'[k][o] = p /\ k = payee[p])
  BY <1>1 DEF claimOrder, SetClaim, AnswerInv, LockInv, TypeInv, TypeOK
<1> HIDE DEF p
<1>7. ASSUME NEW k \in Kinds, NEW o \in Orders
      PROVE  Answered(k, o)'
  <2>1. PICK q : q = claimedBy'[k][o]
    OBVIOUS
  <2>2. CASE q = claimedBy[k][o]
    <3>1. q # NoPayout => payee[q] = k /\ Accounted(q)
      BY <2>2 DEF AnswerInv, Answered
    <3>2. q # NoPayout => payee'[q] = k /\ Accounted(q)'
      BY <1>2, <1>4, <3>1
    <3> QED BY <2>1, <3>2 DEF Answered
  <2>3. CASE q = p /\ k = payee[p]
    <3>1. payee'[q] = k /\ Accounted(q)'
      BY <1>2, <1>4, <1>5, <2>3
    <3> QED BY <2>1, <3>1 DEF Answered
  <2> QED BY <1>6, <2>1, <2>2, <2>3
<1>8. \A v \in Workers : v # w => work[v].payout # p
  BY <1>1, OthersApart DEF AnswerInv, p
<1>9. \A q \in Payouts : q # p /\ Gone(q) => Gone(q)'
  BY <1>6 DEF Gone
<1>10. \A v \in Workers : v # w => Leaves(v)'
  BY <1>2, <1>8, <1>9, OthersLeave
<1>11. Leaves(w)'
  BY <1>1, <1>2 DEF Leaves
<1> QED BY <1>7, <1>10, <1>11 DEF AnswerInv

LEMMA AnswerRelease ==
  ASSUME AnswerInv, LockInv', NEW w \in Workers, NEW x \in Orders, Release(w, x)
  PROVE  AnswerInv'
<1>1. UNCHANGED <<payee, payoutStatus, reconciliationRequired, moved, work>>
  BY DEF Release, payoutVars
<1>2. work[w].payee \in Kinds
  BY WorkFacts DEF AnswerInv, LockInv
<1>3. \A k \in Kinds, o \in Orders :
        claimedBy'[k][o] = claimedBy[k][o] \/ claimedBy'[k][o] = NoPayout
  BY <1>2 DEF Release, SetClaim, AnswerInv, LockInv, TypeInv, TypeOK
<1>4. ASSUME NEW k \in Kinds, NEW o \in Orders  PROVE Answered(k, o)'
  <2>1. Answered(k, o)
    BY DEF AnswerInv
  <2>2. CASE claimedBy'[k][o] = NoPayout
    BY <2>2 DEF Answered
  <2>3. CASE claimedBy'[k][o] = claimedBy[k][o]
    BY <1>1, <2>1, <2>3 DEF Answered, Accounted, Resolves
  <2> QED BY <1>3, <2>2, <2>3
<1>5. \A q \in Payouts : Gone(q) => Gone(q)'
  <2> SUFFICES ASSUME NEW q \in Payouts, Gone(q), NEW k \in Kinds, NEW o \in Orders
               PROVE  claimedBy'[k][o] # q
    BY DEF Gone
  <2> QED BY <1>3, ConstantsAssumption DEF Gone
<1>6. ASSUME NEW v \in Workers  PROVE Leaves(v)'
  <2>1. Leaves(v)
    BY DEF AnswerInv
  <2>2. CASE work[v].payout \in Payouts
    <3>1. Gone(work[v].payout) => Gone(work[v].payout)'
      BY <1>1, <1>5, <2>2 DEF Gone
    <3> QED BY <1>1, <2>1, <3>1 DEF Leaves
  <2>3. CASE work[v].payout \notin Payouts
    <3>1. work[v].at \in {"idle", "applyClawbacks"} /\ work[v].payout = NoPayout
      BY <2>3, WorkFacts DEF AnswerInv, LockInv, TypeInv, HasPayout
    <3> QED BY <1>1, <3>1 DEF Leaves
  <2> QED BY <2>2, <2>3
<1> QED BY <1>4, <1>6 DEF AnswerInv

LEMMA AnswerTransfer ==
  ASSUME AnswerInv, LockInv', NEW w \in Workers,
         ClaimDone(w) \/ Accepted(w) \/ Rejected(w) \/ OutcomeUnknown(w)
           \/ SaveSucceeded(w) \/ SaveRejected(w)
  PROVE  AnswerInv'
<1> USE DEF orderVars, payoutVars
<1> DEFINE p == work[w].payout
<1>1. /\ p \in Payouts /\ ~ Resolves(w) /\ Leaves(w) /\ TypeInv
      /\ p # NoPayout
      /\ UNCHANGED <<claimedBy, payee, reconciliationRequired>>
      /\ moved \subseteq moved'
  BY WorkFacts, ConstantsAssumption
     DEF ClaimDone, Accepted, Rejected, OutcomeUnknown, SaveSucceeded,
     SaveRejected, Resolves, AnswerInv, LockInv
<1> DEFINE Onward(at, todo, next) ==
      /\ Goto(w, at, p, todo, 0, next)
      /\ at \in {"transfer", "saveSucceeded", "saveUnknown", "saveRejected",
                 "release", "consume"}
      /\ next # "saveResolved"
      /\ at = "consume" => /\ next = "idle"
                           /\ payoutStatus' = [payoutStatus EXCEPT ![p] = "succeeded"]
<1>2. PICK at, todo, next : Onward(at, todo, next)
  <2>1. \/ Onward("transfer", {}, "idle") \/ Onward("saveSucceeded", {}, "idle")
        \/ Onward("saveUnknown", {}, "idle") \/ Onward("saveRejected", {}, "idle")
        \/ Onward("release", {}, "idle") \/ Onward("release", {}, "saveFailed")
        \/ Onward("consume", Consumed(p), "idle")
    BY DEF ClaimDone, Accepted, Rejected, OutcomeUnknown, SaveSucceeded, SaveRejected
  <2> QED BY <2>1
<1>3. \A q \in Payouts : q # p => payoutStatus'[q] = payoutStatus[q]
  BY <1>1 DEF ClaimDone, Accepted, Rejected, OutcomeUnknown, SaveSucceeded, SaveRejected,
     TypeInv, TypeOK
<1>4. /\ \A v \in Workers : v # w => work'[v] = work[v]
      /\ work'[w].at = at /\ work'[w].payout = p /\ work'[w].next = next
      /\ work'[w].payee = work[w].payee
  BY <1>1, <1>2 DEF Goto, TypeInv, TypeOK
<1>5. Resolves(w)' = Resolves(w)
  BY <1>1, <1>2, <1>4 DEF Resolves
<1>6. at = "consume" => payoutStatus'[p] = "succeeded"
  BY <1>1, <1>2 DEF TypeInv, TypeOK
<1>7. Leaves(w)'
  BY <1>1, <1>2, <1>4, <1>6 DEF Leaves
<1> QED BY <1>1, <1>3, <1>4, <1>5, <1>7, HolderGoesOn

LEMMA AnswerLoop ==
  ASSUME AnswerInv, LockInv', NEW w \in Workers,
         ReadClawback(w) \/ SaveClawback(w) \/ LoopDone(w)
  PROVE  AnswerInv'
<1> USE DEF orderVars, payoutVars
<1> DEFINE p == work[w].payout
           next == work[w].next
<1>1. /\ p \in Payouts /\ p # NoPayout /\ Knows(w) /\ Leaves(w) /\ TypeInv
      /\ next \in {"idle", "saveFailed", "saveResolved"}
      /\ UNCHANGED <<claimedBy, payee, payoutStatus, reconciliationRequired, moved>>
  BY WorkFacts, ConstantsAssumption
     DEF ReadClawback, SaveClawback, LoopDone, AnswerInv, LockInv
<1>2. ASSUME LoopDone(w), work[w].at = "release"  PROVE Gone(p)
  <2>1. AllReleased(w)
    BY <1>2 DEF LoopDone
  <2>2. ASSUME NEW k \in Kinds, NEW o \in Orders, claimedBy[k][o] = p
        PROVE  FALSE
    <3>1. payee[p] = k
      BY <1>1, <2>2 DEF AnswerInv, Answered
    <3>2. work[w].payee = k
      BY <1>1, <3>1 DEF Leaves
    <3> QED BY <2>1, <2>2, <3>2 DEF AllReleased
  <2> QED BY <2>2 DEF Gone
<1>3. CASE ReadClawback(w) \/ SaveClawback(w)
  <2>1. PICK at \in {"consume", "saveClawback"} :
          \E todo, r : Goto(w, at, p, todo, r, next)
    BY <1>3 DEF ReadClawback, SaveClawback
  <2>2. work[w].at \in {"consume", "saveClawback"}
    BY <1>3 DEF ReadClawback, SaveClawback
  <2>3. /\ \A v \in Workers : v # w => work'[v] = work[v]
        /\ work'[w].at = at /\ work'[w].payout = p /\ work'[w].next = next
        /\ work'[w].payee = work[w].payee
    BY <1>1, <2>1 DEF Goto, TypeInv, TypeOK
  <2>4. Resolves(w)' = Resolves(w)
    BY <2>2, <2>3 DEF Resolves
  <2>5. Leaves(w)'
    BY <1>1, <2>2, <2>3 DEF Leaves
  <2> QED BY <1>1, <2>3, <2>4, <2>5, HolderGoesOn
<1>4. CASE LoopDone(w) /\ next = "idle"
  <2>1. Finish(w)
    BY <1>4 DEF LoopDone
  <2>2. Gone(p) \/ payoutStatus[p] = "succeeded"
    BY <1>1, <1>2, <1>4 DEF LoopDone, Leaves
  <2> QED BY <1>1, <2>1, <2>2, HolderLeaves
<1>5. CASE LoopDone(w) /\ next # "idle"
  <2>1. Goto(w, next, p, {}, 0, "idle") /\ work[w].at \in {"release", "consume"}
    BY <1>5 DEF LoopDone
  <2>2. /\ \A v \in Workers : v # w => work'[v] = work[v]
        /\ work'[w].at = next /\ work'[w].payout = p
        /\ work'[w].payee = work[w].payee
    BY <1>1, <2>1 DEF Goto, TypeInv, TypeOK
  <2>3. Resolves(w)' = Resolves(w)
    BY <1>1, <1>5, <2>1, <2>2 DEF Resolves
  <2>4. Gone(p) \/ (next = "saveResolved" /\ p \in moved)
    BY <1>1, <1>2, <1>5, <2>1 DEF Leaves, Knows
  <2>5. Gone(p) => Gone(work[w].payout)'
    BY <1>1, <2>2 DEF Gone
  <2>6. Leaves(w)'
    BY <1>1, <1>5, <2>2, <2>4, <2>5 DEF Leaves
  <2> QED BY <1>1, <2>2, <2>3, <2>6, HolderGoesOn
<1> QED BY <1>3, <1>4, <1>5

LEMMA AnswerSettle ==
  ASSUME AnswerInv, LockInv', NEW w \in Workers,
         SaveUnknown(w) \/ SaveFailed(w) \/ SaveResolved(w)
  PROVE  AnswerInv'
<1> USE DEF orderVars, payoutVars
<1> DEFINE p == work[w].payout
<1>1. /\ p \in Payouts /\ p # NoPayout /\ Leaves(w) /\ TypeInv /\ Finish(w)
      /\ UNCHANGED <<claimedBy, payee, moved>>
  BY WorkFacts, ConstantsAssumption
     DEF SaveUnknown, SaveFailed, SaveResolved, AnswerInv, LockInv
<1>2. \A q \in Payouts : q # p =>
        /\ payoutStatus'[q] = payoutStatus[q]
        /\ reconciliationRequired'[q] = reconciliationRequired[q]
  BY <1>1 DEF SaveUnknown, SaveFailed, SaveResolved, TypeInv, TypeOK
<1>3. \/ Gone(p)
      \/ payoutStatus'[p] = "succeeded"
      \/ reconciliationRequired'[p]
  BY <1>1 DEF SaveUnknown, SaveFailed, SaveResolved, TypeInv, TypeOK, Leaves
<1>4. ASSUME NEW v \in Workers, v # w, work[v].payout = p, ~ Resolves(v)
      PROVE  FALSE
  BY <1>1, <1>4, OthersApart DEF AnswerInv
<1> QED BY <1>1, <1>2, <1>3, <1>4, HolderLeaves

LEMMA AnswerCutOff ==
  ASSUME AnswerInv, LockInv', BatchesFinish, NEW w \in Workers,
         Die(w) \/ DatabaseError(w)
  PROVE  AnswerInv'
<1>1. /\ work[w].at \in {"applyClawbacks", "saveResolved"} /\ Finish(w)
      /\ UNCHANGED <<claimedBy, payee, payoutStatus, reconciliationRequired, moved>>
  BY DEF BatchesFinish, Die, DatabaseError, InTry, orderVars, payoutVars
<1>2. work[w].payout # NoPayout => Resolves(w)
  BY <1>1 DEF Resolves, AnswerInv, LockInv, TypeInv, HasPayout
<1> QED BY <1>1, <1>2, HolderLeaves

LEMMA AnswerStart ==
  ASSUME AnswerInv, LockInv', NEW w \in Workers, Start(w)
  PROVE  AnswerInv'
<1> USE DEF orderVars, payoutVars
<1>1. /\ UNCHANGED <<claimedBy, payee, covers, payoutStatus,
                     reconciliationRequired, moved>>
      /\ \A v \in Workers : v # w => work'[v] = work[v]
      /\ work[w].payout = NoPayout
  BY DEF Start, getUnpaidEarnings, resolveReconciliation, AnswerInv, LockInv, TypeInv,
     TypeOK, HasPayout
<1>2. \/ /\ work'[w].at = "applyClawbacks" /\ work'[w].payout = NoPayout
      \/ \E p \in Payouts :
           /\ work'[w].payout = p /\ work'[w].payee = payee[p]
           /\ work'[w].next = "saveResolved"
           /\ work'[w].at = IF p \in moved THEN "consume" ELSE "release"
  BY DEF Start, getUnpaidEarnings, resolveReconciliation, AnswerInv, LockInv, TypeInv, TypeOK
<1>3. ASSUME NEW q \in Payouts, Accounted(q)  PROVE Accounted(q)'
  <2>1. \A v \in Workers : work[v].payout = q => v # w
    BY <1>1, ConstantsAssumption
  <2>2. \A v \in Workers : v # w => Resolves(v)' = Resolves(v)
    BY <1>1 DEF Resolves
  <2> QED BY <1>1, <1>3, <2>1, <2>2 DEF Accounted
<1>4. \A k \in Kinds, o \in Orders : Answered(k, o)'
  BY <1>1, <1>3, AnsweredKept
<1>5. \A q \in Payouts : Gone(q) => Gone(q)'
  BY <1>1 DEF Gone
<1>6. ASSUME NEW v \in Workers, work[v].payout # NoPayout
      PROVE  work[v].payout \in Payouts
  BY <1>6, WorkFacts DEF AnswerInv, LockInv, TypeInv, HasPayout
<1>7. \A v \in Workers : v # w => Leaves(v)'
  BY <1>1, <1>5, OthersLeave
<1>8. Leaves(w)'
  BY <1>1, <1>2 DEF Leaves
<1> QED BY <1>4, <1>7, <1>8 DEF AnswerInv

LEMMA AnswerSame ==
  ASSUME AnswerInv, LockInv',
         UNCHANGED <<claimedBy, payee, payoutStatus, reconciliationRequired, moved, work>>
  PROVE  AnswerInv'
  BY DEF AnswerInv, Answered, Accounted, Leaves, Gone, Resolves

LEMMA AnswerStep ==
  ASSUME AnswerInv, BatchesFinish, [Next]_vars PROVE AnswerInv'
<1> USE DEF vars, orderVars, payoutVars, clawbackVars
<1>1. LockInv'
  BY LockStep DEF AnswerInv, BatchesFinish, NoLostSave
<1>2. ASSUME NEW w \in Workers, Step(w) PROVE AnswerInv'
  BY <1>1, <1>2, AnswerCreate, AnswerClaim, AnswerRelease, AnswerTransfer, AnswerLoop,
     AnswerSettle DEF Step
<1>3. ASSUME NEW w \in Workers, Start(w) \/ Die(w) \/ DatabaseError(w)
      PROVE  AnswerInv'
  BY <1>1, <1>3, AnswerStart, AnswerCutOff
<1>4. ASSUME NEW o \in Orders, Deliver(o) \/ claimForRefund(o) \/ Refund(o)
      PROVE  AnswerInv'
  <2>1. UNCHANGED <<claimedBy, payee, payoutStatus, reconciliationRequired, moved, work>>
    BY <1>4 DEF Deliver, claimForRefund, Refund, finalizeRefund,
       revertFailedRefundClaim, recordVendorClawbackIfNeeded
  <2> QED BY <1>1, <2>1, AnswerSame
<1>5. CASE UNCHANGED vars
  BY <1>1, <1>5, AnswerSame
<1> QED BY <1>2, <1>3, <1>4, <1>5 DEF Next

LEMMA AnswerSuffices == AnswerInv => ClaimIsAnswered
  BY DEF AnswerInv, Answered, Accounted, ClaimIsAnswered

(* If the batches are not cut off, an order that has been claimed is paid,  *)
(* or in the hands of its batch, or waits for an administrator: no earnings *)
(* are stuck, whatever providers answer, refunds and administrators do, and *)
(* however many batches race.                                               *)
THEOREM NoClaimIsForgotten ==
  ASSUME BatchesFinish PROVE Spec => []ClaimIsAnswered
<1>1. AnswerInv /\ [Next]_vars => AnswerInv'
  BY AnswerStep
<1> QED BY <1>1, AnswerInit, AnswerSuffices, PTL DEF Spec

-----------------------------------------------------------------------------
(* Sums *)

(* What the empty set has, and a set keeps as it grows by one element at a  *)
(* time, every finite set has.                                              *)
LEMMA FiniteInduction ==
  ASSUME NEW S, IsFiniteSet(S), NEW Q, {} \in Q,
         \A T \in SUBSET S, x \in S : T \in Q /\ x \notin T => T \cup {x} \in Q
  PROVE  S \in Q
<1> DEFINE Bad == {T \in SUBSET S : T \notin Q}
<1> SUFFICES ASSUME S \notin Q
             PROVE  FALSE
  OBVIOUS
<1>1. FiniteSubsetsOf(S) = SUBSET S
  BY FS_FiniteSubsetsOfFinite
<1>2. Bad \subseteq FiniteSubsetsOf(S) /\ Bad # {}
  BY <1>1
<1>3. IsWellFoundedOn(StrictSubsetOrdering(S), FiniteSubsetsOf(S))
  BY FS_StrictSubsetOrderingWellFounded
<1>4. PICK T \in Bad : \A U \in Bad : ~ (<<U, T>> \in StrictSubsetOrdering(S))
  <2> HIDE DEF Bad
  <2> QED BY <1>2, <1>3, WFMin
<1>5. PICK x \in T : TRUE
  OBVIOUS
<1>6. T \ {x} \in SUBSET S /\ x \in S /\ x \notin T \ {x} /\ (T \ {x}) \cup {x} = T
  OBVIOUS
<1>7. <<T \ {x}, T>> \in StrictSubsetOrdering(S)
  BY <1>6 DEF StrictSubsetOrdering
<1>8. T \ {x} \in Q
  BY <1>4, <1>6, <1>7
<1> QED BY <1>4, <1>6, <1>8

(* The cents that a sum counts.                                             *)
Cents(f, S) == UNION {{x} \X (1 .. f[x]) : x \in S}

LEMMA OneMore ==
  ASSUME NEW f, NEW S, NEW x
  PROVE  Cents(f, S \cup {x}) = Cents(f, S) \cup ({x} \X (1 .. f[x]))
BY DEF Cents

LEMMA OnesCents ==
  ASSUME NEW x, NEW n \in Nat
  PROVE  IsFiniteSet({x} \X (1 .. n)) /\ Cardinality({x} \X (1 .. n)) = n
<1>1. IsFiniteSet(1 .. n) /\ Cardinality(1 .. n) = n
  BY FS_Interval
<1>2. IsFiniteSet({x}) /\ Cardinality({x}) = 1
  BY FS_Singleton
<1>3. /\ IsFiniteSet({x} \X (1 .. n))
      /\ Cardinality({x} \X (1 .. n)) = Cardinality({x}) * Cardinality(1 .. n)
  BY <1>1, <1>2, FS_Product
<1> QED BY <1>1, <1>2, <1>3

LEMMA CentsFinite ==
  ASSUME NEW S, IsFiniteSet(S), NEW f, \A x \in S : f[x] \in Nat
  PROVE  IsFiniteSet(Cents(f, S))
<1> DEFINE Q == {T \in SUBSET S : IsFiniteSet(Cents(f, T))}
<1>1. {} \in Q
  BY FS_EmptySet DEF Cents
<1>2. ASSUME NEW T \in SUBSET S, NEW x \in S, T \in Q
      PROVE  T \cup {x} \in Q
  <2>1. IsFiniteSet(Cents(f, T)) /\ IsFiniteSet({x} \X (1 .. f[x]))
    BY <1>2, OnesCents
  <2>2. IsFiniteSet(Cents(f, T) \cup ({x} \X (1 .. f[x])))
    BY <2>1, FS_Union
  <2>3. Cents(f, T \cup {x}) = Cents(f, T) \cup ({x} \X (1 .. f[x]))
    BY OneMore
  <2> QED BY <2>2, <2>3
<1>3. S \in Q
  <2> HIDE DEF Q
  <2> QED BY <1>1, <1>2, FiniteInduction
<1> QED BY <1>3

LEMMA SumType ==
  ASSUME NEW S, IsFiniteSet(S), NEW f, \A x \in S : f[x] \in Nat
  PROVE  Sum(f, S) \in Nat
BY CentsFinite, FS_CardinalityType DEF Sum, Cents

LEMMA SumEmpty == \A f : Sum(f, {}) = 0
BY FS_EmptySet DEF Sum

(* A sum over two sets, with nothing in common; and over one element more.  *)
LEMMA SumUnion ==
  ASSUME NEW S, NEW T, IsFiniteSet(S), IsFiniteSet(T), S \cap T = {},
         NEW f, \A x \in S \cup T : f[x] \in Nat
  PROVE  Sum(f, S \cup T) = Sum(f, S) + Sum(f, T)
<1>1. IsFiniteSet(Cents(f, S)) /\ IsFiniteSet(Cents(f, T))
  BY CentsFinite
<1>2. Cents(f, S \cup T) = Cents(f, S) \cup Cents(f, T)
  BY DEF Cents
<1>3. Cents(f, S) \cap Cents(f, T) = {}
  BY DEF Cents
<1>4. PICK a \in Nat, b \in Nat :
        a = Cardinality(Cents(f, S)) /\ b = Cardinality(Cents(f, T))
  BY <1>1, FS_CardinalityType
<1>5. Cardinality(Cents(f, S) \cup Cents(f, T)) = a + b
  <2>1. Cardinality(Cents(f, S) \cup Cents(f, T)) = a + b - 0
    BY <1>1, <1>3, <1>4, FS_Union, FS_EmptySet
  <2>2. a + b - 0 = a + b
    OBVIOUS
  <2> QED BY <2>1, <2>2
<1>6. /\ Sum(f, S \cup T) = Cardinality(Cents(f, S \cup T))
      /\ Sum(f, S) = Cardinality(Cents(f, S)) /\ Sum(f, T) = Cardinality(Cents(f, T))
  BY DEF Sum, Cents
<1>7. Sum(f, S \cup T) = a + b /\ Sum(f, S) = a /\ Sum(f, T) = b
  BY <1>2, <1>4, <1>5, <1>6
<1> QED BY <1>7

LEMMA SumAdd ==
  ASSUME NEW S, IsFiniteSet(S), NEW x, x \notin S,
         NEW f, \A y \in S \cup {x} : f[y] \in Nat
  PROVE  Sum(f, S \cup {x}) = Sum(f, S) + f[x]
<1>1. IsFiniteSet({x}) /\ S \cap {x} = {}
  BY FS_Singleton
<1>2. Sum(f, S \cup {x}) = Sum(f, S) + Sum(f, {x})
  BY <1>1, SumUnion
<1>3. Cents(f, {x}) = {x} \X (1 .. f[x])
  BY DEF Cents
<1>4. Sum(f, {x}) = f[x]
  BY <1>3, OnesCents DEF Sum, Cents
<1> QED BY <1>2, <1>4

LEMMA SumSame ==
  ASSUME NEW S, NEW f, NEW g, \A x \in S : f[x] = g[x]
  PROVE  Sum(f, S) = Sum(g, S)
<1>1. {{x} \X (1 .. f[x]) : x \in S} = {{x} \X (1 .. g[x]) : x \in S}
  OBVIOUS
<1> QED BY <1>1 DEF Sum

(* What adds nothing may be left out.                                       *)
LEMMA SumZeros ==
  ASSUME NEW S, NEW T \in SUBSET S, NEW f, \A x \in S \ T : f[x] = 0
  PROVE  Sum(f, S) = Sum(f, T)
<1>1. \A x \in S \ T : 1 .. f[x] = {}
  OBVIOUS
<1>2. Cents(f, S) = Cents(f, T)
  BY <1>1 DEF Cents
<1> QED BY <1>2 DEF Sum, Cents

LEMMA SumIsZero ==
  ASSUME NEW S, IsFiniteSet(S), NEW f, \A x \in S : f[x] \in Nat, Sum(f, S) = 0
  PROVE  \A x \in S : f[x] = 0
<1>1. Cents(f, S) = {}
  BY CentsFinite, FS_EmptySet DEF Sum, Cents
<1> SUFFICES ASSUME NEW x \in S, f[x] # 0
             PROVE  FALSE
  OBVIOUS
<1>2. 1 \in 1 .. f[x]
  OBVIOUS
<1>3. <<x, 1>> \in Cents(f, S)
  BY <1>2 DEF Cents
<1> QED BY <1>1, <1>3

LEMMA SumAdds ==
  ASSUME NEW S, IsFiniteSet(S), NEW f, NEW g, NEW h,
         \A x \in S : f[x] \in Nat /\ g[x] \in Nat /\ h[x] = f[x] + g[x]
  PROVE  Sum(h, S) = Sum(f, S) + Sum(g, S)
<1> DEFINE Q == {T \in SUBSET S : Sum(h, T) = Sum(f, T) + Sum(g, T)}
<1>1. {} \in Q
  BY SumEmpty
<1>2. ASSUME NEW T \in SUBSET S, NEW x \in S, T \in Q, x \notin T
      PROVE  T \cup {x} \in Q
  <2>1. IsFiniteSet(T)
    BY FS_Subset
  <2>2. \A y \in S : h[y] \in Nat
    OBVIOUS
  <2>3. Sum(f, T) \in Nat /\ Sum(g, T) \in Nat
    BY <2>1, SumType
  <2>4. /\ Sum(f, T \cup {x}) = Sum(f, T) + f[x]
        /\ Sum(g, T \cup {x}) = Sum(g, T) + g[x]
        /\ Sum(h, T \cup {x}) = Sum(h, T) + h[x]
    BY <1>2, <2>1, <2>2, SumAdd
  <2> QED BY <1>2, <2>3, <2>4
<1>3. S \in Q
  <2> HIDE DEF Q
  <2> QED BY <1>1, <1>2, FiniteInduction
<1> QED BY <1>3

(* A table has the same sum by rows and by columns.                         *)
LEMMA SumOfTable ==
  ASSUME NEW P, IsFiniteSet(P), NEW S, IsFiniteSet(S),
         NEW c, \A p \in P, o \in S : c[p][o] \in Nat
  PROVE  Sum([p \in P |-> Sum(c[p], S)], P)
           = Sum([o \in S |-> Sum([p \in P |-> c[p][o]], P)], S)
<1> DEFINE row == [p \in P |-> Sum(c[p], S)]
           col(o) == [p \in P |-> c[p][o]]
           cols(T) == [o \in S |-> Sum(col(o), T)]
           Q == {T \in SUBSET P : Sum(row, T) = Sum(cols(T), S)}
<1>0. \A p \in P : row[p] \in Nat
  BY SumType
<1>1. {} \in Q
  <2>1. \A o \in S : cols({})[o] = 0
    BY SumEmpty
  <2>2. {} \in SUBSET S /\ \A o \in S \ {} : cols({})[o] = 0
    BY <2>1
  <2> HIDE DEF cols, row
  <2>3. Sum(cols({}), S) = Sum(cols({}), {})
    BY <2>2, SumZeros
  <2> QED BY <2>3, SumEmpty
<1>2. ASSUME NEW T \in SUBSET P, NEW x \in P, T \in Q, x \notin T
      PROVE  T \cup {x} \in Q
  <2>1. IsFiniteSet(T)
    BY FS_Subset
  <2>2. \A o \in S : cols(T)[o] \in Nat
    BY <2>1, SumType
  <2>3. \A o \in S : cols(T \cup {x})[o] = cols(T)[o] + c[x][o]
    <3> SUFFICES ASSUME NEW o \in S
                 PROVE  Sum(col(o), T \cup {x}) = Sum(col(o), T) + c[x][o]
      OBVIOUS
    <3>1. (\A p \in P : col(o)[p] \in Nat) /\ col(o)[x] = c[x][o]
      OBVIOUS
    <3>2. T \cup {x} \subseteq P
      OBVIOUS
    <3> HIDE DEF col
    <3>3. \A p \in T \cup {x} : col(o)[p] \in Nat
      BY <3>1, <3>2
    <3>4. Sum(col(o), T \cup {x}) = Sum(col(o), T) + col(o)[x]
      BY <1>2, <2>1, <3>3, SumAdd
    <3> QED BY <3>1, <3>4
  <2>4. row[x] = Sum(c[x], S)
    OBVIOUS
  <2> HIDE DEF row, cols
  <2>5. Sum(cols(T \cup {x}), S) = Sum(cols(T), S) + Sum(c[x], S)
    BY <2>2, <2>3, SumAdds
  <2>6. Sum(row, T \cup {x}) = Sum(row, T) + row[x]
    BY <1>0, <1>2, <2>1, SumAdd
  <2> QED BY <1>2, <2>4, <2>5, <2>6
<1>3. P \in Q
  <2> HIDE DEF Q
  <2> QED BY <1>1, <1>2, FiniteInduction
<1> QED BY <1>3

(* Groups that share nothing add up to their union.                         *)
LEMMA SumOfGroups ==
  ASSUME NEW P, IsFiniteSet(P), NEW S, IsFiniteSet(S),
         NEW f, \A x \in S : f[x] \in Nat,
         NEW g, \A p \in P : g[p] \in SUBSET S,
         \A p, q \in P : p # q => g[p] \cap g[q] = {}
  PROVE  Sum([p \in P |-> Sum(f, g[p])], P) = Sum(f, UNION {g[p] : p \in P})
<1> DEFINE part == [p \in P |-> Sum(f, g[p])]
           All(T) == UNION {g[p] : p \in T}
           Q == {T \in SUBSET P : Sum(part, T) = Sum(f, All(T))}
<1>0. \A p \in P : part[p] \in Nat /\ IsFiniteSet(g[p])
  <2> SUFFICES ASSUME NEW p \in P
               PROVE  part[p] \in Nat /\ IsFiniteSet(g[p])
    OBVIOUS
  <2>1. IsFiniteSet(g[p]) /\ \A x \in g[p] : f[x] \in Nat
    BY FS_Subset
  <2> QED BY <2>1, SumType
<1>1. {} \in Q
  BY SumEmpty
<1>2. ASSUME NEW T \in SUBSET P, NEW x \in P, T \in Q, x \notin T
      PROVE  T \cup {x} \in Q
  <2>1. IsFiniteSet(T)
    BY FS_Subset
  <2>2. All(T) \in SUBSET S /\ All(T) \cap g[x] = {} /\ All(T \cup {x}) = All(T) \cup g[x]
    BY <1>2
  <2>3. IsFiniteSet(All(T)) /\ \A y \in All(T) \cup g[x] : f[y] \in Nat
    BY <2>2, FS_Subset
  <2>4. part[x] = Sum(f, g[x])
    OBVIOUS
  <2> HIDE DEF part, All
  <2>5. Sum(f, All(T) \cup g[x]) = Sum(f, All(T)) + Sum(f, g[x])
    BY <1>0, <2>2, <2>3, SumUnion
  <2>6. Sum(part, T \cup {x}) = Sum(part, T) + part[x]
    BY <1>0, <1>2, <2>1, SumAdd
  <2> QED BY <1>2, <2>2, <2>4, <2>5, <2>6
<1>3. P \in Q
  <2> HIDE DEF Q
  <2> QED BY <1>1, <1>2, FiniteInduction
<1> QED BY <1>3

-----------------------------------------------------------------------------
(* The money adds up *)

(* One batch or administrator at a time, refunds apart from payouts, and no *)
(* transfer whose outcome is unknown while it takes a clawback: outside of  *)
(* these the property fails, as the README tells.                           *)
OneAtATime ==
  /\ \A v, w \in Workers : v = w
  /\ ~ RefundsMeetPayouts
  /\ ~ AmbiguousDeductions

NothingTaken(p) == \A o \in Orders : consumption[p][o] = 0

(* A deduction of a payout that is paid is yet to be taken off a clawback.  *)
ToApply(w, p, o) ==
  /\ work[w].payout = p
  /\ \/ work[w].at = "saveSucceeded"
     \/ work[w].at \in {"consume", "saveClawback"} /\ o \in work[w].todo

(* What has been taken from the clawback of order o, and by which payouts.  *)
Taken(o) == [p \in Payouts |-> consumption[p][o]]

Applied(o) == {p \in Payouts :
  /\ Paid(p)
  /\ consumption[p][o] > 0
  /\ \A w \in Workers : ~ ToApply(w, p, o)}

(* What is left of a clawback and what was taken add up to the vendor's     *)
(* part of the order.                                                       *)
Due(o) == IF createdAt[o] > 0 THEN Earns["vendor"][o] ELSE 0

Booked(o) == remainingAmount[o] + Sum(Taken(o), Applied(o)) = Due(o)

(* A refund is over before the next batch, and leaves a clawback exactly if *)
(* the vendor was paid for the order.                                       *)
Apart == NoPayoutOpen \/ NoRefundOpen

Refunding(o) ==
  /\ refund[o] = "none" <=> status[o] # "REFUNDED"
  /\ createdAt[o] > 0 => refund[o] = "done"
  /\ refund[o] = "done" => (createdAt[o] > 0 <=> PaidFor("vendor", o))
  /\ refund[o] = "finalized" => payoutRead[o] = claimedBy["vendor"][o]

(* Clawbacks have their places, one each.                                   *)
Created == {o \in Orders : createdAt[o] > 0}

Places ==
  /\ pending \subseteq Created
  /\ \A o \in Orders : createdAt[o] <= Cardinality(Created)
  /\ \A o, x \in Created : createdAt[o] = createdAt[x] => o = x

Sound(p) ==
  /\ payee[p] # "vendor" => NothingTaken(p)
  /\ reconciliationRequired[p] => NothingTaken(p)
  /\ Paid(p) => \A o \in covers[p] : status[o] # "OUT_FOR_DELIVERY"
  /\ Paid(p) /\ p \notin moved => Net(p) = 0

(* A payout claims only what it is for.                                     *)
Covered(k, o) == claimedBy[k][o] # NoPayout => o \in covers[claimedBy[k][o]]

(* What a worker may rely on until its next step.                           *)
Relies(w) ==
  LET p == work[w].payout IN
  /\ work[w].at = "applyClawbacks" => \A o \in work[w].todo : Earned(work[w].payee, o)
  /\ work[w].at = "claim" => work[w].todo \subseteq covers[p]
  /\ work[w].at \in {"claim", "transfer"} => \A o \in covers[p] : Earned(payee[p], o)
  /\ work[w].at \in {"claim", "transfer", "saveSucceeded"} =>
       \A o \in Consumed(p) : o \in Created /\ consumption[p][o] <= remainingAmount[o]
  /\ work[w].at \in {"consume", "saveClawback"} =>
       \A o \in work[w].todo :
         /\ o \in Consumed(p) /\ o \in Created
         /\ consumption[p][o] <= remainingAmount[o]
  /\ work[w].at = "saveClawback" =>
       \A o \in Orders : Oldest(o, work[w].todo) => work[w].read = remainingAmount[o]
  /\ work[w].at = "saveUnknown" => NothingTaken(p) /\ payoutStatus[p] # "succeeded"
  /\ Resolves(w) => reconciliationRequired[p]

LedgerInv ==
  /\ AnswerInv
  /\ Apart
  /\ Places
  /\ \A o \in Orders : Refunding(o) /\ Booked(o)
  /\ \A k \in Kinds, o \in Orders : Covered(k, o)
  /\ \A p \in Payouts : Sound(p)
  /\ \A w \in Workers : Relies(w)

LEMMA LedgerInit == ASSUME Init PROVE LedgerInv
<1>1. AnswerInv
  BY AnswerInit
<1>2. Apart
  BY IdleType DEF Init, Apart, NoRefundOpen
<1>3. Created = {} /\ Places
  <2>1. Created = {}
    BY DEF Init, Created
  <2>2. Cardinality(Created) = 0
    BY <2>1, FS_EmptySet
  <2> QED BY <2>1, <2>2 DEF Init, Places
<1>4. \A p \in Payouts : ~ Paid(p)
  BY DEF Init, Paid
<1>5. ASSUME NEW o \in Orders  PROVE Refunding(o) /\ Booked(o)
  <2>1. Applied(o) = {}
    BY <1>4 DEF Applied
  <2>2. Booked(o)
    BY <2>1, SumEmpty DEF Init, Booked, Due
  <2> QED BY <2>2 DEF Init, Refunding
<1>6. \A k \in Kinds, o \in Orders : Covered(k, o)
  BY DEF Init, Covered
<1>7. \A p \in Payouts : Sound(p)
  BY <1>4 DEF Init, Sound, NothingTaken
<1>8. \A w \in Workers : Relies(w)
  BY IdleType DEF Init, Relies, Resolves
<1> QED BY <1>1, <1>2, <1>3, <1>5, <1>6, <1>7, <1>8 DEF LedgerInv

(* No refund is under way while a worker is at work.                        *)
LEMMA NoRefundNow ==
  ASSUME LedgerInv, OneAtATime, NEW w \in Workers,
         Start(w) \/ Step(w) \/ DatabaseError(w) \/ Die(w), BatchesFinish
  PROVE  NoRefundOpen
<1>1. CASE work[w].at # "idle"
  BY <1>1 DEF LedgerInv, Apart, NoPayoutOpen, AllIdle
<1>2. CASE Start(w)
  BY <1>2 DEF Start, getUnpaidEarnings, resolveReconciliation, OneAtATime, LedgerInv, Apart,
     NoPayoutOpen
<1>3. CASE Step(w)
  <2>1. work[w].at # "idle"
    BY <1>3 DEF Step, createPayout, ClaimDone, Accepted, Rejected, OutcomeUnknown,
       SaveSucceeded, SaveUnknown, SaveRejected, ReadClawback, SaveClawback, LoopDone,
       SaveFailed, SaveResolved, claimOrder, Release
  <2> QED BY <1>1, <2>1
<1> QED BY <1>1, <1>2, <1>3 DEF BatchesFinish, DatabaseError, Die

(* A step of a worker that leaves the orders, the clawbacks and what the    *)
(* payouts are for, and takes nothing off a clawback.                       *)
LEMMA LedgerKept ==
  ASSUME LedgerInv, AnswerInv', OneAtATime, NEW w \in Workers, NoRefundOpen,
         UNCHANGED <<status, refund, payoutRead, clawbackVars, payee, covers, consumption>>,
         moved \subseteq moved',
         \A q \in Payouts : Paid(q) => Paid(q)',
         \A q \in Payouts : Paid(q)' /\ ~ Paid(q) =>
           /\ \A o \in covers[q] : Earned(payee[q], o)
           /\ q \notin moved' => Net(q) = 0,
         \A q \in Payouts : reconciliationRequired'[q] =>
           reconciliationRequired[q] \/ NothingTaken(q),
         \A q \in Payouts, o \in Orders : consumption[q][o] > 0 =>
           (Paid(q)' /\ ~ ToApply(w, q, o)' <=> Paid(q) /\ ~ ToApply(w, q, o)),
         \A k \in Kinds, o \in Orders : Covered(k, o)',
         Relies(w)'
  PROVE  LedgerInv'
<1> USE DEF clawbackVars
<1>1. Apart' /\ Places'
  BY DEF LedgerInv, Apart, NoRefundOpen, Places, Created
<1>2. ASSUME NEW o \in Orders  PROVE Refunding(o)'
  <2>1. Refunding(o) /\ refund[o] \in {"none", "done"}
    BY DEF LedgerInv, NoRefundOpen
  <2>2. refund[o] = "done" /\ PaidFor("vendor", o)' => PaidFor("vendor", o)
    <3> SUFFICES ASSUME refund[o] = "done", NEW q \in Payouts,
                        payee[q] = "vendor", Paid(q)', o \in covers[q], ~ Paid(q)
                 PROVE  FALSE
      BY DEF PaidFor
    <3>1. status[o] = "DELIVERED"
      BY DEF Earned
    <3> QED BY <2>1, <3>1 DEF Refunding
  <2>3. PaidFor("vendor", o) => PaidFor("vendor", o)'
    BY DEF PaidFor
  <2> QED BY <2>1, <2>2, <2>3 DEF Refunding
<1>3. ASSUME NEW o \in Orders  PROVE Booked(o)'
  <2>1. Applied(o)' = Applied(o)
    BY DEF Applied, OneAtATime
  <2>2. Taken(o)' = Taken(o) /\ Due(o)' = Due(o)
    BY DEF Taken, Due
  <2>3. Booked(o)
    BY DEF LedgerInv
  <2> QED BY <2>1, <2>2, <2>3 DEF Booked
<1>4. ASSUME NEW q \in Payouts  PROVE Sound(q)'
  <2>1. Sound(q) /\ Net(q)' = Net(q) /\ (NothingTaken(q)' <=> NothingTaken(q))
    BY DEF LedgerInv, Net, Gross, Deducted, NothingTaken
  <2>2. Paid(q)' => \A o \in covers[q] : status[o] # "OUT_FOR_DELIVERY"
    BY <2>1 DEF Sound, Earned
  <2> QED BY <2>1, <2>2 DEF Sound
<1>5. \A v \in Workers : Relies(v)'
  BY DEF OneAtATime
<1> QED BY <1>1, <1>2, <1>3, <1>4, <1>5 DEF LedgerInv

(* Worker w goes on, with nothing yet to take off a clawback.               *)
LEMMA LedgerQuiet ==
  ASSUME LedgerInv, AnswerInv', OneAtATime, NEW w \in Workers, NoRefundOpen,
         UNCHANGED <<status, refund, payoutRead, clawbackVars, payee, covers, consumption,
                     moved>>,
         \A q \in Payouts : Paid(q) <=> Paid(q)',
         \A q \in Payouts : reconciliationRequired'[q] =>
           reconciliationRequired[q] \/ NothingTaken(q),
         \A q \in Payouts, o \in Orders : consumption[q][o] > 0 /\ Paid(q) =>
           (ToApply(w, q, o)' <=> ToApply(w, q, o)),
         \A k \in Kinds, o \in Orders : Covered(k, o)',
         Relies(w)'
  PROVE  LedgerInv'
<1>1. \A q \in Payouts, o \in Orders : consumption[q][o] > 0 =>
        (Paid(q)' /\ ~ ToApply(w, q, o)' <=> Paid(q) /\ ~ ToApply(w, q, o))
  OBVIOUS
<1>2. moved \subseteq moved'
  OBVIOUS
<1> QED BY <1>1, <1>2, LedgerKept

(* The work of w after a step.                                              *)
LEMMA AfterStep ==
  ASSUME TypeInv, NEW w \in Workers, NEW at, NEW p, NEW todo, NEW r, NEW next,
         Goto(w, at, p, todo, r, next)
  PROVE  /\ work'[w].at = at /\ work'[w].payout = p /\ work'[w].todo = todo
         /\ work'[w].read = r /\ work'[w].next = next /\ work'[w].payee = work[w].payee
         /\ \A v \in Workers : v # w => work'[v] = work[v]
BY DEF Goto, TypeInv, TypeOK

LEMMA SameCovered ==
  ASSUME LedgerInv, UNCHANGED <<claimedBy, covers>>
  PROVE  \A k \in Kinds, o \in Orders : Covered(k, o)'
BY DEF LedgerInv, Covered

LEMMA WhenPaid ==
  ASSUME UNCHANGED <<payoutStatus, moved>>
  PROVE  \A q \in Payouts : Paid(q) <=> Paid(q)'
BY DEF Paid

LEMMA LedgerTypes ==
  ASSUME LedgerInv
  PROVE  TypeInv /\ TypeOK /\ LockInv /\ \A w \in Workers : Knows(w) /\ Leaves(w) /\ Relies(w)
BY DEF LedgerInv, AnswerInv, LockInv, TypeInv

LEMMA LedgerStart ==
  ASSUME LedgerInv, AnswerInv', OneAtATime, BatchesFinish, NEW w \in Workers, Start(w)
  PROVE  LedgerInv'
<1> USE DEF orderVars, payoutVars
<1>1. NoRefundOpen
  BY NoRefundNow
<1>2. /\ UNCHANGED <<status, refund, payoutRead, clawbackVars, payee, covers, consumption,
                     moved, claimedBy, payoutStatus, reconciliationRequired>>
      /\ work[w].at = "idle"
  BY DEF Start, getUnpaidEarnings, resolveReconciliation
<1>3. \A q \in Payouts, o \in Orders : ~ ToApply(w, q, o)
  BY <1>2 DEF ToApply
<1>4. CASE \E k \in Payees : getUnpaidEarnings(w, k)
  <2>1. PICK k \in Payees : getUnpaidEarnings(w, k)
    BY <1>4
  <2>2. /\ work'[w].at = "applyClawbacks" /\ work'[w].payee = k
        /\ work'[w].todo = Unpaid(k) /\ work'[w].next = "idle"
    BY <2>1, LedgerTypes DEF getUnpaidEarnings, TypeOK
  <2>3. Relies(w)'
    BY <1>2, <2>2 DEF Relies, Resolves, Unpaid, Earned
  <2>4. \A q \in Payouts, o \in Orders : ~ ToApply(w, q, o)'
    BY <2>2 DEF ToApply
  <2> QED BY <1>1, <1>2, <1>3, <2>3, <2>4, LedgerQuiet, SameCovered, WhenPaid
<1>5. CASE \E p \in Payouts : resolveReconciliation(w, p)
  <2>1. PICK p \in Payouts : resolveReconciliation(w, p)
    BY <1>5
  <2>2. /\ work'[w].at = IF p \in moved THEN "consume" ELSE "release"
        /\ work'[w].payout = p
        /\ work'[w].todo = IF p \in moved THEN Consumed(p) ELSE {}
    BY <2>1, LedgerTypes DEF resolveReconciliation, TypeOK
  <2>3. reconciliationRequired[p] /\ NothingTaken(p)
    BY <2>1 DEF resolveReconciliation, LedgerInv, Sound
  <2>4. work'[w].todo = {}
    BY <2>2, <2>3 DEF Consumed, NothingTaken
  <2>5. Relies(w)'
    <3>1. Resolves(w)' => reconciliationRequired'[work'[w].payout]
      BY <1>2, <2>2, <2>3
    <3> QED BY <2>2, <2>4, <3>1 DEF Relies
  <2>6. \A q \in Payouts, o \in Orders : ~ ToApply(w, q, o)'
    BY <2>2, <2>4 DEF ToApply
  <2> QED BY <1>1, <1>2, <1>3, <2>5, <2>6, LedgerQuiet, SameCovered, WhenPaid
<1> QED BY <1>4, <1>5 DEF Start

LEMMA LedgerCutOff ==
  ASSUME LedgerInv, AnswerInv', OneAtATime, BatchesFinish, NEW w \in Workers,
         DatabaseError(w)
  PROVE  LedgerInv'
<1> USE DEF orderVars, payoutVars
<1>1. NoRefundOpen
  BY NoRefundNow
<1>2. /\ work[w].at \in {"applyClawbacks", "saveResolved"} /\ Finish(w)
      /\ UNCHANGED <<status, refund, payoutRead, clawbackVars, payee, covers, consumption,
                     moved, claimedBy, payoutStatus, reconciliationRequired>>
  BY DEF BatchesFinish, DatabaseError, InTry
<1>3. work'[w] = Idle
  BY <1>2, LedgerTypes DEF Finish, TypeOK
<1>4. Relies(w)'
  BY <1>3, IdleType DEF Relies, Resolves
<1>5. \A q \in Payouts, o \in Orders : ~ ToApply(w, q, o) /\ ~ ToApply(w, q, o)'
  BY <1>2, <1>3, IdleType DEF ToApply
<1> QED BY <1>1, <1>2, <1>4, <1>5, LedgerQuiet, SameCovered, WhenPaid

LEMMA LedgerClaim ==
  ASSUME LedgerInv, AnswerInv', OneAtATime, BatchesFinish, NEW w \in Workers,
         NEW x \in Orders, claimOrder(w, x)
  PROVE  LedgerInv'
<1> USE DEF payoutVars
<1>1. NoRefundOpen
  BY NoRefundNow DEF Step
<1>2. PICK p \in Payouts : p = work[w].payout
  BY LedgerTypes, WorkFacts DEF claimOrder
<1>3. /\ UNCHANGED <<status, refund, payoutRead, clawbackVars, payee, covers, consumption,
                     moved, payoutStatus, reconciliationRequired>>
      /\ work[w].payee \in Kinds
      /\ work[w].at = "claim" /\ Relies(w) /\ x \in work[w].todo
      /\ Goto(w, "claim", p, work[w].todo \ {x}, 0, "idle")
  BY <1>2, LedgerTypes, WorkFacts DEF claimOrder
<1>4. /\ work'[w].at = "claim" /\ work'[w].payout = p
      /\ work'[w].todo = work[w].todo \ {x}
  BY <1>3, LedgerTypes, AfterStep
<1>5. /\ work[w].todo \subseteq covers[p]
      /\ \A o \in covers[p] : Earned(payee[p], o)
      /\ \A o \in Consumed(p) : o \in Created /\ consumption[p][o] <= remainingAmount[o]
  BY <1>2, <1>3 DEF Relies
<1>6. Relies(w)'
  <2>1. /\ work'[w].todo \subseteq covers'[p]
        /\ \A o \in covers'[p] : Earned(payee[p], o)'
        /\ \A o \in Consumed(p)' : o \in Created' /\ consumption'[p][o] <= remainingAmount'[o]
    BY <1>3, <1>4, <1>5 DEF Earned, Consumed, Created, clawbackVars
  <2>2. payee'[p] = payee[p]
    BY <1>3
  <2> QED BY <1>4, <2>1, <2>2 DEF Relies, Resolves, Consumed, Earned
<1>7. \A q \in Payouts, o \in Orders : ~ ToApply(w, q, o) /\ ~ ToApply(w, q, o)'
  BY <1>3, <1>4 DEF ToApply
<1>8. ASSUME NEW k \in Kinds, NEW o \in Orders  PROVE Covered(k, o)'
  <2>1. \/ claimedBy'[k][o] = claimedBy[k][o]
        \/ claimedBy'[k][o] = p /\ o = x
    BY <1>2, <1>3, LedgerTypes DEF claimOrder, SetClaim, TypeOK
  <2>2. Covered(k, o)
    BY DEF LedgerInv
  <2> QED BY <1>3, <1>5, <2>1, <2>2 DEF Covered
<1> QED BY <1>1, <1>3, <1>6, <1>7, <1>8, LedgerQuiet, WhenPaid

LEMMA LedgerRelease ==
  ASSUME LedgerInv, AnswerInv', OneAtATime, BatchesFinish, NEW w \in Workers,
         NEW x \in Orders, Release(w, x)
  PROVE  LedgerInv'
<1> USE DEF payoutVars
<1>1. NoRefundOpen
  BY NoRefundNow DEF Step
<1>2. /\ UNCHANGED <<status, refund, payoutRead, clawbackVars, payee, covers, consumption,
                     moved, payoutStatus, reconciliationRequired, work>>
      /\ work[w].payee \in Kinds /\ work[w].at = "release" /\ Relies(w)
  BY LedgerTypes, WorkFacts DEF Release
<1>3. Relies(w)'
  BY <1>2 DEF Relies, Resolves
<1>4. \A q \in Payouts, o \in Orders : ~ ToApply(w, q, o) /\ ~ ToApply(w, q, o)'
  BY <1>2 DEF ToApply
<1>5. ASSUME NEW k \in Kinds, NEW o \in Orders  PROVE Covered(k, o)'
  <2>1. claimedBy'[k][o] \in {claimedBy[k][o], NoPayout}
    BY <1>2, LedgerTypes DEF Release, SetClaim, TypeOK
  <2>2. Covered(k, o)
    BY DEF LedgerInv
  <2> QED BY <1>2, <2>1, <2>2 DEF Covered
<1> QED BY <1>1, <1>2, <1>3, <1>4, <1>5, LedgerQuiet, WhenPaid

(* A deduction of nothing takes nothing.                                    *)
LEMMA AmountIsNat == Amount \subseteq Nat /\ IsFiniteSet(Orders)
BY ConstantsAssumption DEF Amount

LEMMA EarnsIsNat == \A k \in Kinds, o \in Orders : Earns[k][o] \in Nat
<1>1. 1 .. MaxEarning \subseteq Nat
  BY ConstantsAssumption
<1> QED BY <1>1, ConstantsAssumption

LEMMA DeductedNothing ==
  ASSUME TypeOK, NEW p \in Payouts, Deducted(p) = 0
  PROVE  NothingTaken(p)
<1>1. \A o \in Orders : consumption[p][o] \in Nat
  BY AmountIsNat DEF TypeOK, Deduction
<1> QED BY <1>1, AmountIsNat, SumIsZero DEF Deducted, NothingTaken

LEMMA LedgerTransfer ==
  ASSUME LedgerInv, AnswerInv', OneAtATime, BatchesFinish, NEW w \in Workers,
         Accepted(w) \/ OutcomeUnknown(w)
  PROVE  LedgerInv'
<1> USE DEF payoutVars, orderVars
<1>0. PICK p \in Payouts : p = work[w].payout
  BY LedgerTypes, WorkFacts DEF Accepted, OutcomeUnknown
<1>1. NoRefundOpen
  BY NoRefundNow DEF Step
<1>2. /\ UNCHANGED <<status, refund, payoutRead, clawbackVars, payee, covers, consumption,
                     payoutStatus, reconciliationRequired, claimedBy>>
      /\ work[w].at = "transfer" /\ Relies(w) /\ ~ Paid(p)
      /\ moved' \in {moved, moved \cup {p}}
  BY <1>0, LedgerTypes DEF Accepted, OutcomeUnknown, Knows
<1>3. \A q \in Payouts :
        /\ Paid(q) => Paid(q)'
        /\ Paid(q)' /\ ~ Paid(q) => q = p /\ p \in moved'
  BY <1>2 DEF Paid
<1>4. \A o \in covers[p] : Earned(payee[p], o)
  BY <1>0, <1>2 DEF Relies
<1>5. CASE Accepted(w)
  <2>1. work'[w].at = "saveSucceeded" /\ work'[w].payout = p /\ moved' = moved \cup {p}
    BY <1>0, <1>5, LedgerTypes, AfterStep DEF Accepted
  <2>2. Relies(w)'
    <3>1. \A o \in Consumed(p)' : o \in Created' /\ consumption'[p][o] <= remainingAmount'[o]
      BY <1>0, <1>2 DEF Relies, Consumed, Created, clawbackVars
    <3> QED BY <2>1, <3>1 DEF Relies, Resolves, Consumed
  <2>3. \A q \in Payouts, o \in Orders : Paid(q) => ~ ToApply(w, q, o) /\ ~ ToApply(w, q, o)'
    BY <1>0, <1>2, <2>1 DEF ToApply
  <2>4. \A o \in Orders : ToApply(w, p, o)'
    BY <2>1 DEF ToApply
  <2>5. ASSUME NEW q \in Payouts, NEW o \in Orders
        PROVE  Paid(q)' /\ ~ ToApply(w, q, o)' <=> Paid(q) /\ ~ ToApply(w, q, o)
    <3>1. CASE Paid(q)
      BY <1>3, <2>3, <3>1
    <3>2. CASE ~ Paid(q)
      BY <1>3, <2>4, <3>2
    <3> QED BY <3>1, <3>2
  <2> QED BY <1>1, <1>2, <1>3, <1>4, <2>2, <2>5, LedgerKept, SameCovered
<1>6. CASE OutcomeUnknown(w)
  <2>1. work'[w].at = "saveUnknown" /\ work'[w].payout = p
    BY <1>0, <1>6, LedgerTypes, AfterStep DEF OutcomeUnknown
  <2>2. NothingTaken(p)
    BY <1>0, <1>2, <1>6, LedgerTypes, DeductedNothing DEF OutcomeUnknown, OneAtATime
  <2>3. Relies(w)'
    <3>1. NothingTaken(p)' /\ payoutStatus'[p] # "succeeded"
      BY <1>2, <2>2 DEF NothingTaken, Paid
    <3> QED BY <2>1, <3>1 DEF Relies, Resolves, NothingTaken
  <2>4. \A q \in Payouts, o \in Orders : ~ ToApply(w, q, o) /\ ~ ToApply(w, q, o)'
    BY <1>0, <1>2, <2>1 DEF ToApply
  <2>5. ASSUME NEW q \in Payouts, NEW o \in Orders, consumption[q][o] > 0
        PROVE  Paid(q)' /\ ~ ToApply(w, q, o)' <=> Paid(q) /\ ~ ToApply(w, q, o)
    <3>1. q # p
      BY <2>2, <2>5 DEF NothingTaken
    <3> QED BY <1>3, <2>4, <3>1
  <2> QED BY <1>1, <1>2, <1>3, <1>4, <2>3, <2>5, LedgerKept, SameCovered
<1> QED BY <1>5, <1>6

(* The document of a payout that is not paid is brought up to date.         *)
LEMMA LedgerUnpaid ==
  ASSUME LedgerInv, AnswerInv', OneAtATime, BatchesFinish, NEW w \in Workers,
         Rejected(w) \/ SaveRejected(w) \/ SaveFailed(w) \/ SaveUnknown(w)
  PROVE  LedgerInv'
<1> USE DEF payoutVars, orderVars
<1>1. NoRefundOpen
  BY NoRefundNow DEF Step
<1>2. PICK p \in Payouts : p = work[w].payout
  BY LedgerTypes, WorkFacts DEF Rejected, SaveRejected, SaveFailed, SaveUnknown
<1>3. /\ UNCHANGED <<status, refund, payoutRead, clawbackVars, payee, covers, consumption,
                     moved, claimedBy>>
      /\ work[w].at \in {"transfer", "saveRejected", "saveFailed", "saveUnknown"}
      /\ Relies(w) /\ Knows(w)
  BY LedgerTypes DEF Rejected, SaveRejected, SaveFailed, SaveUnknown
<1>4. work'[w].at \in {"saveRejected", "release", "idle"} /\ work'[w].next = "idle"
  <2>1. CASE Goto(w, "saveRejected", p, {}, 0, "idle") \/ Goto(w, "release", p, {}, 0, "idle")
    BY <2>1, LedgerTypes, AfterStep
  <2>2. CASE Finish(w)
    BY <2>2, LedgerTypes DEF Finish, Idle, TypeOK
  <2> QED BY <1>2, <2>1, <2>2 DEF Rejected, SaveRejected, SaveFailed, SaveUnknown
<1>5. Relies(w)'
  BY <1>4 DEF Relies, Resolves
<1>6. \A q \in Payouts, o \in Orders : ~ ToApply(w, q, o) /\ ~ ToApply(w, q, o)'
  BY <1>3, <1>4 DEF ToApply
<1>7. ASSUME NEW q \in Payouts  PROVE Paid(q) <=> Paid(q)'
  <2>1. payoutStatus'[q] = payoutStatus[q] \/ (q = p /\ payoutStatus'[q] = "failed")
    BY <1>2, LedgerTypes DEF Rejected, SaveRejected, SaveFailed, SaveUnknown, TypeOK
  <2>2. q = p /\ payoutStatus'[q] # payoutStatus[q] => payoutStatus[q] # "succeeded"
    BY <1>2, <1>3 DEF Rejected, SaveRejected, SaveFailed, SaveUnknown, Relies, Knows, Paid
  <2> QED BY <1>3, <2>1, <2>2 DEF Paid
<1>8. ASSUME NEW q \in Payouts, reconciliationRequired'[q]
      PROVE  reconciliationRequired[q] \/ NothingTaken(q)
  <2>1. CASE SaveUnknown(w)
    <3>1. NothingTaken(p)
      BY <1>2, <1>3, <2>1 DEF SaveUnknown, Relies
    <3>2. q # p => reconciliationRequired'[q] = reconciliationRequired[q]
      BY <1>2, <2>1, LedgerTypes DEF SaveUnknown, TypeOK
    <3> QED BY <1>8, <3>1, <3>2
  <2>2. CASE ~ SaveUnknown(w)
    BY <1>8, <2>2 DEF Rejected, SaveRejected, SaveFailed
  <2> QED BY <2>1, <2>2
<1> QED BY <1>1, <1>3, <1>5, <1>6, <1>7, <1>8, LedgerQuiet, SameCovered

LEMMA LedgerResolved ==
  ASSUME LedgerInv, AnswerInv', OneAtATime, BatchesFinish, NEW w \in Workers,
         SaveResolved(w)
  PROVE  LedgerInv'
<1> USE DEF payoutVars, orderVars
<1>1. NoRefundOpen
  BY NoRefundNow DEF Step
<1>2. PICK p \in Payouts : p = work[w].payout
  BY LedgerTypes, WorkFacts DEF SaveResolved
<1>3. /\ UNCHANGED <<status, refund, payoutRead, clawbackVars, payee, covers, consumption,
                     moved, claimedBy>>
      /\ work[w].at = "saveResolved" /\ reconciliationRequired[p] /\ Finish(w)
  BY <1>2, LedgerTypes DEF SaveResolved, Relies, Resolves
<1>4. Unsettled(p)
  BY LedgerTypes DEF LockInv
<1>5. Relies(w)' /\ work'[w].at = "idle"
  BY <1>3, LedgerTypes DEF Finish, Idle, TypeOK, Relies, Resolves
<1>6. \A q \in Payouts, o \in Orders : ~ ToApply(w, q, o) /\ ~ ToApply(w, q, o)'
  BY <1>3, <1>5 DEF ToApply
<1>7. ASSUME NEW q \in Payouts  PROVE Paid(q) <=> Paid(q)'
  <2>1. CASE q # p
    BY <1>2, <1>3, <2>1, LedgerTypes DEF SaveResolved, TypeOK, Paid
  <2>2. CASE q = p
    <3>1. payoutStatus'[p] = IF p \in moved THEN "succeeded" ELSE "failed"
      BY <1>2, LedgerTypes DEF SaveResolved, TypeOK
    <3> QED BY <1>3, <1>4, <2>2, <3>1 DEF Unsettled, Paid
  <2> QED BY <2>1, <2>2
<1>8. \A q \in Payouts : reconciliationRequired'[q] => reconciliationRequired[q]
  BY <1>2, LedgerTypes DEF SaveResolved, TypeOK
<1> QED BY <1>1, <1>3, <1>5, <1>6, <1>7, <1>8, LedgerQuiet, SameCovered

LEMMA LedgerLoop ==
  ASSUME LedgerInv, AnswerInv', OneAtATime, BatchesFinish, NEW w \in Workers,
         LoopDone(w)
  PROVE  LedgerInv'
<1> USE DEF payoutVars, orderVars
<1>1. NoRefundOpen
  BY NoRefundNow DEF Step
<1>2. PICK p \in Payouts : p = work[w].payout
  BY LedgerTypes, WorkFacts DEF LoopDone
<1>3. /\ UNCHANGED <<status, refund, payoutRead, clawbackVars, payee, covers, consumption,
                     moved, claimedBy, payoutStatus, reconciliationRequired>>
      /\ work[w].at \in {"release", "consume"} /\ Relies(w)
      /\ work[w].at = "consume" => work[w].todo = {}
      /\ work[w].next \in {"idle", "saveFailed", "saveResolved"}
  BY LedgerTypes, WorkFacts DEF LoopDone
<1>4. /\ work'[w].at = work[w].next
      /\ work'[w].at # "idle" => work'[w].payout = p
  <2>1. CASE work[w].next = "idle"
    BY <2>1, LedgerTypes DEF LoopDone, Finish, Idle, TypeOK
  <2>2. CASE work[w].next # "idle"
    BY <1>2, <2>2, LedgerTypes, AfterStep DEF LoopDone
  <2> QED BY <2>1, <2>2
<1>5. Relies(w)'
  <2>1. work[w].next = "saveResolved" => reconciliationRequired[p]
    BY <1>2, <1>3 DEF Relies, Resolves
  <2> QED BY <1>3, <1>4, <2>1 DEF Relies, Resolves
<1>6. \A q \in Payouts, o \in Orders : ~ ToApply(w, q, o) /\ ~ ToApply(w, q, o)'
  BY <1>3, <1>4 DEF ToApply
<1> QED BY <1>1, <1>3, <1>5, <1>6, LedgerQuiet, SameCovered, WhenPaid

LEMMA LedgerRead ==
  ASSUME LedgerInv, AnswerInv', OneAtATime, BatchesFinish, NEW w \in Workers,
         ReadClawback(w)
  PROVE  LedgerInv'
<1> USE DEF payoutVars, orderVars
<1>1. NoRefundOpen
  BY NoRefundNow DEF Step
<1>2. PICK p \in Payouts : p = work[w].payout
  BY LedgerTypes, WorkFacts DEF ReadClawback
<1>3. /\ UNCHANGED <<status, refund, payoutRead, clawbackVars, payee, covers, consumption,
                     moved, claimedBy, payoutStatus, reconciliationRequired>>
      /\ work[w].at = "consume" /\ Relies(w)
  BY LedgerTypes DEF ReadClawback
<1>4. PICK x \in Orders :
        /\ Oldest(x, work[w].todo)
        /\ Goto(w, "saveClawback", p, work[w].todo, remainingAmount[x], work[w].next)
  BY <1>2 DEF ReadClawback
<1>5. /\ work'[w].at = "saveClawback" /\ work'[w].payout = p
      /\ work'[w].todo = work[w].todo /\ work'[w].next = work[w].next
      /\ work'[w].read = remainingAmount[x]
  BY <1>4, LedgerTypes, AfterStep
<1>6. \A o \in work[w].todo :
        o \in Consumed(p) /\ o \in Created /\ consumption[p][o] <= remainingAmount[o]
  BY <1>2, <1>3 DEF Relies
<1>7. ASSUME NEW o \in Orders, Oldest(o, work[w].todo)  PROVE o = x
  <2>1. o \in Created /\ x \in Created
    BY <1>4, <1>6, <1>7 DEF Oldest
  <2>2. createdAt[o] \in Nat /\ createdAt[x] \in Nat
    BY LedgerTypes DEF TypeOK
  <2>3. createdAt[o] = createdAt[x]
    BY <1>4, <1>7, <2>2 DEF Oldest
  <2> QED BY <2>1, <2>3 DEF LedgerInv, Places
<1>8. Relies(w)'
  <2>1. \A o \in work'[w].todo :
          /\ o \in Consumed(p)' /\ o \in Created'
          /\ consumption'[p][o] <= remainingAmount'[o]
    BY <1>3, <1>5, <1>6 DEF Consumed, Created, clawbackVars
  <2>2. \A o \in Orders : Oldest(o, work[w].todo)' => work'[w].read = remainingAmount'[o]
    <3>1. \A o \in Orders : Oldest(o, work[w].todo)' => Oldest(o, work[w].todo)
      BY <1>3, <1>5 DEF Oldest, clawbackVars
    <3> QED BY <1>3, <1>5, <1>7, <3>1 DEF clawbackVars
  <2>3. Resolves(w)' => reconciliationRequired'[p]
    BY <1>2, <1>3, <1>5 DEF Relies, Resolves
  <2> QED BY <1>5, <2>1, <2>2, <2>3 DEF Relies, Consumed
<1>9. \A q \in Payouts, o \in Orders : ToApply(w, q, o)' <=> ToApply(w, q, o)
  BY <1>2, <1>3, <1>5 DEF ToApply
<1> QED BY <1>1, <1>3, <1>8, <1>9, LedgerQuiet, SameCovered, WhenPaid

LEMMA LedgerSucceeded ==
  ASSUME LedgerInv, AnswerInv', OneAtATime, BatchesFinish, NEW w \in Workers,
         SaveSucceeded(w)
  PROVE  LedgerInv'
<1> USE DEF payoutVars, orderVars
<1>1. NoRefundOpen
  BY NoRefundNow DEF Step
<1>2. PICK p \in Payouts : p = work[w].payout
  BY LedgerTypes, WorkFacts DEF SaveSucceeded
<1>3. /\ UNCHANGED <<status, refund, payoutRead, clawbackVars, payee, covers, consumption,
                     moved, claimedBy, reconciliationRequired>>
      /\ work[w].at = "saveSucceeded" /\ Relies(w) /\ p \in moved
      /\ Goto(w, "consume", p, Consumed(p), 0, "idle")
  BY <1>2, LedgerTypes DEF SaveSucceeded, Knows
<1>4. /\ work'[w].at = "consume" /\ work'[w].payout = p
      /\ work'[w].todo = Consumed(p) /\ work'[w].next = "idle"
  BY <1>3, LedgerTypes, AfterStep
<1>5. Relies(w)'
  <2>1. \A o \in Consumed(p) : o \in Created /\ consumption[p][o] <= remainingAmount[o]
    BY <1>2, <1>3 DEF Relies
  <2>2. \A o \in work'[w].todo :
          /\ o \in Consumed(p)' /\ o \in Created'
          /\ consumption'[p][o] <= remainingAmount'[o]
    BY <1>3, <1>4, <2>1 DEF Consumed, Created, clawbackVars
  <2> QED BY <1>4, <2>2 DEF Relies, Resolves, Consumed
<1>6. \A q \in Payouts, o \in Orders : consumption[q][o] > 0 =>
        (ToApply(w, q, o)' <=> ToApply(w, q, o))
  BY <1>2, <1>3, <1>4 DEF ToApply, Consumed
<1>7. \A q \in Payouts : Paid(q) <=> Paid(q)'
  BY <1>2, <1>3, LedgerTypes DEF SaveSucceeded, TypeOK, Paid
<1> QED BY <1>1, <1>3, <1>5, <1>6, <1>7, LedgerQuiet, SameCovered

LEMMA LedgerClaimed ==
  ASSUME LedgerInv, AnswerInv', OneAtATime, BatchesFinish, NEW w \in Workers,
         ClaimDone(w)
  PROVE  LedgerInv'
<1> USE DEF payoutVars, orderVars
<1>1. NoRefundOpen
  BY NoRefundNow DEF Step
<1>2. PICK p \in Payouts : p = work[w].payout
  BY LedgerTypes, WorkFacts DEF ClaimDone
<1>3. /\ UNCHANGED <<status, refund, payoutRead, clawbackVars, payee, covers, consumption,
                     moved, claimedBy, reconciliationRequired>>
      /\ work[w].at = "claim" /\ Relies(w) /\ ~ Paid(p)
  BY <1>2, LedgerTypes DEF ClaimDone, Knows
<1>4. /\ \A o \in covers[p] : Earned(payee[p], o)
      /\ \A o \in Consumed(p) : o \in Created /\ consumption[p][o] <= remainingAmount[o]
  BY <1>2, <1>3 DEF Relies
<1>5. CASE /\ UNCHANGED payoutStatus
           /\ Goto(w, "release", p, {}, 0, "saveFailed")
  <2>1. work'[w].at = "release" /\ work'[w].next = "saveFailed"
    BY <1>5, LedgerTypes, AfterStep
  <2>2. Relies(w)'
    BY <2>1 DEF Relies, Resolves
  <2>3. \A q \in Payouts, o \in Orders : ~ ToApply(w, q, o) /\ ~ ToApply(w, q, o)'
    BY <1>3, <2>1 DEF ToApply
  <2> QED BY <1>1, <1>3, <1>5, <2>2, <2>3, LedgerQuiet, SameCovered, WhenPaid
<1>6. CASE /\ Net(p) = 0
           /\ payoutStatus' = [payoutStatus EXCEPT ![p] = "succeeded"]
           /\ Goto(w, "consume", p, Consumed(p), 0, "idle")
  <2>1. /\ work'[w].at = "consume" /\ work'[w].payout = p
        /\ work'[w].todo = Consumed(p) /\ work'[w].next = "idle"
    BY <1>6, LedgerTypes, AfterStep
  <2>2. Relies(w)'
    <3>1. \A o \in work'[w].todo :
            /\ o \in Consumed(p)' /\ o \in Created'
            /\ consumption'[p][o] <= remainingAmount'[o]
      BY <1>3, <1>4, <2>1 DEF Consumed, Created, clawbackVars
    <3> QED BY <2>1, <3>1 DEF Relies, Resolves, Consumed
  <2>3. \A q \in Payouts :
          /\ q # p => (Paid(q)' <=> Paid(q))
          /\ Paid(p)'
    BY <1>3, <1>6, LedgerTypes DEF TypeOK, Paid
  <2>4. ASSUME NEW q \in Payouts, NEW o \in Orders, consumption[q][o] > 0
        PROVE  Paid(q)' /\ ~ ToApply(w, q, o)' <=> Paid(q) /\ ~ ToApply(w, q, o)
    <3>1. ~ ToApply(w, q, o) /\ (q # p => ~ ToApply(w, q, o)')
      BY <1>3, <2>1 DEF ToApply
    <3>2. q = p => ToApply(w, q, o)'
      BY <2>1, <2>4 DEF ToApply, Consumed
    <3>3. CASE q = p
      BY <1>3, <3>2, <3>3
    <3>4. CASE q # p
      BY <2>3, <3>1, <3>4
    <3> QED BY <3>3, <3>4
  <2>5. \A q \in Payouts : Paid(q) => Paid(q)'
    BY <2>3
  <2>6. \A q \in Payouts : Paid(q)' /\ ~ Paid(q) =>
          /\ \A o \in covers[q] : Earned(payee[q], o)
          /\ q \notin moved' => Net(q) = 0
    BY <1>4, <1>6, <2>3
  <2> QED BY <1>1, <1>3, <2>2, <2>4, <2>5, <2>6, LedgerKept, SameCovered
<1>7. CASE /\ payoutStatus' = [payoutStatus EXCEPT ![p] = "processing"]
           /\ Goto(w, "transfer", p, {}, 0, "idle")
  <2>1. work'[w].at = "transfer" /\ work'[w].payout = p /\ work'[w].next = "idle"
    BY <1>7, LedgerTypes, AfterStep
  <2>2. Relies(w)'
    <3>1. /\ \A o \in covers'[p] : Earned(payee[p], o)'
          /\ payee'[p] = payee[p]
          /\ \A o \in Consumed(p)' : o \in Created' /\ consumption'[p][o] <= remainingAmount'[o]
      BY <1>3, <1>4 DEF Earned, Consumed, Created, clawbackVars
    <3> QED BY <2>1, <3>1 DEF Relies, Resolves, Consumed, Earned
  <2>3. \A q \in Payouts, o \in Orders : ~ ToApply(w, q, o) /\ ~ ToApply(w, q, o)'
    BY <1>3, <2>1 DEF ToApply
  <2>4. \A q \in Payouts : Paid(q)' <=> Paid(q)
    BY <1>3, <1>7, LedgerTypes DEF TypeOK, Paid
  <2> QED BY <1>1, <1>3, <2>2, <2>3, <2>4, LedgerQuiet, SameCovered
<1> QED BY <1>2, <1>5, <1>6, <1>7 DEF ClaimDone

(* What a payout is going to take from a clawback is there.                 *)
LEMMA NettedIsOwed ==
  ASSUME TypeOK, NEW k, NEW S, NEW c \in Deduction, c = Netted(k, S), NEW o \in Orders
  PROVE  /\ c[o] \in Nat /\ remainingAmount[o] \in Nat
         /\ k # "vendor" => c[o] = 0
         /\ c[o] > 0 => o \in pending /\ c[o] <= remainingAmount[o]
<1>1. c[o] \in Nat /\ remainingAmount[o] \in Nat
  BY AmountIsNat DEF TypeOK, Deduction
<1>2. c[o] = IF k = "vendor" /\ o \in pending
             THEN Min2(remainingAmount[o], Max2(0, Gross(k, S) - Owed(Older(o))))
             ELSE 0
  BY DEF Netted
<1>3. ASSUME c[o] > 0  PROVE o \in pending /\ c[o] <= remainingAmount[o]
  <2>1. PICK y : y = Max2(0, Gross(k, S) - Owed(Older(o)))
    OBVIOUS
  <2>2. o \in pending /\ c[o] = Min2(remainingAmount[o], y)
    BY <1>2, <1>3, <2>1
  <2>3. c[o] = IF remainingAmount[o] <= y THEN remainingAmount[o] ELSE y
    BY <2>2 DEF Min2
  <2>4. CASE remainingAmount[o] <= y
    BY <1>1, <2>2, <2>3, <2>4
  <2>5. CASE ~ remainingAmount[o] <= y
    <3>1. c[o] = y
      BY <2>3, <2>5
    <3> QED BY <1>1, <2>2, <2>5, <3>1
  <2> QED BY <2>4, <2>5
<1> QED BY <1>1, <1>2, <1>3

LEMMA LedgerCreate ==
  ASSUME LedgerInv, AnswerInv', OneAtATime, BatchesFinish, NEW w \in Workers,
         createPayout(w)
  PROVE  LedgerInv'
<1> USE DEF orderVars, clawbackVars
<1>1. NoRefundOpen
  BY NoRefundNow DEF Step
<1>2. PICK p \in Payouts : p = (CHOOSE q \in Payouts : Free(q)) /\ Free(p)
  BY FreePayout DEF createPayout
<1>3. PICK c \in Deduction :
        /\ c = Netted(work[w].payee, work[w].todo)
        /\ consumption' = [consumption EXCEPT ![p] = c]
  BY <1>2 DEF createPayout
<1>4. /\ UNCHANGED <<status, refund, payoutRead, createdAt, remainingAmount, pending,
                     claimedBy, moved, reconciliationRequired>>
      /\ work[w].at = "applyClawbacks" /\ Relies(w)
      /\ Goto(w, "claim", p, work[w].todo, 0, "idle")
  BY <1>2, LedgerTypes DEF createPayout
<1>5. /\ work'[w].at = "claim" /\ work'[w].payout = p /\ work'[w].todo = work[w].todo
  BY <1>4, LedgerTypes, AfterStep
<1>6. /\ payee'[p] = work[w].payee /\ covers'[p] = work[w].todo /\ consumption'[p] = c
      /\ payoutStatus'[p] = "pending"
      /\ \A q \in Payouts : q # p =>
           /\ payee'[q] = payee[q] /\ covers'[q] = covers[q]
           /\ consumption'[q] = consumption[q] /\ payoutStatus'[q] = payoutStatus[q]
  BY <1>2, <1>3, LedgerTypes DEF createPayout, TypeOK
<1>7. \A o \in work[w].todo : Earned(work[w].payee, o)
  BY <1>4 DEF Relies
<1>8. ~ Paid(p) /\ ~ reconciliationRequired[p]
  <2>1. Unsettled(p)
    BY LedgerTypes DEF LockInv
  <2> QED BY <1>2, <2>1 DEF Free, Paid, Unsettled
<1>9. ~ Paid(p)' /\ \A q \in Payouts : Paid(q)' <=> Paid(q)
  BY <1>4, <1>6, <1>8 DEF Paid
<1>10. Apart' /\ Places'
  BY <1>1, <1>4 DEF LedgerInv, Apart, NoRefundOpen, Places, Created
<1>11. ASSUME NEW o \in Orders  PROVE Refunding(o)'
  <2>1. PaidFor("vendor", o)' <=> PaidFor("vendor", o)
    BY <1>6, <1>8, <1>9 DEF PaidFor
  <2>2. Refunding(o)
    BY DEF LedgerInv
  <2> QED BY <1>4, <2>1, <2>2 DEF Refunding
<1>12. ASSUME NEW o \in Orders  PROVE Booked(o)'
  <2>1. \A q \in Payouts : ~ ToApply(w, q, o) /\ ~ ToApply(w, q, o)'
    BY <1>4, <1>5 DEF ToApply
  <2>2. Applied(o)' = Applied(o) /\ p \notin Applied(o)
    BY <1>6, <1>8, <1>9, <2>1 DEF Applied, OneAtATime
  <2>3. \A q \in Applied(o) : Taken(o)'[q] = Taken(o)[q]
    BY <1>6, <2>2 DEF Applied, Taken
  <2>4. PICK f, g : f = Taken(o) /\ g = Taken(o)'
    OBVIOUS
  <2>5. Sum(f, Applied(o)) = Sum(g, Applied(o))
    BY <2>3, <2>4, SumSame
  <2>6. Sum(Taken(o), Applied(o))' = Sum(g, Applied(o))
    BY <2>2, <2>4 DEF Sum
  <2>7. Booked(o) /\ Due(o)' = Due(o)
    BY <1>4 DEF LedgerInv, Due
  <2> QED BY <1>4, <2>4, <2>5, <2>6, <2>7 DEF Booked
<1>13. ASSUME NEW k \in Kinds, NEW o \in Orders  PROVE Covered(k, o)'
  <2>1. Covered(k, o) /\ claimedBy[k][o] # p
    BY <1>2 DEF Free, LedgerInv
  <2>2. claimedBy[k][o] \in Payouts \cup {NoPayout}
    BY LedgerTypes DEF TypeOK
  <2> QED BY <1>4, <1>6, <2>1, <2>2 DEF Covered
<1>14. ASSUME NEW q \in Payouts  PROVE Sound(q)'
  <2>1. CASE q = p
    <3>1. payee'[p] # "vendor" => NothingTaken(p)'
      BY <1>3, <1>6, LedgerTypes, NettedIsOwed DEF NothingTaken
    <3> QED BY <1>4, <1>8, <1>9, <2>1, <3>1 DEF Sound
  <2>2. CASE q # p
    <3>1. Net(q)' = Net(q) /\ (NothingTaken(q)' <=> NothingTaken(q))
      BY <1>6, <2>2 DEF Net, Gross, Deducted, NothingTaken
    <3>2. Sound(q)
      BY DEF LedgerInv
    <3> QED BY <1>4, <1>6, <1>9, <2>2, <3>1, <3>2 DEF Sound
  <2> QED BY <2>1, <2>2
<1>15. Relies(w)'
  <2>1. \A o \in Consumed(p)' : o \in Created' /\ consumption'[p][o] <= remainingAmount'[o]
    <3> SUFFICES ASSUME NEW o \in Orders, c[o] > 0
                 PROVE  o \in Created /\ c[o] <= remainingAmount[o]
      BY <1>4, <1>6 DEF Consumed, Created
    <3> QED BY <1>3, LedgerTypes, NettedIsOwed DEF LedgerInv, Places
  <2>2. PICK k : k = work[w].payee
    OBVIOUS
  <2>3. /\ work'[w].todo \subseteq covers'[p] /\ payee'[p] = k
        /\ \A o \in covers'[p] : Earned(k, o)'
    BY <1>4, <1>5, <1>6, <1>7, <2>2 DEF Earned
  <2> QED BY <1>5, <2>1, <2>3 DEF Relies, Resolves, Consumed, Earned
<1>16. \A v \in Workers : Relies(v)'
  BY <1>15 DEF OneAtATime
<1> QED BY <1>10, <1>11, <1>12, <1>13, <1>14, <1>16 DEF LedgerInv

(* One more deduction taken off its clawback.                               *)
LEMMA LedgerSave ==
  ASSUME LedgerInv, AnswerInv', OneAtATime, BatchesFinish, IsFiniteSet(Payouts),
         NEW w \in Workers, SaveClawback(w)
  PROVE  LedgerInv'
<1> USE DEF payoutVars, orderVars
<1>1. NoRefundOpen
  BY NoRefundNow DEF Step
<1>2. PICK p \in Payouts : p = work[w].payout
  BY LedgerTypes, WorkFacts DEF SaveClawback
<1>3. /\ UNCHANGED <<status, refund, payoutRead, createdAt, payee, covers, consumption,
                     moved, claimedBy, payoutStatus, reconciliationRequired>>
      /\ work[w].at = "saveClawback" /\ Relies(w) /\ Leaves(w) /\ Knows(w)
      /\ work[w].next \in {"idle", "saveFailed", "saveResolved"}
  BY LedgerTypes, WorkFacts DEF SaveClawback
<1>4. PICK x \in Orders, left \in {Max2(0, work[w].read - consumption[p][y]) : y \in Orders} :
        /\ left = Max2(0, work[w].read - consumption[p][x])
        /\ Oldest(x, work[w].todo)
        /\ remainingAmount' = [remainingAmount EXCEPT ![x] = left]
        /\ pending' = IF left = 0 THEN pending \ {x} ELSE pending
        /\ Goto(w, "consume", p, work[w].todo \ {x}, 0, work[w].next)
  BY <1>2 DEF SaveClawback
<1>5. /\ work'[w].at = "consume" /\ work'[w].payout = p
      /\ work'[w].todo = work[w].todo \ {x} /\ work'[w].next = work[w].next
  BY <1>4, LedgerTypes, AfterStep
<1>6. \A o \in work[w].todo :
        o \in Consumed(p) /\ o \in Created /\ consumption[p][o] <= remainingAmount[o]
  BY <1>2, <1>3 DEF Relies
<1>7. PICK r \in Nat, c \in Nat \ {0} :
        /\ r = remainingAmount[x] /\ c = consumption[p][x] /\ c <= r
        /\ work[w].read = r
  <2>1. work[w].read = remainingAmount[x] /\ x \in work[w].todo
    BY <1>3, <1>4 DEF Relies, Oldest
  <2>2. remainingAmount[x] \in Nat /\ consumption[p][x] \in Nat
    BY LedgerTypes, AmountIsNat DEF TypeOK, Deduction
  <2> QED BY <1>6, <2>1, <2>2 DEF Consumed
<1>8. /\ remainingAmount'[x] = r - c
      /\ \A o \in Orders : o # x => remainingAmount'[o] = remainingAmount[o]
  <2>1. left = r - c
    BY <1>4, <1>7 DEF Max2
  <2> QED BY <1>4, <2>1, LedgerTypes DEF TypeOK
<1>9. Paid(p)
  BY <1>2, <1>3 DEF Leaves, Knows, Paid
<1>10. \A q \in Payouts : Paid(q)' <=> Paid(q)
  BY <1>3 DEF Paid
<1>11. Apart' /\ Places'
  BY <1>1, <1>3, <1>4 DEF LedgerInv, Apart, NoRefundOpen, Places, Created
<1>12. ASSUME NEW o \in Orders  PROVE Refunding(o)'
  <2>1. PaidFor("vendor", o)' <=> PaidFor("vendor", o)
    BY <1>3, <1>10 DEF PaidFor
  <2> QED BY <1>3, <2>1 DEF LedgerInv, Refunding
<1>13. ASSUME NEW o \in Orders  PROVE Booked(o)'
  <2>1. PICK f : f = Taken(o)
    OBVIOUS
  <2>2. Taken(o)' = f /\ Due(o)' = Due(o)
    BY <1>3, <2>1 DEF Taken, Due
  <2>3. remainingAmount[o] + Sum(f, Applied(o)) = Due(o)
    BY <2>1 DEF LedgerInv, Booked
  <2>4. \A q \in Payouts : q # p => ~ ToApply(w, q, o) /\ ~ ToApply(w, q, o)'
    BY <1>2, <1>5 DEF ToApply
  <2>5. ToApply(w, p, o) <=> o \in work[w].todo
    BY <1>2, <1>3 DEF ToApply
  <2>6. ToApply(w, p, o)' <=> o \in work[w].todo \ {x}
    BY <1>5 DEF ToApply
  <2>7. CASE o # x
    <3>1. Applied(o)' = Applied(o)
      BY <1>3, <1>10, <2>4, <2>5, <2>6, <2>7 DEF Applied, OneAtATime
    <3>2. remainingAmount'[o] = remainingAmount[o]
      BY <1>8, <2>7
    <3> QED BY <2>2, <2>3, <3>1, <3>2 DEF Booked
  <2>8. CASE o = x
    <3>1. x \in work[w].todo
      BY <1>4 DEF Oldest
    <3>2. Applied(o)' = Applied(o) \cup {p} /\ p \notin Applied(o)
      <4>1. \A q \in Payouts : q # p => (q \in Applied(o)' <=> q \in Applied(o))
        BY <1>3, <1>10, <2>4 DEF Applied, OneAtATime
      <4>2. p \notin Applied(o)
        BY <2>5, <2>8, <3>1 DEF Applied
      <4>3. \A v \in Workers : ~ ToApply(v, p, o)'
        BY <2>6, <2>8 DEF OneAtATime
      <4>4. p \in Applied(o)'
        BY <1>3, <1>7, <1>9, <1>10, <2>8, <4>3 DEF Applied
      <4>5. Applied(o) \subseteq Payouts /\ Applied(o)' \subseteq Payouts
        BY DEF Applied
      <4> QED BY <4>1, <4>2, <4>4, <4>5
    <3>3. \A q \in Payouts : f[q] \in Nat
      BY <2>1, LedgerTypes, AmountIsNat DEF Taken, TypeOK, Deduction
    <3>4. f[p] = c
      BY <1>7, <2>1, <2>8 DEF Taken
    <3>5. Applied(o) \subseteq Payouts /\ IsFiniteSet(Applied(o))
      BY FS_Subset DEF Applied
    <3>6. PICK n \in Nat : n = Sum(f, Applied(o))
      BY <3>3, <3>5, SumType
    <3>7. \A q \in Applied(o) \cup {p} : f[q] \in Nat
      BY <3>3, <3>5
    <3>8. Sum(f, Applied(o) \cup {p}) = n + c
      BY <3>2, <3>4, <3>5, <3>6, <3>7, SumAdd
    <3>9. r + n = Due(o) /\ remainingAmount'[o] = r - c
      BY <1>7, <1>8, <2>3, <2>8, <3>6
    <3>10. (r - c) + (n + c) = r + n
      BY <1>7
    <3> QED BY <2>2, <3>2, <3>8, <3>9, <3>10 DEF Booked
  <2> QED BY <2>7, <2>8
<1>14. ASSUME NEW q \in Payouts  PROVE Sound(q)'
  <2>1. Net(q)' = Net(q) /\ (NothingTaken(q)' <=> NothingTaken(q))
    BY <1>3 DEF Net, Gross, Deducted, NothingTaken
  <2> QED BY <1>3, <1>10, <2>1 DEF LedgerInv, Sound
<1>15. Relies(w)'
  <2>1. \A o \in work'[w].todo :
          /\ o \in Consumed(p)' /\ o \in Created'
          /\ consumption'[p][o] <= remainingAmount'[o]
    <3> SUFFICES ASSUME NEW o \in work[w].todo, o # x
                 PROVE  /\ o \in Consumed(p)' /\ o \in Created'
                        /\ consumption'[p][o] <= remainingAmount'[o]
      BY <1>5
    <3>1. o \in Orders
      BY LedgerTypes, WorkFacts
    <3> QED BY <1>3, <1>6, <1>8, <3>1 DEF Consumed, Created
  <2>2. Resolves(w)' => reconciliationRequired'[p]
    BY <1>2, <1>3, <1>5 DEF Relies, Resolves
  <2> QED BY <1>5, <2>1, <2>2 DEF Relies, Consumed
<1>16. (\A v \in Workers : Relies(v)') /\ \A k \in Kinds, o \in Orders : Covered(k, o)'
  BY <1>3, <1>15, SameCovered DEF OneAtATime
<1> QED BY <1>11, <1>12, <1>13, <1>14, <1>16 DEF LedgerInv

(* The orders' own steps, which leave the payouts and the workers alone.    *)
LEMMA OrderKeepsPayouts ==
  ASSUME LedgerInv, UNCHANGED <<payoutVars, work, moved>>,
         \A o \in Orders : status[o] # "OUT_FOR_DELIVERY" => status'[o] # "OUT_FOR_DELIVERY"
  PROVE  /\ \A p \in Payouts : Sound(p)'
         /\ \A o \in Orders : /\ Applied(o)' = Applied(o) /\ Taken(o)' = Taken(o)
                              /\ PaidFor("vendor", o)' <=> PaidFor("vendor", o)
<1> USE DEF payoutVars
<1>1. \A p : Paid(p)' <=> Paid(p)
  BY DEF Paid
<1>2. ASSUME NEW p \in Payouts  PROVE Sound(p)'
  <2>1. Net(p)' = Net(p) /\ (NothingTaken(p)' <=> NothingTaken(p))
    BY DEF Net, Gross, Deducted, NothingTaken
  <2>2. Sound(p) /\ covers[p] \subseteq Orders
    BY LedgerTypes DEF LedgerInv, TypeOK
  <2> QED BY <1>1, <2>1, <2>2 DEF Sound
<1>3. ASSUME NEW o \in Orders
      PROVE  /\ Applied(o)' = Applied(o) /\ Taken(o)' = Taken(o)
             /\ PaidFor("vendor", o)' <=> PaidFor("vendor", o)
  BY <1>1 DEF Applied, Taken, PaidFor, ToApply
<1> QED BY <1>2, <1>3

(* No worker relies on anything while it is idle.                           *)
LEMMA IdleRelies ==
  ASSUME NoPayoutOpen, UNCHANGED work
  PROVE  \A w \in Workers : Relies(w)'
BY DEF NoPayoutOpen, AllIdle, Relies, Resolves

LEMMA LedgerDeliver ==
  ASSUME LedgerInv, AnswerInv', NEW x \in Orders, Deliver(x)
  PROVE  LedgerInv'
<1> USE DEF payoutVars, clawbackVars
<1>1. /\ UNCHANGED <<payoutVars, work, moved, claimedBy, refund, payoutRead, clawbackVars>>
      /\ status[x] = "OUT_FOR_DELIVERY" /\ status'[x] = "DELIVERED"
      /\ \A o \in Orders : o # x => status'[o] = status[o]
  BY LedgerTypes DEF Deliver, TypeOK
<1>2. /\ \A p \in Payouts : Sound(p)'
      /\ \A o \in Orders : /\ Applied(o)' = Applied(o) /\ Taken(o)' = Taken(o)
                           /\ PaidFor("vendor", o)' <=> PaidFor("vendor", o)
  BY <1>1, OrderKeepsPayouts
<1>3. Apart' /\ Places'
  BY <1>1 DEF LedgerInv, Apart, NoPayoutOpen, AllIdle, NoRefundOpen, Places, Created
<1>4. ASSUME NEW o \in Orders  PROVE Refunding(o)' /\ Booked(o)'
  <2>1. Refunding(o)'
    BY <1>1, <1>2 DEF LedgerInv, Refunding
  <2>2. Booked(o)'
    BY <1>1, <1>2 DEF LedgerInv, Booked, Due
  <2> QED BY <2>1, <2>2
<1>5. \A k \in Kinds, o \in Orders : Covered(k, o)'
  BY <1>1, SameCovered
<1>6. ASSUME NEW w \in Workers  PROVE Relies(w)'
  <2>1. Relies(w) /\ HasPayout(w) /\ work[w].todo \subseteq Orders
    BY LedgerTypes, WorkFacts DEF TypeInv
  <2>2. \A j \in Kinds, o \in Orders : Earned(j, o) => Earned(j, o)'
    BY <1>1 DEF Earned
  <2>3. PICK p : p = work[w].payout
    OBVIOUS
  <2>4. work[w].at \in {"claim", "transfer"} => covers[p] \subseteq Orders /\ payee[p] \in Kinds
    BY <2>3, LedgerTypes, WorkFacts DEF TypeOK
  <2>5. Created' = Created /\ Consumed(p)' = Consumed(p)
    BY <1>1 DEF Created, Consumed
  <2>6. work'[w] = work[w]
    BY <1>1
  <2>7. PICK k \in Kinds : k = work[w].payee
    BY LedgerTypes, WorkFacts
  <2>8. work'[w].at = "applyClawbacks" => \A o \in work'[w].todo : Earned(k, o)'
    BY <2>1, <2>2, <2>6, <2>7 DEF Relies
  <2>9. work'[w].at \in {"claim", "transfer"} => \A o \in covers'[p] : Earned(payee[p], o)'
    BY <1>1, <2>1, <2>2, <2>3, <2>4, <2>6 DEF Relies
  <2> QED BY <1>1, <2>1, <2>3, <2>5, <2>6, <2>7, <2>8, <2>9
          DEF Relies, Resolves, Earned, Oldest, NothingTaken, Consumed
<1> QED BY <1>2, <1>3, <1>4, <1>5, <1>6 DEF LedgerInv

(* A step of a refund, with no payout open: the payouts stay as they are.   *)
LEMMA RefundApart ==
  ASSUME LedgerInv, AnswerInv', NoPayoutOpen,
         UNCHANGED <<payoutVars, claimedBy, work, moved>>,
         \A o \in Orders : status[o] # "OUT_FOR_DELIVERY" => status'[o] # "OUT_FOR_DELIVERY",
         Places', \A o \in Orders : Refunding(o)' /\ Booked(o)'
  PROVE  LedgerInv'
<1> USE DEF payoutVars
<1>1. \A p \in Payouts : Sound(p)'
  BY OrderKeepsPayouts
<1>2. Apart'
  BY DEF Apart, NoPayoutOpen, AllIdle
<1>3. \A k \in Kinds, o \in Orders : Covered(k, o)'
  BY SameCovered
<1>4. \A w \in Workers : Relies(w)'
  BY IdleRelies
<1> QED BY <1>1, <1>2, <1>3, <1>4 DEF LedgerInv

(* A refund that records no clawback.                                       *)
LEMMA LedgerRefund ==
  ASSUME LedgerInv, AnswerInv', OneAtATime, NEW x \in Orders,
         claimForRefund(x) \/ revertFailedRefundClaim(x) \/ finalizeRefund(x)
  PROVE  LedgerInv'
<1> USE DEF clawbackVars
<1>1. NoPayoutOpen
  BY DEF claimForRefund, revertFailedRefundClaim, finalizeRefund, OneAtATime, LedgerInv,
     Apart, NoRefundOpen
<1>2. /\ UNCHANGED <<payoutVars, claimedBy, work, moved, clawbackVars>>
      /\ \A o \in Orders : status[o] # "OUT_FOR_DELIVERY" => status'[o] # "OUT_FOR_DELIVERY"
  BY LedgerTypes DEF claimForRefund, revertFailedRefundClaim, finalizeRefund, TypeOK
<1>3. \A o \in Orders : /\ Applied(o)' = Applied(o) /\ Taken(o)' = Taken(o)
                        /\ PaidFor("vendor", o)' <=> PaidFor("vendor", o)
  BY <1>2, OrderKeepsPayouts
<1>4. Places'
  BY <1>2 DEF LedgerInv, Places, Created
<1>5. ASSUME NEW o \in Orders  PROVE Refunding(o)' /\ Booked(o)'
  <2>1. Booked(o)'
    BY <1>2, <1>3 DEF LedgerInv, Booked, Due
  <2>2. Refunding(o) /\ Refunding(x)
    BY DEF LedgerInv
  <2>3. CASE o # x
    <3>1. /\ status'[o] = status[o] /\ refund'[o] = refund[o]
          /\ payoutRead'[o] = payoutRead[o]
      BY <2>3, LedgerTypes
         DEF claimForRefund, revertFailedRefundClaim, finalizeRefund, TypeOK
    <3> QED BY <1>2, <1>3, <2>1, <2>2, <3>1 DEF Refunding
  <2>4. CASE o = x
    <3>1. createdAt[o] \in Nat /\ ~ createdAt[o] > 0
      BY <2>2, <2>4, LedgerTypes
         DEF claimForRefund, revertFailedRefundClaim, finalizeRefund, Refunding, TypeOK
    <3>2. \/ refund'[x] = "claimed" /\ status'[x] = "REFUNDED"
          \/ refund'[x] = "none" /\ status'[x] = "DELIVERED"
          \/ /\ refund[x] = "claimed" /\ refund'[x] = "finalized"
             /\ status'[x] = status[x] /\ payoutRead'[x] = claimedBy["vendor"][x]
      BY LedgerTypes DEF claimForRefund, revertFailedRefundClaim, finalizeRefund, TypeOK
    <3> QED BY <1>2, <2>1, <2>2, <2>4, <3>1, <3>2 DEF Refunding
  <2> QED BY <2>3, <2>4
<1> QED BY <1>1, <1>2, <1>4, <1>5, RefundApart

(* The payout that a refund has read is paid, and is one for the vendor.    *)
LEMMA ReadIsPaid ==
  ASSUME LedgerInv, NoPayoutOpen, NEW x \in Orders, refund[x] = "finalized"
  PROVE  PaidOut(x) <=> PaidFor("vendor", x)
<1>1. payoutRead[x] = claimedBy["vendor"][x]
  BY DEF LedgerInv, Refunding
<1>2. claimedBy["vendor"][x] \in Payouts \cup {NoPayout}
  BY LedgerTypes DEF TypeOK, Kinds
<1>3. ASSUME PaidOut(x)  PROVE PaidFor("vendor", x)
  <2>1. PICK q \in Payouts : q = claimedBy["vendor"][x]
    BY <1>1, <1>2, <1>3 DEF PaidOut
  <2>2. payee[q] = "vendor" /\ Accounted(q) /\ x \in covers[q]
    BY <1>1, <1>3, <2>1 DEF PaidOut, LedgerInv, AnswerInv, Answered, Covered, Kinds
  <2>3. \A w \in Workers : work[w].payout # q
    BY LedgerTypes, ConstantsAssumption
       DEF NoPayoutOpen, AllIdle, TypeInv, HasPayout
  <2>4. payoutStatus[q] = "succeeded"
    BY <2>2, <2>3 DEF Accounted, NoPayoutOpen
  <2> QED BY <2>2, <2>4 DEF PaidFor, Paid
<1>4. ASSUME PaidFor("vendor", x)  PROVE PaidOut(x)
  <2>1. PICK q \in Payouts : payee[q] = "vendor" /\ Paid(q) /\ x \in covers[q]
    BY <1>4 DEF PaidFor
  <2>2. claimedBy["vendor"][x] = q
    BY <2>1, LedgerTypes DEF LockInv, Locked, HoldsAll
  <2> QED BY <1>1, <2>2, ConstantsAssumption DEF PaidOut
<1> QED BY <1>3, <1>4

(* The clawback of an order that was paid out takes the next place.         *)
LEMMA LedgerPlaces ==
  ASSUME LedgerInv, NEW x \in Orders, ~ createdAt[x] > 0,
         createdAt' = [createdAt EXCEPT ![x] = NextPlace],
         pending' = pending \cup {x}
  PROVE  Places' /\ createdAt'[x] > 0
<1>1. createdAt \in [Orders -> Nat]
  BY LedgerTypes DEF TypeOK
<1>2. IsFiniteSet(Created) /\ x \notin Created
  BY AmountIsNat, FS_Subset DEF Created
<1>3. PICK n \in Nat : n = Cardinality(Created)
  BY <1>2, FS_CardinalityType
<1>4. NextPlace = n + 1
  BY <1>3 DEF NextPlace, Created
<1>5. /\ createdAt'[x] = n + 1
      /\ \A o \in Orders : o # x => createdAt'[o] = createdAt[o]
  BY <1>1, <1>4
<1>6. Created' = Created \cup {x}
  BY <1>5 DEF Created
<1>7. Cardinality(Created') = n + 1
  BY <1>2, <1>3, <1>6, FS_AddElement
<1>8. \A o \in Orders : createdAt[o] <= n
  BY <1>3 DEF LedgerInv, Places
<1>9. \A o \in Orders : createdAt'[o] <= n + 1
  BY <1>1, <1>5, <1>8
<1>10. \A o, y \in Created' : createdAt'[o] = createdAt'[y] => o = y
  <2> SUFFICES ASSUME NEW o \in Created', NEW y \in Created',
                      createdAt'[o] = createdAt'[y], o # y
               PROVE  FALSE
    OBVIOUS
  <2>1. o \in Orders /\ y \in Orders /\ Created \subseteq Orders
    BY DEF Created
  <2>2. o # x /\ y # x
    BY <1>1, <1>5, <1>8, <2>1
  <2> QED BY <1>5, <1>6, <2>1, <2>2 DEF LedgerInv, Places
<1>11. pending' \subseteq Created'
  BY <1>6 DEF LedgerInv, Places
<1> QED BY <1>5, <1>7, <1>9, <1>10, <1>11 DEF Places

LEMMA LedgerRecord ==
  ASSUME LedgerInv, AnswerInv', IsFiniteSet(Payouts), NEW x \in Orders,
         recordVendorClawbackIfNeeded(x)
  PROVE  LedgerInv'
<1> USE DEF clawbackVars
<1>1. NoPayoutOpen
  BY DEF recordVendorClawbackIfNeeded, LedgerInv, Apart, NoRefundOpen
<1>2. /\ UNCHANGED <<payoutVars, claimedBy, work, moved, status>>
      /\ refund[x] = "finalized" /\ refund'[x] = "done"
      /\ \A o \in Orders : o # x => refund'[o] = refund[o] /\ payoutRead'[o] = payoutRead[o]
  BY LedgerTypes DEF recordVendorClawbackIfNeeded, TypeOK
<1>3. \A o \in Orders : /\ Applied(o)' = Applied(o) /\ Taken(o)' = Taken(o)
                        /\ PaidFor("vendor", o)' <=> PaidFor("vendor", o)
  BY <1>2, OrderKeepsPayouts
<1>4. PaidOut(x) <=> PaidFor("vendor", x)
  BY <1>1, <1>2, ReadIsPaid
<1>5. Refunding(x) /\ createdAt[x] \in Nat /\ ~ createdAt[x] > 0
  BY <1>2, LedgerTypes DEF LedgerInv, Refunding, TypeOK
<1>6. /\ Places'
      /\ createdAt'[x] > 0 <=> PaidOut(x)
      /\ \A o \in Orders : o # x =>
           createdAt'[o] = createdAt[o] /\ remainingAmount'[o] = remainingAmount[o]
      /\ IF PaidOut(x) THEN remainingAmount'[x] = Earns["vendor"][x]
                       ELSE remainingAmount'[x] = remainingAmount[x]
  <2>1. CASE PaidOut(x)
    <3>1. /\ createdAt' = [createdAt EXCEPT ![x] = NextPlace]
          /\ remainingAmount' = [remainingAmount EXCEPT ![x] = Earns["vendor"][x]]
          /\ pending' = pending \cup {x}
      BY <2>1 DEF recordVendorClawbackIfNeeded
    <3>2. Places' /\ createdAt'[x] > 0
      BY <1>5, <3>1, LedgerPlaces
    <3> QED BY <2>1, <3>1, <3>2, LedgerTypes DEF TypeOK
  <2>2. CASE ~ PaidOut(x)
    <3>1. UNCHANGED <<createdAt, remainingAmount, pending>>
      BY <2>2 DEF recordVendorClawbackIfNeeded
    <3> QED BY <1>5, <2>2, <3>1 DEF LedgerInv, Places, Created
  <2> QED BY <2>1, <2>2
<1>7. ASSUME NEW o \in Orders  PROVE Refunding(o)'
  <2>1. CASE o = x
    BY <1>2, <1>3, <1>4, <1>5, <1>6, <2>1 DEF Refunding
  <2>2. CASE o # x
    BY <1>2, <1>3, <1>6, <2>2 DEF LedgerInv, Refunding
  <2> QED BY <2>1, <2>2
<1>8. ASSUME NEW o \in Orders  PROVE Booked(o)'
  <2>1. PICK n : n = Sum(Taken(o), Applied(o))
    OBVIOUS
  <2>2. Sum(Taken(o), Applied(o))' = n
    BY <1>3, <2>1
  <2>3. remainingAmount[o] + n = Due(o)
    BY <2>1 DEF LedgerInv, Booked
  <2>4. CASE o = x /\ PaidOut(x)
    <3>1. n \in Nat
      <4>1. Applied(o) \subseteq Payouts /\ IsFiniteSet(Applied(o))
        BY FS_Subset DEF Applied
      <4>2. \A q \in Applied(o) : Taken(o)[q] \in Nat
        BY <4>1, LedgerTypes, AmountIsNat DEF Taken, TypeOK, Deduction
      <4>3. PICK f : f = Taken(o)
        OBVIOUS
      <4> QED BY <2>1, <4>1, <4>2, <4>3, SumType
    <3>2. remainingAmount[o] \in Nat
      BY LedgerTypes, AmountIsNat DEF TypeOK
    <3>3. n = 0
      BY <1>5, <2>3, <2>4, <3>1, <3>2 DEF Due
    <3>4. remainingAmount'[o] = Earns["vendor"][o] /\ Due(o)' = Earns["vendor"][o]
      BY <1>6, <2>4 DEF Due
    <3>5. Earns["vendor"][o] \in Nat
      BY EarnsIsNat DEF Kinds
    <3> QED BY <2>2, <3>3, <3>4, <3>5 DEF Booked
  <2>5. CASE ~ (o = x /\ PaidOut(x))
    <3>1. remainingAmount'[o] = remainingAmount[o] /\ Due(o)' = Due(o)
      BY <1>5, <1>6, <2>5 DEF Due
    <3> QED BY <2>2, <2>3, <3>1 DEF Booked
  <2> QED BY <2>4, <2>5
<1> QED BY <1>1, <1>2, <1>6, <1>7, <1>8, RefundApart

LEMMA LedgerStep ==
  ASSUME LedgerInv, OneAtATime, BatchesFinish, IsFiniteSet(Payouts), [Next]_vars
  PROVE  LedgerInv'
<1>1. AnswerInv'
  BY AnswerStep DEF LedgerInv
<1>2. ASSUME NEW w \in Workers, Start(w) \/ Step(w) \/ DatabaseError(w) \/ Die(w)
      PROVE  LedgerInv'
  <2>1. ~ Die(w)
    BY DEF BatchesFinish, Die
  <2>2. CASE Step(w)
    <3>1. CASE createPayout(w) \/ ClaimDone(w)
      BY <1>1, <3>1, LedgerCreate, LedgerClaimed
    <3>2. CASE Accepted(w) \/ OutcomeUnknown(w)
      BY <1>1, <3>2, LedgerTransfer
    <3>3. CASE Rejected(w) \/ SaveRejected(w) \/ SaveFailed(w) \/ SaveUnknown(w)
      BY <1>1, <3>3, LedgerUnpaid
    <3>4. CASE SaveSucceeded(w) \/ SaveResolved(w) \/ LoopDone(w)
      BY <1>1, <3>4, LedgerSucceeded, LedgerResolved, LedgerLoop
    <3>5. CASE ReadClawback(w) \/ SaveClawback(w)
      BY <1>1, <3>5, LedgerRead, LedgerSave
    <3>6. CASE \E o \in Orders : claimOrder(w, o) \/ Release(w, o)
      BY <1>1, <3>6, LedgerClaim, LedgerRelease
    <3> QED BY <2>2, <3>1, <3>2, <3>3, <3>4, <3>5, <3>6 DEF Step
  <2> QED BY <1>1, <1>2, <2>1, <2>2, LedgerStart, LedgerCutOff
<1>3. ASSUME NEW o \in Orders, Deliver(o) \/ claimForRefund(o) \/ Refund(o)
      PROVE  LedgerInv'
  BY <1>1, <1>3, LedgerDeliver, LedgerRefund, LedgerRecord DEF Refund
<1>4. CASE UNCHANGED vars
  <2> USE <1>4 DEF vars, orderVars, payoutVars, clawbackVars
  <2>1. /\ \A p \in Payouts : Sound(p)'
        /\ \A o \in Orders : /\ Applied(o)' = Applied(o) /\ Taken(o)' = Taken(o)
                             /\ PaidFor("vendor", o)' <=> PaidFor("vendor", o)
    BY OrderKeepsPayouts
  <2>2. Apart' /\ Places'
    BY DEF LedgerInv, Apart, NoPayoutOpen, AllIdle, NoRefundOpen, Places, Created
  <2>3. \A o \in Orders : Refunding(o)' /\ Booked(o)'
    BY <2>1 DEF LedgerInv, Refunding, Booked, Due
  <2>4. \A k \in Kinds, o \in Orders : Covered(k, o)'
    BY SameCovered
  <2>5. \A w \in Workers : Relies(w)'
    BY DEF LedgerInv, Relies, Resolves, Earned, Consumed, Created, Oldest, NothingTaken
  <2> QED BY <1>1, <2>1, <2>2, <2>3, <2>4, <2>5 DEF LedgerInv
<1> QED BY <1>2, <1>3, <1>4 DEF Next

(* The payouts that have paid payee k, and the orders that they have paid   *)
(* and that it keeps.                                                       *)
PaidBy(k) == {p \in Payouts : payee[p] = k /\ Paid(p)}

Served(k) == {o \in Entitled(k) : PaidFor(k, o)}

(* What the orders paid for have earned is what they earned order by order. *)
LEMMA GrossOfPaid ==
  ASSUME LedgerInv, IsFiniteSet(Payouts), NEW k \in Kinds
  PROVE  Sum([p \in Payouts |-> Gross(payee[p], covers[p])], PaidBy(k))
           = Sum(Earns[k], {o \in Orders : PaidFor(k, o)})
<1> DEFINE G == [p \in Payouts |-> Gross(payee[p], covers[p])]
           part == [p \in PaidBy(k) |-> Sum(Earns[k], covers[p])]
<1>1. IsFiniteSet(PaidBy(k)) /\ PaidBy(k) \subseteq Payouts
  BY FS_Subset DEF PaidBy
<1>2. \A p \in PaidBy(k) : covers[p] \in SUBSET Orders
  BY LedgerTypes DEF TypeOK, PaidBy
<1>3. \A p, q \in PaidBy(k) : p # q => covers[p] \cap covers[q] = {}
  BY LedgerTypes, LockSuffices DEF OrderPaidOnce, PaidBy
<1>4. PICK f : f = Earns[k]
  OBVIOUS
<1>5. \A o \in Orders : f[o] \in Nat
  BY <1>4, EarnsIsNat
<1>6. Sum([p \in PaidBy(k) |-> Sum(f, covers[p])], PaidBy(k))
        = Sum(f, UNION {covers[p] : p \in PaidBy(k)})
  BY <1>1, <1>2, <1>3, <1>5, AmountIsNat, SumOfGroups
<1>7. UNION {covers[p] : p \in PaidBy(k)} = {o \in Orders : PaidFor(k, o)}
  BY <1>2 DEF PaidBy, PaidFor
<1>8. \A p \in PaidBy(k) : G[p] = part[p]
  BY DEF PaidBy, Gross
<1>9. Sum(G, PaidBy(k)) = Sum(part, PaidBy(k))
  <2> HIDE DEF G, part
  <2> QED BY <1>8, SumSame
<1> QED BY <1>4, <1>6, <1>7, <1>9

(* A payout that was not sent, because clawbacks took all of it, adds as    *)
(* much to what is paid as to what is deducted.                             *)
LEMMA ReceivedIsPaid ==
  ASSUME LedgerInv, IsFiniteSet(Payouts), NEW k \in Kinds
  PROVE  /\ Received(k) = Sum([p \in Payouts |-> Gross(payee[p], covers[p])], PaidBy(k))
                            - Sum([p \in Payouts |-> Deducted(p)], PaidBy(k))
         /\ Sum([p \in Payouts |-> Gross(payee[p], covers[p])], PaidBy(k)) \in Nat
         /\ Sum([p \in Payouts |-> Deducted(p)], PaidBy(k)) \in Nat
<1> DEFINE G == [p \in Payouts |-> Gross(payee[p], covers[p])]
           D == [p \in Payouts |-> Deducted(p)]
           Sent == {p \in Payouts : payee[p] = k /\ p \in moved}
           Rest == PaidBy(k) \ Sent
<1>1. \A p \in Payouts : G[p] \in Nat /\ D[p] \in Nat
  <2> SUFFICES ASSUME NEW p \in Payouts
               PROVE  Gross(payee[p], covers[p]) \in Nat /\ Deducted(p) \in Nat
    OBVIOUS
  <2>1. /\ payee[p] \in Kinds /\ covers[p] \subseteq Orders
        /\ \A o \in Orders : consumption[p][o] \in Nat
    BY LedgerTypes, AmountIsNat DEF TypeOK, Deduction
  <2>2. IsFiniteSet(covers[p]) /\ \A o \in covers[p] : Earns[payee[p]][o] \in Nat
    BY <2>1, EarnsIsNat, AmountIsNat, FS_Subset
  <2> QED BY <2>1, <2>2, AmountIsNat, SumType DEF Gross, Deducted
<1>2. /\ IsFiniteSet(Sent) /\ IsFiniteSet(Rest) /\ Sent \cap Rest = {}
      /\ PaidBy(k) = Sent \cup Rest /\ Sent \subseteq Payouts /\ Rest \subseteq Payouts
  BY FS_Subset DEF PaidBy, Paid
<1>3. ASSUME NEW p \in Rest  PROVE G[p] = D[p]
  <2>1. p \in Payouts /\ Paid(p) /\ p \notin moved
    BY DEF PaidBy
  <2>2. Gross(payee[p], covers[p]) - Deducted(p) = 0
    BY <2>1 DEF LedgerInv, Sound, Net
  <2>3. G[p] = Gross(payee[p], covers[p]) /\ D[p] = Deducted(p)
    BY <2>1
  <2> QED BY <1>1, <2>1, <2>2, <2>3
<1>4. Received(k) = Sum(G, Sent) - Sum(D, Sent)
  BY DEF Received
<1> HIDE DEF G, D, Sent, Rest
<1>5. \A p \in Sent \cup Rest : G[p] \in Nat /\ D[p] \in Nat
  BY <1>1, <1>2
<1>6. /\ Sum(G, PaidBy(k)) = Sum(G, Sent) + Sum(G, Rest)
      /\ Sum(D, PaidBy(k)) = Sum(D, Sent) + Sum(D, Rest)
  BY <1>2, <1>5, SumUnion
<1>7. Sum(G, Rest) = Sum(D, Rest)
  BY <1>3, SumSame
<1>8. /\ Sum(G, Sent) \in Nat /\ Sum(G, Rest) \in Nat
      /\ Sum(D, Sent) \in Nat /\ Sum(D, Rest) \in Nat
  BY <1>2, <1>5, SumType
<1>9. /\ Received(k) = Sum(G, PaidBy(k)) - Sum(D, PaidBy(k))
      /\ Sum(G, PaidBy(k)) \in Nat /\ Sum(D, PaidBy(k)) \in Nat
  BY <1>4, <1>6, <1>7, <1>8
<1> QED BY <1>9 DEF G, D

(* Nothing is deducted from what the rider is paid.                         *)
LEMMA RiderKeepsAll ==
  ASSUME LedgerInv
  PROVE  Sum([p \in Payouts |-> Deducted(p)], PaidBy("rider")) = 0
<1>1. ASSUME NEW p \in PaidBy("rider")  PROVE Deducted(p) = 0
  <2>1. p \in Payouts /\ \A o \in Orders : consumption[p][o] = 0
    BY DEF PaidBy, LedgerInv, Sound, NothingTaken
  <2>2. PICK f : f = consumption[p]
    OBVIOUS
  <2>3. Sum(f, Orders) = Sum(f, {})
    BY <2>1, <2>2, SumZeros
  <2> QED BY <2>2, <2>3, SumEmpty DEF Deducted
<1> DEFINE D == [p \in Payouts |-> Deducted(p)]
<1>2. \A p \in PaidBy("rider") \ {} : D[p] = 0
  BY <1>1 DEF PaidBy
<1> HIDE DEF D
<1>3. Sum(D, PaidBy("rider")) = Sum(D, {})
  BY <1>2, SumZeros
<1>4. Sum(D, PaidBy("rider")) = 0
  BY <1>3, SumEmpty
<1> QED BY <1>4 DEF D

(* What the vendor's payouts have deducted, and what the clawbacks still    *)
(* have to take, is the vendor's part of the refunded orders that it was    *)
(* paid for.                                                                *)
LEMMA DeductedAndOwed ==
  ASSUME LedgerInv, AtRest, IsFiniteSet(Payouts)
  PROVE  /\ Sum([p \in Payouts |-> Deducted(p)], PaidBy("vendor")) + Owed(Orders)
              = Sum(Earns["vendor"], Created)
         /\ Owed(Orders) \in Nat
<1> DEFINE D == [p \in Payouts |-> Deducted(p)]
           V == PaidBy("vendor")
           col == [o \in Orders |-> Sum([p \in V |-> consumption[p][o]], V)]
           due == [o \in Orders |-> Due(o)]
<1>1. IsFiniteSet(V) /\ V \subseteq Payouts
  BY FS_Subset DEF PaidBy
<1>2. \A p \in Payouts, o \in Orders : consumption[p][o] \in Nat
  BY LedgerTypes, AmountIsNat DEF TypeOK, Deduction
<1>3. Sum(D, V) = Sum(col, Orders)
  <2>1. Sum([p \in V |-> Sum(consumption[p], Orders)], V) = Sum(col, Orders)
    <3>1. \A p \in V, o \in Orders : consumption[p][o] \in Nat
      BY <1>1, <1>2
    <3> HIDE DEF V
    <3> QED BY <1>1, <3>1, AmountIsNat, SumOfTable
  <2> DEFINE row == [p \in V |-> Sum(consumption[p], Orders)]
  <2>2. \A p \in V : D[p] = row[p]
    BY <1>1 DEF Deducted
  <2>3. Sum(D, V) = Sum(row, V)
    <3> HIDE DEF D, V, row
    <3> QED BY <2>2, SumSame
  <2> QED BY <2>1, <2>3
<1>4. ASSUME NEW o \in Orders  PROVE col[o] = Sum(Taken(o), Applied(o))
  <2> DEFINE part == [p \in V |-> consumption[p][o]]
  <2>1. \A p \in V : part[p] = Taken(o)[p]
    BY <1>1 DEF Taken
  <2>2. Applied(o) \subseteq V
    BY <1>2 DEF Applied, PaidBy, LedgerInv, Sound, NothingTaken
  <2>3. ASSUME NEW p \in V \ Applied(o)  PROVE Taken(o)[p] = 0
    <3>1. \A w \in Workers : ~ ToApply(w, p, o)
      BY DEF AtRest, NoPayoutOpen, AllIdle, ToApply
    <3>2. p \in Payouts /\ ~ consumption[p][o] > 0
      BY <3>1 DEF PaidBy, Applied
    <3> QED BY <1>2, <3>2 DEF Taken
  <2>4. col[o] = Sum(part, V)
    OBVIOUS
  <2> HIDE DEF part, V, col
  <2>5. PICK f : f = Taken(o)
    OBVIOUS
  <2>6. Sum(part, V) = Sum(f, V)
    BY <2>1, <2>5, SumSame
  <2>7. Sum(f, V) = Sum(f, Applied(o))
    BY <2>2, <2>3, <2>5, SumZeros
  <2> QED BY <2>4, <2>5, <2>6, <2>7
<1>5. ASSUME NEW o \in Orders
      PROVE  remainingAmount[o] \in Nat /\ col[o] \in Nat /\ due[o] = remainingAmount[o] + col[o]
  <2>1. remainingAmount[o] \in Nat
    BY LedgerTypes, AmountIsNat DEF TypeOK
  <2>2. col[o] \in Nat
    <3> DEFINE part == [p \in V |-> consumption[p][o]]
    <3>1. \A p \in V : part[p] \in Nat
      BY <1>1, <1>2
    <3>2. col[o] = Sum(part, V)
      OBVIOUS
    <3> HIDE DEF part, V
    <3>3. Sum(part, V) \in Nat
      BY <1>1, <3>1, SumType
    <3> QED BY <3>2, <3>3
  <2>3. due[o] = Due(o)
    OBVIOUS
  <2>4. Due(o) = remainingAmount[o] + Sum(Taken(o), Applied(o))
    BY DEF LedgerInv, Booked
  <2> HIDE DEF due, col
  <2> QED BY <1>4, <2>1, <2>2, <2>3, <2>4
<1>6. Sum(due, Orders) = Sum(Earns["vendor"], Created)
  <2>1. Created \in SUBSET Orders /\ \A o \in Orders \ Created : due[o] = 0
    BY DEF Created, Due
  <2>2. \A o \in Created : due[o] = Earns["vendor"][o]
    BY DEF Created, Due
  <2> HIDE DEF due
  <2>3. Sum(due, Orders) = Sum(due, Created)
    BY <2>1, SumZeros
  <2>4. PICK f : f = Earns["vendor"]
    OBVIOUS
  <2>5. Sum(due, Created) = Sum(f, Created)
    BY <2>2, <2>4, SumSame
  <2> QED BY <2>3, <2>4, <2>5
<1> HIDE DEF D, V, col, due
<1>7. /\ Sum(due, Orders) = Sum(remainingAmount, Orders) + Sum(col, Orders)
      /\ Sum(remainingAmount, Orders) \in Nat /\ Sum(col, Orders) \in Nat
  BY <1>5, AmountIsNat, SumAdds, SumType
<1>8. Sum(D, V) + Owed(Orders) = Sum(Earns["vendor"], Created) /\ Owed(Orders) \in Nat
  BY <1>3, <1>6, <1>7 DEF Owed
<1> QED BY <1>8 DEF D, V

(* An order that was paid for is kept, or has a clawback.                   *)
LEMMA PaidIsServed ==
  ASSUME LedgerInv, AtRest
  PROVE  /\ {o \in Orders : PaidFor("vendor", o)} = Served("vendor") \cup Created
         /\ Served("vendor") \cap Created = {}
         /\ {o \in Orders : PaidFor("rider", o)} = Served("rider")
<1>1. ASSUME NEW k \in Kinds, NEW o \in Orders, PaidFor(k, o)
      PROVE  status[o] \in {"DELIVERED", "REFUNDED"}
  BY <1>1, LedgerTypes DEF PaidFor, LedgerInv, Sound, TypeOK
<1>2. ASSUME NEW o \in Orders
      PROVE  /\ o \in Created => status[o] = "REFUNDED" /\ PaidFor("vendor", o)
             /\ status[o] = "REFUNDED" /\ PaidFor("vendor", o) => o \in Created
  BY DEF LedgerInv, Refunding, Created, AtRest, NoRefundOpen
<1>3. "vendor" \in Kinds /\ "rider" \in Kinds
  BY DEF Kinds
<1>4. Created \subseteq Orders
  BY DEF Created
<1>5. {o \in Orders : PaidFor("vendor", o)} = Served("vendor") \cup Created
  BY <1>1, <1>2, <1>3, <1>4 DEF Served, Entitled
<1>6. Served("vendor") \cap Created = {}
  BY <1>2 DEF Served, Entitled
<1>7. {o \in Orders : PaidFor("rider", o)} = Served("rider")
  BY <1>1, <1>3 DEF Served, Entitled
<1> QED BY <1>5, <1>6, <1>7

LEMMA LedgerSuffices ==
  ASSUME LedgerInv, IsFiniteSet(Payouts) PROVE PayeeIsSquare
<1> SUFFICES ASSUME AtRest, NEW k \in Payees
             PROVE  Received(k) - (IF k = "vendor" THEN Owed(Orders) ELSE 0)
                      = Sum(Earns[k], Served(k))
  BY DEF PayeeIsSquare, Gross, Served
<1>1. k \in Kinds /\ k \in {"vendor", "rider"}
  BY ConstantsAssumption DEF Kinds
<1>2. PICK a, b :
        /\ a = Sum([p \in Payouts |-> Gross(payee[p], covers[p])], PaidBy(k))
        /\ b = Sum([p \in Payouts |-> Deducted(p)], PaidBy(k))
  OBVIOUS
<1>3. Received(k) = a - b /\ a \in Nat /\ b \in Nat
  BY <1>1, <1>2, ReceivedIsPaid
<1>4. a = Sum(Earns[k], {o \in Orders : PaidFor(k, o)})
  BY <1>1, <1>2, GrossOfPaid
<1>5. CASE k = "rider"
  <2>1. b = 0
    BY <1>2, <1>5, RiderKeepsAll
  <2>2. a = Sum(Earns[k], Served(k))
    BY <1>4, <1>5, PaidIsServed
  <2> QED BY <1>3, <1>5, <2>1, <2>2
<1>6. CASE k = "vendor"
  <2>1. PICK f : f = Earns["vendor"]
    OBVIOUS
  <2>2. /\ IsFiniteSet(Served("vendor")) /\ IsFiniteSet(Created)
        /\ Served("vendor") \subseteq Orders /\ Created \subseteq Orders
    BY AmountIsNat, FS_Subset DEF Served, Entitled, Created
  <2>3. \A o \in Served("vendor") \cup Created : f[o] \in Nat
    BY <1>1, <1>6, <2>1, <2>2, EarnsIsNat
  <2>4. /\ Sum(f, Served("vendor") \cup Created) = Sum(f, Served("vendor")) + Sum(f, Created)
        /\ Sum(f, Served("vendor")) \in Nat /\ Sum(f, Created) \in Nat
    BY <2>2, <2>3, PaidIsServed, SumUnion, SumType
  <2>5. a = Sum(f, Served("vendor")) + Sum(f, Created)
    BY <1>4, <1>6, <2>1, <2>4, PaidIsServed
  <2>6. PICK m \in Nat : m = Owed(Orders) /\ b + m = Sum(f, Created)
    BY <1>2, <1>6, <2>1, DeductedAndOwed
  <2> QED BY <1>3, <1>6, <2>1, <2>4, <2>5, <2>6
<1> QED BY <1>1, <1>5, <1>6

(* With one batch or administrator at work at a time, refunds apart from    *)
(* payouts, and no transfer whose outcome is unknown while it takes a       *)
(* clawback, what the vendor has received, less what its clawbacks still    *)
(* have to take, is to the cent what the orders it keeps have earned, and   *)
(* the rider has what its deliveries have, whenever nothing is under way.   *)
THEOREM TheMoneyAddsUp ==
  ASSUME BatchesFinish, OneAtATime, IsFiniteSet(Payouts)
  PROVE  Spec => []PayeeIsSquare
<1>1. Init => LedgerInv
  BY LedgerInit
<1>2. LedgerInv /\ [Next]_vars => LedgerInv'
  BY LedgerStep
<1>3. LedgerInv => PayeeIsSquare
  BY LedgerSuffices
<1> QED BY <1>1, <1>2, <1>3, PTL DEF Spec
===============================================================================
