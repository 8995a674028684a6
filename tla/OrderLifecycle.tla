--------------------------- MODULE OrderLifecycle ---------------------------
(***************************************************************************)
(* What the rest of the platform is promised about an order's status: it   *)
(* starts unpaid and moves one edge of ORDER_TRANSITIONS at a time.  The   *)
(* one move the graph does not show is the undoing of a refund claim whose *)
(* provider call failed, which puts the order back exactly where the claim *)
(* found it (revertFailedRefundClaim, flagAmbiguousRefund).                *)
(***************************************************************************)
EXTENDS OrderStateMachine

CONSTANT Orders

VARIABLES
  status,      \* status[o]: the status of order o
  claimed      \* claimed[o]: the status a refund claim found, or "none"

lifecycleVars == <<status, claimed>>

LifecycleInit ==
  /\ status  = [o \in Orders |-> "PENDING_PAYMENT"]
  /\ claimed = [o \in Orders |-> "none"]

Advance(o, to) ==
  /\ canTransition(status[o], to)
  /\ to # "REFUNDED"
  /\ status' = [status EXCEPT ![o] = to]
  /\ UNCHANGED claimed

Refund(o) ==
  /\ canTransition(status[o], "REFUNDED")
  /\ claimed' = [claimed EXCEPT ![o] = status[o]]
  /\ status'  = [status EXCEPT ![o] = "REFUNDED"]

UndoRefund(o) ==
  /\ status[o] = "REFUNDED"
  /\ status'  = [status EXCEPT ![o] = claimed[o]]
  /\ claimed' = [claimed EXCEPT ![o] = "none"]

LifecycleNext ==
  \E o \in Orders :
    \/ \E to \in OrderStatuses : Advance(o, to)
    \/ Refund(o) \/ UndoRefund(o)

LifecycleSpec == LifecycleInit /\ [][LifecycleNext]_lifecycleVars
=============================================================================
