----------------------- MODULE OrderFulfilment_proofs -----------------------
(***************************************************************************)
(* Theorems about OrderFulfilment for any number of orders, riders,        *)
(* concurrent requests and overlapping sweeps.                             *)
(*                                                                         *)
(* CarryInv is inductive whatever the requests do.  TurnsInv is inductive  *)
(* when requests take turns on an order (Serialised): what an open request *)
(* has read is then still true when it writes.                             *)
(***************************************************************************)
EXTENDS OrderFulfilment, TLAPS

-----------------------------------------------------------------------------
(* Types *)

LEMMA IdleFacts ==
  /\ Idle \in Request
  /\ \A todo \in SUBSET Orders : Scan(todo) \in Sweep
  /\ NoOrder \notin Orders
  /\ NoRider \notin Riders
  BY ConstantsAssumption DEF Idle, Request, Scan, Sweep, RiderOrNone,
     OrderStatuses

LEMMA TypeInit == Init => TypeOK
  BY IdleFacts DEF Init, TypeOK, OrderStatuses, RiderOrNone

(* assignToRider's update, whoever calls it. *)
LEMMA AttachType ==
  ASSUME TypeOK, NEW o \in Orders, NEW r \in Riders, AttachRider(o, r)
  PROVE  /\ status'  \in [Orders -> OrderStatuses]
         /\ riderId' \in [Orders -> RiderOrNone]
         /\ by'      \in [Orders -> RiderOrNone]
         /\ believes' \in [Orders -> SUBSET Riders]
         /\ UNCHANGED <<readyForPickupAt, deliveredAt, refund, online, verified>>
  BY DEF AttachRider, TypeOK, RiderOrNone, OrderStatuses

(* A request acts on a real order for a real rider. *)
RequestTarget(t) ==
  /\ req[t].kind # "idle" => req[t].order \in Orders
  /\ req[t].kind \in {"assign", "reassign"} => req[t].rider \in verified

SweepTarget(s) ==
  /\ sweep[s].near \subseteq verified
  /\ sweep[s].at \in {"busy?", "assign"} => sweep[s].order \in Orders
  /\ sweep[s].at = "assign" => sweep[s].rider \in verified

TargetInv ==
  /\ TypeOK
  /\ \A t \in Requests : RequestTarget(t)
  /\ \A s \in Sweeps : SweepTarget(s)

LEMMA TargetInit == Init => TargetInv
  BY TypeInit, IdleFacts DEF Init, TargetInv, RequestTarget, SweepTarget, Idle, Scan

LEMMA TargetStep == TargetInv /\ [Next]_vars => TargetInv'
<1> SUFFICES ASSUME TargetInv, [Next]_vars PROVE TargetInv'
  OBVIOUS
<1> USE IdleFacts
<1>1. ASSUME NEW t \in Requests, RequestStep(t) PROVE TargetInv'
  <2>1. ASSUME NEW o \in Orders, NEW target \in OrderStatuses,
               updateStatusByOwner(t, o, target)
        PROVE  TargetInv'
    BY <2>1 DEF updateStatusByOwner, Open, Request, RiderOrNone, TargetInv,
       RequestTarget, SweepTarget, TypeOK, orderVars
  <2>2. ASSUME NEW o \in Orders, NEW target \in OrderStatuses, NEW r \in Riders,
               updateStatusByRider(t, r, o, target)
        PROVE  TargetInv'
    BY <2>2 DEF updateStatusByRider, Open, Request, RiderOrNone, TargetInv,
       RequestTarget, SweepTarget, TypeOK, orderVars
  <2>3. ASSUME NEW o \in Orders, NEW r \in Riders, assignRiderByOwner(t, o, r)
        PROVE  TargetInv'
    BY <2>3 DEF assignRiderByOwner, assertVerified, Open, Request, RiderOrNone, TargetInv,
       RequestTarget, SweepTarget, TypeOK, orderVars, OrderStatuses
  <2>4. CASE SaveOwnerTransition(t)
    BY <2>4 DEF SaveOwnerTransition, Close, Request, RiderOrNone, TargetInv,
       RequestTarget, SweepTarget, TypeOK, Idle
  <2>5. CASE SaveRiderTransition(t)
    BY <2>5 DEF SaveRiderTransition, Close, Request, RiderOrNone, TargetInv,
       RequestTarget, SweepTarget, TypeOK, Idle
  <2>6. CASE AssignChosenRider(t)
    <3>1. req[t].order \in Orders /\ req[t].rider \in Riders
      BY <2>6 DEF AssignChosenRider, TargetInv, RequestTarget, TypeOK
    <3>2. QED
      BY <2>6, <3>1, AttachType DEF AssignChosenRider, Close, TargetInv,
         RequestTarget, SweepTarget, TypeOK, Idle
  <2>7. CASE ReassignRider(t)
    BY <2>7 DEF ReassignRider, TellsUnassigned, Close, Request, RiderOrNone, TargetInv,
       RequestTarget, SweepTarget, TypeOK, Idle
  <2>8. QED
    BY <1>1, <2>1, <2>2, <2>3, <2>4, <2>5, <2>6, <2>7 DEF RequestStep
<1>2. ASSUME NEW s \in Sweeps, SweepStep(s) PROVE TargetInv'
  <2>1. CASE autoDispatchStaleReadyOrders(s)
    BY <2>1 DEF autoDispatchStaleReadyOrders, SweepIsNow, Scan, Sweep, TargetInv,
       RequestTarget, SweepTarget, TypeOK, orderVars
  <2>2. ASSUME NEW o \in Orders, findNearbyRiderCandidates(s, o)
        PROVE  TargetInv'
    <3>1. PICK near \in SUBSET Riders :
            /\ IsNearest(near, o)
            /\ SweepIsNow(s, IF near = {} THEN Scan(sweep[s].todo \ {o})
                             ELSE [at |-> "busy?", todo |-> sweep[s].todo \ {o},
                                   order |-> o, near |-> near, rider |-> NoRider])
      BY <2>2 DEF findNearbyRiderCandidates
    <3>2. near \subseteq verified
      BY <3>1 DEF IsNearest, kSubset, Available
    <3>3. UNCHANGED <<orderVars, refund, believes, online, verified>>
      BY <2>2 DEF findNearbyRiderCandidates
    <3> QED
      BY <3>1, <3>2, <3>3 DEF SweepIsNow, Scan, Sweep, TargetInv, RequestTarget,
         SweepTarget, TypeOK, orderVars, RiderOrNone
  <2>3. CASE FilterBusyRiders(s)
    BY <2>3 DEF FilterBusyRiders, SweepIsNow, Scan, Sweep, TargetInv,
       RequestTarget, SweepTarget, TypeOK, orderVars, RiderOrNone
  <2>4. CASE dispatchToNearestRider(s)
    <3>1. sweep[s].order \in Orders /\ sweep[s].rider \in Riders
      BY <2>4 DEF dispatchToNearestRider, TargetInv, SweepTarget, TypeOK
    <3>2. QED
      BY <2>4, <3>1, AttachType DEF dispatchToNearestRider, SweepIsNow, Scan,
         Sweep, TargetInv, RequestTarget, SweepTarget, TypeOK
  <2>5. QED
    BY <1>2, <2>1, <2>2, <2>3, <2>4 DEF SweepStep
<1>3. ASSUME NEW r \in Riders, RiderStep(r) PROVE TargetInv'
  <2>1. CASE toggleOnline(r) \/ verify(r)
    BY <2>1 DEF toggleOnline, verify, TargetInv, RequestTarget, SweepTarget,
       TypeOK, orderVars
  <2>2. ASSUME NEW o \in Orders, assignToRider(r, o) PROVE TargetInv'
    BY <2>2, AttachType DEF assignToRider, assertVerified, TargetInv, RequestTarget, SweepTarget,
       TypeOK
  <2>3. QED
    BY <1>3, <2>1, <2>2 DEF RiderStep
<1>4. ASSUME NEW o \in Orders, ElsewhereStep(o) PROVE TargetInv'
  BY <1>4 DEF ElsewhereStep, GraceElapses, markPaidFromWebhook, claimForRefund,
     revertFailedRefundClaim, Claimed, TargetInv, RequestTarget, SweepTarget, TypeOK,
     RiderOrNone, OrderStatuses, REFUNDABLE_STATUSES
<1>5. CASE UNCHANGED vars
  BY <1>5 DEF vars, orderVars, TargetInv, RequestTarget, SweepTarget, TypeOK
<1>6. QED
  BY <1>1, <1>2, <1>3, <1>4, <1>5 DEF Next

(* Every variable keeps its type. *)
THEOREM TypeCorrect == Spec => []TypeOK
<1>1. TargetInv => TypeOK
  BY DEF TargetInv
<1>2. QED
  BY <1>1, TargetInit, TargetStep, PTL DEF Spec

-----------------------------------------------------------------------------
(* Whatever the requests do *)

(* Any open rider request was sent by a rider the order named, and riderId  *)
(* is never cleared; a refund claim that found the order delivered can put  *)
(* it back there.                                                           *)
RequestCarries(t) ==
  /\ req[t].kind = "ownerSave" => canOwnerTransition(req[t].from, req[t].to)
  /\ req[t].kind = "riderSave" => riderId[req[t].order] # NoRider

CarryInv ==
  /\ TargetInv
  /\ RiderCarriesOrder
  /\ AssignedRiderVerified
  /\ \A o \in Orders : refund[o] = "DELIVERED" => riderId[o] # NoRider
  /\ \A t \in Requests : RequestCarries(t)

LEMMA CarryInit == Init => CarryInv
  BY TargetInit, IdleFacts DEF Init, CarryInv, RiderCarriesOrder,
     AssignedRiderVerified, RequestCarries, Idle, ACTIVE_DELIVERY_STATUSES

LEMMA AttachCarries ==
  ASSUME CarryInv, NEW o \in Orders, NEW r \in verified, AttachRider(o, r)
  PROVE  /\ RiderCarriesOrder'
         /\ AssignedRiderVerified'
         /\ \A p \in Orders : riderId[p] # NoRider => riderId'[p] # NoRider
         /\ UNCHANGED <<refund, verified>>
  BY IdleFacts DEF CarryInv, TargetInv, TypeOK, AttachRider, Unassigned,
     RiderCarriesOrder, AssignedRiderVerified, ACTIVE_DELIVERY_STATUSES

LEMMA CarryStep == CarryInv /\ [Next]_vars => CarryInv'
<1> SUFFICES ASSUME CarryInv, [Next]_vars PROVE CarryInv'
  OBVIOUS
<1> USE IdleFacts
<1>0. TargetInv /\ TypeOK /\ TargetInv'
  BY TargetStep DEF CarryInv, TargetInv
<1>1. ASSUME NEW t \in Requests, RequestStep(t) PROVE CarryInv'
  <2>1. ASSUME NEW o \in Orders, NEW target \in OrderStatuses,
               updateStatusByOwner(t, o, target)
        PROVE  CarryInv'
    BY <1>0, <2>1 DEF updateStatusByOwner, Open, orderVars, TypeOK, CarryInv,
       RequestCarries, RiderCarriesOrder, AssignedRiderVerified
  <2>2. ASSUME NEW o \in Orders, NEW target \in OrderStatuses, NEW r \in Riders,
               updateStatusByRider(t, r, o, target)
        PROVE  CarryInv'
    BY <1>0, <2>2 DEF updateStatusByRider, Open, orderVars, TypeOK, CarryInv,
       RequestCarries, RiderCarriesOrder, AssignedRiderVerified
  <2>3. ASSUME NEW o \in Orders, NEW r \in Riders, assignRiderByOwner(t, o, r)
        PROVE  CarryInv'
    BY <1>0, <2>3 DEF assignRiderByOwner, assertVerified, Open, orderVars, TypeOK, CarryInv,
       RequestCarries, RiderCarriesOrder, AssignedRiderVerified
  <2>4. CASE SaveOwnerTransition(t)
    <3>1. req[t].to \notin ACTIVE_DELIVERY_STATUSES \cup {"DELIVERED"}
      BY <2>4 DEF SaveOwnerTransition, CarryInv, RequestCarries,
         canOwnerTransition, OWNER_TRIGGERABLE_TRANSITIONS,
         ACTIVE_DELIVERY_STATUSES
    <3>2. QED
      BY <1>0, <2>4, <3>1 DEF SaveOwnerTransition, Close, Idle, TypeOK, CarryInv,
         RequestCarries, RiderCarriesOrder, AssignedRiderVerified
  <2>5. CASE SaveRiderTransition(t)
    BY <1>0, <2>5 DEF SaveRiderTransition, Close, Idle, TypeOK, CarryInv,
       RequestCarries, RiderCarriesOrder, AssignedRiderVerified
  <2>6. CASE AssignChosenRider(t)
    <3>1. req[t].order \in Orders /\ req[t].rider \in verified
      BY <1>0, <2>6 DEF AssignChosenRider, TargetInv, RequestTarget
    <3>2. QED
      BY <1>0, <2>6, <3>1, AttachCarries DEF AssignChosenRider, Close, Idle,
         TargetInv, RequestTarget, TypeOK, CarryInv, RequestCarries
  <2>7. CASE ReassignRider(t)
    <3>1. req[t].order \in Orders /\ req[t].rider \in verified
      BY <1>0, <2>7 DEF ReassignRider, TellsUnassigned, TargetInv, RequestTarget
    <3>2. /\ \A p \in Orders : /\ riderId[p] # NoRider => riderId'[p] # NoRider
                              /\ riderId'[p] \in verified \cup {NoRider}
          /\ UNCHANGED <<status, refund, verified>>
      BY <1>0, <2>7, <3>1 DEF ReassignRider, TellsUnassigned, TypeOK, CarryInv,
         AssignedRiderVerified
    <3>3. \A u \in Requests : req'[u] = req[u] \/ req'[u].kind = "idle"
      BY <1>0, <2>7 DEF ReassignRider, TellsUnassigned, Close, Idle, TypeOK
    <3>4. \A u \in Requests : req[u].kind = "riderSave" => req[u].order \in Orders
      BY <1>0 DEF TargetInv, RequestTarget
    <3>5. QED
      BY <1>0, <3>2, <3>3, <3>4 DEF CarryInv, RequestCarries, RiderCarriesOrder,
         AssignedRiderVerified
  <2>8. QED
    BY <1>1, <2>1, <2>2, <2>3, <2>4, <2>5, <2>6, <2>7 DEF RequestStep
<1>2. ASSUME NEW s \in Sweeps, SweepStep(s) PROVE CarryInv'
  <2>1. CASE dispatchToNearestRider(s)
    <3>1. sweep[s].order \in Orders /\ sweep[s].rider \in verified
      BY <1>0, <2>1 DEF dispatchToNearestRider, TargetInv, SweepTarget
    <3>2. QED
      BY <1>0, <2>1, <3>1, AttachCarries DEF dispatchToNearestRider, SweepIsNow,
         TargetInv, RequestTarget, TypeOK, CarryInv, RequestCarries
  <2>2. CASE ~ dispatchToNearestRider(s)
    <3>1. UNCHANGED <<orderVars, refund, verified, req>>
      BY <1>2, <2>2 DEF SweepStep, autoDispatchStaleReadyOrders, SweepIsNow,
         findNearbyRiderCandidates, FilterBusyRiders
    <3>2. QED
      BY <1>0, <3>1 DEF orderVars, CarryInv, RequestCarries, RiderCarriesOrder,
         AssignedRiderVerified
  <2>3. QED
    BY <2>1, <2>2
<1>3. ASSUME NEW r \in Riders, RiderStep(r) PROVE CarryInv'
  <2>1. CASE toggleOnline(r) \/ verify(r)
    BY <1>0, <2>1 DEF toggleOnline, verify, orderVars, CarryInv, RequestCarries,
       RiderCarriesOrder, AssignedRiderVerified
  <2>2. ASSUME NEW o \in Orders, assignToRider(r, o) PROVE CarryInv'
    BY <1>0, <2>2, AttachCarries DEF assignToRider, assertVerified, TargetInv, RequestTarget,
       CarryInv, RequestCarries
  <2>3. QED
    BY <1>3, <2>1, <2>2 DEF RiderStep
<1>4. ASSUME NEW o \in Orders, ElsewhereStep(o) PROVE CarryInv'
  <2>1. CASE GraceElapses(o) \/ markPaidFromWebhook(o)
    BY <1>0, <2>1 DEF GraceElapses, markPaidFromWebhook, TypeOK, CarryInv,
       RequestCarries, RiderCarriesOrder, AssignedRiderVerified,
       ACTIVE_DELIVERY_STATUSES
  <2>2. CASE claimForRefund(o) \/ revertFailedRefundClaim(o)
    BY <1>0, <2>2 DEF claimForRefund, revertFailedRefundClaim, TypeOK, CarryInv,
       RequestCarries, RiderCarriesOrder, AssignedRiderVerified,
       ACTIVE_DELIVERY_STATUSES, REFUNDABLE_STATUSES
  <2>3. QED
    BY <1>4, <2>1, <2>2 DEF ElsewhereStep
<1>5. CASE UNCHANGED vars
  BY <1>0, <1>5 DEF vars, orderVars, CarryInv, RequestCarries,
     RiderCarriesOrder, AssignedRiderVerified
<1>6. QED
  BY <1>1, <1>2, <1>3, <1>4, <1>5 DEF Next

(* However requests and sweeps interleave, an order being carried or        *)
(* delivered names its rider, and that rider has been verified, whichever   *)
(* path attached them.                                                      *)
THEOREM RiderAlwaysNamed == Spec => []CarriedByVerifiedRider
<1>1. CarryInv => CarriedByVerifiedRider
  BY DEF CarryInv, CarriedByVerifiedRider
<1>2. QED
  BY <1>1, CarryInit, CarryStep, PTL DEF Spec

(* A claimed order changes hands only while it waits to be picked up, so a  *)
(* self-claim, the sweep and the seller's choice never overwrite each other.*)
THEOREM RiderNeverOverwritten == Spec => RiderFixedOnceAttached
<1>1. ASSUME TargetInv, [Next]_vars, NEW o \in Orders,
             riderId[o] \notin {NoRider, riderId'[o]}
      PROVE  status[o] = "ASSIGNED_TO_RIDER"
  <2> USE IdleFacts DEF TargetInv, TypeOK
  <2>1. ASSUME NEW p, NEW r, AttachRider(p, r) PROVE riderId'[o] = riderId[o]
    BY <1>1, <2>1 DEF AttachRider, Unassigned
  <2>2. ASSUME NEW t \in Requests, RequestStep(t)
        PROVE  status[o] = "ASSIGNED_TO_RIDER"
    <3>1. CASE ReassignRider(t)
      BY <1>1, <3>1 DEF ReassignRider
    <3>2. CASE AssignChosenRider(t)
      BY <1>1, <2>1, <3>2 DEF AssignChosenRider
    <3>3. CASE ~ ReassignRider(t) /\ ~ AssignChosenRider(t)
      BY <1>1, <2>2, <3>3 DEF RequestStep, updateStatusByOwner, Open, orderVars,
         updateStatusByRider, assignRiderByOwner, SaveOwnerTransition,
         SaveRiderTransition
    <3>4. QED
      BY <3>1, <3>2, <3>3
  <2>3. ASSUME NEW s \in Sweeps, SweepStep(s) PROVE riderId'[o] = riderId[o]
    BY <2>1, <2>3 DEF SweepStep, autoDispatchStaleReadyOrders, orderVars,
       findNearbyRiderCandidates, FilterBusyRiders, dispatchToNearestRider
  <2>4. ASSUME NEW r \in Riders, RiderStep(r) PROVE riderId'[o] = riderId[o]
    BY <2>1, <2>4 DEF RiderStep, toggleOnline, verify, assignToRider, orderVars
  <2>5. ASSUME NEW p \in Orders, ElsewhereStep(p) PROVE riderId'[o] = riderId[o]
    BY <2>5 DEF ElsewhereStep, GraceElapses, markPaidFromWebhook, claimForRefund,
       revertFailedRefundClaim
  <2>6. QED
    BY <1>1, <2>2, <2>3, <2>4, <2>5 DEF Next, vars, orderVars
<1>2. TargetInv /\ [Next]_vars => [\A o \in Orders :
        riderId[o] \notin {NoRider, riderId'[o]}
          => status[o] = "ASSIGNED_TO_RIDER"]_vars
  BY <1>1
<1>3. QED
  BY <1>2, TargetInit, TargetStep, PTL DEF Spec, RiderFixedOnceAttached

-----------------------------------------------------------------------------
(* When requests take turns on an order *)

(* What the open request t has read is still what the database holds. *)
ReadStillTrue(t) ==
  LET o == req[t].order IN
  /\ req[t].kind = "ownerSave" => /\ status[o] = req[t].from
                                  /\ canOwnerTransition(status[o], req[t].to)
  /\ req[t].kind = "riderSave" => /\ status[o] = req[t].from
                                  /\ canRiderTransition(status[o], req[t].to)
  /\ req[t].kind = "reassign"  => /\ status[o] = "ASSIGNED_TO_RIDER"
                                  /\ riderId[o] = req[t].held

OneRequestPerOrder == \A t, u \in Requests :
  /\ req[t].kind # "idle" /\ req[u].kind # "idle"
  /\ req[t].order = req[u].order
  => t = u

(* No rider is attached while the kitchen has the order. *)
UnclaimedInKitchen == \A o \in Orders :
  status[o] \in {"PENDING_PAYMENT", "PLACED", "ACCEPTED_BY_RESTAURANT",
                 "PREPARING", "READY_FOR_PICKUP", "CANCELLED"}
    => riderId[o] = NoRider

RefundClaimed == \A o \in Orders :
  refund[o] # "none" <=> status[o] = "REFUNDED"

DocumentInv ==
  /\ UnclaimedInKitchen
  /\ RefundClaimed
  /\ CancelledOrderHasNoRider
  /\ DeliveredAtTellsTheTruth
  /\ OnlyTheRiderBelieves

TurnsInv ==
  /\ CarryInv
  /\ OneRequestPerOrder
  /\ \A t \in Requests : ReadStillTrue(t)
  /\ DocumentInv

LEMMA TurnsInit == Init => TurnsInv
  BY CarryInit, IdleFacts DEF Init, TurnsInv, OneRequestPerOrder, ReadStillTrue,
     DocumentInv, UnclaimedInKitchen, RefundClaimed, CancelledOrderHasNoRider,
     DeliveredAtTellsTheTruth, OnlyTheRiderBelieves, Idle

(* A step that opens a request leaves the documents alone, and the request  *)
(* it opens is the only one on its order.                                   *)
LEMMA OpenKeepsTurns ==
  ASSUME TurnsInv, Serialised, NEW t \in Requests, NEW o \in Orders, NEW kind,
         NEW to, NEW r, Openable(t, o), Open(t, kind, o, to, r),
         kind = "ownerSave" => canOwnerTransition(status[o], to),
         kind = "riderSave" => canRiderTransition(status[o], to),
         kind = "reassign" => status[o] = "ASSIGNED_TO_RIDER"
  PROVE  /\ OneRequestPerOrder'
         /\ \A u \in Requests : ReadStillTrue(u)'
         /\ DocumentInv'
<1> USE DEF TurnsInv, CarryInv, TargetInv, TypeOK, Open, orderVars
<1>1. OneRequestPerOrder'
  BY DEF OneRequestPerOrder, Openable
<1>2. \A u \in Requests : ReadStillTrue(u)'
  BY DEF ReadStillTrue
<1>3. DocumentInv'
  BY DEF DocumentInv, UnclaimedInKitchen, RefundClaimed,
     CancelledOrderHasNoRider, DeliveredAtTellsTheTruth, OnlyTheRiderBelieves
<1>4. QED
  BY <1>1, <1>2, <1>3

(* A step that closes request t may only have changed t's order, and every  *)
(* other open request is on another one.                                    *)
LEMMA CloseKeepsTurns ==
  ASSUME TurnsInv, NEW t \in Requests, req[t].kind # "idle", Close(t),
         \A p \in Orders \ {req[t].order} :
           status'[p] = status[p] /\ riderId'[p] = riderId[p]
  PROVE  OneRequestPerOrder' /\ \A u \in Requests : ReadStillTrue(u)'
<1> USE DEF TurnsInv, CarryInv, TargetInv, TypeOK, Close
<1>1. \A u \in Requests : IF u = t THEN req'[u] = Idle ELSE req'[u] = req[u]
  OBVIOUS
<1>2. OneRequestPerOrder'
  BY <1>1 DEF OneRequestPerOrder, Idle
<1>3. ASSUME NEW u \in Requests PROVE ReadStillTrue(u)'
  <2>1. CASE u = t
    BY <1>1, <2>1 DEF ReadStillTrue, Idle
  <2>2. CASE u # t /\ req[u].kind # "idle"
    <3>1. req[u].order \in Orders \ {req[t].order}
      BY <2>2 DEF OneRequestPerOrder, RequestTarget
    <3>2. QED
      BY <1>1, <2>2, <3>1 DEF ReadStillTrue
  <2>3. CASE u # t /\ req[u].kind = "idle"
    BY <1>1, <2>3 DEF ReadStillTrue
  <2>4. QED
    BY <2>1, <2>2, <2>3
<1>4. QED
  BY <1>2, <1>3

(* assignToRider's update keeps the documents consistent, and disturbs no   *)
(* open request: it applies to an order no open request can be waiting on.  *)
LEMMA AttachKeepsDocuments ==
  ASSUME TurnsInv, NEW o \in Orders, NEW r \in Riders, AttachRider(o, r)
  PROVE  /\ DocumentInv'
         /\ \A p \in Orders \ {o} : status'[p] = status[p] /\ riderId'[p] = riderId[p]
         /\ \/ status'[o] = status[o] /\ riderId'[o] = riderId[o]
            \/ status[o] = "READY_FOR_PICKUP"
<1> USE IdleFacts DEF TurnsInv, CarryInv, TargetInv, TypeOK, AttachRider, Unassigned
<1>1. UnclaimedInKitchen' /\ RefundClaimed'
  BY DEF DocumentInv, UnclaimedInKitchen, RefundClaimed
<1>2. CancelledOrderHasNoRider' /\ DeliveredAtTellsTheTruth'
  BY DEF DocumentInv, CancelledOrderHasNoRider, DeliveredAtTellsTheTruth,
     RefundClaimed
<1>3. OnlyTheRiderBelieves'
  BY DEF DocumentInv, OnlyTheRiderBelieves
<1>4. QED
  BY <1>1, <1>2, <1>3 DEF DocumentInv

LEMMA TurnsStep == Serialised /\ TurnsInv /\ [Next]_vars => TurnsInv'
<1> SUFFICES ASSUME Serialised, TurnsInv, [Next]_vars PROVE TurnsInv'
  OBVIOUS
<1> USE IdleFacts
<1>0. CarryInv /\ TargetInv /\ TypeOK /\ CarryInv'
  BY CarryStep DEF TurnsInv, CarryInv, TargetInv
<1>1. ASSUME NEW t \in Requests, RequestStep(t) PROVE TurnsInv'
  <2>1. ASSUME NEW o \in Orders, NEW target \in OrderStatuses,
               updateStatusByOwner(t, o, target)
        PROVE  TurnsInv'
    BY <1>0, <2>1, OpenKeepsTurns DEF updateStatusByOwner, TurnsInv
  <2>2. ASSUME NEW o \in Orders, NEW target \in OrderStatuses, NEW r \in Riders,
               updateStatusByRider(t, r, o, target)
        PROVE  TurnsInv'
    BY <1>0, <2>2, OpenKeepsTurns DEF updateStatusByRider, TurnsInv
  <2>3. ASSUME NEW o \in Orders, NEW r \in Riders, assignRiderByOwner(t, o, r)
        PROVE  TurnsInv'
    <3>1. CASE Open(t, "assign", o, "ASSIGNED_TO_RIDER", r)
      BY <1>0, <2>3, <3>1, OpenKeepsTurns DEF assignRiderByOwner, assertVerified, TurnsInv
    <3>2. CASE /\ Open(t, "reassign", o, "ASSIGNED_TO_RIDER", r)
               /\ status[o] = "ASSIGNED_TO_RIDER"
      BY <1>0, <2>3, <3>2, OpenKeepsTurns DEF assignRiderByOwner, assertVerified, TurnsInv
    <3>3. QED
      BY <2>3, <3>1, <3>2 DEF assignRiderByOwner
  <2>4. CASE SaveOwnerTransition(t)
    <3> DEFINE o == req[t].order
    <3>1. /\ o \in Orders
          /\ <<status[o], req[t].to>> \in OWNER_TRIGGERABLE_TRANSITIONS
      BY <1>0, <2>4 DEF SaveOwnerTransition, TurnsInv, ReadStillTrue, TargetInv,
         RequestTarget, canOwnerTransition
    <3>2. riderId[o] = NoRider /\ refund[o] = "none" /\ ~ deliveredAt[o]
      BY <1>0, <3>1 DEF TypeOK, TurnsInv, DocumentInv, UnclaimedInKitchen,
         RefundClaimed, DeliveredAtTellsTheTruth, OWNER_TRIGGERABLE_TRANSITIONS
    <3>3. \A p \in Orders \ {o} :
            status'[p] = status[p] /\ riderId'[p] = riderId[p]
      BY <1>0, <2>4 DEF SaveOwnerTransition, TypeOK
    <3>4. OneRequestPerOrder' /\ \A u \in Requests : ReadStillTrue(u)'
      BY <2>4, <3>3, CloseKeepsTurns DEF SaveOwnerTransition
    <3>5. DocumentInv'
      BY <1>0, <2>4, <3>1, <3>2 DEF SaveOwnerTransition, TypeOK, TurnsInv,
         DocumentInv, UnclaimedInKitchen, RefundClaimed, OnlyTheRiderBelieves,
         CancelledOrderHasNoRider, DeliveredAtTellsTheTruth,
         OWNER_TRIGGERABLE_TRANSITIONS
    <3>6. QED
      BY <1>0, <3>4, <3>5 DEF TurnsInv
  <2>5. CASE SaveRiderTransition(t)
    <3> DEFINE o == req[t].order
    <3>1. /\ o \in Orders
          /\ <<status[o], req[t].to>> \in RIDER_TRIGGERABLE_TRANSITIONS
      BY <1>0, <2>5 DEF SaveRiderTransition, TurnsInv, ReadStillTrue, TargetInv,
         RequestTarget, canRiderTransition
    <3>2. refund[o] = "none" /\ ~ deliveredAt[o]
      BY <1>0, <3>1 DEF TypeOK, TurnsInv, DocumentInv, RefundClaimed,
         DeliveredAtTellsTheTruth, RIDER_TRIGGERABLE_TRANSITIONS
    <3>3. \A p \in Orders \ {o} :
            status'[p] = status[p] /\ riderId'[p] = riderId[p]
      BY <1>0, <2>5 DEF SaveRiderTransition, TypeOK
    <3>4. OneRequestPerOrder' /\ \A u \in Requests : ReadStillTrue(u)'
      BY <2>5, <3>3, CloseKeepsTurns DEF SaveRiderTransition
    <3>5. DocumentInv'
      <4>0. DocumentInv /\ TypeOK
        BY <1>0 DEF TurnsInv
      <4>1. /\ \A p \in Orders :
                 status'[p] = IF p = o THEN req[t].to ELSE status[p]
            /\ \A p \in Orders :
                 deliveredAt'[p] = IF p = o THEN deliveredAt[o] \/ req[t].to = "DELIVERED"
                                   ELSE deliveredAt[p]
            /\ UNCHANGED <<riderId, refund, believes>>
        BY <2>5, <4>0 DEF SaveRiderTransition, TypeOK
      <4>2. <<status[o], req[t].to>> \in
              {<<"ASSIGNED_TO_RIDER", "PICKED_UP">>, <<"PICKED_UP", "OUT_FOR_DELIVERY">>,
               <<"OUT_FOR_DELIVERY", "DELIVERED">>}
        BY <3>1 DEF RIDER_TRIGGERABLE_TRANSITIONS
      <4>3. UnclaimedInKitchen'
        BY <3>1, <4>0, <4>1, <4>2 DEF DocumentInv, UnclaimedInKitchen
      <4>4. RefundClaimed'
        BY <3>1, <3>2, <4>0, <4>1, <4>2 DEF DocumentInv, RefundClaimed
      <4>5. CancelledOrderHasNoRider'
        BY <3>1, <3>2, <4>0, <4>1, <4>2 DEF DocumentInv, CancelledOrderHasNoRider
      <4>6. DeliveredAtTellsTheTruth'
        BY <3>1, <3>2, <4>0, <4>1, <4>2 DEF DocumentInv, DeliveredAtTellsTheTruth
      <4>7. OnlyTheRiderBelieves'
        BY <4>0, <4>1 DEF DocumentInv, OnlyTheRiderBelieves
      <4> QED
        BY <4>3, <4>4, <4>5, <4>6, <4>7 DEF DocumentInv
    <3>6. QED
      BY <1>0, <3>4, <3>5 DEF TurnsInv
  <2>6. CASE AssignChosenRider(t)
    <3>1. req[t].order \in Orders /\ req[t].rider \in Riders
      BY <1>0, <2>6 DEF AssignChosenRider, TargetInv, RequestTarget, TypeOK
    <3>2. /\ DocumentInv'
          /\ \A p \in Orders \ {req[t].order} :
               status'[p] = status[p] /\ riderId'[p] = riderId[p]
      BY <2>6, <3>1, AttachKeepsDocuments DEF AssignChosenRider
    <3>3. QED
      BY <1>0, <2>6, <3>2, CloseKeepsTurns DEF AssignChosenRider, TurnsInv
  <2>7. CASE ReassignRider(t)
    <3> DEFINE o == req[t].order
    <3>1. o \in Orders /\ req[t].rider \in Riders
      BY <1>0, <2>7 DEF ReassignRider, TellsUnassigned, TargetInv, RequestTarget, TypeOK
    <3>2. status[o] = "ASSIGNED_TO_RIDER" /\ riderId[o] = req[t].held
      BY <2>7 DEF ReassignRider, TellsUnassigned, TurnsInv, ReadStillTrue
    <3>3. \A p \in Orders \ {o} :
            status'[p] = status[p] /\ riderId'[p] = riderId[p]
      BY <1>0, <2>7 DEF ReassignRider, TellsUnassigned, TypeOK
    <3>4. OneRequestPerOrder' /\ \A u \in Requests : ReadStillTrue(u)'
      BY <2>7, <3>3, CloseKeepsTurns DEF ReassignRider
    <3>5. refund[o] = "none"
      BY <3>1, <3>2, <1>0 DEF TypeOK, TurnsInv, DocumentInv, RefundClaimed
    <3>6. UnclaimedInKitchen' /\ RefundClaimed' /\ CancelledOrderHasNoRider'
          /\ DeliveredAtTellsTheTruth'
      BY <1>0, <2>7, <3>2, <3>5 DEF ReassignRider, TellsUnassigned, TypeOK, TurnsInv,
         DocumentInv, UnclaimedInKitchen, RefundClaimed,
         CancelledOrderHasNoRider, DeliveredAtTellsTheTruth
    <3>7. OnlyTheRiderBelieves'
      BY <1>0, <2>7, <3>1, <3>2 DEF ReassignRider, TellsUnassigned, TypeOK, TurnsInv,
         DocumentInv, OnlyTheRiderBelieves
    <3>8. QED
      BY <1>0, <3>4, <3>6, <3>7 DEF TurnsInv, DocumentInv
  <2>8. QED
    BY <1>1, <2>1, <2>2, <2>3, <2>4, <2>5, <2>6, <2>7 DEF RequestStep
<1>2. ASSUME NEW o \in Orders, NEW r \in Riders, AttachRider(o, r),
             UNCHANGED req
      PROVE  TurnsInv'
  <2>1. \A t \in Requests : ReadStillTrue(t)'
    BY <1>0, <1>2, AttachKeepsDocuments DEF TurnsInv, ReadStillTrue, TargetInv,
       RequestTarget, canOwnerTransition, canRiderTransition,
       OWNER_TRIGGERABLE_TRANSITIONS, RIDER_TRIGGERABLE_TRANSITIONS
  <2>2. QED
    BY <1>0, <1>2, <2>1, AttachKeepsDocuments DEF TurnsInv, OneRequestPerOrder
<1>3. ASSUME UNCHANGED <<status, riderId, deliveredAt, refund, believes, req>>
      PROVE  TurnsInv'
  BY <1>0, <1>3 DEF TurnsInv, OneRequestPerOrder, ReadStillTrue, DocumentInv,
     UnclaimedInKitchen, RefundClaimed, CancelledOrderHasNoRider,
     DeliveredAtTellsTheTruth, OnlyTheRiderBelieves
<1>4. ASSUME NEW s \in Sweeps, SweepStep(s) PROVE TurnsInv'
  <2>1. CASE dispatchToNearestRider(s)
    BY <1>0, <1>2, <2>1 DEF dispatchToNearestRider, SweepIsNow, TargetInv,
       SweepTarget, TypeOK
  <2>2. CASE ~ dispatchToNearestRider(s)
    BY <1>3, <1>4, <2>2 DEF SweepStep, autoDispatchStaleReadyOrders, SweepIsNow,
       findNearbyRiderCandidates, FilterBusyRiders, orderVars
  <2>3. QED
    BY <2>1, <2>2
<1>5. ASSUME NEW r \in Riders, RiderStep(r) PROVE TurnsInv'
  BY <1>2, <1>3, <1>5 DEF RiderStep, toggleOnline, verify, assignToRider,
     orderVars
<1>6. ASSUME NEW o \in Orders, ElsewhereStep(o) PROVE TurnsInv'
  <2>1. CASE GraceElapses(o)
    BY <1>3, <2>1 DEF GraceElapses
  <2>2. CASE ~ GraceElapses(o)
    <3>1. \A t \in Requests : ReadStillTrue(t)'
      BY <1>0, <1>6, <2>2 DEF ElsewhereStep, markPaidFromWebhook, claimForRefund,
         revertFailedRefundClaim, Claimed, TypeOK, TurnsInv, ReadStillTrue, TargetInv,
         RequestTarget, canOwnerTransition, canRiderTransition,
         OWNER_TRIGGERABLE_TRANSITIONS, RIDER_TRIGGERABLE_TRANSITIONS,
         REFUNDABLE_STATUSES
    <3>2. DocumentInv'
      BY <1>0, <1>6, <2>2 DEF ElsewhereStep, markPaidFromWebhook, claimForRefund,
         revertFailedRefundClaim, Claimed, TypeOK, TurnsInv, DocumentInv,
         UnclaimedInKitchen, RefundClaimed, CancelledOrderHasNoRider,
         DeliveredAtTellsTheTruth, OnlyTheRiderBelieves, REFUNDABLE_STATUSES
    <3>3. UNCHANGED req
      BY <1>6, <2>2 DEF ElsewhereStep, markPaidFromWebhook, claimForRefund,
         revertFailedRefundClaim
    <3>4. QED
      BY <1>0, <3>1, <3>2, <3>3 DEF TurnsInv, OneRequestPerOrder
  <2>3. QED
    BY <2>1, <2>2
<1>7. CASE UNCHANGED vars
  BY <1>3, <1>7 DEF vars, orderVars
<1>8. QED
  BY <1>1, <1>4, <1>5, <1>6, <1>7 DEF Next

(* When requests take turns, the documents stay consistent: no ready order  *)
(* is claimed, no cancelled order has a rider, deliveredAt is set exactly   *)
(* on delivered orders.                                                     *)
THEOREM DocumentsStayConsistent ==
  ASSUME Serialised
  PROVE  Spec => []DocumentsAgree
<1>1. TurnsInv => DocumentsAgree
  BY DEF TurnsInv, DocumentInv, UnclaimedInKitchen, ReadyOrderIsUnclaimed,
     DocumentsAgree
<1>2. TurnsInv /\ [Next]_vars => TurnsInv'
  BY TurnsStep
<1>3. QED
  BY <1>1, <1>2, TurnsInit, PTL DEF Spec

(* ... and the riders who think an order is theirs are the one it names.    *)
THEOREM RidersAreToldRight ==
  ASSUME Serialised
  PROVE  Spec => []OnlyTheRiderBelieves
<1>1. TurnsInv => OnlyTheRiderBelieves
  BY DEF TurnsInv, DocumentInv
<1>2. TurnsInv /\ [Next]_vars => TurnsInv'
  BY TurnsStep
<1>3. QED
  BY <1>1, <1>2, TurnsInit, PTL DEF Spec

-----------------------------------------------------------------------------
(* The lifecycle graph *)

LEMMA StepFollowsLifecycle ==
  ASSUME Serialised, TurnsInv, [Next]_vars
  PROVE  [Lifecycle!LifecycleNext]_(Lifecycle!lifecycleVars)
<1> USE IdleFacts
<1>0. CarryInv /\ TargetInv /\ TypeOK
  BY DEF TurnsInv, CarryInv, TargetInv
<1>1. ASSUME NEW o \in Orders, NEW to \in OrderStatuses,
             <<status[o], to>> \in ORDER_TRANSITIONS, to # "REFUNDED",
             status' = [status EXCEPT ![o] = to], UNCHANGED refund
      PROVE  Lifecycle!LifecycleNext
  BY <1>1 DEF Lifecycle!LifecycleNext, Lifecycle!Advance,
     Lifecycle!canTransition, Lifecycle!ORDER_TRANSITIONS, ORDER_TRANSITIONS,
     Lifecycle!OrderStatuses, OrderStatuses, Lifecycle!REFUNDABLE_STATUSES,
     REFUNDABLE_STATUSES
<1>2. ASSUME UNCHANGED <<status, refund>>
      PROVE  UNCHANGED Lifecycle!lifecycleVars
  BY <1>2 DEF Lifecycle!lifecycleVars
<1>3. ASSUME NEW o \in Orders, NEW r \in Riders, AttachRider(o, r)
      PROVE  [Lifecycle!LifecycleNext]_(Lifecycle!lifecycleVars)
  <2>1. CASE Unassigned(o)
    BY <1>1, <1>3, <2>1 DEF AttachRider, Unassigned, ORDER_TRANSITIONS,
       OrderStatuses
  <2>2. CASE ~ Unassigned(o)
    BY <1>2, <1>3, <2>2 DEF AttachRider
  <2>3. QED
    BY <2>1, <2>2
<1>4. ASSUME NEW t \in Requests, RequestStep(t)
      PROVE  [Lifecycle!LifecycleNext]_(Lifecycle!lifecycleVars)
  <2>1. CASE SaveOwnerTransition(t)
    <3>1. <<status[req[t].order], req[t].to>> \in ORDER_TRANSITIONS
      BY <2>1 DEF SaveOwnerTransition, TurnsInv, ReadStillTrue,
         canOwnerTransition, OWNER_TRIGGERABLE_TRANSITIONS, ORDER_TRANSITIONS
    <3>2. /\ req[t].order \in Orders
          /\ req[t].to \in OrderStatuses \ {"REFUNDED"}
      BY <1>0, <2>1 DEF SaveOwnerTransition, TargetInv, RequestTarget, CarryInv,
         RequestCarries, canOwnerTransition, OWNER_TRIGGERABLE_TRANSITIONS,
         OrderStatuses
    <3>3. QED
      BY <1>1, <2>1, <3>1, <3>2 DEF SaveOwnerTransition
  <2>2. CASE SaveRiderTransition(t)
    <3>1. <<status[req[t].order], req[t].to>> \in ORDER_TRANSITIONS
      BY <2>2 DEF SaveRiderTransition, TurnsInv, ReadStillTrue,
         canRiderTransition, RIDER_TRIGGERABLE_TRANSITIONS, ORDER_TRANSITIONS
    <3>2. /\ req[t].order \in Orders
          /\ req[t].to \in OrderStatuses \ {"REFUNDED"}
      BY <1>0, <2>2 DEF SaveRiderTransition, TargetInv, RequestTarget, TurnsInv,
         ReadStillTrue, canRiderTransition, RIDER_TRIGGERABLE_TRANSITIONS,
         OrderStatuses
    <3>3. QED
      BY <1>1, <2>2, <3>1, <3>2 DEF SaveRiderTransition
  <2>3. CASE AssignChosenRider(t)
    BY <1>0, <1>3, <2>3 DEF AssignChosenRider, TargetInv, RequestTarget, TypeOK
  <2>4. CASE ~ (SaveOwnerTransition(t) \/ SaveRiderTransition(t)
                \/ AssignChosenRider(t))
    BY <1>2, <1>4, <2>4 DEF RequestStep, updateStatusByOwner, Open, orderVars,
       updateStatusByRider, assignRiderByOwner, ReassignRider
  <2>5. QED
    BY <2>1, <2>2, <2>3, <2>4
<1>5. ASSUME NEW s \in Sweeps, SweepStep(s)
      PROVE  [Lifecycle!LifecycleNext]_(Lifecycle!lifecycleVars)
  <2>1. CASE dispatchToNearestRider(s)
    BY <1>0, <1>3, <2>1 DEF dispatchToNearestRider, TargetInv, SweepTarget,
       TypeOK
  <2>2. CASE ~ dispatchToNearestRider(s)
    BY <1>2, <1>5, <2>2 DEF SweepStep, autoDispatchStaleReadyOrders, orderVars,
       findNearbyRiderCandidates, FilterBusyRiders
  <2>3. QED
    BY <2>1, <2>2
<1>6. ASSUME NEW r \in Riders, RiderStep(r)
      PROVE  [Lifecycle!LifecycleNext]_(Lifecycle!lifecycleVars)
  BY <1>2, <1>3, <1>6 DEF RiderStep, toggleOnline, verify, assignToRider,
     orderVars
<1>7. ASSUME NEW o \in Orders, ElsewhereStep(o)
      PROVE  [Lifecycle!LifecycleNext]_(Lifecycle!lifecycleVars)
  <2>1. CASE GraceElapses(o)
    BY <1>2, <2>1 DEF GraceElapses
  <2>2. CASE markPaidFromWebhook(o)
    BY <1>1, <2>2 DEF markPaidFromWebhook, ORDER_TRANSITIONS, OrderStatuses
  <2>3. CASE claimForRefund(o)
    BY <2>3 DEF claimForRefund, Lifecycle!LifecycleNext, Lifecycle!Refund,
       Lifecycle!canTransition, Lifecycle!ORDER_TRANSITIONS,
       Lifecycle!REFUNDABLE_STATUSES, REFUNDABLE_STATUSES
  <2>4. CASE revertFailedRefundClaim(o)
    BY <2>4 DEF revertFailedRefundClaim, Claimed, Lifecycle!LifecycleNext,
       Lifecycle!UndoRefund
  <2>5. QED
    BY <1>7, <2>1, <2>2, <2>3, <2>4 DEF ElsewhereStep
<1>8. CASE UNCHANGED vars
  BY <1>2, <1>8 DEF vars, orderVars
<1>9. QED
  BY <1>4, <1>5, <1>6, <1>7, <1>8 DEF Next

(* When requests take turns, every handler moves an order along one edge of *)
(* ORDER_TRANSITIONS, or undoes a refund claim: the detailed specification  *)
(* implements the lifecycle.                                                *)
THEOREM ImplementsLifecycle == ASSUME Serialised PROVE Spec => FollowsLifecycle
<1>1. Init => Lifecycle!LifecycleInit
  BY DEF Init, Lifecycle!LifecycleInit
<1>2. TurnsInv /\ [Next]_vars
        => TurnsInv' /\ [Lifecycle!LifecycleNext]_(Lifecycle!lifecycleVars)
  BY TurnsStep, StepFollowsLifecycle
<1>3. QED
  BY <1>1, <1>2, TurnsInit, PTL
     DEF Spec, FollowsLifecycle, Lifecycle!LifecycleSpec

=============================================================================
