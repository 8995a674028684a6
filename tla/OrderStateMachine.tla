------------------------- MODULE OrderStateMachine -------------------------
(***************************************************************************)
(* The order lifecycle graph of backend/src/orders/order-state-machine.ts, *)
(* kept as data the way the source keeps it: for every status, the set of  *)
(* statuses one step away.  The two TRIGGERABLE graphs are the parts of it *)
(* that a seller and the assigned rider may drive themselves.              *)
(***************************************************************************)

OrderStatuses ==
  { "PENDING_PAYMENT", "PLACED", "ACCEPTED_BY_RESTAURANT", "PREPARING",
    "READY_FOR_PICKUP", "ASSIGNED_TO_RIDER", "PICKED_UP", "OUT_FOR_DELIVERY",
    "DELIVERED", "CANCELLED", "REFUNDED" }

(* Orders a rider is carrying: the rider counts as busy. *)
ACTIVE_DELIVERY_STATUSES ==
  { "ASSIGNED_TO_RIDER", "PICKED_UP", "OUT_FOR_DELIVERY" }

(* Statuses whose payment may be reversed (orders.service.ts). *)
REFUNDABLE_STATUSES == { "DELIVERED", "CANCELLED" }

(* The kitchen's progress, from a paid order to one waiting for a rider. *)
OWNER_TRIGGERABLE_TRANSITIONS ==
  { <<"PLACED", "ACCEPTED_BY_RESTAURANT">>, <<"PLACED", "CANCELLED">>,
    <<"ACCEPTED_BY_RESTAURANT", "PREPARING">>,
    <<"ACCEPTED_BY_RESTAURANT", "CANCELLED">>,
    <<"PREPARING", "READY_FOR_PICKUP">>, <<"PREPARING", "CANCELLED">> }

RIDER_TRIGGERABLE_TRANSITIONS ==
  { <<"ASSIGNED_TO_RIDER", "PICKED_UP">>,
    <<"PICKED_UP", "OUT_FOR_DELIVERY">>,
    <<"OUT_FOR_DELIVERY", "DELIVERED">> }

(* The full graph.  A status without an outgoing edge is terminal. *)
ORDER_TRANSITIONS ==
  { <<"PENDING_PAYMENT", "PLACED">>,
    <<"PLACED", "ACCEPTED_BY_RESTAURANT">>,
    <<"ACCEPTED_BY_RESTAURANT", "PREPARING">>,
    <<"PREPARING", "READY_FOR_PICKUP">>,
    <<"READY_FOR_PICKUP", "ASSIGNED_TO_RIDER">>,
    <<"ASSIGNED_TO_RIDER", "PICKED_UP">>,
    <<"PICKED_UP", "OUT_FOR_DELIVERY">>,
    <<"OUT_FOR_DELIVERY", "DELIVERED">> }
  \cup { <<s, "CANCELLED">> : s \in
           { "PENDING_PAYMENT", "PLACED", "ACCEPTED_BY_RESTAURANT",
             "PREPARING", "READY_FOR_PICKUP", "ASSIGNED_TO_RIDER" } }
  \cup { <<s, "REFUNDED">> : s \in REFUNDABLE_STATUSES }

canTransition(from, to)      == <<from, to>> \in ORDER_TRANSITIONS

(* Mutant: the seller may take any edge of the full graph. *)
canOwnerTakeAnyEdge(from, to) == <<from, to>> \in ORDER_TRANSITIONS

canOwnerTransition(from, to) == <<from, to>> \in OWNER_TRIGGERABLE_TRANSITIONS
canRiderTransition(from, to) == <<from, to>> \in RIDER_TRIGGERABLE_TRANSITIONS
=============================================================================
