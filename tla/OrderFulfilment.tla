--------------------------- MODULE OrderFulfilment ---------------------------
(***************************************************************************)
(* How an order moves from payment to delivery                             *)
(* (backend/src/orders/orders.service.ts, riders.controller.ts and         *)
(* rider-dispatch-scheduler.service.ts).                                   *)
(*                                                                         *)
(* An order document is one point of the order functions below.  A handler *)
(* that reads the document, decides, and later calls save() is two actions *)
(* with the read kept in `req', because any other handler may run at the   *)
(* await between them; save() writes the changed paths under a filter on   *)
(* _id alone.  A findOneAndUpdate is one action whose guard is its filter. *)
(***************************************************************************)
EXTENDS OrderStateMachine, FiniteSetsExt

CONSTANTS
  Orders,      \* order documents
  Riders,      \* rider accounts, named by their user id
  Requests,    \* HTTP requests the server can be handling at the same time
  Sweeps,      \* overlapping runs of the every-minute dispatch sweep
  Nearby,      \* Nearby[o]: riders $geoNear finds within the radius of o's seller
  Limit,       \* NEARBY_RIDER_CANDIDATE_LIMIT, 15 in the code
  Serialised,  \* TRUE: no two open requests read-then-write the same order
  NoOrder, NoRider

ASSUME ConstantsAssumption ==
  /\ Nearby \in [Orders -> SUBSET Riders]
  /\ Limit \in Nat \ {0}
  /\ Serialised \in BOOLEAN
  /\ NoOrder \notin Orders
  /\ NoRider \notin Riders

VARIABLES
  (* the order documents, one function for each path the handlers write *)
  status, riderId, readyForPickupAt, deliveredAt,
  by,          \* the rider who wrote the last statusHistory entry, or NoRider
  refund,      \* refund[o]: status a refund in progress claimed o from, or "none"
  (* who knows what, the riders, and what is running *)
  believes,    \* riders whose last notification or response says o is theirs
  online,      \* riders with isOnline set
  verified,    \* riders with isVerified set
  req,         \* open requests, with the document each one has read
  sweep        \* open dispatch sweeps

orderVars == <<status, riderId, readyForPickupAt, deliveredAt, by>>
vars == <<orderVars, refund, believes, online, verified, req, sweep>>

RiderOrNone == Riders \cup {NoRider}

Request == [kind  : {"idle", "ownerSave", "riderSave", "assign", "reassign"},
            order : Orders \cup {NoOrder},
            from  : OrderStatuses,      \* the status that was read
            to    : OrderStatuses,      \* the status that will be saved
            held  : RiderOrNone,        \* the riderId that was read
            rider : RiderOrNone]        \* the acting or the chosen rider

Idle == [kind |-> "idle", order |-> NoOrder, from |-> "PENDING_PAYMENT",
         to |-> "PENDING_PAYMENT", held |-> NoRider, rider |-> NoRider]

Sweep == [at    : {"idle", "scan", "busy?", "assign"},
          todo  : SUBSET Orders,        \* the orders still to be looked at
          order : Orders \cup {NoOrder},
          near  : SUBSET Riders,        \* the candidates for `order'
          rider : RiderOrNone]          \* the rider chosen for `order'

TypeOK ==
  /\ status   \in [Orders -> OrderStatuses]
  /\ riderId  \in [Orders -> RiderOrNone]
  /\ readyForPickupAt \in [Orders -> {"unset", "recent", "beforeCutoff"}]
  /\ deliveredAt \in [Orders -> BOOLEAN]
  /\ by       \in [Orders -> RiderOrNone]
  /\ refund   \in [Orders -> REFUNDABLE_STATUSES \cup {"none"}]
  /\ believes \in [Orders -> SUBSET Riders]
  /\ online   \in SUBSET Riders
  /\ verified \in SUBSET Riders
  /\ req      \in [Requests -> Request]
  /\ sweep    \in [Sweeps -> Sweep]

Scan(todo) == [at |-> IF todo = {} THEN "idle" ELSE "scan", todo |-> todo,
               order |-> NoOrder, near |-> {}, rider |-> NoRider]

Init ==
  /\ status   = [o \in Orders |-> "PENDING_PAYMENT"]
  /\ riderId  = [o \in Orders |-> NoRider]
  /\ readyForPickupAt = [o \in Orders |-> "unset"]
  /\ deliveredAt = [o \in Orders |-> FALSE]
  /\ by       = [o \in Orders |-> NoRider]
  /\ refund   = [o \in Orders |-> "none"]
  /\ believes = [o \in Orders |-> {}]
  /\ online   = {}
  /\ verified = {}
  /\ req      = [t \in Requests |-> Idle]
  /\ sweep    = [s \in Sweeps |-> Scan({})]

-----------------------------------------------------------------------------
(* Requests *)

(* A request may be opened on o.  Serialised is the discipline the source   *)
(* assumes ("the single-owner queue actions") and does not enforce.         *)
Openable(t, o) ==
  /\ req[t].kind = "idle"
  /\ Serialised => \A u \in Requests : req[u].order # o

Open(t, kind, o, to, rider) ==
  /\ req' = [req EXCEPT ![t] =
       [kind |-> kind, order |-> o, from |-> status[o], to |-> to,
        held |-> riderId[o], rider |-> rider]]
  /\ UNCHANGED <<orderVars, refund, believes, online, verified, sweep>>

Close(t) == req' = [req EXCEPT ![t] = Idle]

(* updateStatusByOwner, then applyOwnerTransition up to the await of save. *)
updateStatusByOwner(t, o, target) ==
  /\ Openable(t, o)
  /\ canOwnerTransition(status[o], target)
  /\ Open(t, "ownerSave", o, target, NoRider)

SaveOwnerTransition(t) ==
  LET o == req[t].order IN
  /\ req[t].kind = "ownerSave"
  /\ status' = [status EXCEPT ![o] = req[t].to]
  /\ by' = [by EXCEPT ![o] = NoRider]
  /\ readyForPickupAt' = [readyForPickupAt EXCEPT ![o] =
       IF req[t].to = "READY_FOR_PICKUP" THEN "recent" ELSE @]
  /\ Close(t)
  /\ UNCHANGED <<riderId, deliveredAt, refund, believes, online, verified, sweep>>

updateStatusByRider(t, r, o, target) ==
  /\ Openable(t, o)
  /\ riderId[o] = r
  /\ canRiderTransition(status[o], target)
  /\ Open(t, "riderSave", o, target, r)

SaveRiderTransition(t) ==
  LET o == req[t].order IN
  /\ req[t].kind = "riderSave"
  /\ status' = [status EXCEPT ![o] = req[t].to]
  /\ by' = [by EXCEPT ![o] = req[t].rider]
  /\ deliveredAt' = [deliveredAt EXCEPT ![o] = @ \/ req[t].to = "DELIVERED"]
  /\ Close(t)
  /\ UNCHANGED <<riderId, readyForPickupAt, refund, believes, online, verified,
                 sweep>>

(* Mutants: the filter forgets the status, or the rider. *)
UnassignedWhateverStatus(o) == riderId[o] = NoRider
UnassignedThoughClaimed(o) == status[o] = "READY_FOR_PICKUP"

(* assignToRider is one findOneAndUpdate: it attaches the rider if its      *)
(* filter still matches and fails with an error otherwise.                  *)
Unassigned(o) == status[o] = "READY_FOR_PICKUP" /\ riderId[o] = NoRider

AttachRider(o, r) ==
  /\ IF Unassigned(o)
     THEN /\ status'   = [status EXCEPT ![o] = "ASSIGNED_TO_RIDER"]
          /\ riderId'  = [riderId EXCEPT ![o] = r]
          /\ by'       = [by EXCEPT ![o] = r]
          /\ believes' = [believes EXCEPT ![o] = @ \cup {r}]
     ELSE UNCHANGED <<status, riderId, by, believes>>
  /\ UNCHANGED <<readyForPickupAt, deliveredAt, refund, online, verified>>

(* Mutant: being online is enough. *)
assertOnline(r) == r \in online

(* A rider who is not verified gets an error. *)
assertVerified(r) == r \in verified

(* POST /riders/orders/:id/assign: assertVerified, then the update.         *)
(* Nothing ever clears isVerified, so the check cannot go stale.            *)
assignToRider(r, o) ==
  /\ assertVerified(r)
  /\ Unassigned(o)
  /\ AttachRider(o, r)
  /\ UNCHANGED <<req, sweep>>

(* assignRiderByOwner chooses its branch from the document it has read; the *)
(* rider need not be one that getAvailableRidersForOwner would list.        *)
assignRiderByOwner(t, o, r) ==
  /\ Openable(t, o)
  /\ assertVerified(r)
  /\ \/ Unassigned(o) /\ Open(t, "assign", o, "ASSIGNED_TO_RIDER", r)
     \/ /\ status[o] = "ASSIGNED_TO_RIDER"
        /\ riderId[o] \notin {NoRider, r}
        /\ Open(t, "reassign", o, "ASSIGNED_TO_RIDER", r)

AssignChosenRider(t) ==
  /\ req[t].kind = "assign"
  /\ AttachRider(req[t].order, req[t].rider)
  /\ Close(t)
  /\ UNCHANGED sweep

(* Mutant: the previous rider is not told. *)
TellsNobody(t) == {}

(* The rider told that the order is no longer theirs. *)
TellsUnassigned(t) == {req[t].held}

(* The reassigning update filters on the status alone; the riders told are  *)
(* the one that was read and the one now chosen.                            *)
ReassignRider(t) ==
  LET o == req[t].order IN
  /\ req[t].kind = "reassign"
  /\ IF status[o] = "ASSIGNED_TO_RIDER"
     THEN /\ riderId'  = [riderId EXCEPT ![o] = req[t].rider]
          /\ by'       = [by EXCEPT ![o] = NoRider]
          /\ believes' = [believes EXCEPT ![o] =
                            (@ \ TellsUnassigned(t)) \cup {req[t].rider}]
     ELSE UNCHANGED <<riderId, by, believes>>
  /\ Close(t)
  /\ UNCHANGED <<status, readyForPickupAt, deliveredAt, refund, online, verified,
                 sweep>>

-----------------------------------------------------------------------------
(* The grace-period sweep: autoDispatchStaleReadyOrders *)

(* RIDER_ASSIGNMENT_GRACE_PERIOD_MS have passed since readyForPickupAt. *)
GraceElapses(o) ==
  /\ readyForPickupAt[o] = "recent"
  /\ readyForPickupAt' = [readyForPickupAt EXCEPT ![o] = "beforeCutoff"]
  /\ UNCHANGED <<status, riderId, deliveredAt, by, refund, believes, online,
                 verified, req, sweep>>

Stale(o) == Unassigned(o) /\ readyForPickupAt[o] = "beforeCutoff"

Busy(r) == \E o \in Orders :
  riderId[o] = r /\ status[o] \in ACTIVE_DELIVERY_STATUSES

SweepIsNow(s, next) ==
  /\ sweep' = [sweep EXCEPT ![s] = next]
  /\ UNCHANGED req

autoDispatchStaleReadyOrders(s) ==
  /\ sweep[s].at = "idle"
  /\ \E o \in Orders : Stale(o)
  /\ SweepIsNow(s, Scan({o \in Orders : Stale(o)}))
  /\ UNCHANGED <<orderVars, refund, believes, online, verified>>

(* Who is near, online and verified. *)
Available(o) == Nearby[o] \cap online \cap verified

(* Mutant: the list is one candidate shorter. *)
IsNearestButOne(near, o) ==
  near \in kSubset(Min({Limit - 1, Cardinality(Available(o))}), Available(o))

(* The Limit nearest of them, or all if they are fewer.  Distances change   *)
(* all the time, so that any of them may be the nearest.                    *)
IsNearest(near, o) ==
  near \in kSubset(Min({Limit, Cardinality(Available(o))}), Available(o))

(* findNearbyRiderCandidates asks two questions, one query each: first who  *)
(* the nearest are, busy or not ...                                         *)
findNearbyRiderCandidates(s, o) ==
  LET todo == sweep[s].todo \ {o} IN
  /\ sweep[s].at = "scan"
  /\ o \in sweep[s].todo
  /\ \E near \in SUBSET Riders :
       /\ IsNearest(near, o)
       /\ SweepIsNow(s, IF near = {} THEN Scan(todo)
                        ELSE [at |-> "busy?", todo |-> todo, order |-> o,
                              near |-> near, rider |-> NoRider])
  /\ UNCHANGED <<orderVars, refund, believes, online, verified>>

(* ... then which of them are mid-delivery.  The nearest of the rest wins;  *)
(* a rider beyond the first Limit is never looked at.                       *)
FilterBusyRiders(s) ==
  LET free == {r \in sweep[s].near : ~ Busy(r)} IN
  /\ sweep[s].at = "busy?"
  /\ \/ free = {} /\ SweepIsNow(s, Scan(sweep[s].todo))
     \/ \E r \in free :
          SweepIsNow(s, [at |-> "assign", todo |-> sweep[s].todo,
                         order |-> sweep[s].order, near |-> {}, rider |-> r])
  /\ UNCHANGED <<orderVars, refund, believes, online, verified>>

dispatchToNearestRider(s) ==
  /\ sweep[s].at = "assign"
  /\ AttachRider(sweep[s].order, sweep[s].rider)
  /\ SweepIsNow(s, Scan(sweep[s].todo))

-----------------------------------------------------------------------------
(* Riders, and the payment side of the order *)

toggleOnline(r) ==
  /\ online' = IF r \in online THEN online \ {r} ELSE online \cup {r}
  /\ UNCHANGED <<orderVars, refund, believes, verified, req, sweep>>

verify(r) ==
  /\ r \notin verified
  /\ verified' = verified \cup {r}
  /\ UNCHANGED <<orderVars, refund, believes, online, req, sweep>>

markPaidFromWebhook(o) ==
  /\ status[o] = "PENDING_PAYMENT"
  /\ status' = [status EXCEPT ![o] = "PLACED"]
  /\ by' = [by EXCEPT ![o] = NoRider]
  /\ UNCHANGED <<riderId, readyForPickupAt, deliveredAt, refund, believes,
                 online, verified, req, sweep>>

(* A refund claims the order before the provider is asked, and the order    *)
(* stays REFUNDED for good or returns to where it was; module OrderPayments *)
(* has the protocol in full.                                                *)
claimForRefund(o) ==
  /\ status[o] \in REFUNDABLE_STATUSES
  /\ refund[o] = "none"
  /\ refund' = [refund EXCEPT ![o] = status[o]]
  /\ status' = [status EXCEPT ![o] = "REFUNDED"]
  /\ UNCHANGED <<riderId, readyForPickupAt, deliveredAt, by, believes, online,
                 verified, req, sweep>>

Claimed(o) == status[o] = "REFUNDED" /\ refund[o] # "none"

revertFailedRefundClaim(o) ==
  /\ Claimed(o)
  /\ refund' = [refund EXCEPT ![o] = "none"]
  /\ status' = [status EXCEPT ![o] = refund[o]]
  /\ UNCHANGED <<riderId, readyForPickupAt, deliveredAt, by, believes, online,
                 verified, req, sweep>>

-----------------------------------------------------------------------------
RequestStep(t) ==
  \/ \E o \in Orders, target \in OrderStatuses :
       \/ updateStatusByOwner(t, o, target)
       \/ \E r \in Riders : updateStatusByRider(t, r, o, target)
  \/ \E o \in Orders, r \in Riders : assignRiderByOwner(t, o, r)
  \/ SaveOwnerTransition(t) \/ SaveRiderTransition(t)
  \/ AssignChosenRider(t)   \/ ReassignRider(t)

SweepStep(s) ==
  \/ autoDispatchStaleReadyOrders(s)
  \/ \E o \in Orders : findNearbyRiderCandidates(s, o)
  \/ FilterBusyRiders(s)
  \/ dispatchToNearestRider(s)

RiderStep(r) ==
  toggleOnline(r) \/ verify(r) \/ \E o \in Orders : assignToRider(r, o)

ElsewhereStep(o) ==
  \/ GraceElapses(o)   \/ markPaidFromWebhook(o)
  \/ claimForRefund(o) \/ revertFailedRefundClaim(o)

Next ==
  \/ \E t \in Requests : RequestStep(t)
  \/ \E s \in Sweeps : SweepStep(s)
  \/ \E r \in Riders : RiderStep(r)
  \/ \E o \in Orders : ElsewhereStep(o)

Spec == Init /\ [][Next]_vars

(* Time passes, the cron trigger fires every minute and a sweep it starts   *)
(* runs to its end.  Nobody is obliged to send a request.                   *)
FairSpec ==
  /\ Spec
  /\ \A o \in Orders : WF_vars(GraceElapses(o))
  /\ \A s \in Sweeps : WF_vars(SweepStep(s))

-----------------------------------------------------------------------------
(* Properties that hold whatever the requests do *)

(* An order that is being carried, or was delivered, names the rider who    *)
(* has it: tracking, the live location broadcast and the rider's earnings   *)
(* all look the rider up there.                                             *)
RiderCarriesOrder == \A o \in Orders :
  status[o] \in ACTIVE_DELIVERY_STATUSES \cup {"DELIVERED"}
    => riderId[o] # NoRider

(* All three ways to attach a rider, and the reassignment, only ever attach *)
(* one whose account an administrator has verified.                         *)
AssignedRiderVerified == \A o \in Orders :
  riderId[o] \in verified \cup {NoRider}

(* So whoever carries a parcel is known by name, and has been verified.     *)
CarriedByVerifiedRider == RiderCarriesOrder /\ AssignedRiderVerified

(* assignToRider never takes an order away from the rider who claimed it,   *)
(* and from pickup on the parcel does not change hands: the rider of an     *)
(* order changes only while the order is waiting to be picked up.           *)
RiderFixedOnceAttached == [][\A o \in Orders :
  riderId[o] \notin {NoRider, riderId'[o]}
    => status[o] = "ASSIGNED_TO_RIDER"]_vars

(* Properties that need the writes to one order to be serialised *)

(* The status follows ORDER_TRANSITIONS: every handler's step is a step of  *)
(* the lifecycle or leaves it alone.                                        *)
Lifecycle == INSTANCE OrderLifecycle WITH claimed <- refund

FollowsLifecycle == Lifecycle!LifecycleSpec

(* An order shown as ready for pickup can still be given to a rider: every  *)
(* path that attaches one filters on riderId being null.                    *)
ReadyOrderIsUnclaimed == \A o \in Orders :
  status[o] = "READY_FOR_PICKUP" => riderId[o] = NoRider

(* The seller can cancel only before dispatch, so no rider is ever on the   *)
(* way for an order that was cancelled, refunded afterwards or not.         *)
CancelledOrderHasNoRider == \A o \in Orders :
  "CANCELLED" \in {status[o], refund[o]} => riderId[o] = NoRider

(* deliveredAt, which rider pay and sales reports select on, is set exactly *)
(* on the orders that are delivered or were when their refund claimed them. *)
DeliveredAtTellsTheTruth == \A o \in Orders :
  deliveredAt[o] <=> "DELIVERED" \in {status[o], refund[o]}

(* The fields of an order agree with its status, after any run of requests  *)
(* of sellers, riders and refunds that take turns.                          *)
DocumentsAgree ==
  /\ ReadyOrderIsUnclaimed
  /\ CancelledOrderHasNoRider
  /\ DeliveredAtTellsTheTruth

(* The riders who were told an order is theirs, and not told otherwise, are *)
(* exactly the rider the order names.                                       *)
OnlyTheRiderBelieves == \A o \in Orders :
  believes[o] = {riderId[o]} \ {NoRider}

CanDeliver(r, o) == r \in Available(o) /\ ~ Busy(r)

(* The riders who are mid-delivery around the seller cannot fill the list   *)
(* of candidates by themselves.                                             *)
ListHasRoom(o) == Cardinality({r \in Nearby[o] : Busy(r)}) < Limit

(* An order a seller does nothing about does not stay ready for pickup for  *)
(* ever while some nearby rider stays online, verified and idle and fewer   *)
(* nearby riders than the list of candidates is long are mid-delivery,      *)
(* whichever of the riders are the nearest each time.                       *)
NoReadyOrderStalls == \A o \in Orders, r \in Riders :
  []<>~(status[o] = "READY_FOR_PICKUP" /\ CanDeliver(r, o) /\ ListHasRoom(o))

(* Promises of the source that the code does not keep; see the README   *)

(* An order the seller never gets to eventually gets a rider                *)
(* (rider-dispatch-scheduler.service.ts), if one is near and stays free.    *)
NoReadyOrderStarves == \A o \in Orders, r \in Riders :
  []<>~(status[o] = "READY_FOR_PICKUP" /\ CanDeliver(r, o))

(* Only the order's assigned rider triggers its progress from pickup to     *)
(* delivery (order-state-machine.ts).                                       *)
ProgressByAssignedRider == \A o \in Orders :
  status[o] \in {"PICKED_UP", "OUT_FOR_DELIVERY", "DELIVERED"}
    => by[o] = riderId[o]

(* Automatic dispatch does not hand a rider a second concurrent order.      *)
NoSecondDeliveryFromDispatch == [][\A s \in Sweeps :
  dispatchToNearestRider(s) /\ Unassigned(sweep[s].order)
    => ~ Busy(sweep[s].rider)]_vars
=============================================================================
