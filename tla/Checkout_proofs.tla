---------------------------- MODULE Checkout_proofs ----------------------------
(***************************************************************************)
(* Proofs about Checkout, for any number of customers, requests, orders    *)
(* and uses of the promo code.                                             *)
(***************************************************************************)
EXTENDS Checkout, FiniteSetTheorems, TLAPS

(* What the proofs need of the variables' types: a request is a record, and *)
(* one that is under way has a customer.                                    *)
IsRequests ==
  /\ req = [t \in Requests |->
       [at |-> req[t].at, customer |-> req[t].customer, read |-> req[t].read,
        seller |-> req[t].seller, lines |-> req[t].lines,
        index |-> req[t].index, code |-> req[t].code]]
  /\ \A t \in Requests : req[t].at # "idle" => req[t].customer \in Customers

Shape ==
  /\ IsRequests
  /\ customerId \in [Orders -> Customers \cup {NoCustomer}]
  /\ discounted \in SUBSET Orders
  /\ \A o \in discounted : customerId[o] # NoCustomer
  /\ usedCount \in Nat /\ usedCount <= UsageLimit

(* Between the creation of an order and the end of its request. *)
Finishing == {"redeem", "clearCart"}

(* Of the other requests nothing changes that the proofs look at. *)
Only(t) ==
  /\ IsRequests'
  /\ \A u \in Requests : u # t =>
       /\ req'[u].at = req[u].at
       /\ req'[u].customer = req[u].customer
       /\ req'[u].code = req[u].code

Ends(t) ==
  req'[t].at = "idle" /\ req'[t].customer = NoCustomer /\ req'[t].code = FALSE

Continues(t) ==
  req'[t].customer = req[t].customer /\ req'[t].code = req[t].code

Opens(t) ==
  /\ req[t].at = "idle"
  /\ req'[t].at \notin Finishing \cup {"idle", "create"}
  /\ req'[t].customer \in Customers

(* A step of request t in which no order is made, none is finished and the  *)
(* code is not redeemed.                                                    *)
Before(t) ==
  /\ Only(t)
  /\ UNCHANGED <<customerId, discounted, usedCount>>
  /\ req[t].at \notin Finishing
  /\ \/ Opens(t)
     \/ Ends(t) /\ req[t].at # "create"
     \/ /\ Continues(t)
        /\ req[t].at # "create"
        /\ req'[t].at \notin Finishing \cup {"idle"}
        /\ req'[t].at = "create" => (~ req[t].code \/ NotUsedUp)

-----------------------------------------------------------------------------
IsRecord(r) ==
  r = [at |-> r.at, customer |-> r.customer, read |-> r.read,
       seller |-> r.seller, lines |-> r.lines, index |-> r.index, code |-> r.code]

LEMMA ReplaceEffect ==
  ASSUME IsRequests, NEW t \in Requests, NEW r, IsRecord(r),
         r.at # "idle" => r.customer \in Customers,
         req' = [req EXCEPT ![t] = r]
  PROVE  Only(t) /\ req'[t] = r
<1>1. req' = [u \in Requests |-> req'[u]] /\ req'[t] = r
  BY DEF IsRequests
<1>2. \A u \in Requests : u # t => req'[u] = req[u]
  BY DEF IsRequests
<1>3. \A u \in Requests : IsRecord(req[u])
  BY DEF IsRequests, IsRecord
<1>4. \A u \in Requests : IsRecord(req'[u])
  BY <1>1, <1>2, <1>3
<1>5. IsRequests'
  BY <1>1, <1>2, <1>4 DEF IsRequests, IsRecord
<1> QED BY <1>1, <1>2, <1>5 DEF Only

LEMMA OpenEffect ==
  ASSUME IsRequests, NEW t \in Requests, NEW c \in Customers, NEW at,
         NEW seller, NEW lines, NEW index,
         Open(t, c, at, seller, lines, index),
         at \notin Finishing \cup {"idle", "create"}
  PROVE  Only(t) /\ Opens(t)
<1> DEFINE r == [at |-> at, customer |-> c,
                 read |-> IF HasCart(c) THEN "current" ELSE "none",
                 seller |-> seller, lines |-> lines, index |-> index,
                 code |-> FALSE]
<1>1. req' = [req EXCEPT ![t] = r]
  BY DEF Open
<1>2. IsRecord(r) /\ r.at = at /\ r.customer = c
  BY DEF IsRecord
<1> HIDE DEF r
<1>3. Only(t) /\ req'[t] = r
  BY <1>1, <1>2, ReplaceEffect
<1> QED BY <1>2, <1>3 DEF Open, Opens

LEMMA CloseEffect ==
  ASSUME IsRequests, NEW t \in Requests, Close(t)
  PROVE  Only(t) /\ Ends(t)
  BY DEF IsRequests, Close, Idle, Only, Ends

LEMMA OutdateEffect ==
  ASSUME IsRequests, NEW t \in Requests, NEW c, NEW state,
         CloseAndOutdate(t, c, state)
  PROVE  Only(t) /\ Ends(t)
<1> DEFINE record(r) == [at |-> r.at, customer |-> r.customer, read |-> r.read,
                         seller |-> r.seller, lines |-> r.lines,
                         index |-> r.index, code |-> r.code]
<1>1. \A u \in Requests : req[u] = record(req[u])
  BY DEF IsRequests
<1>2. req'[t] = Idle
  BY DEF CloseAndOutdate
<1>3. ASSUME NEW u \in Requests, u # t
      PROVE  /\ req'[u] = record(req'[u])
             /\ req'[u].at = req[u].at
             /\ req'[u].customer = req[u].customer
             /\ req'[u].code = req[u].code
  <2>1. req'[u] = req[u] \/ req'[u] = [req[u] EXCEPT !.read = state]
    BY <1>3 DEF CloseAndOutdate
  <2>2. [req[u] EXCEPT !.read = state] = [record(req[u]) EXCEPT !.read = state]
    BY <1>1
  <2> QED BY <1>1, <2>1, <2>2
<1>4. \A u \in Requests : req'[u] = record(req'[u])
  BY <1>2, <1>3 DEF Idle
<1>5. req' = [u \in Requests |-> record(req'[u])]
  BY <1>4 DEF CloseAndOutdate
<1>6. Ends(t)
  BY <1>2 DEF Ends, Idle
<1>7. \A u \in Requests : req'[u].at # "idle" => req'[u].customer \in Customers
  BY <1>3, <1>6 DEF IsRequests, Ends
<1> QED BY <1>3, <1>5, <1>6, <1>7 DEF Only, IsRequests

LEMMA GotoEffect ==
  ASSUME IsRequests, NEW t \in Requests, NEW at, Goto(t, at), req[t].at # "idle"
  PROVE  Only(t) /\ Continues(t) /\ req'[t].at = at
<1>1. req' = [u \in Requests |-> req'[u]]
  BY DEF IsRequests, Goto
<1>2. \A u \in Requests : u # t => req'[u] = req[u]
  BY DEF IsRequests, Goto
<1>3. req'[t] = [at |-> at, customer |-> req[t].customer, read |-> req[t].read,
                 seller |-> req[t].seller, lines |-> req[t].lines,
                 index |-> req[t].index, code |-> req[t].code]
  BY DEF IsRequests, Goto
<1>4. IsRequests'
  BY <1>1, <1>2, <1>3 DEF IsRequests
<1> QED BY <1>2, <1>3, <1>4 DEF Only, Continues

(* Opening a request, and ending one that had made no order.                *)
LEMMA OpenBefore ==
  ASSUME IsRequests, NEW t \in Requests, NEW c \in Customers, NEW at,
         NEW seller, NEW lines, NEW index,
         Open(t, c, at, seller, lines, index),
         at \notin Finishing \cup {"idle", "create"},
         UNCHANGED <<catalogVars, cartVars, orderVars, codeVars>>
  PROVE  Before(t)
<1>1. Only(t) /\ Opens(t)
  BY OpenEffect
<1> QED BY <1>1 DEF Before, Opens, Finishing, cartVars, orderVars, codeVars

LEMMA EndBefore ==
  ASSUME NEW t \in Requests, Only(t), Ends(t),
         req[t].at \notin Finishing \cup {"create"},
         UNCHANGED <<orderVars, codeVars>>
  PROVE  Before(t)
  BY DEF Before, orderVars, codeVars

LEMMA CartRequestBefore ==
  ASSUME IsRequests, NEW t \in Requests, NEW c \in Customers, CartRequest(t, c)
  PROVE  Before(t)
<1> USE DEF Finishing
<1>1. ASSUME NEW i \in Items, NEW q \in 1..MaxQty, addItem(t, c, i, q)
      PROVE  Before(t)
  <2>1. \E at, seller, lines, index :
          /\ Open(t, c, at, seller, lines, index)
          /\ at \in {"insert", "setAll", "push", "set"}
    BY <1>1 DEF addItem
  <2> QED BY <1>1, <2>1, OpenBefore DEF addItem
<1>2. ASSUME NEW k \in DOMAIN cartLines[c], NEW q \in 1..MaxQty,
             updateItem(t, c, k, q)
      PROVE  Before(t)
  BY <1>2, OpenBefore DEF updateItem
<1>3. ASSUME NEW k \in DOMAIN cartLines[c], removeItem(t, c, k)
      PROVE  Before(t)
  BY <1>3, OpenBefore DEF removeItem
<1>4. ASSUME NEW o \in Orders, reorderFromOrder(t, c, o)
      PROVE  Before(t)
  BY <1>4, OpenBefore DEF reorderFromOrder
<1>5. CASE clearCart(t, c)
  <2>1. Only(t) /\ Ends(t)
    BY <1>5, OutdateEffect DEF clearCart
  <2> QED BY <1>5, <2>1, EndBefore DEF clearCart
<1> QED BY <1>1, <1>2, <1>3, <1>4, <1>5 DEF CartRequest

LEMMA CartSaveBefore ==
  ASSUME IsRequests, NEW t \in Requests, CartSave(t)
  PROVE  Before(t)
<1>1. Only(t) /\ Ends(t)
  BY CloseEffect, OutdateEffect
  DEF CartSave, InsertCart, PushLine, SetLine, SetLines, DeleteCart, Fails
<1>2. /\ req[t].at \notin Finishing \cup {"create"}
      /\ UNCHANGED <<orderVars, codeVars>>
  BY DEF CartSave, InsertCart, PushLine, SetLine, SetLines, DeleteCart, Finishing
<1> QED BY <1>1, <1>2, EndBefore

LEMMA OrderOpens ==
  ASSUME IsRequests, NEW t \in Requests, NEW c \in Customers,
         NEW code \in BOOLEAN, createOrder(t, c, code)
  PROVE  Before(t)
<1> DEFINE at == IF cartSeller[c] \in Stores THEN "checkAvailable" ELSE "getCart"
           lines == IF cartSeller[c] \in Stores THEN cartLines[c] ELSE <<>>
           r == [at |-> at, customer |-> c, read |-> "none",
                 seller |-> cartSeller[c], lines |-> lines,
                 index |-> 0, code |-> code]
<1>1. req' = [req EXCEPT ![t] = r]
  BY DEF createOrder
<1>2. at \notin Finishing \cup {"idle", "create"}
  BY DEF Finishing
<1> HIDE DEF at, lines
<1>3. IsRecord(r) /\ r.at = at /\ r.customer = c
  BY DEF IsRecord
<1> HIDE DEF r
<1>4. Only(t) /\ req'[t] = r
  BY <1>1, <1>3, ReplaceEffect
<1>5. Opens(t)
  BY <1>2, <1>3, <1>4 DEF createOrder, Opens
<1> QED BY <1>4, <1>5
        DEF createOrder, Before, Opens, Finishing, cartVars, orderVars, codeVars

(* The steps of createOrder up to the creation of the order. *)
LEMMA CheckBefore ==
  ASSUME IsRequests, NEW t \in Requests,
         createRestaurantOrder(t) \/ checkAvailable(t) \/ validate(t)
  PROVE  Before(t)
<1> USE DEF Finishing
<1>1. /\ req[t].at \in {"getCart", "checkAvailable", "validate"}
      /\ UNCHANGED <<cartVars, orderVars, codeVars>>
  BY DEF createRestaurantOrder, checkAvailable, validate
<1>2. CASE Close(t)
  BY <1>1, <1>2, CloseEffect, EndBefore DEF cartVars
<1>3. ASSUME NEW at, Goto(t, at), at \in {"validate", "create"},
             at = "create" => (~ req[t].code \/ NotUsedUp)
      PROVE  Before(t)
  <2>1. Only(t) /\ Continues(t) /\ req'[t].at = at
    BY <1>1, <1>3, GotoEffect
  <2> QED BY <1>1, <1>3, <2>1 DEF Before, cartVars, orderVars, codeVars
<1>4. CASE createRestaurantOrder(t) /\ ~ Close(t)
  <2>1. Only(t) /\ Continues(t) /\ req'[t].at = "checkAvailable"
    <3> DEFINE c == req[t].customer
               r == [at |-> "checkAvailable", customer |-> c, read |-> "none",
                     seller |-> cartSeller[c], lines |-> cartLines[c],
                     index |-> 0, code |-> req[t].code]
    <3>1. req' = [req EXCEPT ![t] = r]
      BY <1>4 DEF createRestaurantOrder
    <3>2. /\ IsRecord(r)
          /\ r.at = "checkAvailable" /\ r.customer = c /\ r.code = req[t].code
      BY DEF IsRecord
    <3>3. c \in Customers
      BY <1>1 DEF IsRequests
    <3> HIDE DEF r, c
    <3>4. Only(t) /\ req'[t] = r
      BY <3>1, <3>2, <3>3, ReplaceEffect
    <3> QED BY <3>2, <3>4 DEF Continues, c
  <2> QED BY <1>1, <2>1 DEF Before, cartVars, orderVars, codeVars
<1>5. CASE checkAvailable(t)
  BY <1>2, <1>3, <1>5 DEF checkAvailable
<1>6. CASE validate(t)
  BY <1>2, <1>3, <1>6 DEF validate
<1> QED BY <1>2, <1>4, <1>5, <1>6

LEMMA PlaceEffect ==
  ASSUME Shape, NEW t \in Requests, PlaceOrder(t)
  PROVE  /\ Only(t) /\ Continues(t)
         /\ req[t].at = "create" /\ req[t].customer \in Customers
         /\ req'[t].at = IF req[t].code THEN "redeem" ELSE "clearCart"
         /\ usedCount' = usedCount
         /\ \E o \in Orders \ discounted :
              /\ customerId' = [customerId EXCEPT ![o] = req[t].customer]
              /\ discounted' = IF req[t].code THEN discounted \cup {o} ELSE discounted
<1>1. /\ req[t].at = "create" /\ req[t].customer \in Customers
      /\ usedCount' = usedCount
  BY DEF PlaceOrder, Shape, IsRequests, codeVars
<1> DEFINE at == IF req[t].code THEN "redeem" ELSE "clearCart"
<1> DEFINE r == [at |-> at, customer |-> req[t].customer, read |-> "none",
                 seller |-> NoSeller, lines |-> <<>>, index |-> 0,
                 code |-> req[t].code]
<1>2. /\ Only(t) /\ Continues(t)
      /\ req'[t].at = at
  <2>1. req' = [req EXCEPT ![t] = r]
    BY DEF PlaceOrder
  <2> HIDE DEF at
  <2>2. /\ IsRecord(r) /\ r.at = at
        /\ r.customer = req[t].customer /\ r.code = req[t].code
    BY DEF IsRecord
  <2> HIDE DEF r
  <2>3. Only(t) /\ req'[t] = r
    BY <1>1, <2>1, <2>2, ReplaceEffect DEF Shape
  <2> QED BY <2>2, <2>3 DEF Continues
<1> DEFINE o == CHOOSE x \in Room : TRUE
<1>3. o \in Orders \ discounted
  BY DEF PlaceOrder, Room, Shape
<1>4. /\ customerId' = [customerId EXCEPT ![o] = req[t].customer]
      /\ discounted' = IF req[t].code THEN discounted \cup {o} ELSE discounted
  BY DEF PlaceOrder
<1> HIDE DEF o
<1> QED BY <1>1, <1>2, <1>3, <1>4

LEMMA RedeemEffect ==
  ASSUME Shape, NEW t \in Requests, redeem(t)
  PROVE  /\ Only(t) /\ Continues(t)
         /\ req[t].at = "redeem" /\ req'[t].at = "clearCart"
         /\ UNCHANGED <<customerId, discounted>>
         /\ usedCount' = IF usedCount < UsageLimit THEN usedCount + 1 ELSE usedCount
<1>1. /\ req[t].at = "redeem"
      /\ UNCHANGED <<customerId, discounted>>
      /\ usedCount' = IF usedCount < UsageLimit THEN usedCount + 1 ELSE usedCount
  BY DEF redeem, Redeemable, orderVars
<1> QED BY <1>1, GotoEffect DEF redeem, Shape

LEMMA FinishEffect ==
  ASSUME Shape, NEW t \in Requests, FinishOrder(t)
  PROVE  /\ Only(t) /\ Ends(t) /\ req[t].at = "clearCart"
         /\ UNCHANGED <<customerId, discounted, usedCount>>
<1>1. Only(t) /\ Ends(t)
  BY OutdateEffect DEF FinishOrder, Shape
<1> QED BY <1>1 DEF FinishOrder, orderVars, codeVars

LEMMA DieEffect ==
  ASSUME Shape, NEW t \in Requests, Die(t)
  PROVE  /\ MayDie /\ Only(t) /\ Ends(t)
         /\ UNCHANGED <<customerId, discounted, usedCount>>
<1>1. Only(t) /\ Ends(t)
  BY CloseEffect DEF Die, Shape
<1> QED BY <1>1 DEF Die, cartVars, orderVars, codeVars

(* What the proofs look at. *)
seen == <<req, customerId, discounted, usedCount>>

LEMMA StepCases ==
  ASSUME Shape, [Next]_vars
  PROVE  \/ UNCHANGED seen
         \/ \E t \in Requests : \/ Before(t) \/ PlaceOrder(t) \/ redeem(t)
                                \/ FinishOrder(t) \/ Die(t)
<1> USE DEF seen, vars, catalogVars, cartVars, orderVars, codeVars
<1>1. CASE UNCHANGED vars
  BY <1>1
<1>2. CASE \/ \E s \in Sellers : toggleOpen(s)
           \/ \E i \in Items : toggleItemAvailability(i)
           \/ updatePromoCode
  BY <1>2 DEF toggleOpen, toggleItemAvailability, updatePromoCode
<1>3. ASSUME NEW t \in Requests, RequestStep(t)
      PROVE  Before(t) \/ PlaceOrder(t) \/ redeem(t) \/ FinishOrder(t) \/ Die(t)
  BY <1>3, CartRequestBefore, CartSaveBefore, OrderOpens, CheckBefore
  DEF RequestStep, OrderStep, Shape
<1> QED BY <1>1, <1>2, <1>3 DEF Next

-----------------------------------------------------------------------------
LEMMA ShapeInductive ==
  /\ Init => Shape
  /\ Shape /\ [Next]_vars => Shape'
<1>1. Init => Shape
  BY ConstantsAssumption DEF Init, Idle, Shape, IsRequests
<1>2. ASSUME Shape, UNCHANGED seen
      PROVE  Shape'
  BY <1>2 DEF Shape, IsRequests, seen
<1>3. ASSUME Shape, NEW t \in Requests, Before(t)
      PROVE  Shape'
  BY <1>3 DEF Before, Only, Shape
<1>4. ASSUME Shape, NEW t \in Requests, PlaceOrder(t)
      PROVE  Shape'
  <2>1. PICK o \in Orders \ discounted :
          /\ customerId' = [customerId EXCEPT ![o] = req[t].customer]
          /\ discounted' = IF req[t].code THEN discounted \cup {o} ELSE discounted
    BY <1>4, PlaceEffect
  <2>2. Only(t) /\ req[t].customer \in Customers /\ usedCount' = usedCount
    BY <1>4, PlaceEffect
  <2> QED BY <1>4, <2>1, <2>2, ConstantsAssumption DEF Only, Shape
<1>5. ASSUME Shape, NEW t \in Requests, redeem(t)
      PROVE  Shape'
  BY <1>5, RedeemEffect, ConstantsAssumption DEF Only, Shape
<1>6. ASSUME Shape, NEW t \in Requests, FinishOrder(t) \/ Die(t)
      PROVE  Shape'
  BY <1>6, FinishEffect, DieEffect DEF Only, Shape
<1> QED BY <1>1, <1>2, <1>3, <1>4, <1>5, <1>6, StepCases

-----------------------------------------------------------------------------
(* Counting discounts.  While uses are left, the discounts are the uses that *)
(* have been counted and those about to be.  Once the limit is reached, all  *)
(* that can still come is one discount of each request past the check, and   *)
(* the request that took the last use is not one of them.                    *)
Redeeming == {t \in Requests : req[t].at = "redeem"}

Creating == {t \in Requests : req[t].at = "create" /\ req[t].code}

Counted == usedCount + Cardinality(Redeeming) <= Cardinality(discounted)

Overrun ==
  /\ usedCount < UsageLimit =>
       Cardinality(discounted) = usedCount + Cardinality(Redeeming)
  /\ usedCount = UsageLimit =>
       Cardinality(discounted) + Cardinality(Creating)
         <= UsageLimit + Cardinality(Requests) - 1

LEMMA Sizes ==
  ASSUME Shape
  PROVE  /\ IsFiniteSet(discounted) /\ Cardinality(discounted) \in Nat
         /\ IsFiniteSet(Redeeming) /\ Cardinality(Redeeming) \in Nat
         /\ IsFiniteSet(Creating) /\ Cardinality(Creating) \in Nat
         /\ Cardinality(Redeeming) + Cardinality(Creating) <= Cardinality(Requests)
         /\ Cardinality(Requests) \in Nat \ {0}
         /\ UsageLimit \in Nat
<1>1. /\ IsFiniteSet(Orders) /\ IsFiniteSet(Requests) /\ Requests # {}
      /\ UsageLimit \in Nat
  BY ConstantsAssumption
<1>2. IsFiniteSet(discounted) /\ IsFiniteSet(Redeeming) /\ IsFiniteSet(Creating)
  BY <1>1, FS_Subset DEF Shape, Redeeming, Creating
<1>3. Redeeming \cap Creating = {}
  BY DEF Redeeming, Creating
<1>4. Cardinality(Redeeming \cup Creating)
        = Cardinality(Redeeming) + Cardinality(Creating)
  <2>1. Cardinality(Redeeming \cup Creating)
          = Cardinality(Redeeming) + Cardinality(Creating)
              - Cardinality(Redeeming \cap Creating)
    BY <1>2, FS_Union
  <2>2. Cardinality(Redeeming \cap Creating) = 0
    BY <1>3, FS_EmptySet
  <2> HIDE DEF Redeeming, Creating
  <2> QED BY <1>2, <2>1, <2>2, FS_CardinalityType
<1>5. Cardinality(Redeeming \cup Creating) <= Cardinality(Requests)
  BY <1>1, FS_Subset DEF Redeeming, Creating
<1>6. Cardinality(Requests) \in Nat \ {0}
  BY <1>1, FS_EmptySet, FS_CardinalityType
<1> QED BY <1>1, <1>2, <1>4, <1>5, <1>6, FS_CardinalityType

LEMMA SizesNext ==
  /\ Cardinality(Redeeming') \in Nat
  /\ Cardinality(Creating') \in Nat
<1>1. IsFiniteSet(Requests)
  BY ConstantsAssumption
<1>2. IsFiniteSet(Redeeming') /\ IsFiniteSet(Creating')
  BY <1>1, FS_Subset DEF Redeeming, Creating
<1> QED BY <1>2, FS_CardinalityType

LEMMA BeforeCounts ==
  ASSUME NEW t \in Requests, Before(t)
  PROVE  /\ Redeeming' = Redeeming
         /\ \/ Creating' = Creating
            \/ /\ t \notin Creating /\ Creating' = Creating \cup {t}
               /\ usedCount < UsageLimit
         /\ UNCHANGED <<discounted, usedCount>>
<1>1. /\ UNCHANGED <<discounted, usedCount>>
      /\ req[t].at \notin Finishing
  BY DEF Before
<1>2. req'[t].at \notin Finishing
  BY DEF Before, Opens, Ends, Finishing
<1>3. \A u \in Requests : u # t =>
        req'[u].at = req[u].at /\ req'[u].code = req[u].code
  BY DEF Before, Only
<1>4. Redeeming' = Redeeming
  BY <1>1, <1>2, <1>3 DEF Redeeming, Finishing
<1>5. CASE req'[t].at = "create" /\ req'[t].code
  <2>1. req[t].at # "create" /\ usedCount < UsageLimit
    BY <1>5 DEF Before, Opens, Ends, Continues, NotUsedUp
  <2> QED BY <1>1, <1>3, <1>4, <1>5, <2>1 DEF Creating
<1>6. CASE ~ (req'[t].at = "create" /\ req'[t].code)
  <2>1. req[t].at # "create"
    BY DEF Before, Opens
  <2> QED BY <1>1, <1>3, <1>4, <1>6, <2>1 DEF Creating
<1> QED BY <1>5, <1>6

LEMMA PlaceCounts ==
  ASSUME Shape, NEW t \in Requests, PlaceOrder(t)
  PROVE  /\ usedCount' = usedCount
         /\ \/ UNCHANGED <<discounted, Redeeming, Creating>>
            \/ /\ Cardinality(discounted') = Cardinality(discounted) + 1
               /\ Cardinality(Redeeming') = Cardinality(Redeeming) + 1
               /\ Cardinality(Creating') = Cardinality(Creating) - 1
<1>1. PICK o \in Orders \ discounted :
        discounted' = IF req[t].code THEN discounted \cup {o} ELSE discounted
  BY PlaceEffect
<1>2. /\ Only(t) /\ Continues(t) /\ req[t].at = "create"
      /\ req'[t].at = IF req[t].code THEN "redeem" ELSE "clearCart"
      /\ usedCount' = usedCount
  BY PlaceEffect
<1>3. CASE req[t].code
  <2>1. /\ t \notin Redeeming /\ Redeeming' = Redeeming \cup {t}
        /\ t \in Creating /\ Creating' = Creating \ {t}
    BY <1>2, <1>3 DEF Only, Redeeming, Creating
  <2>2. o \notin discounted /\ discounted' = discounted \cup {o}
    BY <1>1, <1>3
  <2> QED BY <1>2, <2>1, <2>2, Sizes, FS_AddElement, FS_RemoveElement
<1>4. CASE ~ req[t].code
  BY <1>1, <1>2, <1>4 DEF Only, Continues, Redeeming, Creating
<1> QED BY <1>3, <1>4

LEMMA RedeemCounts ==
  ASSUME Shape, NEW t \in Requests, redeem(t)
  PROVE  /\ UNCHANGED <<discounted, Creating>>
         /\ Cardinality(Redeeming') = Cardinality(Redeeming) - 1
         /\ usedCount' = IF usedCount < UsageLimit THEN usedCount + 1 ELSE usedCount
<1>1. /\ Only(t) /\ req[t].at = "redeem" /\ req'[t].at = "clearCart"
      /\ UNCHANGED discounted
      /\ usedCount' = IF usedCount < UsageLimit THEN usedCount + 1 ELSE usedCount
  BY RedeemEffect
<1>2. /\ t \in Redeeming /\ Redeeming' = Redeeming \ {t}
      /\ Creating' = Creating
  BY <1>1 DEF Only, Redeeming, Creating
<1> QED BY <1>1, <1>2, Sizes, FS_RemoveElement

LEMMA EndCounts ==
  ASSUME NEW t \in Requests, Only(t), Ends(t), req[t].at = "clearCart"
  PROVE  UNCHANGED <<Redeeming, Creating>>
  BY DEF Only, Ends, Redeeming, Creating

LEMMA SeenCounts ==
  ASSUME UNCHANGED seen
  PROVE  UNCHANGED <<discounted, usedCount, Redeeming, Creating>>
  BY DEF seen, Redeeming, Creating

LEMMA DieCounts ==
  ASSUME Shape, NEW t \in Requests, Die(t)
  PROVE  /\ UNCHANGED <<discounted, usedCount>>
         /\ Cardinality(Redeeming') <= Cardinality(Redeeming)
<1>1. Only(t) /\ Ends(t) /\ UNCHANGED <<discounted, usedCount>>
  BY DieEffect
<1>2. Redeeming' \subseteq Redeeming
  BY <1>1 DEF Only, Ends, Redeeming
<1> QED BY <1>1, <1>2, Sizes, FS_Subset

(* No use is counted of which there is no order, and restarts do not change *)
(* that (UsesAreDiscounts).                                                 *)
LEMMA CountedInductive ==
  /\ Init => Counted
  /\ Shape /\ Counted /\ [Next]_vars => Counted'
<1>1. Init => Counted
  <2>1. Init => discounted = {} /\ Redeeming = {} /\ usedCount = 0
    BY DEF Init, Idle, Redeeming
  <2> QED BY <2>1, FS_EmptySet DEF Counted
<1>2. ASSUME Shape, Counted, [Next]_vars
      PROVE  Counted'
  <2> USE DEF Counted
  <2>1. usedCount \in Nat
    BY <1>2 DEF Shape
  <2>2. /\ Cardinality(discounted) \in Nat /\ Cardinality(Redeeming) \in Nat
        /\ Cardinality(Redeeming') \in Nat
    BY <1>2, Sizes, SizesNext
  <2>3. CASE UNCHANGED seen
    BY <1>2, <2>3, SeenCounts
  <2>4. ASSUME NEW t \in Requests, Before(t)
        PROVE  Counted'
    BY <1>2, <2>4, BeforeCounts
  <2>5. ASSUME NEW t \in Requests, PlaceOrder(t)
        PROVE  Counted'
    BY <1>2, <2>1, <2>2, <2>5, PlaceCounts
  <2>6. ASSUME NEW t \in Requests, redeem(t)
        PROVE  Counted'
    BY <1>2, <2>1, <2>2, <2>6, RedeemCounts
  <2>7. ASSUME NEW t \in Requests, FinishOrder(t)
        PROVE  Counted'
    BY <1>2, <2>7, FinishEffect, EndCounts
  <2>8. ASSUME NEW t \in Requests, Die(t)
        PROVE  Counted'
    BY <1>2, <2>1, <2>2, <2>8, DieCounts
  <2> QED BY <1>2, <2>3, <2>4, <2>5, <2>6, <2>7, <2>8, StepCases
<1> QED BY <1>1, <1>2

(* The counter of the code stays within its limit, and every use it counts  *)
(* is the discount of some order (UsesAreDiscounts).                        *)
THEOREM UsesAreReal == Spec => []UsesAreDiscounts
<1>1. Shape /\ Counted => UsesAreDiscounts
  <2> SUFFICES ASSUME Shape, Counted PROVE UsesAreDiscounts
    OBVIOUS
  <2>1. usedCount \in Nat /\ usedCount <= UsageLimit
    BY DEF Shape
  <2> QED BY <2>1, Sizes DEF Counted, UsesAreDiscounts
<1> QED BY <1>1, ShapeInductive, CountedInductive, PTL DEF Spec

(* While no request is cut off, each use left and each discount is accounted *)
(* for by a counted use or a request.                                        *)
LEMMA OverrunInductive ==
  ASSUME ~ MayDie
  PROVE  /\ Init => Overrun
         /\ Shape /\ Overrun /\ [Next]_vars => Overrun'
<1>1. Init => Overrun
  <2> SUFFICES ASSUME Init PROVE Overrun
    OBVIOUS
  <2>1. discounted = {} /\ Redeeming = {} /\ Creating = {} /\ usedCount = 0
    BY DEF Init, Idle, Redeeming, Creating
  <2>2. Shape
    BY ShapeInductive
  <2> QED BY <2>1, <2>2, Sizes, FS_EmptySet DEF Overrun
<1>2. ASSUME Shape, Overrun, [Next]_vars
      PROVE  Overrun'
  <2> USE DEF Overrun
  <2>1. usedCount \in Nat /\ usedCount <= UsageLimit /\ UsageLimit \in Nat
    BY <1>2, Sizes DEF Shape
  <2>2. /\ Cardinality(discounted) \in Nat /\ Cardinality(Redeeming) \in Nat
        /\ Cardinality(Creating) \in Nat /\ Cardinality(Requests) \in Nat
        /\ Cardinality(Redeeming) + Cardinality(Creating) <= Cardinality(Requests)
        /\ Cardinality(Redeeming') \in Nat /\ Cardinality(Creating') \in Nat
    BY <1>2, Sizes, SizesNext
  <2>3. CASE UNCHANGED seen
    BY <1>2, <2>3, SeenCounts
  <2>4. ASSUME NEW t \in Requests, Before(t)
        PROVE  Overrun'
    BY <1>2, <2>1, <2>4, BeforeCounts
  <2>5. ASSUME NEW t \in Requests, PlaceOrder(t)
        PROVE  Overrun'
    BY <1>2, <2>1, <2>2, <2>5, PlaceCounts
  <2>6. ASSUME NEW t \in Requests, redeem(t)
        PROVE  Overrun'
    <3>1. /\ UNCHANGED <<discounted, Creating>>
          /\ Cardinality(Redeeming') = Cardinality(Redeeming) - 1
          /\ usedCount' = IF usedCount < UsageLimit THEN usedCount + 1 ELSE usedCount
      BY <1>2, <2>6, RedeemCounts
    <3> QED BY <1>2, <2>1, <2>2, <3>1
  <2>7. ASSUME NEW t \in Requests, FinishOrder(t)
        PROVE  Overrun'
    BY <1>2, <2>7, FinishEffect, EndCounts
  <2>8. ASSUME NEW t \in Requests, Die(t)
        PROVE  Overrun'
    BY <1>2, <2>8, DieEffect
  <2> QED BY <1>2, <2>3, <2>4, <2>5, <2>6, <2>7, <2>8, StepCases
<1> QED BY <1>1, <1>2

(* If no request is cut off, a promo code gives away at most its limit and  *)
(* one discount for each other request the servers handle at a time, however *)
(* many customers send however many of them (DiscountsAreBounded).          *)
THEOREM PromoOverrunIsBounded ==
  ASSUME ~ MayDie
  PROVE  Spec => []DiscountsAreBounded
<1>1. Shape /\ Overrun => DiscountsAreBounded
  <2> SUFFICES ASSUME Shape, Overrun PROVE DiscountsAreBounded
    OBVIOUS
  <2>1. usedCount \in Nat /\ usedCount <= UsageLimit
    BY DEF Shape
  <2> QED BY <2>1, Sizes DEF Overrun, DiscountsAreBounded
<1> QED BY <1>1, ShapeInductive, OverrunInductive, PTL DEF Spec

=============================================================================
