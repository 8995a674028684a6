------------------------------- MODULE Checkout -------------------------------
(***************************************************************************)
(* Carts, and the orders and redeemed promo codes they turn into           *)
(* (backend/src/cart/cart.service.ts, createOrder of                       *)
(* backend/src/orders/orders.service.ts, promo-codes.service.ts).          *)
(*                                                                         *)
(* A cart handler reads the customer's cart document, changes its copy and *)
(* saves it: two actions, with the copy kept in `req'.  Mongoose (external) *)
(* guards such a save: a document that is gone cannot be saved; pushing a  *)
(* line needs nothing else and moves the document's version on; setting    *)
(* the lines needs the version that was read and moves it on; setting one  *)
(* line needs the version that was read.  `read' is what has become, for   *)
(* each request, of the version it has read.                               *)
(*                                                                         *)
(* An item stands for what makes a line of the cart: a dish with its       *)
(* modifiers and notes, or a product.  Prices are left out: they are       *)
(* copied from item to line to order and nothing is decided by them.       *)
(***************************************************************************)
EXTENDS Integers, FiniteSets, SequencesExt

CONSTANTS
  Customers,
  Restaurants, Stores,   \* the two kinds of sellers
  Items, SellerOf,       \* SellerOf[i]: whose catalog item i is in
  MaxQty,                \* the most of one line, 20 in the code
  MaxLines,              \* bound: a customer adds no line to a cart of so many
  Orders,                \* bound: order documents the database has room for
  Volatile,              \* bound: items and sellers whose owners switch them
  UsageLimit,            \* usageLimit of the one promo code
  CodeSellers,           \* sellers the code is valid for
  Requests,              \* HTTP requests the server can be handling at a time
  MayDie,                \* TRUE: a request may be cut off between two steps
  NoCustomer, NoSeller

Sellers == Restaurants \cup Stores

ASSUME ConstantsAssumption ==
  /\ Restaurants \cap Stores = {}
  /\ SellerOf \in [Items -> Sellers]
  /\ MaxQty \in Nat \ {0}
  /\ MaxLines \in Nat
  /\ IsFiniteSet(Orders)
  /\ UsageLimit \in Nat
  /\ Volatile \subseteq Items \cup Sellers
  /\ CodeSellers \subseteq Sellers
  /\ IsFiniteSet(Requests) /\ Requests # {}
  /\ MayDie \in BOOLEAN
  /\ NoCustomer \notin Customers
  /\ NoSeller \notin Sellers

VARIABLES
  accepting,     \* sellers that are approved and open
  available,     \* items on offer, in the quantity anyone asks for
  (* the cart documents *)
  cartSeller,    \* NoSeller: the customer has no cart
  cartLines,
  raced,         \* history: customers who had a line pushed onto a cart that
                 \* another of their requests had changed since it was read
  (* the order documents *)
  customerId, orderSeller, orderLines,
  discounted,    \* orders that have the code's discount
  (* the promo code, and the requests *)
  isActive, usedCount,
  req

catalogVars == <<accepting, available>>
cartVars    == <<cartSeller, cartLines, raced>>
orderVars   == <<customerId, orderSeller, orderLines, discounted>>
codeVars    == <<isActive, usedCount>>
vars        == <<catalogVars, cartVars, orderVars, codeVars, req>>

Line == [item : Items, qty : 1..MaxQty]

Request ==
  [at : {"idle",
         "insert", "push", "set", "setAll", "deleteOne",       \* cart handlers
         "getCart", "checkAvailable", "validate", "create",    \* createOrder
         "redeem", "clearCart"},
   customer : Customers \cup {NoCustomer},
   read   : {"none", "current", "moved", "gone"},  \* the version it has read
   seller : Sellers \cup {NoSeller},               \* its copy of the cart
   lines  : Seq(Line),                             \* lines it writes or orders
   index  : Nat,                                   \* the line that is set
   code   : BOOLEAN]                               \* the promo code was given

Idle == [at |-> "idle", customer |-> NoCustomer, read |-> "none",
         seller |-> NoSeller, lines |-> <<>>, index |-> 0, code |-> FALSE]

TypeOK ==
  /\ accepting \in SUBSET Sellers
  /\ available \in SUBSET Items
  /\ cartSeller \in [Customers -> Sellers \cup {NoSeller}]
  /\ cartLines \in [Customers -> Seq(Line)]
  /\ raced \in SUBSET Customers
  /\ customerId \in [Orders -> Customers \cup {NoCustomer}]
  /\ orderSeller \in [Orders -> Sellers \cup {NoSeller}]
  /\ orderLines \in [Orders -> Seq(Line)]
  /\ discounted \in SUBSET Orders
  /\ isActive \in BOOLEAN
  /\ usedCount \in Nat
  /\ req \in [Requests -> Request]

Init ==
  /\ accepting = Sellers
  /\ available = Items
  /\ cartSeller = [c \in Customers |-> NoSeller]
  /\ cartLines = [c \in Customers |-> <<>>]
  /\ raced = {}
  /\ customerId = [o \in Orders |-> NoCustomer]
  /\ orderSeller = [o \in Orders |-> NoSeller]
  /\ orderLines = [o \in Orders |-> <<>>]
  /\ discounted = {}
  /\ isActive = TRUE
  /\ usedCount = 0
  /\ req = [t \in Requests |-> Idle]

-----------------------------------------------------------------------------
(* Requests and what they have read.  A request keeps of its copy what it  *)
(* will write: NoSeller if it leaves the cart's seller as it is.           *)

HasCart(c) == cartSeller[c] # NoSeller

(* A cart handler up to the await of its save. *)
Open(t, c, at, seller, lines, index) ==
  /\ req[t].at = "idle"
  /\ req' = [req EXCEPT ![t] =
       [at |-> at, customer |-> c,
        read |-> IF HasCart(c) THEN "current" ELSE "none",
        seller |-> seller, lines |-> lines, index |-> index, code |-> FALSE]]

Close(t) == req' = [req EXCEPT ![t] = Idle]

(* Request t ends, and the other requests' versions of c's cart have moved  *)
(* on, or are gone.                                                         *)
CloseAndOutdate(t, c, state) ==
  req' = [u \in Requests |->
    IF u = t THEN Idle
    ELSE IF req[u].customer = c /\ req[u].read \in {"current", "moved"}
    THEN [req[u] EXCEPT !.read = state]
    ELSE req[u]]

(* A restart cuts the request off; what it has written stays. *)
Die(t) ==
  /\ MayDie
  /\ req[t].at # "idle"
  /\ Close(t)
  /\ UNCHANGED <<catalogVars, cartVars, orderVars, codeVars>>

-----------------------------------------------------------------------------
(* The cart *)

MoreOf(a, b) == IF a + b <= MaxQty THEN a + b ELSE MaxQty

(* Mutant: a cart may mix sellers. *)
FitsAnyCart(c, s) == TRUE

FitsCart(c, s) == cartSeller[c] = s

LinesOf(c, i) == {k \in DOMAIN cartLines[c] : cartLines[c][k].item = i}

(* addItem and addStoreItem: an item of another seller than the cart's      *)
(* needs `replace'.                                                         *)
addItem(t, c, i, q) ==
  LET s    == SellerOf[i]
      line == [item |-> i, qty |-> q]
  IN
  /\ i \in available /\ s \in accepting
  /\ \/ /\ ~ HasCart(c)
        /\ Open(t, c, "insert", s, <<line>>, 0)
     \/ /\ HasCart(c) /\ ~ FitsCart(c, s)
        /\ Open(t, c, "setAll", s, <<line>>, 0)
     \/ /\ HasCart(c) /\ FitsCart(c, s) /\ LinesOf(c, i) = {}
        /\ Len(cartLines[c]) < MaxLines
        /\ Open(t, c, "push", NoSeller, <<line>>, 0)
     \/ \E k \in LinesOf(c, i) :
        /\ FitsCart(c, s)
        /\ \A j \in LinesOf(c, i) : k <= j
        /\ Open(t, c, "set", NoSeller,
                <<[item |-> i, qty |-> MoreOf(cartLines[c][k].qty, q)]>>, k)
  /\ UNCHANGED <<catalogVars, cartVars, orderVars, codeVars>>

updateItem(t, c, k, q) ==
  /\ k \in DOMAIN cartLines[c]
  /\ Open(t, c, "set", NoSeller, <<[item |-> cartLines[c][k].item, qty |-> q]>>, k)
  /\ UNCHANGED <<catalogVars, cartVars, orderVars, codeVars>>

(* Mutant: the last line is removed like any other. *)
NeverTheLast(c) == FALSE

IsLastLine(c) == Len(cartLines[c]) = 1

(* A cart without lines is deleted. *)
removeItem(t, c, k) ==
  /\ k \in DOMAIN cartLines[c]
  /\ IF IsLastLine(c)
     THEN Open(t, c, "deleteOne", NoSeller, <<>>, 0)
     ELSE Open(t, c, "setAll", NoSeller, RemoveAt(cartLines[c], k), 0)
  /\ UNCHANGED <<catalogVars, cartVars, orderVars, codeVars>>

(* reorder: the lines of an earlier order that can still be had, one by one *)
(* and so in their order.                                                   *)
Kept(o) == {k \in DOMAIN orderLines[o] : orderLines[o][k].item \in available}

reorderFromOrder(t, c, o) ==
  \E pick \in [1 .. Cardinality(Kept(o)) -> Kept(o)] :
    LET lines == [n \in DOMAIN pick |-> orderLines[o][pick[n]]] IN
    /\ customerId[o] = c
    /\ orderSeller[o] \in accepting
    /\ \A m, n \in DOMAIN pick : m < n => pick[m] < pick[n]
    /\ lines # <<>>
    /\ Open(t, c, IF HasCart(c) THEN "setAll" ELSE "insert", orderSeller[o], lines, 0)
    /\ UNCHANGED <<catalogVars, cartVars, orderVars, codeVars>>

(* The saves; each ends its request, with an error if it finds the document *)
(* not as it must be.                                                       *)
CartIs(c, seller, lines) ==
  /\ cartSeller' = [cartSeller EXCEPT ![c] = seller]
  /\ cartLines' = [cartLines EXCEPT ![c] = lines]

NoCart(c) == CartIs(c, NoSeller, <<>>) /\ UNCHANGED raced

Fails(t) == Close(t) /\ UNCHANGED cartVars

(* userId is unique among the carts. *)
InsertCart(t) ==
  LET c == req[t].customer IN
  /\ req[t].at = "insert"
  /\ \/ /\ ~ HasCart(c)
        /\ CartIs(c, req[t].seller, req[t].lines)
        /\ Close(t)
        /\ UNCHANGED raced
     \/ HasCart(c) /\ Fails(t)
  /\ UNCHANGED <<catalogVars, orderVars, codeVars>>

PushLine(t) ==
  LET c == req[t].customer IN
  /\ req[t].at = "push"
  /\ \/ /\ req[t].read # "gone"
        /\ CartIs(c, cartSeller[c], cartLines[c] \o req[t].lines)
        /\ CloseAndOutdate(t, c, "moved")
        /\ raced' = IF req[t].read = "moved" THEN raced \cup {c} ELSE raced
     \/ req[t].read = "gone" /\ Fails(t)
  /\ UNCHANGED <<catalogVars, orderVars, codeVars>>

SetLine(t) ==
  LET c == req[t].customer
      k == req[t].index
  IN
  /\ req[t].at = "set"
  /\ \/ /\ req[t].read = "current"
        /\ CartIs(c, cartSeller[c],
                  [cartLines[c] EXCEPT ![k] =
                     [item |-> cartLines[c][k].item, qty |-> req[t].lines[1].qty]])
        /\ Close(t)
        /\ UNCHANGED raced
     \/ req[t].read # "current" /\ Fails(t)
  /\ UNCHANGED <<catalogVars, orderVars, codeVars>>

SetLines(t) ==
  LET c == req[t].customer IN
  /\ req[t].at = "setAll"
  /\ \/ /\ req[t].read = "current"
        /\ CartIs(c, IF req[t].seller = NoSeller THEN cartSeller[c]
                     ELSE req[t].seller, req[t].lines)
        /\ CloseAndOutdate(t, c, "moved")
        /\ UNCHANGED raced
     \/ req[t].read # "current" /\ Fails(t)
  /\ UNCHANGED <<catalogVars, orderVars, codeVars>>

(* deleteOne names the document and asks for no version. *)
DeleteCart(t) ==
  LET c == req[t].customer IN
  /\ req[t].at = "deleteOne"
  /\ \/ /\ req[t].read # "gone"
        /\ NoCart(c)
        /\ CloseAndOutdate(t, c, "gone")
     \/ req[t].read = "gone" /\ Fails(t)
  /\ UNCHANGED <<catalogVars, orderVars, codeVars>>

-----------------------------------------------------------------------------
(* createOrder *)

CheckoutSteps == {"getCart", "checkAvailable", "validate", "create"}

Room == {o \in Orders : customerId[o] = NoCustomer}

HasRoom ==
  Cardinality(Room) > Cardinality({t \in Requests : req[t].at \in CheckoutSteps})

(* The cart is read to tell the kind of its seller, and read again if it is *)
(* a restaurant's.                                                          *)
createOrder(t, c, code) ==
  /\ req[t].at = "idle"
  /\ HasRoom
  /\ HasCart(c)
  /\ req' = [req EXCEPT ![t] =
       [at |-> IF cartSeller[c] \in Stores THEN "checkAvailable" ELSE "getCart",
        customer |-> c, read |-> "none", seller |-> cartSeller[c],
        lines |-> IF cartSeller[c] \in Stores THEN cartLines[c] ELSE <<>>,
        index |-> 0, code |-> code]]
  /\ UNCHANGED <<catalogVars, cartVars, orderVars, codeVars>>

Goto(t, at) == req' = [req EXCEPT ![t].at = at]

createRestaurantOrder(t) ==
  LET c == req[t].customer IN
  /\ req[t].at = "getCart"
  /\ IF cartSeller[c] \in Restaurants
     THEN req' = [req EXCEPT ![t] =
            [at |-> "checkAvailable", customer |-> c, read |-> "none",
             seller |-> cartSeller[c], lines |-> cartLines[c],
             index |-> 0, code |-> req[t].code]]
     ELSE Close(t)
  /\ UNCHANGED <<catalogVars, cartVars, orderVars, codeVars>>

(* Mutant: the item is looked up among all of them. *)
CanBeHadAnywhere(line, s) == line.item \in available

(* Each item is looked up among those of the seller's kind.                 *)
CanBeHad(line, s) ==
  /\ line.item \in available
  /\ s \in Stores <=> SellerOf[line.item] \in Stores

checkAvailable(t) ==
  /\ req[t].at = "checkAvailable"
  /\ IF /\ req[t].seller \in accepting
        /\ \A k \in DOMAIN req[t].lines : CanBeHad(req[t].lines[k], req[t].seller)
     THEN Goto(t, IF req[t].code THEN "validate" ELSE "create")
     ELSE Close(t)
  /\ UNCHANGED <<catalogVars, cartVars, orderVars, codeVars>>

(* Mutant: the limit is not looked at. *)
WhateverUsed == TRUE

NotUsedUp == usedCount < UsageLimit

(* Its expiry is in isActive; a code refused for the order's amount ends    *)
(* the request like one refused for its seller.                             *)
validate(t) ==
  /\ req[t].at = "validate"
  /\ IF isActive /\ req[t].seller \in CodeSellers /\ NotUsedUp
     THEN Goto(t, "create")
     ELSE Close(t)
  /\ UNCHANGED <<catalogVars, cartVars, orderVars, codeVars>>

PlaceOrder(t) ==
  LET o == CHOOSE x \in Room : TRUE IN
  /\ req[t].at = "create"
  /\ Room # {}
  /\ customerId' = [customerId EXCEPT ![o] = req[t].customer]
  /\ orderSeller' = [orderSeller EXCEPT ![o] = req[t].seller]
  /\ orderLines' = [orderLines EXCEPT ![o] = req[t].lines]
  /\ discounted' = IF req[t].code THEN discounted \cup {o} ELSE discounted
  /\ req' = [req EXCEPT ![t] =
       [at |-> IF req[t].code THEN "redeem" ELSE "clearCart",
        customer |-> req[t].customer, read |-> "none", seller |-> NoSeller,
        lines |-> <<>>, index |-> 0, code |-> req[t].code]]
  /\ UNCHANGED <<catalogVars, cartVars, codeVars>>

(* Mutant: the increment is not conditional. *)
AlwaysRedeemable == TRUE

Redeemable == usedCount < UsageLimit

(* A code that has been used up meanwhile is logged, and the order keeps    *)
(* its discount.                                                            *)
redeem(t) ==
  /\ req[t].at = "redeem"
  /\ usedCount' = IF Redeemable THEN usedCount + 1 ELSE usedCount
  /\ Goto(t, "clearCart")
  /\ UNCHANGED <<catalogVars, cartVars, orderVars, isActive>>

(* The cart that is there now is deleted, whatever has been ordered.        *)
FinishOrder(t) ==
  LET c == req[t].customer IN
  /\ req[t].at = "clearCart"
  /\ NoCart(c)
  /\ CloseAndOutdate(t, c, "gone")
  /\ UNCHANGED <<catalogVars, orderVars, codeVars>>

(* The customer empties the cart: deleteOne and nothing else.               *)
clearCart(t, c) ==
  /\ req[t].at = "idle"
  /\ HasCart(c)
  /\ NoCart(c)
  /\ CloseAndOutdate(t, c, "gone")
  /\ UNCHANGED <<catalogVars, orderVars, codeVars>>

-----------------------------------------------------------------------------
(* Sellers open, close and change what they offer; whoever owns the code    *)
(* turns it on and off.                                                     *)
toggleOpen(s) ==
  /\ s \in Volatile
  /\ accepting' = IF s \in accepting THEN accepting \ {s} ELSE accepting \cup {s}
  /\ UNCHANGED <<available, cartVars, orderVars, codeVars, req>>

toggleItemAvailability(i) ==
  /\ i \in Volatile
  /\ available' = IF i \in available THEN available \ {i} ELSE available \cup {i}
  /\ UNCHANGED <<accepting, cartVars, orderVars, codeVars, req>>

updatePromoCode ==
  /\ isActive' = ~ isActive
  /\ UNCHANGED <<catalogVars, cartVars, orderVars, usedCount, req>>

-----------------------------------------------------------------------------
CartRequest(t, c) ==
  \/ \E i \in Items, q \in 1..MaxQty : addItem(t, c, i, q)
  \/ \E k \in DOMAIN cartLines[c] :
       \/ \E q \in 1..MaxQty : updateItem(t, c, k, q)
       \/ removeItem(t, c, k)
  \/ \E o \in Orders : reorderFromOrder(t, c, o)
  \/ clearCart(t, c)

CartSave(t) ==
  \/ InsertCart(t) \/ PushLine(t) \/ SetLine(t) \/ SetLines(t) \/ DeleteCart(t)

(* createRestaurantOrder and createStoreOrder, which take the same steps but *)
(* for the first: a store's cart has been read by createOrder.               *)
OrderStep(t) ==
  \/ createRestaurantOrder(t) \/ checkAvailable(t) \/ validate(t)
  \/ PlaceOrder(t) \/ redeem(t) \/ FinishOrder(t)

RequestStep(t) ==
  \/ \E c \in Customers :
       \/ CartRequest(t, c)
       \/ \E code \in BOOLEAN : createOrder(t, c, code)
  \/ CartSave(t) \/ OrderStep(t) \/ Die(t)

Next ==
  \/ \E t \in Requests : RequestStep(t)
  \/ \E s \in Sellers : toggleOpen(s)
  \/ \E i \in Items : toggleItemAvailability(i)
  \/ updatePromoCode

Spec == Init /\ [][Next]_vars

-----------------------------------------------------------------------------
(* Properties that hold whatever the requests do *)

(* There is a cart document exactly while there is something in the cart:   *)
(* no interleaving of additions and removals leaves an empty one behind.    *)
CartIsNeverEmpty == \A c \in Customers : HasCart(c) <=> cartLines[c] # <<>>

(* The counter says no more than is true: it stays within the limit, and    *)
(* every use it counts is the discount of some order.                       *)
UsesAreDiscounts ==
  usedCount <= UsageLimit /\ usedCount <= Cardinality(discounted)

(* A cart has exactly one seller, and so has every order made of one, as    *)
(* long as none of its customer's requests pushed a line onto a cart that   *)
(* another had changed meanwhile: saves of whole carts, reorders, checkouts *)
(* and restarts in any order mix no sellers.                                *)
OneSellerPerCart ==
  /\ \A c \in Customers \ raced : \A k \in DOMAIN cartLines[c] :
       SellerOf[cartLines[c][k].item] = cartSeller[c]
  /\ \A o \in Orders : customerId[o] \notin raced =>
       \A k \in DOMAIN orderLines[o] :
         SellerOf[orderLines[o][k].item] = orderSeller[o]

(* A cart that two tabs have filled with dishes and products cannot be      *)
(* ordered: no kitchen is ever sent a product and no store a dish, though   *)
(* the cart may change between the two reads of a checkout, and before and  *)
(* after its items are looked up.                                           *)
OrderIsOfOneKind == \A o \in Orders : \A k \in DOMAIN orderLines[o] :
  orderSeller[o] \in Stores <=> SellerOf[orderLines[o][k].item] \in Stores

(* A property that needs requests to run to their end: orders that race for *)
(* the last use of a code, those of a cart submitted twice among them, all  *)
(* get the discount, but there are no more of them than requests at a time: *)
(* the code gives away its limit and one discount for each other request at *)
(* the most.                                                                *)
DiscountsAreBounded ==
  Cardinality(discounted) <= UsageLimit + Cardinality(Requests) - 1
=============================================================================
