------------------------------ MODULE Carts_proofs ------------------------------
(***************************************************************************)
(* Proofs about the carts of Checkout, for any number of customers and     *)
(* requests at a time, whether or not they are cut off.                    *)
(***************************************************************************)
EXTENDS Checkout, SequenceTheorems, FiniteSetTheorems, TLAPS

(* Requests that will write to a cart document they have read.              *)
Saving == {"push", "set", "setAll", "deleteOne"}

(* What a request holds fits the cart it is going to write to: it knows     *)
(* whether the document is gone, it never writes a cart without lines, and  *)
(* while its version is current so is the index of its line.                *)
Fits(r) ==
  LET c == r.customer IN
  /\ r \in Request
  /\ r.at # "idle" => c \in Customers
  /\ r.at \in Saving => /\ r.read # "none"
                        /\ r.read # "gone" => HasCart(c)
  /\ r.at = "insert" => r.seller \in Sellers
  /\ r.at \in {"insert", "push", "setAll"} => r.lines # <<>>
  /\ r.at = "set" => /\ Len(r.lines) = 1
                     /\ r.read = "current" => r.index \in 1 .. Len(cartLines[c])

Carts ==
  /\ cartSeller \in [Customers -> Sellers \cup {NoSeller}]
  /\ cartLines \in [Customers -> Seq(Line)]
  /\ CartIsNeverEmpty

Others ==
  /\ accepting \in SUBSET Sellers /\ available \in SUBSET Items
  /\ raced \in SUBSET Customers
  /\ customerId \in [Orders -> Customers \cup {NoCustomer}]
  /\ orderSeller \in [Orders -> Sellers \cup {NoSeller}]
  /\ orderLines \in [Orders -> Seq(Line)]
  /\ discounted \in SUBSET Orders
  /\ isActive \in BOOLEAN
  /\ usedCount \in Nat

Requesting == req = [t \in Requests |-> req[t]] /\ \A t \in Requests : Fits(req[t])

CartInv == Carts /\ Others /\ Requesting

-----------------------------------------------------------------------------
LEMMA IdleFits == Fits(Idle)
  BY EmptySeq DEF Fits, Idle, Request, Saving

(* A request changes, and no cart does.                                     *)
LEMMA ReplaceRequest ==
  ASSUME CartInv, NEW t \in Requests, NEW r, Fits(r),
         req' = [req EXCEPT ![t] = r], UNCHANGED <<cartSeller, cartLines>>
  PROVE  Carts' /\ Requesting'
<1>1. Carts'
  BY DEF CartInv, Carts, CartIsNeverEmpty, HasCart
<1>2. req' = [u \in Requests |-> req'[u]]
      /\ \A u \in Requests : req'[u] = IF u = t THEN r ELSE req[u]
  BY DEF CartInv, Requesting
<1>3. ASSUME NEW x, Fits(x) PROVE Fits(x)'
  BY <1>3 DEF Fits, HasCart
<1>4. Fits(r)' /\ \A u \in Requests : Fits(req[u])
  BY <1>3 DEF CartInv, Requesting
<1>5. ASSUME NEW u \in Requests PROVE Fits(req[u])'
  <2>1. CASE u = t
    BY <1>2, <2>1 DEF Fits, HasCart
  <2>2. CASE u # t
    BY <1>2, <1>4, <2>2 DEF Fits, HasCart
  <2> QED BY <2>1, <2>2
<1> QED BY <1>1, <1>2, <1>5 DEF Requesting

LEMMA EndRequest ==
  ASSUME CartInv, NEW t \in Requests, Close(t), UNCHANGED cartVars
  PROVE  Carts' /\ Requesting'
  BY IdleFits, ReplaceRequest DEF Close, cartVars

(* A cart handler comes to its save.                                        *)
LEMMA OpenRequest ==
  ASSUME CartInv, NEW t \in Requests, NEW c \in Customers,
         NEW at, NEW seller \in Sellers \cup {NoSeller}, NEW lines \in Seq(Line),
         NEW index \in Nat,
         at \in {"insert"} \cup Saving,
         at \in Saving => HasCart(c),
         at = "insert" => seller \in Sellers,
         at \in {"insert", "push", "setAll"} => lines # <<>>,
         at = "set" => Len(lines) = 1 /\ index \in 1 .. Len(cartLines[c]),
         Open(t, c, at, seller, lines, index), UNCHANGED cartVars
  PROVE  Carts' /\ Requesting'
<1> DEFINE r == [at |-> at, customer |-> c,
                 read |-> IF HasCart(c) THEN "current" ELSE "none",
                 seller |-> seller, lines |-> lines, index |-> index, code |-> FALSE]
<1>1. req' = [req EXCEPT ![t] = r]
  BY DEF Open
<1>2. Fits(r)
  BY DEF Fits, Request, Saving
<1> HIDE DEF r
<1> QED BY <1>1, <1>2, ReplaceRequest DEF cartVars

LEMMA AddItem ==
  ASSUME CartInv, NEW t \in Requests, NEW c \in Customers, NEW i \in Items,
         NEW q \in 1..MaxQty, addItem(t, c, i, q)
  PROVE  Carts' /\ Requesting'
<1> DEFINE s == SellerOf[i]
           line == [item |-> i, qty |-> q]
<1>1. s \in Sellers /\ line \in Line
  BY ConstantsAssumption DEF Line
<1>2. <<line>> \in Seq(Line) /\ <<line>> # <<>> /\ Len(<<line>>) = 1
  BY <1>1
<1>3. UNCHANGED cartVars
  BY DEF addItem
<1>4. 0 \in Nat /\ NoSeller \in Sellers \cup {NoSeller} /\ s \in Sellers \cup {NoSeller}
  BY <1>1
<1>5. CASE ~ HasCart(c) /\ Open(t, c, "insert", s, <<line>>, 0)
  <2> HIDE DEF s, line
  <2> QED BY <1>1, <1>2, <1>3, <1>4, <1>5, OpenRequest DEF Saving
<1>6. CASE HasCart(c) /\ Open(t, c, "setAll", s, <<line>>, 0)
  <2> HIDE DEF s, line
  <2> QED BY <1>1, <1>2, <1>3, <1>4, <1>6, OpenRequest DEF Saving
<1>7. CASE HasCart(c) /\ Open(t, c, "push", NoSeller, <<line>>, 0)
  <2> HIDE DEF s, line
  <2> QED BY <1>1, <1>2, <1>3, <1>4, <1>7, OpenRequest DEF Saving
<1>8. ASSUME NEW k \in LinesOf(c, i), FitsCart(c, s),
             Open(t, c, "set", NoSeller, <<[item |-> i, qty |-> MoreOf(cartLines[c][k].qty, q)]>>, k)
      PROVE  Carts' /\ Requesting'
  <2>1. /\ cartLines[c] \in Seq(Line)
        /\ k \in 1 .. Len(cartLines[c]) /\ k \in Nat
        /\ cartLines[c][k] \in Line
    BY <1>8, LenProperties, ElementOfSeq DEF CartInv, Carts, LinesOf
  <2>2. MoreOf(cartLines[c][k].qty, q) \in 1..MaxQty
    BY <2>1, ConstantsAssumption DEF MoreOf, Line
  <2>3. HasCart(c)
    BY <1>1, <1>8, ConstantsAssumption DEF FitsCart, HasCart
  <2> DEFINE l == [item |-> i, qty |-> MoreOf(cartLines[c][k].qty, q)]
  <2>4. l \in Line
    BY <2>2 DEF Line
  <2>5. Open(t, c, "set", NoSeller, <<l>>, k)
    BY <1>8
  <2> HIDE DEF l
  <2>6. <<l>> \in Seq(Line) /\ Len(<<l>>) = 1
    BY <2>4
  <2> QED BY <1>3, <1>4, <2>1, <2>3, <2>5, <2>6, OpenRequest DEF Saving
<1> QED BY <1>5, <1>6, <1>7, <1>8 DEF addItem

LEMMA UpdateItem ==
  ASSUME CartInv, NEW t \in Requests, NEW c \in Customers,
         NEW k \in DOMAIN cartLines[c], NEW q \in 1..MaxQty, updateItem(t, c, k, q)
  PROVE  Carts' /\ Requesting'
<1> DEFINE l == [item |-> cartLines[c][k].item, qty |-> q]
<1>1. /\ cartLines[c] \in Seq(Line)
      /\ k \in 1 .. Len(cartLines[c]) /\ k \in Nat
      /\ cartLines[c][k] \in Line
  BY LenProperties, ElementOfSeq DEF CartInv, Carts
<1>2. HasCart(c)
  BY <1>1, EmptySeq DEF CartInv, Carts, CartIsNeverEmpty
<1>3. l \in Line
  BY <1>1 DEF Line
<1>4. Open(t, c, "set", NoSeller, <<l>>, k) /\ UNCHANGED cartVars
  BY DEF updateItem
<1> HIDE DEF l
<1>5. <<l>> \in Seq(Line) /\ Len(<<l>>) = 1
  BY <1>3
<1> QED BY <1>1, <1>2, <1>4, <1>5, OpenRequest DEF Saving

LEMMA RemoveAtProperties ==
  ASSUME NEW S, NEW seq \in Seq(S), NEW k \in 1 .. Len(seq)
  PROVE  /\ RemoveAt(seq, k) \in Seq(S)
         /\ Len(RemoveAt(seq, k)) = Len(seq) - 1
         /\ \A j \in 1 .. Len(seq) - 1 : \E i \in 1 .. Len(seq) : RemoveAt(seq, k)[j] = seq[i]
<1> DEFINE a == SubSeq(seq, 1, k - 1)
           b == SubSeq(seq, k + 1, Len(seq))
<1>0. Len(seq) \in Nat /\ k \in Int /\ \A i \in 1 .. Len(seq) : seq[i] \in S
  BY LenProperties, ElementOfSeq
<1>1. /\ a \in Seq(S) /\ Len(a) = k - 1
      /\ \A i \in 1 .. k - 1 : a[i] = seq[i]
  <2>1. \A i \in 1 .. k - 1 : seq[i] \in S
    BY <1>0
  <2> QED BY <1>0, <2>1, SubSeqProperties
<1>2. /\ b \in Seq(S) /\ Len(b) = Len(seq) - k
      /\ \A i \in 1 .. Len(seq) - k : b[i] = seq[k + i]
  <2>1. \A i \in k + 1 .. Len(seq) : seq[i] \in S
    BY <1>0
  <2> QED BY <1>0, <2>1, SubSeqProperties
<1> HIDE DEF a, b
<1>3. /\ a \o b \in Seq(S)
      /\ Len(a \o b) = Len(a) + Len(b)
      /\ \A i \in 1 .. Len(a) + Len(b) : (a \o b)[i] = IF i <= Len(a) THEN a[i] ELSE b[i - Len(a)]
  BY <1>1, <1>2, ConcatProperties
<1>4. ASSUME NEW j \in 1 .. Len(seq) - 1 PROVE \E i \in 1 .. Len(seq) : (a \o b)[j] = seq[i]
  <2>1. CASE j <= k - 1
    BY <1>0, <1>1, <1>2, <1>3, <2>1
  <2>2. CASE j > k - 1
    <3>1. (a \o b)[j] = b[j - (k - 1)] /\ j - (k - 1) \in 1 .. Len(seq) - k
      BY <1>0, <1>1, <1>2, <1>3, <2>2
    <3>2. b[j - (k - 1)] = seq[j + 1] /\ j + 1 \in 1 .. Len(seq)
      BY <1>0, <1>2, <3>1
    <3> QED BY <3>1, <3>2
  <2>3. j \in Int /\ k - 1 \in Int
    BY <1>0
  <2>4. j <= k - 1 \/ j > k - 1
    BY <2>3
  <2> QED BY <2>1, <2>2, <2>4
<1>5. RemoveAt(seq, k) = a \o b
  BY DEF RemoveAt, a, b
<1>6. Len(a \o b) = Len(seq) - 1
  BY <1>0, <1>1, <1>2, <1>3
<1> QED BY <1>3, <1>4, <1>5, <1>6

LEMMA RemoveItem ==
  ASSUME CartInv, NEW t \in Requests, NEW c \in Customers,
         NEW k \in DOMAIN cartLines[c], removeItem(t, c, k)
  PROVE  Carts' /\ Requesting'
<1> DEFINE l == RemoveAt(cartLines[c], k)
<1>1. /\ cartLines[c] \in Seq(Line) /\ Len(cartLines[c]) \in Nat
      /\ k \in 1 .. Len(cartLines[c])
  BY LenProperties DEF CartInv, Carts
<1>2. HasCart(c)
  BY <1>1, EmptySeq DEF CartInv, Carts, CartIsNeverEmpty
<1>3. UNCHANGED cartVars
  BY DEF removeItem
<1>4. CASE Len(cartLines[c]) = 1
  <2>1. Open(t, c, "deleteOne", NoSeller, <<>>, 0)
    BY <1>4 DEF removeItem, IsLastLine
  <2> QED BY <1>2, <1>3, <2>1, OpenRequest, EmptySeq DEF Saving
<1>5. CASE Len(cartLines[c]) # 1
  <2>1. Open(t, c, "setAll", NoSeller, l, 0)
    BY <1>5 DEF removeItem, IsLastLine
  <2>2. l \in Seq(Line) /\ Len(l) = Len(cartLines[c]) - 1
    BY <1>1, RemoveAtProperties
  <2> HIDE DEF l
  <2>3. l # <<>>
    <3>1. Len(cartLines[c]) - 1 # 0
      BY <1>1, <1>5
    <3> QED BY <2>2, <3>1, EmptySeq
  <2> QED BY <1>2, <1>3, <2>1, <2>2, <2>3, OpenRequest DEF Saving
<1> QED BY <1>4, <1>5

(* The lines a reorder keeps are lines of the order.                        *)
LEMMA KeptLines ==
  ASSUME CartInv, NEW o \in Orders, NEW pick \in [1 .. Cardinality(Kept(o)) -> Kept(o)]
  PROVE  /\ [n \in DOMAIN pick |-> orderLines[o][pick[n]]] \in Seq(Line)
         /\ \A n \in DOMAIN pick : pick[n] \in DOMAIN orderLines[o]
<1>1. orderLines[o] \in Seq(Line)
  BY DEF CartInv, Others
<1>2. DOMAIN orderLines[o] = 1 .. Len(orderLines[o]) /\ Len(orderLines[o]) \in Nat
  BY <1>1, LenProperties
<1>3. IsFiniteSet(Kept(o))
  <2>1. IsFiniteSet(1 .. Len(orderLines[o])) /\ Kept(o) \subseteq 1 .. Len(orderLines[o])
    BY <1>2, FS_Interval DEF Kept
  <2> QED BY <2>1, FS_Subset
<1>4. Cardinality(Kept(o)) \in Nat /\ DOMAIN pick = 1 .. Cardinality(Kept(o))
  BY <1>3, FS_CardinalityType
<1>5. \A n \in DOMAIN pick : pick[n] \in DOMAIN orderLines[o] /\ orderLines[o][pick[n]] \in Line
  BY <1>1, <1>2, <1>4, ElementOfSeq DEF Kept
<1>6. [n \in 1 .. Cardinality(Kept(o)) |-> orderLines[o][pick[n]]] \in Seq(Line)
  BY <1>4, <1>5, IsASeq
<1> QED BY <1>4, <1>5, <1>6

LEMMA Reorder ==
  ASSUME CartInv, NEW t \in Requests, NEW c \in Customers, NEW o \in Orders,
         reorderFromOrder(t, c, o)
  PROVE  Carts' /\ Requesting'
<1>1. PICK pick \in [1 .. Cardinality(Kept(o)) -> Kept(o)] :
        LET lines == [n \in DOMAIN pick |-> orderLines[o][pick[n]]] IN
        /\ orderSeller[o] \in accepting
        /\ lines # <<>>
        /\ Open(t, c, IF HasCart(c) THEN "setAll" ELSE "insert", orderSeller[o], lines, 0)
        /\ UNCHANGED cartVars
  BY DEF reorderFromOrder
<1> DEFINE lines == [n \in DOMAIN pick |-> orderLines[o][pick[n]]]
<1>2. lines \in Seq(Line)
  BY KeptLines
<1>3. orderSeller[o] \in Sellers
  BY <1>1 DEF CartInv, Others
<1>4. /\ lines # <<>> /\ UNCHANGED cartVars
      /\ Open(t, c, IF HasCart(c) THEN "setAll" ELSE "insert", orderSeller[o], lines, 0)
  BY <1>1
<1> HIDE DEF lines
<1> DEFINE at == IF HasCart(c) THEN "setAll" ELSE "insert"
<1>5. Open(t, c, at, orderSeller[o], lines, 0)
  BY <1>4
<1>6. /\ at \in {"insert"} \cup Saving /\ at # "set"
      /\ at \in Saving => HasCart(c)
  BY DEF Saving
<1> HIDE DEF at
<1> QED BY <1>2, <1>3, <1>4, <1>5, <1>6, OpenRequest

-----------------------------------------------------------------------------
(* A save                                                                   *)

LEMMA NewCart ==
  ASSUME CartInv, NEW c \in Customers, NEW s \in Sellers \cup {NoSeller},
         NEW lines \in Seq(Line), s # NoSeller <=> lines # <<>>, CartIs(c, s, lines)
  PROVE  /\ Carts'
         /\ \A d \in Customers :
              /\ cartSeller'[d] = IF d = c THEN s ELSE cartSeller[d]
              /\ cartLines'[d] = IF d = c THEN lines ELSE cartLines[d]
<1>1. /\ cartSeller' \in [Customers -> Sellers \cup {NoSeller}]
      /\ cartLines' \in [Customers -> Seq(Line)]
  BY DEF CartInv, Carts, CartIs
<1>2. \A d \in Customers :
        /\ cartSeller'[d] = IF d = c THEN s ELSE cartSeller[d]
        /\ cartLines'[d] = IF d = c THEN lines ELSE cartLines[d]
  BY DEF CartInv, Carts, CartIs
<1>3. CartIsNeverEmpty'
  BY <1>2 DEF CartInv, Carts, CartIsNeverEmpty, HasCart
<1> QED BY <1>1, <1>2, <1>3 DEF Carts

(* The other requests of the customer learn that the cart has moved on or   *)
(* is gone.                                                                 *)
LEMMA Outdate ==
  ASSUME CartInv, NEW t \in Requests, NEW c \in Customers, NEW state \in {"moved", "gone"},
         NEW s \in Sellers \cup {NoSeller}, NEW lines \in Seq(Line),
         s # NoSeller <=> lines # <<>>, state = "moved" => s # NoSeller,
         CartIs(c, s, lines), CloseAndOutdate(t, c, state)
  PROVE  Carts' /\ Requesting'
<1>1. /\ Carts'
      /\ \A d \in Customers :
           /\ cartSeller'[d] = IF d = c THEN s ELSE cartSeller[d]
           /\ cartLines'[d] = IF d = c THEN lines ELSE cartLines[d]
  BY NewCart
<1>2. req' = [u \in Requests |-> req'[u]]
  BY DEF CloseAndOutdate
<1>3. ASSUME NEW u \in Requests PROVE Fits(req[u])'
  <2>1. Fits(req[u])
    BY DEF CartInv, Requesting
  <2>2. CASE u = t
    <3>1. req'[u] = Idle
      BY <2>2 DEF CloseAndOutdate
    <3> QED BY <3>1, EmptySeq DEF Fits, Idle, Request, Saving
  <2>3. CASE u # t /\ req[u].customer = c /\ req[u].read \in {"current", "moved"}
    <3>1. req'[u] = [req[u] EXCEPT !.read = state]
      BY <2>3 DEF CloseAndOutdate
    <3>2. /\ req'[u] \in Request
          /\ req'[u].read = state /\ req'[u].customer = c
          /\ req'[u].at = req[u].at /\ req'[u].seller = req[u].seller
          /\ req'[u].lines = req[u].lines
      BY <2>1, <2>3, <3>1 DEF Fits, Request
    <3>3. state = "moved" => HasCart(c)'
      BY <1>1 DEF HasCart
    <3> QED BY <2>1, <2>3, <3>2, <3>3 DEF Fits
  <2>4. CASE u # t /\ ~ (req[u].customer = c /\ req[u].read \in {"current", "moved"})
    <3>1. req'[u] = req[u]
      BY <2>4 DEF CloseAndOutdate
    <3>2. CASE req[u].customer # c
      <4>1. req[u].customer \in Customers =>
              /\ cartSeller'[req[u].customer] = cartSeller[req[u].customer]
              /\ cartLines'[req[u].customer] = cartLines[req[u].customer]
        BY <1>1, <3>2
      <4> QED BY <2>1, <3>1, <4>1 DEF Fits, HasCart, Saving
    <3>3. CASE req[u].customer = c
      <4>1. req[u].read \in {"none", "gone"}
        BY <2>1, <2>4, <3>3 DEF Fits, Request
      <4> QED BY <2>1, <3>1, <4>1 DEF Fits, Saving
    <3> QED BY <3>2, <3>3
  <2> QED BY <2>2, <2>3, <2>4
<1> QED BY <1>1, <1>2, <1>3 DEF Requesting

(* The cart is gone.                                                        *)
LEMMA CartGone ==
  ASSUME CartInv, NEW t \in Requests, NEW c \in Customers,
         NoCart(c), CloseAndOutdate(t, c, "gone")
  PROVE  Carts' /\ Requesting'
<1>1. <<>> \in Seq(Line)
  BY EmptySeq
<1> QED BY <1>1, Outdate DEF NoCart

(* The cart changes as the open requests of its customer can bear: it is    *)
(* inserted where there was none, or loses no line.                         *)
LEMMA KeepVersion ==
  ASSUME CartInv, NEW t \in Requests, NEW c \in Customers,
         NEW s \in Sellers, NEW lines \in Seq(Line), lines # <<>>,
         HasCart(c) => Len(lines) = Len(cartLines[c]),
         CartIs(c, s, lines), Close(t)
  PROVE  Carts' /\ Requesting'
<1>0. s \in Sellers \cup {NoSeller} /\ s # NoSeller
  BY ConstantsAssumption
<1>1. /\ Carts'
      /\ \A d \in Customers :
           /\ cartSeller'[d] = IF d = c THEN s ELSE cartSeller[d]
           /\ cartLines'[d] = IF d = c THEN lines ELSE cartLines[d]
  BY <1>0, NewCart
<1>2. req' = [u \in Requests |-> req'[u]]
      /\ \A u \in Requests : req'[u] = IF u = t THEN Idle ELSE req[u]
  BY DEF Close, CartInv, Requesting
<1>3. ASSUME NEW u \in Requests PROVE Fits(req[u])'
  <2>1. Fits(req[u])
    BY DEF CartInv, Requesting
  <2>2. CASE u = t
    <3>1. req'[u] = Idle
      BY <1>2, <2>2
    <3> QED BY <3>1, EmptySeq DEF Fits, Idle, Request, Saving
  <2>3. CASE u # t /\ req[u].customer = c
    <3>1. HasCart(c)'
      BY <1>0, <1>1 DEF HasCart
    <3>2. HasCart(c) => Len(cartLines'[c]) = Len(cartLines[c])
      BY <1>1
    <3> QED BY <1>2, <2>1, <2>3, <3>1, <3>2 DEF Fits, Saving
  <2>4. CASE u # t /\ req[u].customer # c
    <3>1. req[u].customer \in Customers =>
            /\ cartSeller'[req[u].customer] = cartSeller[req[u].customer]
            /\ cartLines'[req[u].customer] = cartLines[req[u].customer]
      BY <1>1, <2>4
    <3> QED BY <1>2, <2>1, <2>4, <3>1 DEF Fits, HasCart, Saving
  <2> QED BY <2>2, <2>3, <2>4
<1> QED BY <1>1, <1>2, <1>3 DEF Requesting

(* What there is of a cart.                                                 *)
LEMMA TheCart ==
  ASSUME CartInv, NEW c \in Customers
  PROVE  /\ cartSeller[c] \in Sellers \cup {NoSeller}
         /\ cartLines[c] \in Seq(Line) /\ Len(cartLines[c]) \in Nat
         /\ HasCart(c) => /\ cartSeller[c] \in Sellers /\ cartSeller[c] # NoSeller
                          /\ cartLines[c] # <<>> /\ Len(cartLines[c]) > 0
<1>1. cartSeller[c] \in Sellers \cup {NoSeller} /\ cartLines[c] \in Seq(Line)
  BY DEF CartInv, Carts
<1>2. Len(cartLines[c]) \in Nat /\ (cartLines[c] # <<>> => Len(cartLines[c]) # 0)
  BY <1>1, LenProperties, EmptySeq
<1>3. HasCart(c) => cartLines[c] # <<>> /\ cartSeller[c] # NoSeller
  BY DEF CartInv, Carts, CartIsNeverEmpty, HasCart
<1> QED BY <1>1, <1>2, <1>3

LEMMA PushSave ==
  ASSUME CartInv, NEW t \in Requests, NEW c \in Customers, HasCart(c),
         NEW more \in Seq(Line), more # <<>>,
         CartIs(c, cartSeller[c], cartLines[c] \o more), CloseAndOutdate(t, c, "moved")
  PROVE  Carts' /\ Requesting'
<1>1. cartLines[c] \in Seq(Line) /\ cartSeller[c] \in Sellers \cup {NoSeller}
      /\ cartSeller[c] # NoSeller
  BY TheCart
<1>2. /\ cartLines[c] \o more \in Seq(Line)
      /\ Len(cartLines[c] \o more) = Len(cartLines[c]) + Len(more)
  BY <1>1, ConcatProperties
<1>3. Len(cartLines[c]) \in Nat /\ Len(more) \in Nat /\ Len(more) # 0
  BY <1>1, LenProperties, EmptySeq
<1>4. Len(cartLines[c] \o more) # 0
  BY <1>2, <1>3
<1>5. cartLines[c] \o more # <<>>
  BY <1>2, <1>4, EmptySeq
<1> QED BY <1>1, <1>2, <1>5, Outdate

LEMMA SetSave ==
  ASSUME CartInv, NEW t \in Requests, NEW c \in Customers, HasCart(c),
         NEW k \in 1 .. Len(cartLines[c]), NEW l \in Line,
         CartIs(c, cartSeller[c], [cartLines[c] EXCEPT ![k] = l]), Close(t)
  PROVE  Carts' /\ Requesting'
<1> DEFINE lines == [cartLines[c] EXCEPT ![k] = l]
<1>1. /\ cartLines[c] \in Seq(Line) /\ cartSeller[c] \in Sellers
      /\ Len(cartLines[c]) \in Nat /\ Len(cartLines[c]) > 0
  BY TheCart
<1>2. lines \in Seq(Line) /\ Len(lines) = Len(cartLines[c])
  BY <1>1, ExceptSeq
<1>3. CartIs(c, cartSeller[c], lines)
  OBVIOUS
<1> HIDE DEF lines
<1>4. Len(lines) # 0
  BY <1>1, <1>2
<1>5. lines # <<>>
  BY <1>2, <1>4, EmptySeq
<1> QED BY <1>1, <1>2, <1>3, <1>5, KeepVersion

LEMMA Saves ==
  ASSUME CartInv, NEW t \in Requests, CartSave(t)
  PROVE  Carts' /\ Requesting'
<1>1. PICK r : r = req[t]
  OBVIOUS
<1>2. PICK c : c = req[t].customer
  OBVIOUS
<1>3. /\ r.at # "idle" => c \in Customers
      /\ r.at \in Saving /\ r.read # "gone" => HasCart(c)
      /\ r.at = "insert" => r.seller \in Sellers
      /\ r.at \in {"insert", "push", "setAll"} => r.lines # <<>>
      /\ r.at = "set" => /\ Len(r.lines) = 1
                         /\ r.read = "current" => r.index \in 1 .. Len(cartLines[c])
      /\ r \in Request
  BY <1>1, <1>2 DEF CartInv, Requesting, Fits
<1>4. r.lines \in Seq(Line) /\ r.seller \in Sellers \cup {NoSeller}
  BY <1>3 DEF Request
<1>5. ASSUME Fails(t) PROVE Carts' /\ Requesting'
  BY <1>5, EndRequest DEF Fails
<1>6. CASE InsertCart(t)
  <2>1. /\ r.at = "insert"
        /\ \/ ~ HasCart(c) /\ CartIs(c, r.seller, r.lines) /\ Close(t)
           \/ Fails(t)
    BY <1>1, <1>2, <1>6 DEF InsertCart
  <2> QED BY <1>3, <1>4, <1>5, <2>1, KeepVersion
<1>7. CASE PushLine(t)
  <2>1. /\ r.at = "push"
        /\ \/ r.read # "gone" /\ CartIs(c, cartSeller[c], cartLines[c] \o r.lines)
              /\ CloseAndOutdate(t, c, "moved")
           \/ Fails(t)
    BY <1>1, <1>2, <1>7 DEF PushLine
  <2> QED BY <1>3, <1>4, <1>5, <2>1, PushSave DEF Saving
<1>8. CASE SetLine(t)
  <2> DEFINE l == [item |-> cartLines[c][r.index].item, qty |-> r.lines[1].qty]
  <2>1. /\ r.at = "set"
        /\ \/ r.read = "current" /\ Close(t)
              /\ CartIs(c, cartSeller[c], [cartLines[c] EXCEPT ![r.index] = l])
           \/ Fails(t)
    BY <1>1, <1>2, <1>8 DEF SetLine
  <2>2. CASE r.read = "current" /\ Close(t)
             /\ CartIs(c, cartSeller[c], [cartLines[c] EXCEPT ![r.index] = l])
    <3>1. HasCart(c) /\ c \in Customers /\ r.index \in 1 .. Len(cartLines[c])
          /\ Len(r.lines) = 1
      BY <1>3, <2>1, <2>2 DEF Saving
    <3>2. cartLines[c][r.index] \in Line
      BY <3>1, TheCart, ElementOfSeq
    <3>3. r.lines[1] \in Line
      BY <1>4, <3>1, ElementOfSeq
    <3>4. l \in Line
      BY <3>2, <3>3 DEF Line
    <3> HIDE DEF l
    <3> QED BY <2>2, <3>1, <3>4, SetSave
  <2> QED BY <1>5, <2>1, <2>2
<1>9. CASE SetLines(t)
  <2> DEFINE s == IF r.seller = NoSeller THEN cartSeller[c] ELSE r.seller
  <2>1. /\ r.at = "setAll"
        /\ \/ r.read = "current" /\ CartIs(c, s, r.lines)
              /\ CloseAndOutdate(t, c, "moved")
           \/ Fails(t)
    BY <1>1, <1>2, <1>9 DEF SetLines
  <2>2. CASE r.read = "current" /\ CartIs(c, s, r.lines)
             /\ CloseAndOutdate(t, c, "moved")
    <3>1. HasCart(c) /\ c \in Customers /\ r.lines # <<>>
      BY <1>3, <2>1, <2>2 DEF Saving
    <3>2. s \in Sellers \cup {NoSeller} /\ s # NoSeller
      BY <1>4, <3>1, TheCart
    <3> HIDE DEF s
    <3> QED BY <1>4, <2>2, <3>1, <3>2, Outdate
  <2> QED BY <1>5, <2>1, <2>2
<1>10. CASE DeleteCart(t)
  <2>1. /\ r.at = "deleteOne"
        /\ \/ NoCart(c) /\ CloseAndOutdate(t, c, "gone")
           \/ Fails(t)
    BY <1>1, <1>2, <1>10 DEF DeleteCart
  <2> QED BY <1>3, <1>5, <2>1, CartGone
<1> QED BY <1>6, <1>7, <1>8, <1>9, <1>10 DEF CartSave

-----------------------------------------------------------------------------
(* createOrder                                                              *)

LEMMA OrderSteps ==
  ASSUME CartInv, NEW t \in Requests, OrderStep(t)
  PROVE  Carts' /\ Requesting'
<1>1. PICK r : r = req[t]
  OBVIOUS
<1>2. PICK c : c = req[t].customer
  OBVIOUS
<1>3. r \in Request /\ (r.at # "idle" => c \in Customers)
  BY <1>1, <1>2 DEF CartInv, Requesting, Fits
<1>4. ASSUME Close(t), UNCHANGED cartVars PROVE Carts' /\ Requesting'
  BY <1>4, EndRequest
<1>5. ASSUME NEW at \in {"validate", "create", "clearCart"}, r.at # "idle",
             Goto(t, at), UNCHANGED cartVars
      PROVE  Carts' /\ Requesting'
  <2> DEFINE n == [r EXCEPT !.at = at]
  <2>1. req' = [req EXCEPT ![t] = n]
    BY <1>1, <1>5 DEF Goto
  <2>2. Fits(n)
    BY <1>1, <1>2, <1>3, <1>5 DEF Fits, Request, Saving
  <2> HIDE DEF n
  <2> QED BY <1>5, <2>1, <2>2, ReplaceRequest DEF cartVars
<1>6. CASE createRestaurantOrder(t)
  <2> DEFINE n == [at |-> "checkAvailable", customer |-> c, read |-> "none",
                   seller |-> cartSeller[c], lines |-> cartLines[c],
                   index |-> 0, code |-> r.code]
  <2>1. /\ r.at = "getCart" /\ UNCHANGED cartVars
        /\ req' = [req EXCEPT ![t] = n] \/ Close(t)
    BY <1>1, <1>2, <1>6 DEF createRestaurantOrder
  <2>2. Fits(n)
    BY <1>3, <2>1, TheCart DEF Fits, Request, Saving
  <2> HIDE DEF n
  <2> QED BY <1>4, <2>1, <2>2, ReplaceRequest DEF cartVars
<1>7. CASE checkAvailable(t)
  <2>1. r.at # "idle" /\ UNCHANGED cartVars
        /\ \/ Close(t)
           \/ Goto(t, IF r.code THEN "validate" ELSE "create")
    BY <1>1, <1>7 DEF checkAvailable
  <2> QED BY <1>4, <1>5, <2>1
<1>8. CASE validate(t)
  <2>1. r.at # "idle" /\ UNCHANGED cartVars /\ (Close(t) \/ Goto(t, "create"))
    BY <1>1, <1>8 DEF validate
  <2> QED BY <1>4, <1>5, <2>1
<1>9. CASE PlaceOrder(t)
  <2> DEFINE n == [at |-> IF r.code THEN "redeem" ELSE "clearCart",
                   customer |-> c, read |-> "none", seller |-> NoSeller,
                   lines |-> <<>>, index |-> 0, code |-> r.code]
  <2>1. /\ r.at = "create" /\ UNCHANGED <<cartSeller, cartLines>>
        /\ req' = [req EXCEPT ![t] = n]
    BY <1>1, <1>2, <1>9 DEF PlaceOrder, cartVars
  <2>2. Fits(n)
    BY <1>3, <2>1, EmptySeq DEF Fits, Request, Saving
  <2> HIDE DEF n
  <2> QED BY <2>1, <2>2, ReplaceRequest
<1>10. CASE redeem(t)
  <2>1. r.at # "idle" /\ UNCHANGED cartVars /\ Goto(t, "clearCart")
    BY <1>1, <1>10 DEF redeem
  <2> QED BY <1>5, <2>1
<1>11. CASE FinishOrder(t)
  <2>1. r.at = "clearCart" /\ NoCart(c) /\ CloseAndOutdate(t, c, "gone")
    BY <1>1, <1>2, <1>11 DEF FinishOrder
  <2> QED BY <1>3, <2>1, CartGone
<1> QED BY <1>6, <1>7, <1>8, <1>9, <1>10, <1>11 DEF OrderStep

LEMMA StartOrder ==
  ASSUME CartInv, NEW t \in Requests, NEW c \in Customers, NEW code \in BOOLEAN,
         createOrder(t, c, code)
  PROVE  Carts' /\ Requesting'
<1> DEFINE n == [at |-> IF cartSeller[c] \in Stores THEN "checkAvailable" ELSE "getCart",
                 customer |-> c, read |-> "none", seller |-> cartSeller[c],
                 lines |-> IF cartSeller[c] \in Stores THEN cartLines[c] ELSE <<>>,
                 index |-> 0, code |-> code]
<1>1. UNCHANGED cartVars /\ req' = [req EXCEPT ![t] = n]
  BY DEF createOrder
<1>2. Fits(n)
  BY TheCart, EmptySeq DEF Fits, Request, Saving
<1> HIDE DEF n
<1> QED BY <1>1, <1>2, ReplaceRequest DEF cartVars

-----------------------------------------------------------------------------
(* The invariant                                                            *)

LEMMA CartsInit == Init => CartInv
<1> SUFFICES ASSUME Init PROVE CartInv
  OBVIOUS
<1>1. <<>> \in Seq(Line)
  BY EmptySeq
<1>2. Carts
  BY <1>1 DEF Init, Carts, CartIsNeverEmpty, HasCart
<1>3. Others
  BY <1>1 DEF Init, Others
<1>4. Requesting
  BY IdleFits DEF Init, Requesting
<1> QED BY <1>2, <1>3, <1>4 DEF CartInv

(* Carts, orders, code and sellers stay of their types.                     *)
LEMMA OthersKept ==
  ASSUME CartInv, Next
  PROVE  Others'
<1>0. Others
  BY DEF CartInv
<1>1. ASSUME NEW t \in Requests, RequestStep(t) PROVE Others'
  <2>1. ASSUME NEW c \in Customers, CartRequest(t, c) PROVE Others'
    BY <1>0, <2>1 DEF CartRequest, addItem, updateItem, removeItem, reorderFromOrder,
         clearCart, NoCart, Others, catalogVars, cartVars, orderVars, codeVars
  <2>2. ASSUME NEW c \in Customers, NEW code \in BOOLEAN, createOrder(t, c, code)
        PROVE  Others'
    BY <1>0, <2>2 DEF createOrder, Others, catalogVars, cartVars, orderVars, codeVars
  <2>3. CASE CartSave(t)
    <3>1. CASE PushLine(t)
      <4>1. req[t].customer \in Customers
        BY <3>1 DEF PushLine, CartInv, Requesting, Fits
      <4> QED BY <1>0, <3>1, <4>1
              DEF PushLine, Fails, Others, catalogVars, cartVars, orderVars, codeVars
    <3> QED BY <1>0, <2>3, <3>1 DEF CartSave, InsertCart, SetLine, SetLines, DeleteCart,
              Fails, NoCart, Others, catalogVars, cartVars, orderVars, codeVars
  <2>4. CASE OrderStep(t)
    <3>1. CASE createRestaurantOrder(t) \/ checkAvailable(t) \/ validate(t)
      BY <1>0, <3>1 DEF createRestaurantOrder, checkAvailable, validate,
           Others, catalogVars, cartVars, orderVars, codeVars
    <3>2. CASE PlaceOrder(t)
      <4>1. PICK o : o = CHOOSE x \in Room : TRUE
        OBVIOUS
      <4>2. o \in Orders
        BY <3>2, <4>1 DEF PlaceOrder, Room
      <4>3. /\ req[t].customer \in Customers
            /\ req[t].seller \in Sellers \cup {NoSeller}
            /\ req[t].lines \in Seq(Line)
        BY <3>2 DEF PlaceOrder, CartInv, Requesting, Fits, Request
      <4>4. /\ customerId' = [customerId EXCEPT ![o] = req[t].customer]
            /\ orderSeller' = [orderSeller EXCEPT ![o] = req[t].seller]
            /\ orderLines' = [orderLines EXCEPT ![o] = req[t].lines]
            /\ discounted' \in {discounted, discounted \cup {o}}
            /\ UNCHANGED <<accepting, available, raced, isActive, usedCount>>
        BY <3>2, <4>1 DEF PlaceOrder, catalogVars, cartVars, codeVars
      <4> QED BY <1>0, <4>2, <4>3, <4>4 DEF Others
    <3>3. CASE redeem(t)
      BY <1>0, <3>3 DEF redeem, Others, catalogVars, cartVars, orderVars
    <3>4. CASE FinishOrder(t)
      BY <1>0, <3>4 DEF FinishOrder, NoCart, Others, catalogVars, orderVars, codeVars
    <3> QED BY <2>4, <3>1, <3>2, <3>3, <3>4 DEF OrderStep
  <2>5. CASE Die(t)
    BY <1>0, <2>5 DEF Die, Others, catalogVars, cartVars, orderVars, codeVars
  <2> QED BY <1>1, <2>1, <2>2, <2>3, <2>4, <2>5 DEF RequestStep
<1>2. ASSUME NEW s \in Sellers, toggleOpen(s) PROVE Others'
  BY <1>0, <1>2 DEF toggleOpen, Others, cartVars, orderVars, codeVars
<1>3. ASSUME NEW i \in Items, toggleItemAvailability(i) PROVE Others'
  BY <1>0, <1>3 DEF toggleItemAvailability, Others, cartVars, orderVars, codeVars
<1>4. CASE updatePromoCode
  BY <1>0, <1>4 DEF updatePromoCode, Others, catalogVars, cartVars, orderVars
<1> QED BY <1>1, <1>2, <1>3, <1>4 DEF Next

LEMMA CartsUnchanged ==
  ASSUME CartInv, UNCHANGED <<cartSeller, cartLines, req>>
  PROVE  Carts' /\ Requesting'
<1>1. Carts'
  BY DEF CartInv, Carts, CartIsNeverEmpty, HasCart
<1>2. ASSUME NEW t \in Requests PROVE Fits(req[t])'
  BY DEF CartInv, Requesting, Fits, HasCart
<1> QED BY <1>1, <1>2 DEF CartInv, Requesting

LEMMA CartsNext ==
  ASSUME CartInv, [Next]_vars
  PROVE  CartInv'
<1>1. CASE Next
  <2>1. Carts' /\ Requesting'
    <3>1. ASSUME NEW t \in Requests, NEW c \in Customers, CartRequest(t, c)
          PROVE  Carts' /\ Requesting'
      <4>1. CASE clearCart(t, c)
        BY <4>1, CartGone DEF clearCart
      <4> QED BY <3>1, <4>1, AddItem, UpdateItem, RemoveItem, Reorder DEF CartRequest
    <3>2. ASSUME NEW t \in Requests, Die(t) PROVE Carts' /\ Requesting'
      BY <3>2, EndRequest DEF Die
    <3>3. ASSUME NEW t \in Requests, RequestStep(t) PROVE Carts' /\ Requesting'
      BY <3>1, <3>2, <3>3, StartOrder, Saves, OrderSteps DEF RequestStep
    <3>4. CASE \/ \E s \in Sellers : toggleOpen(s)
               \/ \E i \in Items : toggleItemAvailability(i)
               \/ updatePromoCode
      <4>1. UNCHANGED <<cartSeller, cartLines, req>>
        BY <3>4 DEF toggleOpen, toggleItemAvailability, updatePromoCode, cartVars
      <4> QED BY <4>1, CartsUnchanged
    <3> QED BY <1>1, <3>3, <3>4 DEF Next
  <2> QED BY <1>1, <2>1, OthersKept DEF CartInv
<1>2. CASE UNCHANGED vars
  <2>1. Carts' /\ Requesting'
    BY <1>2, CartsUnchanged DEF vars, cartVars
  <2>2. Others'
    BY <1>2 DEF CartInv, Others, vars, catalogVars, cartVars, orderVars, codeVars
  <2> QED BY <2>1, <2>2 DEF CartInv
<1> QED BY <1>1, <1>2

(* For any number of tabs and restarts, carts, orders, codes and requests   *)
(* keep to their types, and the invariant of the carts holds.               *)
THEOREM CartsInvariant == Spec => [] CartInv
<1>1. CartInv /\ [Next]_vars => CartInv'
  BY CartsNext
<1> QED BY <1>1, CartsInit, PTL DEF Spec

(* The variables have their types.                                          *)
THEOREM CheckoutTypeOK == Spec => [] TypeOK
<1>1. CartInv => TypeOK
  BY DEF CartInv, Carts, Others, Requesting, Fits, TypeOK
<1> QED BY <1>1, CartsInvariant, PTL

(* However requests overlap and wherever they are cut off, no cart document *)
(* is left without lines, and no lines without a document.                  *)
THEOREM CartsAreNeverEmpty == Spec => [] CartIsNeverEmpty
<1>1. CartInv => CartIsNeverEmpty
  BY DEF CartInv, Carts
<1> QED BY <1>1, CartsInvariant, PTL

-----------------------------------------------------------------------------
(* The sellers of carts and orders                                          *)

OneFrom(lines, s) == \A k \in DOMAIN lines : SellerOf[lines[k].item] = s

(* What a request is going to write, or to order, is one seller's; for a    *)
(* push and a save of the whole cart that is so while the cart is as it was *)
(* read.                                                                    *)
From(r) ==
  /\ r.at \in {"insert", "checkAvailable", "validate", "create"} => OneFrom(r.lines, r.seller)
  /\ r.at = "push" /\ r.read = "current" => OneFrom(r.lines, cartSeller[r.customer])
  /\ r.at = "setAll" /\ r.read = "current" =>
       OneFrom(r.lines, IF r.seller = NoSeller THEN cartSeller[r.customer] ELSE r.seller)

CartsOfOne == \A c \in Customers \ raced : OneFrom(cartLines[c], cartSeller[c])

OrdersOfOne ==
  \A o \in Orders : customerId[o] \notin raced => OneFrom(orderLines[o], orderSeller[o])

RequestsOfOne == \A t \in Requests : req[t].customer \notin raced => From(req[t])

SellerInv == CartInv /\ CartsOfOne /\ OrdersOfOne /\ RequestsOfOne

SellersKept == CartsOfOne' /\ OrdersOfOne' /\ RequestsOfOne'

SellersStay == UNCHANGED <<cartSeller, cartLines, raced, customerId, orderSeller, orderLines>>

(* A request changes, and no cart or order does.                            *)
LEMMA ReplaceSellers ==
  ASSUME SellerInv, NEW t \in Requests, NEW r,
         req' = [req EXCEPT ![t] = r], SellersStay, r.customer \notin raced => From(r)
  PROVE  SellersKept
<1>1. \A u \in Requests : req'[u] = IF u = t THEN r ELSE req[u]
  BY DEF SellerInv, CartInv, Requesting
<1>2. CartsOfOne' /\ OrdersOfOne'
  BY DEF SellerInv, SellersStay, CartsOfOne, OrdersOfOne, OneFrom
<1>3. ASSUME NEW u \in Requests, req'[u].customer \notin raced'
      PROVE  From(req[u])'
  <2>1. CASE u = t
    BY <1>1, <1>3, <2>1 DEF From, OneFrom, SellersStay
  <2>2. CASE u # t
    BY <1>1, <1>3, <2>2 DEF SellerInv, RequestsOfOne, From, OneFrom, SellersStay
  <2> QED BY <2>1, <2>2
<1> QED BY <1>2, <1>3 DEF SellersKept, RequestsOfOne

LEMMA EndSellers ==
  ASSUME SellerInv, NEW t \in Requests, Close(t), SellersStay
  PROVE  SellersKept
<1>1. From(Idle)
  BY DEF Idle, From
<1> QED BY <1>1, ReplaceSellers DEF Close

(* The other requests are where they were, and what they have read is no    *)
(* newer.                                                                   *)
LEMMA OthersKeep ==
  ASSUME CartInv, NEW t \in Requests, NEW c,
         Close(t) \/ \E state \in {"moved", "gone"} : CloseAndOutdate(t, c, state)
  PROVE  /\ req'[t] = Idle
         /\ \A u \in Requests \ {t} :
              /\ req'[u].customer = req[u].customer
              /\ req'[u].at = req[u].at
              /\ req'[u].seller = req[u].seller
              /\ req'[u].lines = req[u].lines
              /\ req'[u].read = "current" => req[u].read = "current"
<1>1. req'[t] = Idle
  BY DEF Close, CloseAndOutdate, CartInv, Requesting
<1>2. ASSUME NEW u \in Requests \ {t}
      PROVE  /\ req'[u].customer = req[u].customer
             /\ req'[u].at = req[u].at
             /\ req'[u].seller = req[u].seller
             /\ req'[u].lines = req[u].lines
             /\ req'[u].read = "current" => req[u].read = "current"
  <2>1. req[u] \in Request
    BY DEF CartInv, Requesting, Fits
  <2>2. CASE Close(t)
    BY <2>2 DEF Close, CartInv, Requesting
  <2>3. ASSUME NEW state \in {"moved", "gone"}, CloseAndOutdate(t, c, state)
        PROVE  req'[u] = req[u] \/ req'[u] = [req[u] EXCEPT !.read = state]
    BY <2>3 DEF CloseAndOutdate
  <2> QED BY <2>1, <2>2, <2>3 DEF Request
<1> QED BY <1>1, <1>2

(* A cart changes.  Requests that have read it are outdated, unless it keeps *)
(* its seller or there was none.                                            *)
LEMMA SaveSellers ==
  ASSUME SellerInv, NEW t \in Requests, NEW c \in Customers,
         NEW s \in Sellers \cup {NoSeller}, NEW lines,
         CartIs(c, s, lines), raced \subseteq raced', c \notin raced' => OneFrom(lines, s),
         UNCHANGED <<customerId, orderSeller, orderLines>>,
         \/ Close(t) /\ (HasCart(c) => s = cartSeller[c])
         \/ \E state \in {"moved", "gone"} : CloseAndOutdate(t, c, state)
  PROVE  SellersKept
<1>0. CartInv
  BY DEF SellerInv
<1>1. \A d \in Customers :
        /\ cartSeller'[d] = IF d = c THEN s ELSE cartSeller[d]
        /\ cartLines'[d] = IF d = c THEN lines ELSE cartLines[d]
  BY DEF SellerInv, CartInv, Carts, CartIs
<1>2. CartsOfOne'
  BY <1>1 DEF SellerInv, CartsOfOne, OneFrom
<1>3. OrdersOfOne'
  BY DEF SellerInv, OrdersOfOne, OneFrom
<1>4. req'[t] = Idle
  BY <1>0, OthersKeep
<1>5. ASSUME NEW u \in Requests, req'[u].customer \notin raced'
      PROVE  From(req[u])'
  <2>1. CASE u = t
    BY <1>4, <2>1 DEF From, Idle
  <2>2. CASE u # t
    <3>1. /\ req'[u].customer = req[u].customer
          /\ req'[u].at = req[u].at
          /\ req'[u].seller = req[u].seller
          /\ req'[u].lines = req[u].lines
          /\ req'[u].read = "current" => req[u].read = "current"
      BY <1>0, <2>2, OthersKeep
    <3>2. From(req[u]) /\ Fits(req[u])
      BY <1>5, <3>1 DEF SellerInv, RequestsOfOne, CartInv, Requesting
    <3>3. ASSUME req'[u].at \in {"push", "setAll"}, req'[u].read = "current"
          PROVE  cartSeller'[req[u].customer] = cartSeller[req[u].customer]
      <4>1. req[u].customer \in Customers /\ HasCart(req[u].customer)
        BY <3>1, <3>2, <3>3 DEF Fits, Saving
      <4>2. CASE req[u].customer # c
        BY <1>1, <4>1, <4>2
      <4>3. CASE req[u].customer = c /\ Close(t) /\ (HasCart(c) => s = cartSeller[c])
        BY <1>1, <4>1, <4>3
      <4>4. ASSUME req[u].customer = c,
                   NEW state \in {"moved", "gone"}, CloseAndOutdate(t, c, state)
            PROVE  FALSE
        <5>1. req[u].read = "current" /\ req[u] \in Request
          BY <3>1, <3>2, <3>3 DEF Fits
        <5>2. req'[u] = [req[u] EXCEPT !.read = state]
          BY <2>2, <4>4, <5>1 DEF CloseAndOutdate
        <5> QED BY <3>3, <5>1, <5>2 DEF Request
      <4> QED BY <4>2, <4>3, <4>4
    <3>4. CASE req'[u].at \in {"push", "setAll"} /\ req'[u].read = "current"
      BY <3>1, <3>2, <3>3, <3>4 DEF From, OneFrom
    <3>5. CASE ~ (req'[u].at \in {"push", "setAll"} /\ req'[u].read = "current")
      BY <3>1, <3>2, <3>5 DEF From, OneFrom
    <3> QED BY <3>4, <3>5
  <2> QED BY <2>1, <2>2
<1> QED BY <1>2, <1>3, <1>5 DEF SellersKept, RequestsOfOne

LEMMA GoneSellers ==
  ASSUME SellerInv, NEW t \in Requests, NEW c \in Customers,
         NoCart(c), CloseAndOutdate(t, c, "gone"),
         UNCHANGED <<customerId, orderSeller, orderLines>>
  PROVE  SellersKept
<1>1. OneFrom(<<>>, NoSeller) /\ CartIs(c, NoSeller, <<>>) /\ raced' = raced
  BY DEF OneFrom, NoCart
<1> QED BY <1>1, SaveSellers

-----------------------------------------------------------------------------
(* The requests                                                             *)

LEMMA OpenSellers ==
  ASSUME SellerInv, NEW t \in Requests, NEW c \in Customers, NEW at,
         NEW seller, NEW lines, NEW index,
         at \in {"insert"} \cup Saving,
         c \notin raced =>
           /\ at = "insert" => OneFrom(lines, seller)
           /\ at = "push" => OneFrom(lines, cartSeller[c])
           /\ at = "setAll" =>
                OneFrom(lines, IF seller = NoSeller THEN cartSeller[c] ELSE seller),
         Open(t, c, at, seller, lines, index), SellersStay
  PROVE  SellersKept
<1> DEFINE r == [at |-> at, customer |-> c,
                 read |-> IF HasCart(c) THEN "current" ELSE "none",
                 seller |-> seller, lines |-> lines, index |-> index, code |-> FALSE]
<1>1. req' = [req EXCEPT ![t] = r]
  BY DEF Open
<1>2. r.customer \notin raced => From(r)
  BY DEF From, Saving
<1> HIDE DEF r
<1> QED BY <1>1, <1>2, ReplaceSellers

LEMMA RequestSellers ==
  ASSUME SellerInv, NEW t \in Requests, NEW c \in Customers, CartRequest(t, c)
  PROVE  SellersKept
<1>0. CartInv /\ CartsOfOne /\ OrdersOfOne
  BY DEF SellerInv
<1>1. ASSUME NEW i \in Items, NEW q \in 1..MaxQty, addItem(t, c, i, q)
      PROVE  SellersKept
  <2> DEFINE s == SellerOf[i]
             line == [item |-> i, qty |-> q]
  <2>1. OneFrom(<<line>>, s) /\ s # NoSeller
    BY ConstantsAssumption DEF OneFrom
  <2>2. SellersStay
    BY <1>1 DEF addItem, SellersStay, cartVars, orderVars
  <2>3. \/ Open(t, c, "insert", s, <<line>>, 0)
        \/ Open(t, c, "setAll", s, <<line>>, 0)
        \/ FitsCart(c, s) /\ Open(t, c, "push", NoSeller, <<line>>, 0)
        \/ \E l, k : Open(t, c, "set", NoSeller, <<l>>, k)
    BY <1>1 DEF addItem
  <2> HIDE DEF s, line
  <2> QED BY <2>1, <2>2, <2>3, OpenSellers DEF Saving, FitsCart
<1>2. ASSUME NEW k \in DOMAIN cartLines[c], NEW q \in 1..MaxQty, updateItem(t, c, k, q)
      PROVE  SellersKept
  <2>1. /\ SellersStay
        /\ \E l : Open(t, c, "set", NoSeller, <<l>>, k)
    BY <1>2 DEF updateItem, SellersStay, cartVars, orderVars
  <2> QED BY <2>1, OpenSellers DEF Saving
<1>3. ASSUME NEW k \in DOMAIN cartLines[c], removeItem(t, c, k)
      PROVE  SellersKept
  <2> DEFINE lines == RemoveAt(cartLines[c], k)
  <2>1. /\ SellersStay
        /\ \/ Open(t, c, "deleteOne", NoSeller, <<>>, 0)
           \/ Open(t, c, "setAll", NoSeller, lines, 0)
    BY <1>3 DEF removeItem, SellersStay, cartVars, orderVars
  <2>2. /\ cartLines[c] \in Seq(Line) /\ Len(cartLines[c]) \in Nat
        /\ k \in 1 .. Len(cartLines[c])
    BY <1>0, TheCart, LenProperties
  <2>3. /\ lines \in Seq(Line)
        /\ Len(lines) = Len(cartLines[c]) - 1
        /\ \A j \in 1 .. Len(cartLines[c]) - 1 :
             \E i \in 1 .. Len(cartLines[c]) : lines[j] = cartLines[c][i]
    BY <2>2, RemoveAtProperties
  <2>4. c \notin raced =>
          \A i \in 1 .. Len(cartLines[c]) : SellerOf[cartLines[c][i].item] = cartSeller[c]
    BY <1>0, <2>2, LenProperties DEF CartsOfOne, OneFrom
  <2> HIDE DEF lines
  <2>5. DOMAIN lines = 1 .. Len(cartLines[c]) - 1
    BY <2>3, LenProperties
  <2>6. c \notin raced => OneFrom(lines, cartSeller[c])
    BY <2>3, <2>4, <2>5 DEF OneFrom
  <2> QED BY <2>1, <2>6, OpenSellers DEF Saving
<1>4. ASSUME NEW o \in Orders, reorderFromOrder(t, c, o)
      PROVE  SellersKept
  <2>1. PICK pick \in [1 .. Cardinality(Kept(o)) -> Kept(o)] :
          LET lines == [n \in DOMAIN pick |-> orderLines[o][pick[n]]] IN
          /\ customerId[o] = c /\ orderSeller[o] \in accepting
          /\ Open(t, c, IF HasCart(c) THEN "setAll" ELSE "insert", orderSeller[o], lines, 0)
          /\ SellersStay
    BY <1>4 DEF reorderFromOrder, SellersStay, cartVars, orderVars
  <2> DEFINE lines == [n \in DOMAIN pick |-> orderLines[o][pick[n]]]
             at == IF HasCart(c) THEN "setAll" ELSE "insert"
  <2>2. c \notin raced => OneFrom(lines, orderSeller[o])
    BY <1>0, <2>1, KeptLines DEF OrdersOfOne, OneFrom
  <2>3. orderSeller[o] # NoSeller
    BY <1>0, <2>1, ConstantsAssumption DEF CartInv, Others
  <2>4. /\ SellersStay
        /\ Open(t, c, at, orderSeller[o], lines, 0)
    BY <2>1
  <2>5. at \in {"insert", "setAll"}
    OBVIOUS
  <2> HIDE DEF lines, at
  <2> QED BY <2>2, <2>3, <2>4, <2>5, OpenSellers DEF Saving
<1>5. CASE clearCart(t, c)
  BY <1>5, GoneSellers DEF clearCart, orderVars
<1> QED BY <1>1, <1>2, <1>3, <1>4, <1>5 DEF CartRequest

LEMMA ConcatOneFrom ==
  ASSUME NEW a \in Seq(Line), NEW b \in Seq(Line), NEW s, OneFrom(a, s), OneFrom(b, s)
  PROVE  OneFrom(a \o b, s)
<1>1. /\ a \o b \in Seq(Line)
      /\ Len(a \o b) = Len(a) + Len(b)
      /\ \A i \in 1 .. Len(a) + Len(b) :
           (a \o b)[i] = IF i <= Len(a) THEN a[i] ELSE b[i - Len(a)]
  BY ConcatProperties
<1>2. PICK n, m : n = Len(a) /\ m = Len(b)
  OBVIOUS
<1>3. n \in Nat /\ m \in Nat /\ DOMAIN a = 1 .. n /\ DOMAIN b = 1 .. m
  BY <1>2, LenProperties
<1>4. DOMAIN (a \o b) = 1 .. n + m
  BY <1>1, <1>2, LenProperties
<1>5. ASSUME NEW i \in 1 .. n + m PROVE SellerOf[(a \o b)[i].item] = s
  <2>1. i \in Int /\ 1 <= i /\ i <= n + m
    BY <1>3
  <2>2. (a \o b)[i] = IF i <= n THEN a[i] ELSE b[i - n]
    BY <1>1, <1>2
  <2>3. CASE i <= n
    <3>1. i \in DOMAIN a
      BY <1>3, <2>1, <2>3
    <3> QED BY <2>2, <2>3, <3>1 DEF OneFrom
  <2>4. CASE ~ (i <= n)
    <3>1. i - n \in DOMAIN b
      BY <1>3, <2>1, <2>4
    <3> QED BY <2>2, <2>4, <3>1 DEF OneFrom
  <2> QED BY <2>3, <2>4
<1> QED BY <1>4, <1>5 DEF OneFrom

LEMMA SavesSellers ==
  ASSUME SellerInv, NEW t \in Requests, CartSave(t)
  PROVE  SellersKept
<1>0. CartInv /\ CartsOfOne
  BY DEF SellerInv
<1>1. PICK r : r = req[t]
  OBVIOUS
<1>2. PICK c : c = req[t].customer
  OBVIOUS
<1>3. /\ r \in Request /\ r.customer = c
      /\ c \notin raced => From(r)
      /\ r.at # "idle" => c \in Customers
      /\ r.at \in Saving => r.read # "none"
      /\ r.at = "set" /\ r.read = "current" => r.index \in 1 .. Len(cartLines[c])
  BY <1>1, <1>2 DEF SellerInv, RequestsOfOne, CartInv, Requesting, Fits
<1>4. r.seller \in Sellers \cup {NoSeller} /\ r.lines \in Seq(Line)
  BY <1>3 DEF Request
<1>5. UNCHANGED <<customerId, orderSeller, orderLines>>
  BY DEF CartSave, InsertCart, PushLine, SetLine, SetLines, DeleteCart, orderVars
<1>6. ASSUME Fails(t) PROVE SellersKept
  BY <1>5, <1>6, EndSellers DEF Fails, SellersStay, cartVars
<1>7. CASE InsertCart(t)
  <2>1. /\ r.at = "insert"
        /\ \/ ~ HasCart(c) /\ CartIs(c, r.seller, r.lines) /\ Close(t) /\ raced' = raced
           \/ Fails(t)
    BY <1>1, <1>2, <1>7 DEF InsertCart
  <2>2. c \in Customers /\ (c \notin raced => OneFrom(r.lines, r.seller))
    BY <1>3, <2>1 DEF From
  <2> QED BY <1>4, <1>5, <1>6, <2>1, <2>2, SaveSellers
<1>8. CASE PushLine(t)
  <2> DEFINE lines == cartLines[c] \o r.lines
  <2>1. /\ r.at = "push"
        /\ \/ /\ r.read # "gone"
              /\ CartIs(c, cartSeller[c], lines) /\ CloseAndOutdate(t, c, "moved")
              /\ raced' = IF r.read = "moved" THEN raced \cup {c} ELSE raced
           \/ Fails(t)
    BY <1>1, <1>2, <1>8 DEF PushLine
  <2>2. CASE /\ r.read # "gone"
             /\ CartIs(c, cartSeller[c], lines) /\ CloseAndOutdate(t, c, "moved")
             /\ raced' = IF r.read = "moved" THEN raced \cup {c} ELSE raced
    <3>1. c \in Customers
      BY <1>3, <2>1
    <3>2. cartLines[c] \in Seq(Line) /\ cartSeller[c] \in Sellers \cup {NoSeller}
      BY <1>0, <3>1, TheCart
    <3>3. ASSUME c \notin raced' PROVE OneFrom(lines, cartSeller[c])
      <4>1. c \notin raced /\ r.read = "current"
        BY <1>3, <2>1, <2>2, <3>3 DEF Request, Saving
      <4>2. OneFrom(r.lines, cartSeller[c]) /\ OneFrom(cartLines[c], cartSeller[c])
        BY <1>0, <1>3, <2>1, <3>1, <4>1 DEF From, CartsOfOne
      <4> QED BY <1>4, <3>2, <4>2, ConcatOneFrom
    <3>4. raced \subseteq raced'
      BY <2>2
    <3> HIDE DEF lines
    <3> QED BY <1>5, <2>2, <3>1, <3>2, <3>3, <3>4, SaveSellers
  <2> QED BY <1>6, <2>1, <2>2
<1>9. CASE SetLine(t)
  <2> DEFINE l == [item |-> cartLines[c][r.index].item, qty |-> r.lines[1].qty]
             lines == [cartLines[c] EXCEPT ![r.index] = l]
  <2>1. /\ r.at = "set"
        /\ \/ CartIs(c, cartSeller[c], lines) /\ Close(t) /\ raced' = raced
           \/ Fails(t)
    BY <1>1, <1>2, <1>9 DEF SetLine
  <2>2. c \in Customers
    BY <1>3, <2>1
  <2>3. cartLines[c] \in Seq(Line) /\ cartSeller[c] \in Sellers \cup {NoSeller}
    BY <1>0, <2>2, TheCart
  <2>4. ASSUME c \notin raced PROVE OneFrom(lines, cartSeller[c])
    <3>1. l.item = cartLines[c][r.index].item /\ OneFrom(cartLines[c], cartSeller[c])
      BY <1>0, <2>2, <2>4 DEF CartsOfOne
    <3> HIDE DEF l
    <3> QED BY <3>1 DEF OneFrom
  <2> HIDE DEF lines
  <2> QED BY <1>5, <1>6, <2>1, <2>2, <2>3, <2>4, SaveSellers
<1>10. CASE SetLines(t)
  <2> DEFINE s == IF r.seller = NoSeller THEN cartSeller[c] ELSE r.seller
  <2>1. /\ r.at = "setAll"
        /\ \/ /\ r.read = "current" /\ raced' = raced
              /\ CartIs(c, s, r.lines) /\ CloseAndOutdate(t, c, "moved")
           \/ Fails(t)
    BY <1>1, <1>2, <1>10 DEF SetLines
  <2>2. c \in Customers
    BY <1>3, <2>1
  <2>3. s \in Sellers \cup {NoSeller}
    BY <1>0, <1>4, <2>2, TheCart
  <2>4. c \notin raced /\ r.read = "current" => OneFrom(r.lines, s)
    BY <1>3, <2>1 DEF From
  <2> HIDE DEF s
  <2> QED BY <1>5, <1>6, <2>1, <2>2, <2>3, <2>4, SaveSellers
<1>11. CASE DeleteCart(t)
  <2>1. /\ r.at = "deleteOne"
        /\ (NoCart(c) /\ CloseAndOutdate(t, c, "gone")) \/ Fails(t)
    BY <1>1, <1>2, <1>11 DEF DeleteCart
  <2> QED BY <1>3, <1>5, <1>6, <2>1, GoneSellers
<1> QED BY <1>7, <1>8, <1>9, <1>10, <1>11 DEF CartSave

LEMMA OrdersSellers ==
  ASSUME SellerInv, NEW t \in Requests, OrderStep(t)
  PROVE  SellersKept
<1>0. CartInv /\ CartsOfOne /\ OrdersOfOne
  BY DEF SellerInv
<1>1. PICK r : r = req[t]
  OBVIOUS
<1>2. PICK c : c = req[t].customer
  OBVIOUS
<1>3. /\ r \in Request /\ r.customer = c
      /\ c \notin raced => From(r)
      /\ r.at # "idle" => c \in Customers
  BY <1>1, <1>2 DEF SellerInv, RequestsOfOne, CartInv, Requesting, Fits
<1>4. ASSUME Close(t), SellersStay PROVE SellersKept
  BY <1>4, EndSellers
<1>5. ASSUME NEW at \in {"validate", "create", "clearCart"},
             c \notin raced /\ at # "clearCart" => OneFrom(r.lines, r.seller),
             Goto(t, at), SellersStay
      PROVE  SellersKept
  <2> DEFINE n == [r EXCEPT !.at = at]
  <2>1. req' = [req EXCEPT ![t] = n]
    BY <1>1, <1>5 DEF Goto
  <2>2. /\ n.at = at /\ n.customer = c /\ n.lines = r.lines /\ n.seller = r.seller
    BY <1>3 DEF Request
  <2> HIDE DEF n
  <2>3. n.customer \notin raced => From(n)
    BY <1>5, <2>2 DEF From
  <2> QED BY <1>5, <2>1, <2>3, ReplaceSellers
<1>6. CASE createRestaurantOrder(t)
  <2> DEFINE n == [at |-> "checkAvailable", customer |-> c, read |-> "none",
                   seller |-> cartSeller[c], lines |-> cartLines[c],
                   index |-> 0, code |-> r.code]
  <2>1. /\ r.at = "getCart" /\ SellersStay
        /\ req' = [req EXCEPT ![t] = n] \/ Close(t)
    BY <1>1, <1>2, <1>6 DEF createRestaurantOrder, SellersStay, cartVars, orderVars
  <2>2. n.customer \notin raced => From(n)
    BY <1>0, <1>3, <2>1 DEF From, CartsOfOne
  <2> HIDE DEF n
  <2> QED BY <1>4, <2>1, <2>2, ReplaceSellers
<1>7. CASE checkAvailable(t)
  <2>1. r.at = "checkAvailable" /\ SellersStay
        /\ \/ Close(t)
           \/ Goto(t, IF r.code THEN "validate" ELSE "create")
    BY <1>1, <1>7 DEF checkAvailable, SellersStay, cartVars, orderVars
  <2> QED BY <1>3, <1>4, <1>5, <2>1 DEF From
<1>8. CASE validate(t)
  <2>1. r.at = "validate" /\ SellersStay /\ (Close(t) \/ Goto(t, "create"))
    BY <1>1, <1>8 DEF validate, SellersStay, cartVars, orderVars
  <2> QED BY <1>3, <1>4, <1>5, <2>1 DEF From
<1>9. CASE PlaceOrder(t)
  <2> DEFINE n == [at |-> IF r.code THEN "redeem" ELSE "clearCart",
                   customer |-> c, read |-> "none", seller |-> NoSeller,
                   lines |-> <<>>, index |-> 0, code |-> r.code]
  <2>1. PICK o : o = CHOOSE x \in Room : TRUE
    OBVIOUS
  <2>2. /\ r.at = "create" /\ UNCHANGED <<cartSeller, cartLines, raced>>
        /\ customerId' = [customerId EXCEPT ![o] = c]
        /\ orderSeller' = [orderSeller EXCEPT ![o] = r.seller]
        /\ orderLines' = [orderLines EXCEPT ![o] = r.lines]
        /\ req' = [req EXCEPT ![t] = n]
    BY <1>1, <1>2, <1>9, <2>1 DEF PlaceOrder, cartVars
  <2>3. From(n)
    BY DEF From
  <2> HIDE DEF n
  <2>4. \A u \in Requests : req'[u] = IF u = t THEN n ELSE req[u]
    BY <1>0, <2>2 DEF CartInv, Requesting
  <2>5. CartsOfOne'
    BY <1>0, <2>2 DEF CartsOfOne, OneFrom
  <2>6. ASSUME NEW p \in Orders, customerId'[p] \notin raced'
        PROVE  OneFrom(orderLines[p], orderSeller[p])'
    <3>1. /\ customerId'[p] = IF p = o THEN c ELSE customerId[p]
          /\ orderLines'[p] = IF p = o THEN r.lines ELSE orderLines[p]
          /\ orderSeller'[p] = IF p = o THEN r.seller ELSE orderSeller[p]
      BY <1>0, <2>2 DEF CartInv, Others
    <3>2. c \notin raced => OneFrom(r.lines, r.seller)
      BY <1>3, <2>2 DEF From
    <3> QED BY <1>0, <2>2, <2>6, <3>1, <3>2 DEF OrdersOfOne, OneFrom
  <2>7. ASSUME NEW u \in Requests, req'[u].customer \notin raced' PROVE From(req[u])'
    <3>1. CASE u = t
      BY <2>2, <2>3, <2>4, <3>1 DEF From, OneFrom
    <3>2. CASE u # t
      BY <2>2, <2>4, <2>7, <3>2 DEF SellerInv, RequestsOfOne, From, OneFrom
    <3> QED BY <3>1, <3>2
  <2> QED BY <2>5, <2>6, <2>7 DEF SellersKept, OrdersOfOne, RequestsOfOne
<1>10. CASE redeem(t)
  <2>1. SellersStay /\ Goto(t, "clearCart")
    BY <1>10 DEF redeem, SellersStay, cartVars, orderVars
  <2> QED BY <1>5, <2>1
<1>11. CASE FinishOrder(t)
  <2>1. /\ r.at = "clearCart" /\ NoCart(c) /\ CloseAndOutdate(t, c, "gone")
        /\ UNCHANGED <<customerId, orderSeller, orderLines>>
    BY <1>1, <1>2, <1>11 DEF FinishOrder, orderVars
  <2> QED BY <1>3, <2>1, GoneSellers
<1> QED BY <1>6, <1>7, <1>8, <1>9, <1>10, <1>11 DEF OrderStep

LEMMA StartSellers ==
  ASSUME SellerInv, NEW t \in Requests, NEW c \in Customers,
         NEW code \in BOOLEAN, createOrder(t, c, code)
  PROVE  SellersKept
<1> DEFINE n == [at |-> IF cartSeller[c] \in Stores THEN "checkAvailable" ELSE "getCart",
                 customer |-> c, read |-> "none", seller |-> cartSeller[c],
                 lines |-> IF cartSeller[c] \in Stores THEN cartLines[c] ELSE <<>>,
                 index |-> 0, code |-> code]
<1>0. CartsOfOne
  BY DEF SellerInv
<1>1. SellersStay /\ req' = [req EXCEPT ![t] = n]
  BY DEF createOrder, SellersStay, cartVars, orderVars
<1>2. n.customer \notin raced => From(n)
  BY <1>0 DEF From, CartsOfOne
<1> HIDE DEF n
<1> QED BY <1>1, <1>2, ReplaceSellers

LEMMA StillSellers ==
  ASSUME SellerInv, SellersStay, UNCHANGED req
  PROVE  SellersKept
<1>1. CartsOfOne' /\ OrdersOfOne'
  BY DEF SellerInv, SellersStay, CartsOfOne, OrdersOfOne, OneFrom
<1>2. RequestsOfOne'
  BY DEF SellerInv, SellersStay, RequestsOfOne, From, OneFrom
<1> QED BY <1>1, <1>2 DEF SellersKept

LEMMA SellersInit == Init => SellerInv
<1> SUFFICES ASSUME Init PROVE SellerInv
  OBVIOUS
<1>1. RequestsOfOne
  BY DEF Init, Idle, RequestsOfOne, From
<1>2. \A s : OneFrom(<<>>, s)
  BY DEF OneFrom
<1>3. CartsOfOne /\ OrdersOfOne
  BY <1>2 DEF Init, CartsOfOne, OrdersOfOne
<1> QED BY <1>1, <1>3, CartsInit DEF SellerInv

LEMMA SellersNext ==
  ASSUME SellerInv, [Next]_vars
  PROVE  SellerInv'
<1>1. CASE Next
  <2>1. ASSUME NEW t \in Requests, RequestStep(t) PROVE SellersKept
    <3>1. CASE Die(t)
      BY <3>1, EndSellers DEF Die, SellersStay, cartVars, orderVars
    <3> QED BY <2>1, <3>1, RequestSellers, StartSellers, SavesSellers, OrdersSellers DEF RequestStep
  <2>2. ASSUME \/ \E s \in Sellers : toggleOpen(s)
               \/ \E i \in Items : toggleItemAvailability(i)
               \/ updatePromoCode
        PROVE  SellersKept
    <3>1. SellersStay
      BY <2>2 DEF toggleOpen, toggleItemAvailability, updatePromoCode,
           SellersStay, cartVars, orderVars
    <3>2. UNCHANGED req
      BY <2>2 DEF toggleOpen, toggleItemAvailability, updatePromoCode
    <3> QED BY <3>1, <3>2, StillSellers
  <2>3. CartInv'
    BY <1>1, CartsNext DEF SellerInv
  <2>4. SellersKept
    BY <1>1, <2>1, <2>2 DEF Next
  <2> QED BY <2>3, <2>4 DEF SellerInv, SellersKept
<1>2. CASE UNCHANGED vars
  <2>1. SellersKept
    BY <1>2, StillSellers DEF vars, SellersStay, cartVars, orderVars
  <2>2. CartInv'
    BY <1>2, CartsNext DEF SellerInv
  <2> QED BY <2>1, <2>2 DEF SellerInv, SellersKept
<1> QED BY <1>1, <1>2

(* However many tabs a customer has, and wherever requests are cut off, a   *)
(* cart and every order have one seller, unless a line was pushed onto a    *)
(* cart that had changed since it was read (OneSellerPerCart).              *)
THEOREM CartsHaveOneSeller == Spec => [] OneSellerPerCart
<1>1. SellerInv /\ [Next]_vars => SellerInv'
  BY SellersNext
<1>2. SellerInv => OneSellerPerCart
  BY DEF SellerInv, CartsOfOne, OrdersOfOne, OneFrom, OneSellerPerCart
<1> QED BY <1>1, <1>2, SellersInit, PTL DEF Spec

-----------------------------------------------------------------------------
(* The kinds of what is ordered                                             *)

OfOneKind(lines, s) ==
  \A k \in DOMAIN lines : s \in Stores <=> SellerOf[lines[k].item] \in Stores

(* What has been found to be available is of the seller's kind.             *)
Checked(r) == r.at \in {"validate", "create"} => OfOneKind(r.lines, r.seller)

KindInv ==
  /\ CartInv /\ OrderIsOfOneKind
  /\ \A t \in Requests : Checked(req[t])

KindsKept == OrderIsOfOneKind' /\ \A t \in Requests : Checked(req'[t])

OrdersStay == UNCHANGED <<orderSeller, orderLines>>

(* A request changes, and no order does.                                    *)
LEMMA ReplaceKinds ==
  ASSUME KindInv, NEW t \in Requests, NEW r,
         req' = [req EXCEPT ![t] = r], OrdersStay, Checked(r)
  PROVE  KindsKept
<1>1. \A u \in Requests : req'[u] = IF u = t THEN r ELSE req[u]
  BY DEF KindInv, CartInv, Requesting
<1>2. OrderIsOfOneKind'
  BY DEF KindInv, OrdersStay, OrderIsOfOneKind
<1> QED BY <1>1, <1>2 DEF KindInv, KindsKept

(* A request ends.                                                          *)
LEMMA EndKinds ==
  ASSUME KindInv, NEW t \in Requests, NEW c, OrdersStay,
         Close(t) \/ \E state \in {"moved", "gone"} : CloseAndOutdate(t, c, state)
  PROVE  KindsKept
<1>0. CartInv
  BY DEF KindInv
<1>1. OrderIsOfOneKind'
  BY DEF KindInv, OrdersStay, OrderIsOfOneKind
<1>2. req'[t] = Idle
  BY <1>0, OthersKeep
<1>3. ASSUME NEW u \in Requests PROVE Checked(req'[u])
  <2>1. CASE u = t
    BY <1>2, <2>1 DEF Checked, Idle
  <2>2. CASE u # t
    <3>1. /\ req'[u].at = req[u].at
          /\ req'[u].seller = req[u].seller
          /\ req'[u].lines = req[u].lines
      BY <1>0, <2>2, OthersKeep
    <3> QED BY <3>1 DEF KindInv, Checked
  <2> QED BY <2>1, <2>2
<1> QED BY <1>1, <1>3 DEF KindsKept

LEMMA OpenKinds ==
  ASSUME KindInv, NEW t \in Requests, NEW c, NEW at, at \notin {"validate", "create"},
         NEW seller, NEW lines, NEW index,
         Open(t, c, at, seller, lines, index), OrdersStay
  PROVE  KindsKept
<1> DEFINE r == [at |-> at, customer |-> c,
                 read |-> IF HasCart(c) THEN "current" ELSE "none",
                 seller |-> seller, lines |-> lines, index |-> index, code |-> FALSE]
<1>1. req' = [req EXCEPT ![t] = r] /\ Checked(r)
  BY DEF Open, Checked
<1> HIDE DEF r
<1> QED BY <1>1, ReplaceKinds

LEMMA RequestKinds ==
  ASSUME KindInv, NEW t \in Requests, NEW c \in Customers, CartRequest(t, c)
  PROVE  KindsKept
<1>1. CASE clearCart(t, c)
  BY <1>1, EndKinds DEF clearCart, orderVars, OrdersStay
<1>2. ASSUME NEW i \in Items, NEW q \in 1..MaxQty, addItem(t, c, i, q)
      PROVE  KindsKept
  <2>1. OrdersStay
    BY <1>2 DEF addItem, orderVars, OrdersStay
  <2>2. \E at, seller, lines, index :
          /\ Open(t, c, at, seller, lines, index)
          /\ at \in {"insert", "setAll", "push", "set"}
    BY <1>2 DEF addItem
  <2> QED BY <2>1, <2>2, OpenKinds
<1>3. ASSUME NEW k \in DOMAIN cartLines[c], NEW q \in 1..MaxQty, updateItem(t, c, k, q)
      PROVE  KindsKept
  BY <1>3, OpenKinds DEF updateItem, orderVars, OrdersStay
<1>4. ASSUME NEW k \in DOMAIN cartLines[c], removeItem(t, c, k)
      PROVE  KindsKept
  BY <1>4, OpenKinds DEF removeItem, orderVars, OrdersStay
<1>5. ASSUME NEW o \in Orders, reorderFromOrder(t, c, o)
      PROVE  KindsKept
  BY <1>5, OpenKinds DEF reorderFromOrder, orderVars, OrdersStay
<1> QED BY <1>1, <1>2, <1>3, <1>4, <1>5 DEF CartRequest

LEMMA SavesKinds ==
  ASSUME KindInv, NEW t \in Requests, CartSave(t)
  PROVE  KindsKept
<1>1. OrdersStay
  BY DEF CartSave, InsertCart, PushLine, SetLine, SetLines, DeleteCart, orderVars, OrdersStay
<1>2. Close(t) \/ \E state \in {"moved", "gone"} : CloseAndOutdate(t, req[t].customer, state)
  BY DEF CartSave, InsertCart, PushLine, SetLine, SetLines, DeleteCart, Fails
<1> QED BY <1>1, <1>2, EndKinds

LEMMA OrdersKinds ==
  ASSUME KindInv, NEW t \in Requests, OrderStep(t)
  PROVE  KindsKept
<1>1. PICK r : r = req[t]
  OBVIOUS
<1>2. r \in Request /\ Checked(r)
  BY <1>1 DEF KindInv, CartInv, Requesting, Fits
<1>3. ASSUME NEW at, Goto(t, at), OrdersStay,
             at \in {"validate", "create"} => OfOneKind(r.lines, r.seller)
      PROVE  KindsKept
  <2> DEFINE n == [r EXCEPT !.at = at]
  <2>1. req' = [req EXCEPT ![t] = n]
    BY <1>1, <1>3 DEF Goto
  <2>2. n.at = at /\ n.lines = r.lines /\ n.seller = r.seller
    BY <1>2 DEF Request
  <2> HIDE DEF n
  <2>3. Checked(n)
    BY <1>3, <2>2 DEF Checked
  <2> QED BY <1>3, <2>1, <2>3, ReplaceKinds
<1>4. CASE createRestaurantOrder(t)
  <2> DEFINE c == req[t].customer
             n == [at |-> "checkAvailable", customer |-> c, read |-> "none",
                   seller |-> cartSeller[c], lines |-> cartLines[c],
                   index |-> 0, code |-> req[t].code]
  <2>1. OrdersStay /\ (req' = [req EXCEPT ![t] = n] \/ Close(t))
    BY <1>4 DEF createRestaurantOrder, orderVars, OrdersStay
  <2>2. Checked(n)
    BY DEF Checked
  <2> HIDE DEF n
  <2> QED BY <2>1, <2>2, ReplaceKinds, EndKinds
<1>5. CASE checkAvailable(t)
  <2>1. OrdersStay
    BY <1>5 DEF checkAvailable, orderVars, OrdersStay
  <2>2. \/ Close(t)
        \/ /\ Goto(t, IF r.code THEN "validate" ELSE "create")
           /\ OfOneKind(r.lines, r.seller)
    BY <1>1, <1>5 DEF checkAvailable, CanBeHad, OfOneKind
  <2> QED BY <1>3, <2>1, <2>2, EndKinds
<1>6. CASE validate(t)
  <2>1. OrdersStay /\ r.at = "validate" /\ (Close(t) \/ Goto(t, "create"))
    BY <1>1, <1>6 DEF validate, orderVars, OrdersStay
  <2> QED BY <1>2, <1>3, <2>1, EndKinds DEF Checked
<1>7. CASE PlaceOrder(t)
  <2> DEFINE n == [at |-> IF r.code THEN "redeem" ELSE "clearCart",
                   customer |-> r.customer, read |-> "none", seller |-> NoSeller,
                   lines |-> <<>>, index |-> 0, code |-> r.code]
  <2>1. PICK o : o = CHOOSE x \in Room : TRUE
    OBVIOUS
  <2>2. /\ r.at = "create"
        /\ orderSeller' = [orderSeller EXCEPT ![o] = r.seller]
        /\ orderLines' = [orderLines EXCEPT ![o] = r.lines]
        /\ req' = [req EXCEPT ![t] = n]
    BY <1>1, <1>7, <2>1 DEF PlaceOrder
  <2>3. Checked(n)
    BY DEF Checked
  <2> HIDE DEF n
  <2>4. \A u \in Requests : req'[u] = IF u = t THEN n ELSE req[u]
    BY <2>2 DEF KindInv, CartInv, Requesting
  <2>5. ASSUME NEW p \in Orders PROVE OfOneKind(orderLines'[p], orderSeller'[p])
    <3>1. /\ orderLines'[p] = IF p = o THEN r.lines ELSE orderLines[p]
          /\ orderSeller'[p] = IF p = o THEN r.seller ELSE orderSeller[p]
      BY <2>2 DEF KindInv, CartInv, Others
    <3>2. OfOneKind(r.lines, r.seller) /\ OfOneKind(orderLines[p], orderSeller[p])
      BY <1>2, <2>2 DEF Checked, KindInv, OrderIsOfOneKind, OfOneKind
    <3> QED BY <3>1, <3>2
  <2>6. OrderIsOfOneKind'
    BY <2>5 DEF OrderIsOfOneKind, OfOneKind
  <2> QED BY <2>3, <2>4, <2>6 DEF KindInv, KindsKept
<1>8. CASE redeem(t)
  BY <1>3, <1>8 DEF redeem, orderVars, OrdersStay
<1>9. CASE FinishOrder(t)
  BY <1>9, EndKinds DEF FinishOrder, orderVars, OrdersStay
<1> QED BY <1>4, <1>5, <1>6, <1>7, <1>8, <1>9 DEF OrderStep

LEMMA StartKinds ==
  ASSUME KindInv, NEW t \in Requests, NEW c \in Customers,
         NEW code \in BOOLEAN, createOrder(t, c, code)
  PROVE  KindsKept
<1> DEFINE n == [at |-> IF cartSeller[c] \in Stores THEN "checkAvailable" ELSE "getCart",
                 customer |-> c, read |-> "none", seller |-> cartSeller[c],
                 lines |-> IF cartSeller[c] \in Stores THEN cartLines[c] ELSE <<>>,
                 index |-> 0, code |-> code]
<1>1. OrdersStay /\ req' = [req EXCEPT ![t] = n]
  BY DEF createOrder, orderVars, OrdersStay
<1>2. Checked(n)
  BY DEF Checked
<1> HIDE DEF n
<1> QED BY <1>1, <1>2, ReplaceKinds

LEMMA KindsNext ==
  ASSUME KindInv, [Next]_vars
  PROVE  KindInv'
<1>1. CartInv'
  BY CartsNext DEF KindInv
<1>2. ASSUME NEW t \in Requests, RequestStep(t) PROVE KindsKept
  <2>1. CASE Die(t)
    BY <2>1, EndKinds DEF Die, orderVars, OrdersStay
  <2> QED BY <1>2, <2>1, RequestKinds, StartKinds, SavesKinds, OrdersKinds DEF RequestStep
<1>3. ASSUME \/ \E s \in Sellers : toggleOpen(s)
             \/ \E i \in Items : toggleItemAvailability(i)
             \/ updatePromoCode
             \/ UNCHANGED vars
      PROVE  KindsKept
  <2>1. UNCHANGED <<req, orderSeller, orderLines>>
    BY <1>3 DEF toggleOpen, toggleItemAvailability, updatePromoCode, vars, orderVars
  <2> QED BY <2>1 DEF KindInv, KindsKept, OrderIsOfOneKind
<1>4. KindsKept
  BY <1>2, <1>3 DEF Next
<1> QED BY <1>1, <1>4 DEF KindInv, KindsKept

(* Even the cart of such a race becomes no mixed order: every order is of   *)
(* one kind of seller, though the cart may be another when the items are    *)
(* looked up than when its kind was told (OrderIsOfOneKind).                *)
THEOREM OrdersAreOfOneKind == Spec => [] OrderIsOfOneKind
<1>1. Init => KindInv
  <2> SUFFICES ASSUME Init PROVE KindInv
    OBVIOUS
  <2>1. OrderIsOfOneKind /\ \A t \in Requests : Checked(req[t])
    BY DEF Init, Idle, OrderIsOfOneKind, Checked
  <2> QED BY <2>1, CartsInit DEF KindInv
<1>2. KindInv /\ [Next]_vars => KindInv'
  BY KindsNext
<1>3. KindInv => OrderIsOfOneKind
  BY DEF KindInv
<1> QED BY <1>1, <1>2, <1>3, PTL DEF Spec
=============================================================================
