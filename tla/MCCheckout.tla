------------------------------ MODULE MCCheckout ------------------------------
(* Instances of Checkout for TLC.                                           *)
EXTENDS Checkout, TLC

CONSTANTS dine, shop, i1, i2, i3

(* Two dishes of a restaurant, and a product of a store. *)
Catalog == [i \in Items |-> IF i = i3 THEN shop ELSE dine]

Symmetry == Permutations(Requests) \cup Permutations(Customers)
=============================================================================
