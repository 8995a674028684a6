--------------------------- MODULE MCOrderPayments ---------------------------
(* Instances of OrderPayments for TLC.                                      *)
EXTENDS OrderPayments, TLC

CONSTANTS stripe, paystack, s1, s2

OneProvider  == [s \in Sessions |-> stripe]
EachItsOwn   == [s \in Sessions |-> IF s = s1 THEN stripe ELSE paystack]

AfterTheMeal == {"DELIVERED", "CANCELLED", "REFUNDED"}
BeforeToo    == AfterTheMeal \cup {"PLACED"}

Symmetry == Permutations(Requests)
=============================================================================
