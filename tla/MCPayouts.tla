------------------------------ MODULE MCPayouts ------------------------------
(* Instances of Payouts for TLC.                                            *)
EXTENDS Payouts, TLC

CONSTANTS o1, o2, o3

(* The orders earn unlike amounts, so that the clawback of one exceeds what *)
(* the other has earned, or leaves a part of it to be sent.                 *)
Cents == [k \in Kinds |-> [o \in Orders |-> IF o = o1 THEN 1 ELSE 2]]

Symmetry == Permutations(Workers)
=============================================================================
