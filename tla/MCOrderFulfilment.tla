-------------------------- MODULE MCOrderFulfilment --------------------------
(* Instances of OrderFulfilment for TLC.                                    *)
EXTENDS OrderFulfilment, TLC

(* Every rider is within the dispatch radius of every seller. *)
AllNearby == [o \in Orders |-> Riders]

(* Riders are interchangeable, and so are requests and sweeps. *)
Symmetry ==
  Permutations(Orders) \cup Permutations(Riders) \cup Permutations(Requests)
=============================================================================
