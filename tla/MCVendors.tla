------------------------------- MODULE MCVendors -------------------------------
(***************************************************************************)
(* What a vendor keeps besides its orders, for TLC: a catalog, a listing,  *)
(* ratings and payout accounts.  These parts have no field in common and   *)
(* their steps commute, so each behaviour is one of one part, and the      *)
(* others stay as they began.                                              *)
(***************************************************************************)
EXTENDS Catalog, VendorListing, Ratings, PayoutOnboarding, TLC

CONSTANTS order1, order2, order3, order4, vendor1, vendor2

FromVendors == order4 :> vendor2 @@ [o \in Reviewables \ {order4} |-> vendor1]

VARIABLE part

Init ==
  /\ part \in {"catalog", "listing", "ratings", "onboarding"}
  /\ CatalogInit /\ VendorListingInit /\ RatingsInit /\ OnboardingInit

Next ==
  /\ UNCHANGED part
  /\ \/ /\ part = "catalog" /\ CatalogNext
        /\ UNCHANGED <<listingVars, ratingVars, onboardingVars>>
     \/ /\ part = "listing" /\ VendorListingNext
        /\ UNCHANGED <<catalogVars, ratingVars, onboardingVars>>
     \/ /\ part = "ratings" /\ RatingsNext
        /\ UNCHANGED <<catalogVars, listingVars, onboardingVars>>
     \/ /\ part = "onboarding" /\ OnboardingNext
        /\ UNCHANGED <<catalogVars, listingVars, ratingVars>>

Spec == Init /\ [][Next]_<<part, catalogVars, listingVars, ratingVars, onboardingVars>>

(* What follows once both accidents have happened to a catalog is not        *)
(* explored: its properties say nothing of it any more.                     *)
NotBoth == ~ (movedTogether /\ deletedUnder)

(* The parts share their model values (see the configuration), so that one  *)
(* small group of permutations serves them all.                             *)
Symmetry == Permutations(Categories) \cup Permutations(Edits)
=============================================================================
