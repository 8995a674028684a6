\* One order; any two requests interleave freely with a sweep.
CONSTANTS
  Orders = {o1}
  Riders = {r1, r2}
  Requests = {t1, t2}
  Sweeps = {s1}
  Nearby <- AllNearby
  Limit = 2
  Serialised = FALSE
  NoOrder = NoOrder
  NoRider = NoRider
SPECIFICATION Spec
SYMMETRY Symmetry
INVARIANTS
  CarriedByVerifiedRider
PROPERTY RiderFixedOnceAttached
