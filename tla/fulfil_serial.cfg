\* Two orders and two riders, of whom a sweep looks at one; requests on one order
\* take turns, the sweep is fair.
CONSTANTS
  Orders = {o1, o2}
  Riders = {r1, r2}
  Requests = {t1}
  Sweeps = {s1}
  Nearby <- AllNearby
  Limit = 1
  Serialised = TRUE
  NoOrder = NoOrder
  NoRider = NoRider
SPECIFICATION FairSpec
INVARIANTS
  DocumentsAgree
  OnlyTheRiderBelieves
PROPERTIES
  FollowsLifecycle
  NoReadyOrderStalls
