\* Two batches and administrators at once, refunds meanwhile, restarts.
CONSTANTS
  o1 = o1
  o2 = o2
  o3 = o3
  Orders = {o1, o2}
  Payees = {"vendor"}
  MaxEarning = 2
  Earns <- Cents
  Payouts = {p1, p2, p3}
  Workers = {w1, w2}
  MayDie = TRUE
  FailingSteps = {"saveResolved"}
  AmbiguousDeductions = TRUE
  RefundsMeetPayouts = FALSE
  NoPayout = NoPayout
SPECIFICATION Spec
INVARIANTS
  OrderPaidOnce
SYMMETRY Symmetry
CHECK_DEADLOCK FALSE
