\* The Monday batch and the administrators one at a time; refunds in between.
CONSTANTS
  o1 = o1
  o2 = o2
  o3 = o3
  Orders = {o1, o2}
  Payees = {"vendor", "rider"}
  MaxEarning = 2
  Earns <- Cents
  Payouts = {p1, p2, p3, p4}
  Workers = {w1}
  MayDie = FALSE
  FailingSteps = {}
  AmbiguousDeductions = FALSE
  RefundsMeetPayouts = FALSE
  NoPayout = NoPayout
SPECIFICATION FairSpec
INVARIANTS
  PayeeIsSquare
  ClaimIsAnswered
PROPERTY EarningsAreSettled
CHECK_DEADLOCK FALSE
