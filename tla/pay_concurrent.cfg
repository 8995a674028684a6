\* Two requests interleave and may be cut off; two sessions of two providers.
CONSTANTS
  stripe = stripe
  paystack = paystack
  s1 = s1
  s2 = s2
  Providers = {stripe, paystack}
  Sessions = {s1, s2}
  ProviderOf <- EachItsOwn
  Requests = {t1, t2}
  MayDie = TRUE
  OneResolver = TRUE
  OutsideRefunds <- BeforeToo
  NoSession = NoSession
  NoEvent = NoEvent
SPECIFICATION Spec
SYMMETRY Symmetry
INVARIANTS
  PlacedMeansCharged
  RefundedMeansReversed
  ClaimIsALock
PROPERTIES
  NoBlindRetry
  OnlyOvertakenFailuresDowngrade
CHECK_DEADLOCK FALSE
