\* One request at a time; two sessions of one provider, webhooks redelivered.
CONSTANTS
  stripe = stripe
  paystack = paystack
  s1 = s1
  s2 = s2
  Providers = {stripe}
  Sessions = {s1, s2}
  ProviderOf <- OneProvider
  Requests = {t1}
  MayDie = FALSE
  OneResolver = TRUE
  OutsideRefunds <- AfterTheMeal
  NoSession = NoSession
  NoEvent = NoEvent
SPECIFICATION FairSpec
INVARIANT ClaimIsWatched
PROPERTIES
  PaidOrderIsPlaced
  RefundIsDecided
CHECK_DEADLOCK FALSE
