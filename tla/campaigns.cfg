\* One vendor with two campaigns, two requests and the scheduler's job, any of
\* which may be a sweep; one of them is cut off, or fails to write.
CONSTANTS
  Vendors = {v1}
  Campaigns = {c1, c2}
  Refs = {r1}
  Providers = {stripe, paystack}
  Requests = {t1, t2}
  Cron = Cron
  Sweepers = {Cron, t1, t2}
  LastDay = 2
  Leads = {0, 1}
  Durations = {1}
  MaxFaults = 1
  NoVendor = NoVendor
  NoProvider = NoProvider
  NoRef = NoRef
  NoCampaign = NoCampaign
SPECIFICATION Spec
INVARIANTS
  ShownAsSold
  SponsoredWhileActive
PROPERTY FollowsLifecycle
SYMMETRY Symmetry
CHECK_DEADLOCK FALSE
