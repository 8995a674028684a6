\* One campaign whose vendor may go from one provider to another, one request
\* at a time next to the scheduler's job.
CONSTANTS
  Vendors = {v1}
  Campaigns = {c1}
  Refs = {r1, r2}
  Providers = {stripe, paystack}
  Requests = {t1}
  Cron = Cron
  Sweepers = {Cron}
  LastDay = 2
  Leads = {0, 1}
  Durations = {1}
  MaxFaults = 1
  NoVendor = NoVendor
  NoProvider = NoProvider
  NoRef = NoRef
  NoCampaign = NoCampaign
SPECIFICATION FairSpec
PROPERTIES
  CampaignsEnd
  PaymentsCount
CHECK_DEADLOCK FALSE
