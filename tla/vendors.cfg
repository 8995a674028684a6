\* Three categories, a product and two edits of them; a vendor and three requests
\* about its listing; four orders, rated by three requests; two payout providers,
\* three accounts and two jobs.  Only one part moves in a behaviour: i1..i3 and
\* r1, r2 stand for something else in each.  The parts stop at their bounds.
CONSTANTS
  order1 = order1
  order2 = order2
  order3 = order3
  order4 = order4
  vendor1 = vendor1
  vendor2 = vendor2
  Categories = {i1, i2, i3}
  Products = {p1}
  Edits = {r1, r2}
  Root = Root
  NoCategory = NoCategory
  NoProduct = NoProduct
  Tasks = {i1, i2, i3}
  MaxEdits = 3
  MaxItems = 2
  Reviewables = {order1, order2, order3, order4}
  Targets = {vendor1, vendor2}
  TargetOf <- FromVendors
  Stars = {4, 5}
  Posts = {i1, i2, i3}
  NoReviewable = NoReviewable
  PayoutProviders = {Stripe, Bank}
  Stripe = Stripe
  Accounts = {i1, i2, i3}
  Jobs = {r1, r2}
  MaxChanges = 2
  NoPayoutProvider = NoPayoutProvider
  NoAccount = NoAccount
SPECIFICATION Spec
INVARIANTS
  CategoriesFormAForest
  NothingIsOrphaned
  NothingSwappedIn
  RatingIsRight
  OneEntryPerProvider
  StatusFollowsStripe
PROPERTY GoesLiveComplete
CONSTRAINT NotBoth
SYMMETRY Symmetry
CHECK_DEADLOCK FALSE
