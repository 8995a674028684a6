\* Two customers race for the one use of a code, from one tab each or one from two.
CONSTANTS
  dine = dine
  shop = shop
  i1 = i1
  i2 = i2
  i3 = i3
  Customers = {c1, c2}
  Restaurants = {dine}
  Stores = {shop}
  Items = {i1, i3}
  SellerOf <- Catalog
  MaxQty = 1
  MaxLines = 1
  Orders = {o1, o2, o3}
  Volatile = {}
  UsageLimit = 1
  CodeSellers = {dine}
  Requests = {t1, t2}
  MayDie = FALSE
  NoCustomer = NoCustomer
  NoSeller = NoSeller
SPECIFICATION Spec
INVARIANTS
  DiscountsAreBounded
  UsesAreDiscounts
SYMMETRY Symmetry
