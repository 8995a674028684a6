\* One customer with two tabs, and restarts.
CONSTANTS
  dine = dine
  shop = shop
  i1 = i1
  i2 = i2
  i3 = i3
  Customers = {c1}
  Restaurants = {dine}
  Stores = {shop}
  Items = {i1, i2, i3}
  SellerOf <- Catalog
  MaxQty = 1
  MaxLines = 2
  Orders = {o1}
  Volatile = {dine, i1}
  UsageLimit = 1
  CodeSellers = {}
  Requests = {t1, t2}
  MayDie = TRUE
  NoCustomer = NoCustomer
  NoSeller = NoSeller
SPECIFICATION Spec
INVARIANTS
  CartIsNeverEmpty
  OneSellerPerCart
  OrderIsOfOneKind
SYMMETRY Symmetry
