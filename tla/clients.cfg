\* One user with a laptop and a phone, three sessions and two calls at a time;
\* two open pages, the second of which polls; two people, two phone numbers and
\* three requests about their roles; every schedule of three days of four minutes.
\* Only one part moves in a behaviour: k1..k3 stand for something else in each.
CONSTANTS
  tab1 = tab1
  tab2 = tab2
  laptop = laptop
  phone = phone
  Users = {u1}
  Browsers = {laptop, phone}
  Tabs = {tab1, tab2}
  BrowserOf <- TwoTabs
  Tokens = {k1, k2, k3}
  Calls = {c1, c2}
  MaxEpoch = 1
  MaxLost = 1
  NoUser = NoUser
  NoTab = NoTab
  NoToken = NoToken
  Pages = {g1, g2}
  Polls = {g2}
  MaxVersions = 3
  MaxDrops = 2
  People = {v1, v2}
  PhoneNumbers = {n1, n2}
  Errands = {k1, k2, k3}
  NoPhone = NoPhone
  Nobody = Nobody
  DaysInWeek = 3
  DayLength = 4
SPECIFICATION Spec
INVARIANTS
  LiveSessionsAreCurrent
  NeverLoggedOutUnprovoked
  PageIsCurrent
  RidersHaveAProfile
  HoursShownAreTheShops
SYMMETRY Symmetry
CHECK_DEADLOCK FALSE
