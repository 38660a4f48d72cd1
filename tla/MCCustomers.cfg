\* Two requests at a time of one customer, while prices change; two about one number and a user's entries.
CONSTANTS
  Goods <- MCGoods
  RetailPrice <- MCRetailPrice
  CategoryOf <- MCCategoryOf
  Promo <- MCPromo
  NoOne = NoOne
  PrefixIB <- MCPrefixIB
  Rank <- MCRank
  Customers = {"anna"}
  Requests = {r1, r2}
  Quantities = {0, 1}
  Custom <- MCCustom
  FirstNumber <- MCFirstNumber
  InitialStock <- MCStock
  MaxRows = 3
  MaxOrders = 4
  MaxEdits = 1
  MaxRequests = 4
  InitialPromos = {1}
  Phones = {d1}
  Users = {u1}
  AccountRequests = {q1, q2}
  Nobody = Nobody
  MaxAccounts = 3
  MaxKontragenty = 3
  MaxPhoneOrders = 2
  MaxAccountRequests = 3

SYMMETRY Alike

SPECIFICATION SpecCustomers

CONSTRAINT MCFewer

INVARIANTS
  CartConserved
  OrderedOnce
  CatalogPriceCharged
  NumbersDistinct
  OneCustomerPerNumber
  OrdersReachTheirNumber
  EntriesAgree

CHECK_DEADLOCK FALSE
