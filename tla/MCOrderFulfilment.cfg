\* Two orders for one good, two requests at a time, two sales between them.
CONSTANTS
  s1 = s1
  s2 = s2
  order1 = order1
  order2 = order2
  k1 = k1
  k2 = k2
  tea = tea
  Sessions = {s1, s2}
  Orders = {order1, order2}
  Goods = {tea}
  Lines <- MCLines
  Sales = {k1, k2}
  MaxBook = 2
  NoOrder = NoOrder
  NoSale = NoSale

SPECIFICATION Spec
SYMMETRY Alike

CONSTRAINT MCNotAll

INVARIANTS
  ReservationsCovered
  ClosedOrdersHoldNothing
  SoldOnce
