\* Two batches, a sale, a write-off and two orders, two requests at a time.
CONSTANTS
  s1 = s1
  s2 = s2
  in1 = in1
  in2 = in2
  sale = sale
  writeOff = writeOff
  order1 = order1
  order2 = order2
  r1 = r1
  r2 = r2
  r3 = r3
  Sessions = {s1, s2}
  In = {in1, in2}
  Sales = {sale}
  WriteOffs = {writeOff}
  Orders = {order1, order2}
  Ids = {r1, r2, r3}
  Quantity <- MCQuantity
  MaxQuantity = 3
  NoSession = NoSession
  NoDoc = NoDoc

SPECIFICATION Spec
SYMMETRY Alike

INVARIANTS
  MovementsHaveBatches
  BatchesConserved
  ReservedOnce

PROPERTY ReservationCovered
