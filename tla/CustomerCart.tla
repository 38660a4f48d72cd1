---------------------------- MODULE CustomerCart ----------------------------
(***************************************************************************)
(* The customer's cart and the order made of it, with the catalogue it is  *)
(* filled from and the administration that changes prices meanwhile        *)
(* (app/services/customer_service.py, app/customer/api.py,                 *)
(* app/customer/web.py, app/web/site_admin.py).                            *)
(*                                                                         *)
(* A request reads, then writes: add_to_cart and set_cart_quantity in two  *)
(* steps, checkout in five.  Between them the requests of other tabs and   *)
(* devices run.  Nothing is locked but the numbering of documents; what a  *)
(* request writes is visible when it commits.                              *)
(***************************************************************************)
EXTENDS SitePrices, DocumentNumbering, Sequences, Functions

CONSTANTS
  Customers, Requests,
  Quantities,   \* quantities customers ask for, 0 to remove
  Custom,       \* numbers given by hand through the API
  FirstNumber,  \* the number of the last order there was before
  InitialStock,
  InitialPromos,
  MaxRows,      \* bounds of the model: rows ever put into carts,
  MaxOrders,    \* orders,
  MaxRequests,  \* requests,
  MaxEdits      \* changes of prices and goods by others

MAX_CART_QUANTITY == 1000000

ASSUME CartAssumption ==
  /\ Quantities \subseteq Nat
  /\ Custom \subseteq DocNumber /\ FirstNumber \in DocNumber
  /\ MaxRows \in Nat /\ MaxOrders \in Nat
  /\ MaxRequests \in Nat /\ MaxEdits \in Nat
  /\ InitialStock \in [Goods -> Nat]
  /\ InitialPromos \subseteq PromoIds /\ IsFiniteSet(InitialPromos)
  /\ NoOne \notin Customers \cup Goods \cup Requests

VARIABLES
  \* the database
  hasCart,      \* customers with a row in carts
  rows,         \* cart_items by id
  nextRow,      \* the id of the next of them
  orders,       \* the ZAKAZ documents, deleted ones included, in order
  prefix,       \* the constant prefix_ib
  lock,         \* the request that holds the advisory lock of numbering
  stock, published, enabled, created, today,
  \* the requests
  req,
  \* the model
  edits,        \* changes made so far by others
  begun,        \* requests so far
  asked,        \* history: what customers have put into their carts, net
  overlapped    \* history: pairs of operations on one cart that overlapped

site == <<stock, published, enabled, created, today, edits>>
vars == <<hasCart, rows, nextRow, orders, prefix, lock, site, req, begun, asked, overlapped>>

Row == [cust : Customers, good : Goods, qty : Nat]
Line == [row : Nat, good : Goods, qty : Nat, price : Nat]
Operation == {"add", "set", "checkout"}

\* A request and what it remembers of what it has read.
Idle == [pc |-> "idle"]
RequestState ==
  {Idle}
  \cup [pc : {"add"}, cust : Customers, good : Goods, qty : Nat, row : Nat, had : Nat, fresh : BOOLEAN]
  \cup [pc : {"set"}, cust : Customers, row : Nat, qty : Nat, had : Nat]
  \cup [pc : {"check", "clear"}, cust : Customers, lines : SUBSET Line, asOf : Nat]
  \cup [pc : {"number"}, cust : Customers, lines : SUBSET Line, asOf : Nat,
        dead : SUBSET Nat, prefix : PrefixIB]
  \cup [pc : {"save"}, cust : Customers, lines : SUBSET Line, asOf : Nat,
        dead : SUBSET Nat, number : DocNumber]

Order == [cust : Customers \cup {NoOne}, lines : SUBSET Line, number : DocNumber, byHand : BOOLEAN,
          asOf : Nat]

Active == {r \in Requests : req[r].pc # "idle"}
OperationOf(r) == IF req[r].pc \in {"add", "set"} THEN req[r].pc ELSE "checkout"

Init ==
  /\ hasCart = {}
  /\ rows = <<>> /\ nextRow = 1
  /\ prefix = FirstNumber.prefix
  /\ orders = <<[cust |-> NoOne, lines |-> {}, number |-> FirstNumber, byHand |-> FALSE, asOf |-> 0]>>
  /\ lock = NoOne
  /\ stock = InitialStock
  /\ published = Goods
  /\ enabled = InitialPromos /\ created = InitialPromos
  /\ today = 0
  /\ req = [r \in Requests |-> Idle]
  /\ edits = 0 /\ begun = 0
  /\ asked = [c \in Customers |-> [g \in Goods |-> 0]]
  /\ overlapped = [c \in Customers |-> {}]

-----------------------------------------------------------------------------
\* What is read.

RowsOf(c) == {i \in DOMAIN rows : rows[i].cust = c}
RowsWith(c, g) == {i \in RowsOf(c) : rows[i].good = g}

\* The catalogue: published goods in stock, at the price of today.
AvailableProducts ==
  [g \in {g \in published : stock[g] > 0} |->
     EffectivePrice(RetailPrice[g], FindPromotion(enabled, g, today))]

\* Mutant of GetCartItems: the price without promotions.
CartItemsAtRetail(c) ==
  {[row |-> i, good |-> rows[i].good, qty |-> rows[i].qty,
    price |-> RetailPrice[rows[i].good]] : i \in RowsOf(c)}

\* The cart with its prices, for the page of the cart and for checkout.
GetCartItems(c) ==
  {[row |-> i, good |-> rows[i].good, qty |-> rows[i].qty,
    price |-> EffectivePrice(RetailPrice[rows[i].good],
                             FindPromotion(enabled, rows[i].good, today))] : i \in RowsOf(c)}

Numbers == {orders[i].number : i \in DOMAIN orders}

-----------------------------------------------------------------------------
\* A request r begins as s: it overlaps those of the customer under way.
Begin(r, s, operation) ==
  /\ req[r] = Idle
  /\ begun < MaxRequests /\ begun' = begun + 1
  /\ req' = [req EXCEPT ![r] = s]
  /\ overlapped' = [overlapped EXCEPT ![s.cust] =
       @ \cup {{operation, OperationOf(q)} : q \in {q \in Active : req[q].cust = s.cust}}]

Finish(r) == req' = [req EXCEPT ![r] = Idle]

\* A request fails, is refused or is cut off: what it did is rolled back and
\* its lock is released.  So end the errors of validation, two rows of one
\* good found where one was expected, and two kontragenty with one phone.
Fail(r) ==
  /\ r \in Active
  /\ Finish(r)
  /\ lock' = IF lock = r THEN NoOne ELSE lock
  /\ UNCHANGED <<hasCart, rows, nextRow, orders, prefix, site, begun, asked, overlapped>>

\* add_to_cart reads the cart and the row of the good, if there is one; with
\* two of them it fails.
BeginAdd(r, c, g, q) ==
  /\ q > 0 /\ q <= MAX_CART_QUANTITY
  /\ nextRow <= MaxRows
  /\ \/ /\ RowsWith(c, g) = {}
        /\ Begin(r, [pc |-> "add", cust |-> c, good |-> g, qty |-> q, row |-> 0, had |-> 0,
                     fresh |-> c \notin hasCart], "add")
     \/ \E i \in DOMAIN rows :
          /\ RowsWith(c, g) = {i}
          /\ Begin(r, [pc |-> "add", cust |-> c, good |-> g, qty |-> q, row |-> i,
                       had |-> rows[i].qty, fresh |-> FALSE], "add")
  /\ UNCHANGED <<hasCart, rows, nextRow, orders, prefix, lock, site, asked>>

\* Mutant of Increased: the row gets the quantity added.
Replaced(had, q) == q

Increased(had, q) == had + q

\* add_to_cart writes: a new row, after a new cart if there was none, or the
\* quantity it has read plus q.  A cart or a row that another request has
\* inserted or deleted meanwhile makes it fail.
FinishAdd(r) ==
  LET s == req[r] IN
  /\ s.pc = "add"
  /\ s.fresh => s.cust \notin hasCart
  /\ \/ /\ s.row = 0 /\ nextRow <= MaxRows
        /\ rows' = [i \in DOMAIN rows \cup {nextRow} |->
                      IF i = nextRow THEN [cust |-> s.cust, good |-> s.good, qty |-> s.qty]
                                     ELSE rows[i]]
        /\ nextRow' = nextRow + 1
        /\ asked' = [asked EXCEPT ![s.cust][s.good] = @ + s.qty]
     \/ /\ s.row \in DOMAIN rows
        /\ rows' = [rows EXCEPT ![s.row].qty = Increased(s.had, s.qty)]
        /\ asked' = [asked EXCEPT ![s.cust][s.good] = @ + s.qty]
        /\ UNCHANGED nextRow
  /\ hasCart' = hasCart \cup {s.cust}
  /\ Finish(r)
  /\ UNCHANGED <<orders, prefix, lock, site, begun, overlapped>>

\* set_cart_quantity reads the row.
BeginSet(r, c, i, q) ==
  /\ i \in RowsOf(c)
  /\ Begin(r, [pc |-> "set", cust |-> c, row |-> i, qty |-> q, had |-> rows[i].qty], "set")
  /\ UNCHANGED <<hasCart, rows, nextRow, orders, prefix, lock, site, asked>>

\* set_cart_quantity writes, unless the row has the quantity already, or
\* deletes; only writing needs the row to be there still.
FinishSet(r) ==
  LET s == req[r] IN
  /\ s.pc = "set"
  /\ \/ s.qty = 0 /\ rows' = [i \in DOMAIN rows \ {s.row} |-> rows[i]]
     \/ s.qty > 0 /\ s.qty = s.had /\ UNCHANGED rows
     \/ s.qty > 0 /\ s.qty # s.had /\ s.row \in DOMAIN rows /\ rows' = [rows EXCEPT ![s.row].qty = s.qty]
  /\ asked' = IF s.row \in DOMAIN rows /\ rows' # rows
              THEN [asked EXCEPT ![s.cust][rows[s.row].good] = @ + s.qty - rows[s.row].qty]
              ELSE asked
  /\ Finish(r)
  /\ UNCHANGED <<hasCart, nextRow, orders, prefix, lock, site, begun, overlapped>>

-----------------------------------------------------------------------------
\* checkout reads the cart and its prices; an empty one is refused.
BeginCheckout(r, c) ==
  /\ RowsOf(c) # {}
  /\ Begin(r, [pc |-> "check", cust |-> c, lines |-> GetCartItems(c), asOf |-> edits], "checkout")
  /\ UNCHANGED <<hasCart, rows, nextRow, orders, prefix, lock, site, asked>>

\* Every line alone is compared with the balance of its good.
CheckStock(r) ==
  /\ req[r].pc = "check"
  /\ \A l \in req[r].lines : stock[l.good] >= l.qty
  /\ req' = [req EXCEPT ![r].pc = "clear"]
  /\ UNCHANGED <<hasCart, rows, nextRow, orders, prefix, lock, site, begun, asked, overlapped>>

\* The rows to delete are read again; the prefix is read before the lock.
ReadRows(r) ==
  LET s == req[r] IN
  /\ s.pc = "clear"
  /\ req' = [req EXCEPT ![r] = [pc |-> "number", cust |-> s.cust, lines |-> s.lines,
                                asOf |-> s.asOf, dead |-> RowsOf(s.cust), prefix |-> prefix]]
  /\ UNCHANGED <<hasCart, rows, nextRow, orders, prefix, lock, site, begun, asked, overlapped>>

\* Mutant of TakeNumber: without the lock.
TakeNumberUnlocked(r) ==
  LET s == req[r] IN
  /\ s.pc = "number"
  /\ req' = [req EXCEPT ![r] = [pc |-> "save", cust |-> s.cust, lines |-> s.lines, asOf |-> s.asOf,
                                dead |-> s.dead, number |-> NextNumber(s.prefix, Numbers)]]
  /\ UNCHANGED <<hasCart, rows, nextRow, orders, prefix, lock, site, begun, asked, overlapped>>

\* next_document_number: the lock is held until the transaction ends.
TakeNumber(r) ==
  LET s == req[r] IN
  /\ s.pc = "number"
  /\ lock = NoOne
  /\ lock' = r
  /\ req' = [req EXCEPT ![r] = [pc |-> "save", cust |-> s.cust, lines |-> s.lines, asOf |-> s.asOf,
                                dead |-> s.dead, number |-> NextNumber(s.prefix, Numbers)]]
  /\ UNCHANGED <<hasCart, rows, nextRow, orders, prefix, site, begun, asked, overlapped>>

\* Mutant of SaveOrder: the cart is not cleared.
SaveOrderOnly(r) ==
  LET s == req[r] IN
  /\ s.pc = "save" /\ Len(orders) < MaxOrders
  /\ orders' = Append(orders, [cust |-> s.cust, lines |-> s.lines, number |-> s.number,
                               byHand |-> FALSE, asOf |-> s.asOf])
  /\ lock' = NoOne
  /\ Finish(r)
  /\ UNCHANGED <<hasCart, rows, nextRow, prefix, site, begun, asked, overlapped>>

\* create_document and its commit, which also deletes the rows; one that
\* another request has deleted is passed over.
SaveOrder(r) ==
  LET s == req[r] IN
  /\ s.pc = "save"
  /\ Len(orders) < MaxOrders
  /\ orders' = Append(orders, [cust |-> s.cust, lines |-> s.lines, number |-> s.number,
                               byHand |-> FALSE, asOf |-> s.asOf])
  /\ rows' = [i \in DOMAIN rows \ s.dead |-> rows[i]]
  /\ lock' = NoOne
  /\ Finish(r)
  /\ UNCHANGED <<hasCart, nextRow, prefix, site, begun, asked, overlapped>>

\* An order an operator enters: in the journal its number is the next one, in
\* the API it may be given, any at all, and then the lock is not taken.
ZakazCreate(number, byHand) ==
  /\ Len(orders) < MaxOrders
  /\ IF byHand THEN number \in Custom ELSE number = NextNumber(prefix, Numbers) /\ lock = NoOne
  /\ orders' = Append(orders, [cust |-> NoOne, lines |-> {}, number |-> number,
                               byHand |-> byHand, asOf |-> edits])
  /\ UNCHANGED <<hasCart, rows, nextRow, prefix, lock, site, req, begun, asked, overlapped>>

\* set_constant("prefix_ib").
ChangePrefix(p) ==
  /\ p # prefix
  /\ prefix' = p
  /\ edits < MaxEdits /\ edits' = edits + 1
  /\ UNCHANGED <<hasCart, rows, nextRow, orders, lock, stock, published, enabled, created, today,
                 req, begun, asked, overlapped>>

-----------------------------------------------------------------------------
\* What others change: promotions, what the site shows, stock, the day.
Edit ==
  /\ edits < MaxEdits /\ edits' = edits + 1
  /\ UNCHANGED <<hasCart, rows, nextRow, orders, prefix, lock, req, begun, asked, overlapped>>

SiteCreatePromotion(p) ==
  /\ Edit
  /\ created' = created \cup {p} /\ p \notin created /\ \A q \in created : q < p
  /\ enabled' = enabled \cup {p}
  /\ UNCHANGED <<stock, published, today>>

SiteTogglePromotion(p) ==
  /\ Edit
  /\ p \in created
  /\ enabled' = IF p \in enabled THEN enabled \ {p} ELSE enabled \cup {p}
  /\ UNCHANGED <<stock, published, created, today>>

SiteDeletePromotion(p) ==
  /\ Edit
  /\ p \in created
  /\ created' = created \ {p} /\ enabled' = enabled \ {p}
  /\ UNCHANGED <<stock, published, today>>

SiteToggleProduct(g) ==
  /\ Edit
  /\ published' = IF g \in published THEN published \ {g} ELSE published \cup {g}
  /\ UNCHANGED <<stock, enabled, created, today>>

\* A sale posted elsewhere.
SellElsewhere(g) ==
  /\ Edit
  /\ stock[g] > 0 /\ stock' = [stock EXCEPT ![g] = @ - 1]
  /\ UNCHANGED <<published, enabled, created, today>>

NextDay ==
  /\ Edit
  /\ today' = today + 1
  /\ UNCHANGED <<stock, published, enabled, created>>

-----------------------------------------------------------------------------
\* The routes of the cart, of the site and of its API alike.
CartRoutes(r) ==
  \/ \E c \in Customers, g \in Goods, q \in Quantities : BeginAdd(r, c, g, q)
  \/ FinishAdd(r)
  \/ \E c \in Customers, i \in DOMAIN rows, q \in Quantities : BeginSet(r, c, i, q)
  \/ FinishSet(r)

CheckoutRoute(r) ==
  \/ \E c \in Customers : BeginCheckout(r, c)
  \/ CheckStock(r)
  \/ ReadRows(r)
  \/ TakeNumber(r)
  \/ SaveOrder(r)

SiteAdmin ==
  \/ \E p \in PromoIds : SiteCreatePromotion(p) \/ SiteTogglePromotion(p) \/ SiteDeletePromotion(p)
  \/ \E g \in Goods : SiteToggleProduct(g)

Next ==
  \/ \E r \in Requests : CartRoutes(r) \/ CheckoutRoute(r) \/ Fail(r)
  \/ \E number \in Custom \cup {NextNumber(prefix, Numbers)}, byHand \in BOOLEAN :
       ZakazCreate(number, byHand)
  \/ \E p \in PrefixIB : ChangePrefix(p)
  \/ SiteAdmin
  \/ \E g \in Goods : SellElsewhere(g)
  \/ NextDay

Spec == Init /\ [][Next]_vars

-----------------------------------------------------------------------------
TypeOK ==
  /\ hasCart \subseteq Customers
  /\ nextRow \in 1 .. MaxRows + 1
  /\ DOMAIN rows \subseteq 1 .. nextRow - 1
  /\ \A i \in DOMAIN rows : rows[i] \in Row
  /\ \A i \in DOMAIN orders : orders[i].number \in DocNumber /\ orders[i].cust \in Customers \cup {NoOne}
  /\ prefix \in PrefixIB
  /\ lock \in Requests \cup {NoOne}
  /\ stock \in [Goods -> Nat] /\ published \subseteq Goods
  /\ enabled \subseteq created /\ created \subseteq PromoIds
  /\ \A r \in Requests : (lock = r <=> req[r].pc = "save")
  /\ overlapped \in [Customers -> SUBSET SUBSET Operation]

OrdersOf(c) == {i \in DOMAIN orders : orders[i].cust = c}

InCart(c, g) == SumFunctionOnSet([i \in DOMAIN rows |-> rows[i].qty], RowsWith(c, g))

InLines(lines, g) == SumFunctionOnSet([l \in lines |-> l.qty], {l \in lines : l.good = g})

Ordered(c, g) ==
  SumFunctionOnSet([i \in DOMAIN orders |-> InLines(orders[i].lines, g)], OrdersOf(c))

\* What customers put into a cart is in it or in an order, neither lost nor
\* ordered twice, as long as the requests of one cart do not overlap:
\* checkout reads the cart twice and writes quantities it has read before.
CartConserved ==
  \A c \in Customers, g \in Goods :
    overlapped[c] = {} => InCart(c, g) + Ordered(c, g) = asked[c][g]

\* A row of a cart is ordered once, unless two checkouts overlapped: no other
\* request lets checkout see a row that an order has taken.
OrderedOnce ==
  \A c \in Customers : \A i, j \in OrdersOf(c) :
    (i # j /\ \E k \in orders[i].lines, l \in orders[j].lines : k.row = l.row)
      => {"checkout"} \in overlapped[c]

\* A good has one row in a cart (add_to_cart fails where it finds two, and
\* the good cannot be added any more), unless two first additions overlapped.
OneRowPerGood ==
  \A c \in Customers, g \in Goods :
    Cardinality(RowsWith(c, g)) > 1 => {"add"} \in overlapped[c]

\* A line is sold at the price the catalogue shows, if nothing has changed on
\* the site since the cart was read: cart and catalogue agree (effective_price,
\* "the single point of calculation").
CatalogPriceCharged ==
  \A i \in DOMAIN orders : orders[i].asOf = edits =>
    \A l \in orders[i].lines :
      l.good \in DOMAIN AvailableProducts => l.price = AvailableProducts[l.good]

\* Two orders have the same number only where one of the two was given it by
\* hand, or where counting by text goes wrong: past 99999, or where another
\* prefix is about.  Requests that create orders at the same time never take
\* the same number, whatever numbers are given by hand meanwhile.
NumbersDistinct ==
  \A i, j \in DOMAIN orders : (i < j /\ orders[i].number = orders[j].number) =>
    \/ orders[i].byHand \/ orders[j].byHand
    \/ orders[j].number.count >= Padded
    \/ \E k \in 1 .. j - 1 : orders[k].number.prefix # orders[j].number.prefix

=============================================================================
