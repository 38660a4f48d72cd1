-------------------------- MODULE OrderFulfilment --------------------------
(***************************************************************************)
(* A buyer's order (ZAKAZ) from its creation to its sale: its state, its   *)
(* reservation, shipping and selling it at the till (app/web/trade.py,     *)
(* zakaz_* and rmk_sell; app/services/stock_service.py).                   *)
(*                                                                         *)
(* A request is several transactions one after the other and may stop      *)
(* between any two of them.  A transaction is one step here, but for a     *)
(* posting: _check_stock reads what is available row by row and locks      *)
(* nothing, the goods are taken afterwards.  What else can overlap inside  *)
(* a transaction is in DocumentLifecycle and StockConcurrency.  One        *)
(* warehouse, stock controlled by warehouse, and batches added up.         *)
(***************************************************************************)
EXTENDS Integers, Sequences, FiniteSets, Functions

CONSTANTS
  Sessions,
  Orders,
  Goods,
  Lines,    \* the rows of each order, [good, qty]
  Sales,    \* the documents (RASHOD) there can be, a bound of the model
  MaxBook,  \* bound of the model: goods received
  NoOrder, NoSale

ASSUME OrderAssumption ==
  /\ \A o \in Orders : Lines[o] \in Seq([good : Goods, qty : Nat])
  /\ MaxBook \in Nat
  /\ NoOrder \notin Orders
  /\ NoSale \notin Sales

VARIABLES
  state,    \* extra["state"] of each order
  reserved, \* the orders whose rows are reserved
  book,     \* what the batches hold of each good
  sale,     \* the sales: [order, status]
  sess,     \* what every session is doing
  kept,     \* history: orders that may keep a reservation although closed
  again,    \* history: orders that may be sold more than once
  cut       \* history: goods taken by someone who had not looked at what is reserved
            \* of them, or someone took or reserved them after he had

vars == <<state, reserved, book, sale, sess, kept, again, cut>>

\* The states "new" and "in_work" are one here: nothing tells them apart.
Closed == {"done", "cancelled"}
States == {"open"} \cup Closed
SaleStatus == {"absent", "draft", "posted"}
Phases == {"idle", "releasing", "shipping", "shipped", "selling", "sold", "posting"}

Idle == [pc |-> "idle", order |-> NoOrder, sale |-> NoSale, mem |-> "unread", line |-> 0]

\* mem: the state of the order in the session's identity map.
\* line: the row of the sale to be checked next, 0 before its posting holds the lock.
Session == [pc : Phases, order : Orders \cup {NoOrder}, sale : Sales \cup {NoSale},
            mem : States \cup {"absent", "unread"}, line : Nat]

TypeOK ==
  /\ state \in [Orders -> States \cup {"absent"}]
  /\ reserved \in SUBSET Orders
  /\ book \in [Goods -> Int]
  /\ sale \in [Sales -> [order : Orders \cup {NoOrder}, status : SaleStatus]]
  /\ sess \in [Sessions -> Session]
  /\ kept \in SUBSET Orders
  /\ again \in SUBSET Orders
  /\ cut \in SUBSET Goods

Init ==
  /\ state = [o \in Orders |-> "absent"]
  /\ reserved = {}
  /\ book = [g \in Goods |-> 0]
  /\ sale = [k \in Sales |-> [order |-> NoOrder, status |-> "absent"]]
  /\ sess = [s \in Sessions |-> Idle]
  /\ kept = {}
  /\ again = {}
  /\ cut = {}

-----------------------------------------------------------------------------
RowsOf(o, g) == {i \in DOMAIN Lines[o] : Lines[o][i].good = g}

\* What an order's rows ask for of a good.
Asked(o, g) == SumFunctionOnSet([i \in DOMAIN Lines[o] |-> Lines[o][i].qty], RowsOf(o, g))

ReservedOf(g) == SumFunctionOnSet([o \in reserved |-> Asked(o, g)], reserved)

\* Mutant: what is reserved counts as available.
OnBook(g) == book[g]

\* get_available.
Available(g) == book[g] - ReservedOf(g)

At(s, pc) == sess[s].pc = pc

Begin(s, pc, o, k, mem) ==
  sess' = [sess EXCEPT ![s] = [pc |-> pc, order |-> o, sale |-> k, mem |-> mem, line |-> 0]]

Goto(s, pc) == Begin(s, pc, sess[s].order, sess[s].sale, sess[s].mem)

Finish(s) == sess' = [sess EXCEPT ![s] = Idle]

\* A request about an order, other than a posting by hand.
Busy(o) == \E s \in Sessions : sess[s].order = o /\ ~ At(s, "posting")

\* The goods whose rows a posting has checked, and has not taken yet.
Checked(s) ==
  {g \in Goods : sess[s].line > 0 /\ \E i \in RowsOf(sess[s].order, g) : i < sess[s].line}

-----------------------------------------------------------------------------
\* zakaz_create, and a customer's checkout.
ZakazCreate(o) ==
  /\ state[o] = "absent"
  /\ state' = [state EXCEPT ![o] = "open"]
  /\ UNCHANGED <<reserved, book, sale, sess, kept, again, cut>>

\* Goods arrive.
Receive(g) ==
  /\ book[g] < MaxBook
  /\ book' = [book EXCEPT ![g] = @ + 1]
  /\ UNCHANGED <<state, reserved, sale, sess, kept, again, cut>>

\* A write-off or a transfer: what is reserved is not looked at.
WriteOff(g) ==
  /\ book[g] > 0
  /\ book' = [book EXCEPT ![g] = @ - 1]
  /\ cut' = cut \cup {g}
  /\ UNCHANGED <<state, reserved, sale, sess, kept, again>>

\* zakaz_state: the state first; a reservation is released by a second
\* transaction.  A closed order may be opened again.
ZakazState(s, o, new) ==
  /\ At(s, "idle")
  /\ state[o] # "absent"
  /\ state' = [state EXCEPT ![o] = new]
  /\ IF new \in Closed THEN Begin(s, "releasing", o, NoSale, new) ELSE UNCHANGED sess
  /\ again' = IF new \notin Closed /\ state[o] \in Closed THEN again \cup {o} ELSE again
  /\ UNCHANGED <<reserved, book, sale, kept, cut>>

ReleaseForZakaz(s) ==
  /\ At(s, "releasing")
  /\ reserved' = reserved \ {sess[s].order}
  /\ kept' = kept \ {sess[s].order}
  /\ Finish(s)
  /\ UNCHANGED <<state, book, sale, again, cut>>

\* zakaz_reserve: in one transaction, the order's earlier reservation is
\* released and every row is checked; the rows before it are not flushed.
\* The state of the order is not looked at.
ZakazReserve(o) ==
  /\ state[o] # "absent"
  /\ Lines[o] # <<>>
  /\ \A i \in DOMAIN Lines[o] :
       Available(Lines[o][i].good)
         + (IF o \in reserved THEN Asked(o, Lines[o][i].good) ELSE 0) >= Lines[o][i].qty
  /\ reserved' = reserved \cup {o}
  /\ kept' = IF state[o] \in Closed THEN kept \cup {o} ELSE kept
  /\ cut' = cut \cup {g \in Goods : RowsOf(o, g) # {} /\ \E s \in Sessions : g \in Checked(s)}
  /\ UNCHANGED <<state, book, sale, sess, again>>

-----------------------------------------------------------------------------
\* create_document of the sale, committed on its own.
CreateSale(o, k) ==
  /\ state[o] # "absent"
  /\ sale[k].status = "absent"
  /\ sale' = [sale EXCEPT ![k] = [order |-> o, status |-> "draft"]]
  /\ again' = IF state[o] \in Closed \/ Busy(o) THEN again \cup {o} ELSE again
  /\ UNCHANGED <<state, reserved, book, kept, cut>>

\* zakaz_ship: the order's rows, as they are.
ZakazShip(s, o, k) ==
  /\ At(s, "idle")
  /\ Lines[o] # <<>>
  /\ CreateSale(o, k)
  /\ Begin(s, "shipping", o, k, state[o])

\* rmk_sell of an order, of the rows the till fills in from it.  The order is
\* read at once only when the buyer is not given.
RmkSell(s, o, k) ==
  /\ At(s, "idle")
  /\ Lines[o] # <<>>
  /\ CreateSale(o, k)
  /\ \E mem \in {state[o], "unread"} : Begin(s, "selling", o, k, mem)

\* An operator posts a sale that was left a draft, from its own page.
DocumentPost(s, k) ==
  /\ At(s, "idle")
  /\ sale[k].status = "draft"
  /\ Begin(s, "posting", sale[k].order, k, "unread")
  /\ UNCHANGED <<state, reserved, book, sale, kept, again, cut>>

Pending(s) == sess[s].pc \in {"shipping", "selling", "posting"}

\* What follows post_document.
Proceed(s) ==
  \/ At(s, "shipping") /\ Goto(s, "shipped")
  \/ At(s, "selling") /\ Goto(s, "sold")
  \/ At(s, "posting") /\ Finish(s)

\* post_document: the advisory lock of the sale, and its status read again.
LockSale(s) ==
  LET k == sess[s].sale IN
  /\ Pending(s)
  /\ sess[s].line = 0
  /\ \A t \in Sessions : sess[t].sale = k => sess[t].line = 0
  /\ sale[k].status = "draft"
  /\ sess' = [sess EXCEPT ![s].line = 1]
  /\ UNCHANGED <<state, reserved, book, sale, kept, again, cut>>

\* The early return: the sale has been posted from its own page.
SalePosted(s) ==
  /\ Pending(s)
  /\ sess[s].line = 0
  /\ sale[sess[s].sale].status = "posted"
  /\ Proceed(s)
  /\ UNCHANGED <<state, reserved, book, sale, kept, again, cut>>

Row(s) == Lines[sess[s].order][sess[s].line]

\* _check_stock: row by row, the order's own reservation included, no lock.
CheckRow(s) ==
  /\ Pending(s)
  /\ sess[s].line \in DOMAIN Lines[sess[s].order]
  /\ Available(Row(s).good) >= Row(s).qty
  /\ sess' = [sess EXCEPT ![s].line = @ + 1]
  /\ UNCHANGED <<state, reserved, book, sale, kept, again, cut>>

AllChecked(s) == sess[s].line = Len(Lines[sess[s].order]) + 1

EnoughFor(o) == \A g \in Goods : book[g] >= Asked(o, g)

\* The batches are consumed, the sale is posted.
PostSale(s) ==
  LET o == sess[s].order IN
  /\ Pending(s)
  /\ AllChecked(s)
  /\ EnoughFor(o)
  /\ sale' = [sale EXCEPT ![sess[s].sale].status = "posted"]
  /\ book' = [g \in Goods |-> book[g] - Asked(o, g)]
  /\ again' = IF At(s, "posting") THEN again \cup {o} ELSE again
  /\ cut' = cut \cup {g \in Goods : RowsOf(o, g) # {}
                                     /\ \E t \in Sessions \ {s} : g \in Checked(t)}
  /\ Proceed(s)
  /\ UNCHANGED <<state, reserved, kept>>

\* The sale is refused, by a row's check or by its batches, and stays a draft.
SaleRefused(s) ==
  /\ Pending(s)
  /\ \/ /\ sess[s].line \in DOMAIN Lines[sess[s].order]
        /\ Available(Row(s).good) < Row(s).qty
     \/ AllChecked(s) /\ ~ EnoughFor(sess[s].order)
  /\ Finish(s)
  /\ UNCHANGED <<state, reserved, book, sale, kept, again, cut>>

\* extra["state"] = "done"; no UPDATE when that is what the session has read.
StoreDone(s) ==
  LET o == sess[s].order
      mem == IF sess[s].mem = "unread" THEN state[o] ELSE sess[s].mem
  IN state' = IF mem = "done" THEN state ELSE [state EXCEPT ![o] = "done"]

\* Mutant: the state alone is stored.
CloseShippedKeepsReserve(s) ==
  /\ At(s, "shipped")
  /\ StoreDone(s)
  /\ Finish(s)
  /\ UNCHANGED <<reserved, book, sale, kept, again, cut>>

\* The end of zakaz_ship.
CloseShipped(s) ==
  /\ At(s, "shipped")
  /\ reserved' = reserved \ {sess[s].order}
  /\ kept' = kept \ {sess[s].order}
  /\ StoreDone(s)
  /\ Finish(s)
  /\ UNCHANGED <<book, sale, again, cut>>

\* Mutant: the sale at the till leaves the order open.
CloseSoldLeavesOpen(s) ==
  /\ At(s, "sold")
  /\ Finish(s)
  /\ UNCHANGED <<state, reserved, book, sale, kept, again, cut>>

\* The end of rmk_sell: the reservation is not released.
CloseSold(s) ==
  /\ At(s, "sold")
  /\ StoreDone(s)
  /\ kept' = IF sess[s].order \in reserved THEN kept \cup {sess[s].order} ELSE kept
  /\ Finish(s)
  /\ UNCHANGED <<reserved, book, sale, again, cut>>

\* The process stops, or the client's connection and its task with it.
Crash(s) ==
  /\ ~ At(s, "idle")
  /\ kept' = IF At(s, "releasing") THEN kept \cup {sess[s].order} ELSE kept
  /\ again' = IF At(s, "shipped") \/ At(s, "sold") THEN again \cup {sess[s].order} ELSE again
  /\ Finish(s)
  /\ UNCHANGED <<state, reserved, book, sale, cut>>

-----------------------------------------------------------------------------
\* An operator cancels the posting of a sale.
DocumentUnpost(k) ==
  /\ sale[k].status = "posted"
  /\ sale' = [sale EXCEPT ![k].status = "draft"]
  /\ book' = [g \in Goods |-> book[g] + Asked(sale[k].order, g)]
  /\ UNCHANGED <<state, reserved, sess, kept, again, cut>>

-----------------------------------------------------------------------------
Continue(s) ==
  \/ ReleaseForZakaz(s)
  \/ LockSale(s) \/ SalePosted(s) \/ CheckRow(s) \/ PostSale(s) \/ SaleRefused(s)
  \/ CloseShipped(s) \/ CloseSold(s)

Next ==
  \/ \E g \in Goods : Receive(g) \/ WriteOff(g)
  \/ \E o \in Orders : ZakazCreate(o) \/ ZakazReserve(o)
  \/ \E k \in Sales : DocumentUnpost(k)
  \/ \E s \in Sessions :
       \/ \E o \in Orders, new \in States : ZakazState(s, o, new)
       \/ \E o \in Orders, k \in Sales : ZakazShip(s, o, k) \/ RmkSell(s, o, k)
       \/ \E k \in Sales : DocumentPost(s, k)
       \/ Continue(s) \/ Crash(s)

Spec == Init /\ [][Next]_vars

-----------------------------------------------------------------------------
(***************************************************************************)
(* Properties                                                              *)
(***************************************************************************)

\* No order names the good twice.
NamedOnce(g) == \A o \in Orders : Cardinality(RowsOf(o, g)) <= 1

\* Reservations are covered by goods: neither reserving nor any sale, of the
\* order itself or of another, leaves less on the book than is reserved
\* (get_available in reserve and _check_stock).  It holds of a good until it is
\* written off, which looks at no reservation, or someone sells or reserves it
\* between a sale's check, which locks nothing, and its consumption.  A good
\* that an order names twice is left out: its second row does not see its first.
ReservationsCovered ==
  \A g \in Goods \ cut : NamedOnce(g) => ReservedOf(g) <= book[g]

\* "При выполнении/отмене — снимаем резерв": a closed order holds no
\* reservation once the request that closed it is over, unless it was sold at
\* the till, reserved after it was closed, or its release was interrupted.
ClosedOrdersHoldNothing ==
  \A o \in Orders :
    state[o] \in Closed /\ o \in reserved =>
      o \in kept \/ \E s \in Sessions : sess[s].order = o /\ At(s, "releasing")

\* An order is sold once: it is closed behind its sale, and only a request
\* about a closed or reopened order, two requests at a time, an interrupted
\* one, or a draft posted by hand can sell it again.
SoldOnce ==
  \A o \in Orders \ again : \A k, l \in Sales :
    sale[k] = [order |-> o, status |-> "posted"] /\ sale[l] = sale[k] => k = l

=============================================================================
