---------------------- MODULE OrderFulfilment_proofs ----------------------
(***************************************************************************)
(* Three properties of OrderFulfilment for any sessions, orders, goods and *)
(* sales.  The first two depend on the order of the transactions only, not *)
(* on how much there is of a good; the third is about the sums over rows   *)
(* and reservations.                                                       *)
(***************************************************************************)
EXTENDS OrderFulfilment, FiniteSums, SequenceTheorems, TLAPS

\* The types of everything but the book.
ControlOK ==
  /\ state \in [Orders -> States \cup {"absent"}]
  /\ reserved \in SUBSET Orders
  /\ sale \in [Sales -> [order : Orders \cup {NoOrder}, status : SaleStatus]]
  /\ sess \in [Sessions -> Session]
  /\ kept \in SUBSET Orders
  /\ again \in SUBSET Orders
  /\ cut \in SUBSET Goods

SellPhases == {"shipping", "selling", "shipped", "sold"}

\* A request in a phase is about an order, and about a sale of that order.
PhasesNameOrders ==
  \A s \in Sessions :
    /\ sess[s].pc = "releasing" => sess[s].order \in Orders
    /\ sess[s].pc \in SellPhases \cup {"posting"} =>
         /\ sess[s].order \in Orders
         /\ sess[s].sale \in Sales
         /\ sale[sess[s].sale].order = sess[s].order
         /\ sale[sess[s].sale].status # "absent"

DraftsNameOrders ==
  \A k \in Sales : sale[k].status # "absent" => sale[k].order \in Orders

IsPosted(k, o) == sale[k].order = o /\ sale[k].status = "posted"

\* The requests that sell an order not counted in again, one at a time.
OneSeller ==
  \A o \in Orders \ again : \A s, t \in Sessions :
    /\ sess[s].order = o /\ sess[s].pc \in SellPhases
    /\ sess[t].order = o /\ sess[t].pc \in SellPhases
    => s = t

\* Such a request read the order while it was open.
SellersReadOpen ==
  \A s \in Sessions :
    sess[s].order \notin again /\ sess[s].pc \in SellPhases => sess[s].mem # "done"

\* While its sale is pending nothing of the order is posted.
PendingUnsold ==
  \A s \in Sessions :
    /\ sess[s].order \notin again
    /\ sess[s].pc \in {"shipping", "selling"}
    => \A k \in Sales : ~ IsPosted(k, sess[s].order)

\* An order with a posted sale is closed, or its seller is about to close it.
SoldCloses ==
  \A o \in Orders \ again : \A k \in Sales :
    IsPosted(k, o) =>
      \/ state[o] \in Closed
      \/ \E s \in Sessions : sess[s].order = o /\ sess[s].pc \in {"shipped", "sold"}

IInv ==
  /\ ControlOK /\ PhasesNameOrders /\ DraftsNameOrders
  /\ OneSeller /\ SellersReadOpen /\ PendingUnsold /\ SoldCloses /\ SoldOnce

\* SoldOnce in terms of IsPosted.
LEMMA OnePosted ==
  ASSUME ControlOK, SoldOnce, NEW o \in Orders \ again, NEW k \in Sales, NEW l \in Sales,
         IsPosted(k, o), IsPosted(l, o)
  PROVE  k = l
<1>1. sale[k] = [order |-> o, status |-> "posted"]
  BY DEF ControlOK, IsPosted
<1>2. sale[l] = sale[k]
  BY <1>1 DEF ControlOK, IsPosted
<1> QED BY <1>1, <1>2 DEF SoldOnce

LEMMA IdleIsSession == Idle \in Session
  BY DEF Idle, Session, Phases

LEMMA InitIInv == Init => IInv
<1> SUFFICES ASSUME Init PROVE IInv
  OBVIOUS
<1>1. ControlOK
  BY DEF Init, ControlOK, SaleStatus, Session, Phases, Idle
<1>2. PhasesNameOrders /\ DraftsNameOrders /\ OneSeller /\ SellersReadOpen
  BY DEF Init, Idle, SellPhases, PhasesNameOrders, DraftsNameOrders, OneSeller,
     SellersReadOpen
<1>3. PendingUnsold /\ SoldCloses /\ SoldOnce
  BY DEF Init, IsPosted, PendingUnsold, SoldCloses, SoldOnce
<1> QED BY <1>1, <1>2, <1>3 DEF IInv

-----------------------------------------------------------------------------
(***************************************************************************)
(* The invariant is preserved, one lemma per action.                       *)
(***************************************************************************)

LEMMA ReceiveStep ==
  ASSUME IInv, NEW g \in Goods, Receive(g)
  PROVE  IInv'
<1>1. ControlOK'
  BY DEF IInv, ControlOK, Receive
<1>2. PhasesNameOrders'
  BY DEF IInv, PhasesNameOrders, Receive
<1>3. DraftsNameOrders'
  BY DEF IInv, DraftsNameOrders, Receive
<1>4. OneSeller'
  BY DEF IInv, OneSeller, Receive
<1>5. SellersReadOpen'
  BY DEF IInv, SellersReadOpen, Receive
<1>6. PendingUnsold'
  BY DEF IInv, PendingUnsold, IsPosted, Receive
<1>7. SoldCloses'
  BY DEF IInv, SoldCloses, IsPosted, Receive
<1>8. SoldOnce'
  BY DEF IInv, SoldOnce, Receive
<1> QED BY <1>1, <1>2, <1>3, <1>4, <1>5, <1>6, <1>7, <1>8 DEF IInv

LEMMA WriteOffStep ==
  ASSUME IInv, NEW g \in Goods, WriteOff(g)
  PROVE  IInv'
<1>1. ControlOK'
  BY DEF IInv, ControlOK, WriteOff
<1>2. PhasesNameOrders'
  BY DEF IInv, PhasesNameOrders, WriteOff
<1>3. DraftsNameOrders'
  BY DEF IInv, DraftsNameOrders, WriteOff
<1>4. OneSeller'
  BY DEF IInv, OneSeller, WriteOff
<1>5. SellersReadOpen'
  BY DEF IInv, SellersReadOpen, WriteOff
<1>6. PendingUnsold'
  BY DEF IInv, PendingUnsold, IsPosted, WriteOff
<1>7. SoldCloses'
  BY DEF IInv, SoldCloses, IsPosted, WriteOff
<1>8. SoldOnce'
  BY DEF IInv, SoldOnce, WriteOff
<1> QED BY <1>1, <1>2, <1>3, <1>4, <1>5, <1>6, <1>7, <1>8 DEF IInv

LEMMA ZakazCreateStep ==
  ASSUME IInv, NEW o \in Orders, ZakazCreate(o)
  PROVE  IInv'
<1>1. ControlOK'
  BY DEF IInv, ControlOK, States, ZakazCreate
<1>2. PhasesNameOrders'
  BY DEF IInv, PhasesNameOrders, ZakazCreate
<1>3. DraftsNameOrders'
  BY DEF IInv, DraftsNameOrders, ZakazCreate
<1>4. OneSeller'
  BY DEF IInv, OneSeller, ZakazCreate
<1>5. SellersReadOpen'
  BY DEF IInv, SellersReadOpen, ZakazCreate
<1>6. PendingUnsold'
  BY DEF IInv, PendingUnsold, IsPosted, ZakazCreate
<1>7. SoldCloses'
  BY DEF IInv, SoldCloses, IsPosted, Closed, ZakazCreate
<1>8. SoldOnce'
  BY DEF IInv, SoldOnce, ZakazCreate
<1> QED BY <1>1, <1>2, <1>3, <1>4, <1>5, <1>6, <1>7, <1>8 DEF IInv

LEMMA ZakazStateStep ==
  ASSUME IInv, NEW s \in Sessions, NEW o \in Orders, NEW new \in States, ZakazState(s, o, new)
  PROVE  IInv'
<1>1. ControlOK'
  BY DEF IInv, ControlOK, Session, Phases, ZakazState, Begin
<1>2. PhasesNameOrders'
  BY DEF IInv, PhasesNameOrders, ControlOK, SellPhases, ZakazState, Begin
<1>3. DraftsNameOrders'
  BY DEF IInv, DraftsNameOrders, ZakazState
<1>4. OneSeller'
  BY DEF IInv, OneSeller, ControlOK, SellPhases, ZakazState, Begin
<1>5. SellersReadOpen'
  BY DEF IInv, SellersReadOpen, ControlOK, SellPhases, ZakazState, Begin
<1>6. PendingUnsold'
  BY DEF IInv, PendingUnsold, ControlOK, IsPosted, ZakazState, Begin
<1>7. SoldCloses'
  <2>1. \A l \in Sales, p \in Orders : IsPosted(l, p)' <=> IsPosted(l, p)
    BY DEF ZakazState, IsPosted
  <2>2. \A t \in Sessions : t # s => sess'[t] = sess[t]
    BY DEF IInv, ControlOK, ZakazState, Begin
  <2>3. \A p \in Orders \ again' : p \notin again /\ (state[p] \in Closed => state'[p] \in Closed)
    BY DEF ZakazState
  <2>4. sess[s].pc = "idle"
    BY DEF ZakazState, At
  <2> QED
    <3> SUFFICES ASSUME NEW p \in Orders \ again', NEW l \in Sales, IsPosted(l, p)',
                        state'[p] \notin Closed
                 PROVE  \E t \in Sessions : sess'[t].order = p /\ sess'[t].pc \in {"shipped", "sold"}
      BY DEF SoldCloses
    <3>1. PICK t \in Sessions : sess[t].order = p /\ sess[t].pc \in {"shipped", "sold"}
      BY <2>1, <2>3 DEF IInv, SoldCloses
    <3> QED BY <3>1, <2>2, <2>4
<1>8. SoldOnce'
  BY DEF IInv, SoldOnce, ZakazState
<1> QED BY <1>1, <1>2, <1>3, <1>4, <1>5, <1>6, <1>7, <1>8 DEF IInv

LEMMA ReleaseForZakazStep ==
  ASSUME IInv, NEW s \in Sessions, ReleaseForZakaz(s)
  PROVE  IInv'
<1>1. ControlOK'
  BY DEF IInv, ControlOK, Session, Phases, ReleaseForZakaz, Finish, Idle
<1>2. PhasesNameOrders'
  BY DEF IInv, PhasesNameOrders, SellPhases, ReleaseForZakaz, Finish, Idle
<1>3. DraftsNameOrders'
  BY DEF IInv, DraftsNameOrders, ReleaseForZakaz
<1>4. OneSeller'
  BY DEF IInv, OneSeller, SellPhases, ReleaseForZakaz, Finish, Idle
<1>5. SellersReadOpen'
  BY DEF IInv, SellersReadOpen, ReleaseForZakaz, Finish, Idle
<1>6. PendingUnsold'
  BY DEF IInv, PendingUnsold, IsPosted, ReleaseForZakaz, Finish, Idle
<1>7. SoldCloses'
  BY DEF IInv, SoldCloses, IsPosted, At, ReleaseForZakaz, Finish
<1>8. SoldOnce'
  BY DEF IInv, SoldOnce, ReleaseForZakaz
<1> QED BY <1>1, <1>2, <1>3, <1>4, <1>5, <1>6, <1>7, <1>8 DEF IInv

LEMMA ZakazReserveStep ==
  ASSUME IInv, NEW o \in Orders, ZakazReserve(o)
  PROVE  IInv'
<1>1. ControlOK'
  BY DEF IInv, ControlOK, ZakazReserve
<1>2. PhasesNameOrders'
  BY DEF IInv, PhasesNameOrders, ZakazReserve
<1>3. DraftsNameOrders'
  BY DEF IInv, DraftsNameOrders, ZakazReserve
<1>4. OneSeller'
  BY DEF IInv, OneSeller, ZakazReserve
<1>5. SellersReadOpen'
  BY DEF IInv, SellersReadOpen, ZakazReserve
<1>6. PendingUnsold'
  BY DEF IInv, PendingUnsold, IsPosted, ZakazReserve
<1>7. SoldCloses'
  BY DEF IInv, SoldCloses, IsPosted, ZakazReserve
<1>8. SoldOnce'
  BY DEF IInv, SoldOnce, ZakazReserve
<1> QED BY <1>1, <1>2, <1>3, <1>4, <1>5, <1>6, <1>7, <1>8 DEF IInv

\* zakaz_ship and rmk_sell begin alike.
LEMMA BeginSaleStep ==
  ASSUME IInv, NEW s \in Sessions, NEW o \in Orders, NEW k \in Sales,
         NEW pc \in {"shipping", "selling"}, NEW mem \in {state[o], "unread"},
         At(s, "idle"), CreateSale(o, k), Begin(s, pc, o, k, mem)
  PROVE  IInv'
<1>1. ControlOK'
  BY DEF IInv, ControlOK, Session, Phases, SaleStatus, CreateSale, Begin
<1>2. PhasesNameOrders'
  <2>1. \A t \in Sessions : t # s => sess'[t] = sess[t]
    BY DEF Begin
  <2>2. sess'[s] = [pc |-> pc, order |-> o, sale |-> k, mem |-> mem, line |-> 0]
    BY DEF IInv, ControlOK, Begin
  <2>3. sale'[k].order = o /\ sale'[k].status = "draft" /\ sale[k].status = "absent"
    BY DEF IInv, ControlOK, CreateSale
  <2>4. \A l \in Sales : sale'[l] = sale[l] \/ l = k
    BY DEF CreateSale
  <2> QED BY <2>1, <2>2, <2>3, <2>4 DEF IInv, PhasesNameOrders
<1>3. DraftsNameOrders'
  BY DEF IInv, DraftsNameOrders, CreateSale
<1>4. OneSeller'
  BY DEF IInv, OneSeller, SellPhases, At, CreateSale, Begin, Busy
<1>5. SellersReadOpen'
  <2>1. o \notin again' => state[o] \in States \ Closed
    BY DEF IInv, ControlOK, CreateSale
  <2> QED BY <2>1 DEF IInv, SellersReadOpen, ControlOK, CreateSale, Begin, States
<1>6. PendingUnsold'
  <2>1. \A l \in Sales, p \in Orders : IsPosted(l, p)' <=> IsPosted(l, p)
    BY DEF CreateSale, IsPosted
  <2>2. again \subseteq again' /\ (o \notin again' => state[o] \notin Closed /\ ~ Busy(o))
    BY DEF CreateSale
  <2>3. \A t \in Sessions : t # s => sess'[t] = sess[t]
    BY DEF Begin
  <2>4. sess'[s].order = o /\ sess'[s].pc = pc /\ sess[s].pc = "idle"
    BY DEF IInv, ControlOK, Begin, At
  <2>5. o \notin again' => \A l \in Sales : ~ IsPosted(l, o)
    BY <2>2 DEF IInv, SoldCloses, Busy, At
  <2> QED
    <3> SUFFICES ASSUME NEW t \in Sessions, sess'[t].order \notin again',
                        sess'[t].pc \in {"shipping", "selling"}, NEW l \in Sales
                 PROVE  ~ (sale'[l].order = sess'[t].order /\ sale'[l].status = "posted")
      BY DEF PendingUnsold, IsPosted
    <3>1. CASE t = s
      BY <3>1, <2>1, <2>4, <2>5 DEF IsPosted
    <3>2. CASE t # s
      BY <3>2, <2>1, <2>2, <2>3 DEF IInv, PendingUnsold, PhasesNameOrders, SellPhases,
         IsPosted
    <3> QED BY <3>1, <3>2
<1>7. SoldCloses'
  <2>1. \A l \in Sales, p \in Orders : IsPosted(l, p)' <=> IsPosted(l, p)
    BY DEF CreateSale, IsPosted
  <2>2. again \subseteq again' /\ (o \notin again' => state[o] \notin Closed /\ ~ Busy(o))
    BY DEF CreateSale
  <2>3. \A t \in Sessions : t # s => sess'[t] = sess[t]
    BY DEF Begin
  <2>4. sess'[s].order = o /\ sess'[s].pc = pc /\ sess[s].pc = "idle"
    BY DEF IInv, ControlOK, Begin, At
  <2>5. state' = state
    BY DEF CreateSale
  <2> QED
    <3> SUFFICES ASSUME NEW p \in Orders \ again', NEW l \in Sales, IsPosted(l, p)',
                        state'[p] \notin Closed
                 PROVE  \E t \in Sessions : sess'[t].order = p /\ sess'[t].pc \in {"shipped", "sold"}
      BY DEF SoldCloses
    <3>1. PICK t \in Sessions : sess[t].order = p /\ sess[t].pc \in {"shipped", "sold"}
      BY <2>1, <2>2, <2>5 DEF IInv, SoldCloses
    <3>2. t # s
      BY <3>1, <2>4
    <3> QED BY <3>1, <3>2, <2>3
<1>8. SoldOnce'
  BY DEF IInv, SoldOnce, CreateSale
<1> QED BY <1>1, <1>2, <1>3, <1>4, <1>5, <1>6, <1>7, <1>8 DEF IInv

\* What follows a posting: the session goes on to close the order, or is over.
LEMMA ProceedMoves ==
  ASSUME ControlOK, NEW s \in Sessions, Proceed(s)
  PROVE  /\ sess' \in [Sessions -> Session]
         /\ \A t \in Sessions : t # s => sess'[t] = sess[t]
         /\ sess'[s].line = 0
         /\ \/ /\ sess[s].pc \in {"shipping", "selling"}
               /\ sess'[s].pc \in {"shipped", "sold"}
               /\ sess'[s].order = sess[s].order /\ sess'[s].sale = sess[s].sale
               /\ sess'[s].mem = sess[s].mem
            \/ sess[s].pc = "posting" /\ sess'[s] = Idle
<1>1. ASSUME NEW pc \in {"shipped", "sold"}, sess[s].pc \in {"shipping", "selling"}, Goto(s, pc)
      PROVE  /\ sess' \in [Sessions -> Session]
             /\ \A t \in Sessions : t # s => sess'[t] = sess[t]
             /\ sess'[s].line = 0 /\ sess'[s].pc = pc
             /\ sess'[s].order = sess[s].order /\ sess'[s].sale = sess[s].sale
             /\ sess'[s].mem = sess[s].mem
  <2> DEFINE next == [pc |-> pc, order |-> sess[s].order, sale |-> sess[s].sale,
                      mem |-> sess[s].mem, line |-> 0]
  <2>1. sess' = [sess EXCEPT ![s] = next]
    BY <1>1 DEF Goto, Begin
  <2>2. next \in Session
    BY DEF ControlOK, Session, Phases
  <2>3. sess'[s] = next
    BY <2>1 DEF ControlOK
  <2> QED BY <2>1, <2>2, <2>3 DEF ControlOK
<1>2. CASE At(s, "posting") /\ Finish(s)
  BY <1>2, IdleIsSession DEF ControlOK, Finish, At, Idle
<1>3. CASE At(s, "shipping") /\ Goto(s, "shipped")
  BY <1>1, <1>3 DEF At
<1>4. CASE At(s, "selling") /\ Goto(s, "sold")
  BY <1>1, <1>4 DEF At
<1> QED BY <1>2, <1>3, <1>4 DEF Proceed

LEMMA PostSaleStep ==
  ASSUME IInv, NEW s \in Sessions, PostSale(s)
  PROVE  IInv'
<1> DEFINE k == sess[s].sale
           o == sess[s].order
<1>1. /\ k \in Sales /\ o \in Orders /\ sale[k].order = o /\ sale[k].status # "absent"
      /\ sess[s].pc \in {"shipping", "selling", "posting"}
  BY DEF IInv, PhasesNameOrders, SellPhases, PostSale, Pending
<1>2. \A l \in Sales, p \in Orders :
        IsPosted(l, p)' <=> IsPosted(l, p) \/ (l = k /\ p = o)
  BY <1>1 DEF IInv, ControlOK, PostSale, IsPosted
<1>3. /\ \A l \in Sales : sale'[l].order = sale[l].order
      /\ \A l \in Sales : sale'[l].status = "absent" <=> sale[l].status = "absent"
      /\ sale' \in [Sales -> [order : Orders \cup {NoOrder}, status : SaleStatus]]
  BY <1>1 DEF IInv, ControlOK, PostSale, SaleStatus
<1>4. /\ sess' \in [Sessions -> Session]
      /\ \A t \in Sessions : t # s => sess'[t] = sess[t]
      /\ \/ /\ sess[s].pc \in {"shipping", "selling"}
            /\ sess'[s].pc \in {"shipped", "sold"}
            /\ sess'[s].order = o /\ sess'[s].sale = k /\ sess'[s].mem = sess[s].mem
         \/ sess[s].pc = "posting" /\ sess'[s] = Idle
  BY ProceedMoves DEF IInv, PostSale
<1>5. state' = state /\ reserved' = reserved /\ kept' = kept
  BY DEF PostSale
<1>6. again \subseteq again' /\ again' \in SUBSET Orders
      /\ (sess[s].pc = "posting" => o \in again')
      /\ (sess[s].pc # "posting" => again' = again)
  BY <1>1 DEF IInv, ControlOK, PostSale, At
<1>7. cut' \in SUBSET Goods
  BY DEF IInv, ControlOK, PostSale
<1>8. Idle.pc = "idle"
  BY DEF Idle
<1> HIDE DEF k, o
<1>11. ControlOK'
  BY <1>3, <1>4, <1>5, <1>6, <1>7 DEF IInv, ControlOK
<1>12. PhasesNameOrders'
  BY <1>1, <1>3, <1>4, <1>8 DEF IInv, PhasesNameOrders, SellPhases
<1>13. DraftsNameOrders'
  BY <1>3 DEF IInv, DraftsNameOrders
<1>14. OneSeller'
  <2>1. \A t \in Sessions : sess'[t].pc \in SellPhases =>
          sess[t].pc \in SellPhases /\ sess'[t].order = sess[t].order
    BY <1>4, <1>8 DEF SellPhases, o
  <2> QED BY <1>6, <2>1 DEF IInv, OneSeller
<1>15. SellersReadOpen'
  <2>1. \A t \in Sessions : sess'[t].pc \in SellPhases =>
          /\ sess[t].pc \in SellPhases /\ sess'[t].order = sess[t].order
          /\ sess'[t].mem = sess[t].mem
    BY <1>4, <1>8 DEF SellPhases, o
  <2> QED BY <1>6, <2>1 DEF IInv, SellersReadOpen
<1>16. PendingUnsold'
  <2> SUFFICES ASSUME NEW t \in Sessions, sess'[t].order \notin again',
                      sess'[t].pc \in {"shipping", "selling"}, NEW l \in Sales
               PROVE  ~ (sale'[l].order = sess'[t].order /\ sale'[l].status = "posted")
    BY DEF PendingUnsold, IsPosted
  <2>1. t # s /\ sess'[t] = sess[t]
    BY <1>4, <1>8
  <2>2. sess[t].order \in Orders /\ sess[t].order \notin again
    BY <1>6, <2>1 DEF IInv, PhasesNameOrders, SellPhases
  <2>3. sess[t].order # o
    <3>1. CASE sess[s].pc = "posting"
      BY <1>6, <2>1, <3>1
    <3>2. CASE sess[s].pc # "posting"
      BY <1>1, <2>1, <2>2, <3>2 DEF IInv, OneSeller, SellPhases, o
    <3> QED BY <3>1, <3>2
  <2> QED BY <1>2, <2>1, <2>2, <2>3 DEF IInv, PendingUnsold, IsPosted
<1>17. SoldCloses'
  <2> SUFFICES ASSUME NEW p \in Orders \ again', NEW l \in Sales, IsPosted(l, p)',
                      state'[p] \notin Closed
               PROVE  \E t \in Sessions : sess'[t].order = p /\ sess'[t].pc \in {"shipped", "sold"}
    BY DEF SoldCloses
  <2>1. CASE p = o
    BY <1>1, <1>4, <1>6, <2>1
  <2>2. CASE p # o
    <3>1. PICK t \in Sessions : sess[t].order = p /\ sess[t].pc \in {"shipped", "sold"}
      BY <1>2, <1>5, <1>6, <2>2 DEF IInv, SoldCloses
    <3> QED BY <1>1, <1>4, <3>1
  <2> QED BY <2>1, <2>2
<1>18. SoldOnce'
  <2> SUFFICES ASSUME NEW p \in Orders \ again', NEW l \in Sales, NEW m \in Sales,
                      IsPosted(l, p)', IsPosted(m, p)'
               PROVE  l = m
    BY DEF SoldOnce, IsPosted
  <2>1. CASE p = o
    BY <1>1, <1>2, <1>6, <2>1 DEF IInv, PendingUnsold, o
  <2>2. CASE p # o
    BY <1>2, <1>6, <2>2, OnePosted DEF IInv
  <2> QED BY <2>1, <2>2
<1> QED BY <1>11, <1>12, <1>13, <1>14, <1>15, <1>16, <1>17, <1>18 DEF IInv

LEMMA SalePostedStep ==
  ASSUME IInv, NEW s \in Sessions, SalePosted(s)
  PROVE  IInv'
<1>1. /\ sess' \in [Sessions -> Session]
      /\ \A t \in Sessions : t # s => sess'[t] = sess[t]
      /\ \/ /\ sess[s].pc \in {"shipping", "selling"}
            /\ sess'[s].pc \in {"shipped", "sold"}
            /\ sess'[s].order = sess[s].order /\ sess'[s].sale = sess[s].sale
            /\ sess'[s].mem = sess[s].mem
         \/ sess[s].pc = "posting" /\ sess'[s] = Idle
  BY ProceedMoves DEF IInv, SalePosted
<1>2. UNCHANGED <<state, reserved, book, sale, kept, again, cut>>
  BY DEF SalePosted
<1>3. Idle.pc = "idle"
  BY DEF Idle
<1>4. \A t \in Sessions : sess'[t].pc \in SellPhases =>
        /\ sess[t].pc \in SellPhases /\ sess'[t].order = sess[t].order
        /\ sess'[t].mem = sess[t].mem /\ sess'[t].sale = sess[t].sale
  BY <1>1, <1>3 DEF SellPhases
<1>11. ControlOK'
  BY <1>1, <1>2 DEF IInv, ControlOK
<1>12. PhasesNameOrders'
  BY <1>1, <1>2, <1>3 DEF IInv, PhasesNameOrders, SellPhases
<1>13. DraftsNameOrders'
  BY <1>2 DEF IInv, DraftsNameOrders
<1>14. OneSeller'
  BY <1>2, <1>4 DEF IInv, OneSeller
<1>15. SellersReadOpen'
  BY <1>2, <1>4 DEF IInv, SellersReadOpen
<1>16. PendingUnsold'
  BY <1>1, <1>2, <1>3 DEF IInv, PendingUnsold, IsPosted
<1>17. SoldCloses'
  <2> SUFFICES ASSUME NEW p \in Orders \ again, NEW l \in Sales, IsPosted(l, p),
                      state[p] \notin Closed
               PROVE  \E t \in Sessions : sess'[t].order = p /\ sess'[t].pc \in {"shipped", "sold"}
    BY <1>2 DEF SoldCloses, IsPosted
  <2>1. PICK t \in Sessions : sess[t].order = p /\ sess[t].pc \in {"shipped", "sold"}
    BY DEF IInv, SoldCloses
  <2> QED BY <1>1, <2>1
<1>18. SoldOnce'
  BY <1>2 DEF IInv, SoldOnce
<1> QED BY <1>11, <1>12, <1>13, <1>14, <1>15, <1>16, <1>17, <1>18 DEF IInv

LEMMA SaleRefusedStep ==
  ASSUME IInv, NEW s \in Sessions, SaleRefused(s)
  PROVE  IInv'
<1>1. ControlOK'
  BY DEF IInv, ControlOK, Session, Phases, SaleRefused, Finish, Idle
<1>2. PhasesNameOrders'
  BY DEF IInv, PhasesNameOrders, SellPhases, SaleRefused, Finish, Idle
<1>3. DraftsNameOrders'
  BY DEF IInv, DraftsNameOrders, SaleRefused
<1>4. OneSeller'
  BY DEF IInv, OneSeller, SellPhases, SaleRefused, Finish, Idle
<1>5. SellersReadOpen'
  BY DEF IInv, SellersReadOpen, SaleRefused, Finish, Idle
<1>6. PendingUnsold'
  BY DEF IInv, PendingUnsold, IsPosted, SaleRefused, Finish, Idle
<1>7. SoldCloses'
  BY DEF IInv, SoldCloses, IsPosted, At, SaleRefused, Finish, Pending
<1>8. SoldOnce'
  BY DEF IInv, SoldOnce, SaleRefused
<1> QED BY <1>1, <1>2, <1>3, <1>4, <1>5, <1>6, <1>7, <1>8 DEF IInv

LEMMA CloseShippedStep ==
  ASSUME IInv, NEW s \in Sessions, CloseShipped(s)
  PROVE  IInv'
<1>1. ControlOK'
  <2>1. state' \in [Orders -> States \cup {"absent"}]
    BY DEF IInv, ControlOK, CloseShipped, StoreDone, States, Closed
  <2>2. sess' \in [Sessions -> Session]
    BY IdleIsSession DEF IInv, ControlOK, CloseShipped, Finish
  <2>3. kept' \in SUBSET Orders
    BY DEF IInv, ControlOK, CloseShipped
  <2> QED BY <2>1, <2>2, <2>3 DEF IInv, ControlOK, CloseShipped
<1>2. PhasesNameOrders'
  BY DEF IInv, PhasesNameOrders, SellPhases, CloseShipped, StoreDone, Finish, Idle
<1>3. DraftsNameOrders'
  BY DEF IInv, DraftsNameOrders, CloseShipped, StoreDone
<1>4. OneSeller'
  BY DEF IInv, OneSeller, SellPhases, CloseShipped, StoreDone, Finish, Idle
<1>5. SellersReadOpen'
  BY DEF IInv, SellersReadOpen, CloseShipped, StoreDone, Finish, Idle
<1>6. PendingUnsold'
  BY DEF IInv, PendingUnsold, IsPosted, CloseShipped, StoreDone, Finish, Idle
<1>7. SoldCloses'
  <2>1. sess[s].order \notin again => state'[sess[s].order] \in Closed
    BY DEF IInv, ControlOK, SellersReadOpen, PhasesNameOrders, SellPhases,
       CloseShipped, At, StoreDone, Closed
  <2>2. \A p \in Orders : state[p] \in Closed => state'[p] \in Closed
    BY DEF CloseShipped, StoreDone, Closed
  <2>3. \A t \in Sessions : t # s => sess'[t] = sess[t]
    BY DEF CloseShipped, Finish
  <2>4. sale' = sale /\ again' = again
    BY DEF CloseShipped
  <2> QED
    <3> SUFFICES ASSUME NEW p \in Orders \ again, NEW l \in Sales, IsPosted(l, p),
                        state'[p] \notin Closed
                 PROVE  \E t \in Sessions : sess'[t].order = p /\ sess'[t].pc \in {"shipped", "sold"}
      BY <2>4 DEF SoldCloses, IsPosted
    <3>1. PICK t \in Sessions : sess[t].order = p /\ sess[t].pc \in {"shipped", "sold"}
      BY <2>2 DEF IInv, SoldCloses
    <3> QED BY <3>1, <2>1, <2>3
<1>8. SoldOnce'
  BY DEF IInv, SoldOnce, CloseShipped, StoreDone
<1> QED BY <1>1, <1>2, <1>3, <1>4, <1>5, <1>6, <1>7, <1>8 DEF IInv

LEMMA CloseSoldStep ==
  ASSUME IInv, NEW s \in Sessions, CloseSold(s)
  PROVE  IInv'
<1>1. ControlOK'
  <2>1. state' \in [Orders -> States \cup {"absent"}]
    BY DEF IInv, ControlOK, CloseSold, StoreDone, States, Closed
  <2>2. sess' \in [Sessions -> Session]
    BY IdleIsSession DEF IInv, ControlOK, CloseSold, Finish
  <2>3. kept' \in SUBSET Orders
    BY DEF IInv, ControlOK, CloseSold
  <2> QED BY <2>1, <2>2, <2>3 DEF IInv, ControlOK, CloseSold
<1>2. PhasesNameOrders'
  BY DEF IInv, PhasesNameOrders, SellPhases, CloseSold, StoreDone, Finish, Idle
<1>3. DraftsNameOrders'
  BY DEF IInv, DraftsNameOrders, CloseSold, StoreDone
<1>4. OneSeller'
  BY DEF IInv, OneSeller, SellPhases, CloseSold, StoreDone, Finish, Idle
<1>5. SellersReadOpen'
  BY DEF IInv, SellersReadOpen, CloseSold, StoreDone, Finish, Idle
<1>6. PendingUnsold'
  BY DEF IInv, PendingUnsold, IsPosted, CloseSold, StoreDone, Finish, Idle
<1>7. SoldCloses'
  <2>1. sess[s].order \notin again => state'[sess[s].order] \in Closed
    BY DEF IInv, ControlOK, SellersReadOpen, PhasesNameOrders, SellPhases, CloseSold,
       At, StoreDone, Closed
  <2>2. \A p \in Orders : state[p] \in Closed => state'[p] \in Closed
    BY DEF CloseSold, StoreDone, Closed
  <2>3. \A t \in Sessions : t # s => sess'[t] = sess[t]
    BY DEF CloseSold, Finish
  <2>4. sale' = sale /\ again' = again
    BY DEF CloseSold
  <2> QED
    <3> SUFFICES ASSUME NEW p \in Orders \ again, NEW l \in Sales, IsPosted(l, p),
                        state'[p] \notin Closed
                 PROVE  \E t \in Sessions : sess'[t].order = p /\ sess'[t].pc \in {"shipped", "sold"}
      BY <2>4 DEF SoldCloses, IsPosted
    <3>1. PICK t \in Sessions : sess[t].order = p /\ sess[t].pc \in {"shipped", "sold"}
      BY <2>2 DEF IInv, SoldCloses
    <3> QED BY <3>1, <2>1, <2>3
<1>8. SoldOnce'
  BY DEF IInv, SoldOnce, CloseSold, StoreDone
<1> QED BY <1>1, <1>2, <1>3, <1>4, <1>5, <1>6, <1>7, <1>8 DEF IInv

LEMMA CrashStep ==
  ASSUME IInv, NEW s \in Sessions, Crash(s)
  PROVE  IInv'
<1>1. ControlOK'
  <2>1. sess' \in [Sessions -> Session]
    BY IdleIsSession DEF IInv, ControlOK, Crash, Finish
  <2>2. kept' \in SUBSET Orders /\ again' \in SUBSET Orders
    BY DEF IInv, ControlOK, PhasesNameOrders, SellPhases, Crash, At
  <2> QED BY <2>1, <2>2 DEF IInv, ControlOK, Crash
<1>2. PhasesNameOrders'
  BY DEF IInv, PhasesNameOrders, SellPhases, Crash, Finish, Idle
<1>3. DraftsNameOrders'
  BY DEF IInv, DraftsNameOrders, Crash
<1>4. OneSeller'
  BY DEF IInv, OneSeller, SellPhases, Crash, Finish, Idle
<1>5. SellersReadOpen'
  BY DEF IInv, SellersReadOpen, Crash, Finish, Idle
<1>6. PendingUnsold'
  BY DEF IInv, PendingUnsold, IsPosted, Crash, Finish, Idle
<1>7. SoldCloses'
  BY DEF IInv, SoldCloses, IsPosted, At, Crash, Finish
<1>8. SoldOnce'
  BY DEF IInv, SoldOnce, Crash
<1> QED BY <1>1, <1>2, <1>3, <1>4, <1>5, <1>6, <1>7, <1>8 DEF IInv

LEMMA DocumentPostStep ==
  ASSUME IInv, NEW s \in Sessions, NEW k \in Sales, DocumentPost(s, k)
  PROVE  IInv'
<1>1. sale[k].status = "draft" /\ sale[k].order \in Orders
  BY DEF IInv, DraftsNameOrders, DocumentPost
<1>2. sess'[s] = [pc |-> "posting", order |-> sale[k].order, sale |-> k, mem |-> "unread", line |-> 0]
  BY DEF IInv, ControlOK, DocumentPost, Begin
<1>3. \A t \in Sessions : t # s => sess'[t] = sess[t]
  BY DEF DocumentPost, Begin
<1>4. sess' \in [Sessions -> Session]
  <2>1. sess'[s] \in Session
    BY <1>1, <1>2 DEF Session, Phases
  <2> QED BY <1>2, <2>1 DEF IInv, ControlOK, DocumentPost, Begin
<1>5. UNCHANGED <<state, reserved, book, sale, kept, again, cut>> /\ sess[s].pc = "idle"
  BY DEF DocumentPost, At
<1>6. \A t \in Sessions : sess'[t].pc \in SellPhases \cup {"releasing"} => t # s
  BY <1>2 DEF SellPhases
<1>11. ControlOK'
  BY <1>4, <1>5 DEF IInv, ControlOK
<1>12. PhasesNameOrders'
  BY <1>1, <1>2, <1>3, <1>5 DEF IInv, PhasesNameOrders, SellPhases
<1>13. DraftsNameOrders'
  BY <1>5 DEF IInv, DraftsNameOrders
<1>14. OneSeller'
  BY <1>3, <1>5, <1>6 DEF IInv, OneSeller
<1>15. SellersReadOpen'
  BY <1>3, <1>5, <1>6 DEF IInv, SellersReadOpen
<1>16. PendingUnsold'
  BY <1>2, <1>3, <1>5 DEF IInv, PendingUnsold, IsPosted
<1>17. SoldCloses'
  BY <1>3, <1>5 DEF IInv, SoldCloses, IsPosted
<1>18. SoldOnce'
  BY <1>5 DEF IInv, SoldOnce
<1> QED BY <1>11, <1>12, <1>13, <1>14, <1>15, <1>16, <1>17, <1>18 DEF IInv

\* The lock and the checks of the rows change nothing but the row to be checked.
LEMMA CheckingStep ==
  ASSUME IInv, NEW s \in Sessions, LockSale(s) \/ CheckRow(s)
  PROVE  IInv'
<1>1. PICK n \in Nat : sess' = [sess EXCEPT ![s].line = n]
  <2>1. sess[s].line \in Nat
    BY DEF IInv, ControlOK, Session
  <2> QED BY <2>1 DEF LockSale, CheckRow
<1>2. \A t \in Sessions :
        /\ sess'[t].pc = sess[t].pc /\ sess'[t].order = sess[t].order
        /\ sess'[t].sale = sess[t].sale /\ sess'[t].mem = sess[t].mem
  BY <1>1 DEF IInv, ControlOK, Session
<1>3. sess' \in [Sessions -> Session]
  BY <1>1 DEF IInv, ControlOK, Session
<1>4. UNCHANGED <<state, reserved, book, sale, kept, again, cut>>
  BY DEF LockSale, CheckRow
<1>11. ControlOK'
  BY <1>3, <1>4 DEF IInv, ControlOK
<1>12. PhasesNameOrders'
  BY <1>2, <1>4 DEF IInv, PhasesNameOrders
<1>13. DraftsNameOrders'
  BY <1>4 DEF IInv, DraftsNameOrders
<1>14. OneSeller'
  BY <1>2, <1>4 DEF IInv, OneSeller
<1>15. SellersReadOpen'
  BY <1>2, <1>4 DEF IInv, SellersReadOpen
<1>16. PendingUnsold'
  BY <1>2, <1>4 DEF IInv, PendingUnsold, IsPosted
<1>17. SoldCloses'
  BY <1>2, <1>4 DEF IInv, SoldCloses, IsPosted
<1>18. SoldOnce'
  BY <1>4 DEF IInv, SoldOnce
<1> QED BY <1>11, <1>12, <1>13, <1>14, <1>15, <1>16, <1>17, <1>18 DEF IInv

LEMMA DocumentUnpostStep ==
  ASSUME IInv, NEW k \in Sales, DocumentUnpost(k)
  PROVE  IInv'
<1>1. ControlOK'
  BY DEF IInv, ControlOK, SaleStatus, DocumentUnpost
<1>2. PhasesNameOrders'
  BY DEF IInv, PhasesNameOrders, DocumentUnpost
<1>3. DraftsNameOrders'
  BY DEF IInv, DraftsNameOrders, DocumentUnpost
<1>4. OneSeller'
  BY DEF IInv, OneSeller, DocumentUnpost
<1>5. SellersReadOpen'
  BY DEF IInv, SellersReadOpen, DocumentUnpost
<1>6. PendingUnsold'
  BY DEF IInv, PendingUnsold, IsPosted, DocumentUnpost
<1>7. SoldCloses'
  BY DEF IInv, SoldCloses, IsPosted, DocumentUnpost
<1>8. SoldOnce'
  BY DEF IInv, SoldOnce, DocumentUnpost
<1> QED BY <1>1, <1>2, <1>3, <1>4, <1>5, <1>6, <1>7, <1>8 DEF IInv

LEMMA StutterStep == IInv /\ UNCHANGED vars => IInv'
<1> SUFFICES ASSUME IInv, UNCHANGED vars PROVE IInv'
  OBVIOUS
<1>1. (ControlOK /\ PhasesNameOrders /\ DraftsNameOrders /\ OneSeller)'
  BY DEF IInv, vars, ControlOK, PhasesNameOrders, DraftsNameOrders, OneSeller
<1>2. (SellersReadOpen /\ PendingUnsold /\ SoldCloses /\ SoldOnce)'
  BY DEF IInv, vars, SellersReadOpen, PendingUnsold, IsPosted, SoldCloses, SoldOnce
<1> QED BY <1>1, <1>2 DEF IInv

LEMMA NextIInv == IInv /\ [Next]_vars => IInv'
<1> SUFFICES ASSUME IInv, [Next]_vars PROVE IInv'
  OBVIOUS
<1>1. CASE \E g \in Goods : Receive(g) \/ WriteOff(g)
  BY <1>1, ReceiveStep, WriteOffStep
<1>2. CASE \E o \in Orders : ZakazCreate(o) \/ ZakazReserve(o)
  BY <1>2, ZakazCreateStep, ZakazReserveStep
<1>3. CASE \E k \in Sales : DocumentUnpost(k)
  BY <1>3, DocumentUnpostStep
<1>4. ASSUME NEW s \in Sessions, NEW o \in Orders, NEW new \in States, ZakazState(s, o, new)
      PROVE  IInv'
  BY <1>4, ZakazStateStep
<1>5. ASSUME NEW s \in Sessions, NEW o \in Orders, NEW k \in Sales,
             ZakazShip(s, o, k) \/ RmkSell(s, o, k)
      PROVE  IInv'
  <2>1. CASE ZakazShip(s, o, k)
    BY <2>1, BeginSaleStep DEF ZakazShip
  <2>2. CASE RmkSell(s, o, k)
    BY <2>2, BeginSaleStep DEF RmkSell
  <2> QED BY <1>5, <2>1, <2>2
<1>6. ASSUME NEW s \in Sessions, Continue(s) \/ Crash(s)
      PROVE  IInv'
  BY <1>6, ReleaseForZakazStep, CheckingStep, PostSaleStep, SalePostedStep, SaleRefusedStep,
     CloseShippedStep, CloseSoldStep, CrashStep DEF Continue
<1>7. ASSUME NEW s \in Sessions, NEW k \in Sales, DocumentPost(s, k) PROVE IInv'
  BY <1>7, DocumentPostStep
<1>8. CASE UNCHANGED vars
  BY <1>8, StutterStep
<1> QED BY <1>1, <1>2, <1>3, <1>4, <1>5, <1>6, <1>7, <1>8 DEF Next

\* An order is sold once: it is closed behind its sale, and only a request
\* about a closed or reopened order, two requests at a time, an interrupted
\* one, or a draft posted by hand can sell it again.
THEOREM OrdersSoldOnce == Spec => []SoldOnce
<1>1. IInv => SoldOnce
  BY DEF IInv
<1> QED BY InitIInv, NextIInv, <1>1, PTL DEF Spec

-----------------------------------------------------------------------------
(***************************************************************************)
(* Reservations.                                                           *)
(***************************************************************************)
LEMMA InitClosed == Init => ClosedOrdersHoldNothing
  BY DEF Init, ClosedOrdersHoldNothing

\* The steps of one request that close an order or end its release.
LEMMA ClosedStep ==
  ASSUME IInv, ClosedOrdersHoldNothing, [Next]_vars
  PROVE  ClosedOrdersHoldNothing'
<1> USE DEF IInv, ControlOK, ClosedOrdersHoldNothing, At
<1>1. ASSUME NEW g \in Goods, Receive(g) \/ WriteOff(g) PROVE ClosedOrdersHoldNothing'
  BY <1>1 DEF Receive, WriteOff
<1>2. ASSUME NEW o \in Orders, ZakazCreate(o) PROVE ClosedOrdersHoldNothing'
  BY <1>2 DEF ZakazCreate, Closed
<1>3. ASSUME NEW o \in Orders, ZakazReserve(o) PROVE ClosedOrdersHoldNothing'
  BY <1>3 DEF ZakazReserve
<1>4. ASSUME NEW k \in Sales, DocumentUnpost(k) PROVE ClosedOrdersHoldNothing'
  BY <1>4 DEF DocumentUnpost
<1>5. ASSUME NEW s \in Sessions, NEW o \in Orders, NEW new \in States, ZakazState(s, o, new)
      PROVE  ClosedOrdersHoldNothing'
  BY <1>5 DEF ZakazState, Begin
<1>6. ASSUME NEW s \in Sessions, NEW o \in Orders, NEW k \in Sales,
             ZakazShip(s, o, k) \/ RmkSell(s, o, k)
      PROVE  ClosedOrdersHoldNothing'
  BY <1>6 DEF ZakazShip, RmkSell, CreateSale, Begin
<1>7. ASSUME NEW s \in Sessions, ReleaseForZakaz(s) \/ Crash(s)
      PROVE  ClosedOrdersHoldNothing'
  BY <1>7 DEF ReleaseForZakaz, Crash, Finish
<1>8. ASSUME NEW s \in Sessions,
             PostSale(s) \/ SalePosted(s) \/ SaleRefused(s) \/ LockSale(s) \/ CheckRow(s)
      PROVE  ClosedOrdersHoldNothing'
  <2>1. sess[s].pc # "releasing" /\ \A t \in Sessions : t # s => sess'[t] = sess[t]
    BY <1>8, ProceedMoves DEF PostSale, SalePosted, SaleRefused, LockSale, CheckRow, Pending,
       Finish
  <2>2. state' = state /\ reserved' = reserved /\ kept' = kept
    BY <1>8 DEF PostSale, SalePosted, SaleRefused, LockSale, CheckRow
  <2> QED BY <2>1, <2>2
<1>9. ASSUME NEW s \in Sessions, CloseShipped(s) \/ CloseSold(s)
      PROVE  ClosedOrdersHoldNothing'
  BY <1>9 DEF CloseShipped, CloseSold, StoreDone, Finish
<1>10. CASE UNCHANGED vars
  BY <1>10 DEF vars
<1>11. ASSUME NEW s \in Sessions, NEW k \in Sales, DocumentPost(s, k)
      PROVE  ClosedOrdersHoldNothing'
  BY <1>11 DEF DocumentPost, Begin
<1> QED BY <1>1, <1>2, <1>3, <1>4, <1>5, <1>6, <1>7, <1>8, <1>9, <1>10, <1>11 DEF Next,
   Continue

\* "При выполнении/отмене — снимаем резерв": a closed order holds no
\* reservation once the request that closed it is over, unless it was sold at
\* the till, reserved after it was closed, or its release was interrupted.
THEOREM ClosedOrdersRelease == Spec => []ClosedOrdersHoldNothing
<1>1. IInv /\ ClosedOrdersHoldNothing /\ [Next]_vars => ClosedOrdersHoldNothing'
  BY ClosedStep
<1> QED BY InitIInv, NextIInv, InitClosed, <1>1, PTL DEF Spec

-----------------------------------------------------------------------------
(***************************************************************************)
(* Reservations are covered.  Reservations grow by a reservation, the book *)
(* falls by a sale or a write-off.  A sale looks at what is available row  *)
(* by row before it takes anything, and what it has seen of a good is      *)
(* still there unless the good is cut; the one row that names the good     *)
(* asks for all there is.                                                  *)
(***************************************************************************)

\* A session that checks rows has a sale to post.
ChecksPending ==
  \A s \in Sessions : sess[s].line > 0 => Pending(s)

\* What a posting has seen of a good is still available.
CheckedStill ==
  \A s \in Sessions : sess[s].line > 0 =>
    \A i \in DOMAIN Lines[sess[s].order] :
      LET row == Lines[sess[s].order][i] IN
        i < sess[s].line /\ row.good \notin cut => Available(row.good) >= row.qty

\* Each transaction reserves for one order, so no more than finitely many are.
CoveredInv ==
  /\ book \in [Goods -> Int]
  /\ IsFiniteSet(reserved)
  /\ ReservationsCovered
  /\ ChecksPending
  /\ CheckedStill

LEMMA RowsAreFinite ==
  ASSUME NEW o \in Orders, NEW g
  PROVE  /\ IsFiniteSet(RowsOf(o, g))
         /\ \A i \in DOMAIN Lines[o] : Lines[o][i] \in [good : Goods, qty : Nat]
<1>1. Lines[o] \in Seq([good : Goods, qty : Nat])
  BY OrderAssumption
<1>2. DOMAIN Lines[o] = 1 .. Len(Lines[o]) /\ Len(Lines[o]) \in Nat
  BY <1>1
<1>3. IsFiniteSet(DOMAIN Lines[o])
  BY <1>2, FS_Interval
<1>4. IsFiniteSet(RowsOf(o, g))
  BY <1>3, FS_Subset DEF RowsOf
<1>5. \A i \in DOMAIN Lines[o] : Lines[o][i] \in [good : Goods, qty : Nat]
  <2> DEFINE RowType == [good : Goods, qty : Nat]
  <2>1. PICK rows \in Seq(RowType) : rows = Lines[o]
    BY <1>1
  <2> HIDE DEF RowType
  <2>2. \A i \in 1 .. Len(rows) : rows[i] \in RowType
    BY ElementOfSeq
  <2> QED BY <1>2, <2>1, <2>2 DEF RowType
<1> QED BY <1>4, <1>5

LEMMA AskedIsNat ==
  ASSUME NEW o \in Orders, NEW g
  PROVE  Asked(o, g) \in Nat
<1> DEFINE f == [i \in DOMAIN Lines[o] |-> Lines[o][i].qty]
           S == RowsOf(o, g)
<1>1. IsFiniteSet(S) /\ \A i \in S : f[i] \in Nat
  BY RowsAreFinite DEF RowsOf
<1>2. Asked(o, g) = SumFunctionOnSet(f, S)
  BY DEF Asked
<1> HIDE DEF f, S
<1>3. SumFunctionOnSet(f, S) \in Nat
  BY <1>1, SumIsNat
<1> QED BY <1>2, <1>3

\* A good that the order names once is asked for in one row, or not at all.
LEMMA AskedOnce ==
  ASSUME NEW o \in Orders, NEW g, NamedOnce(g)
  PROVE  \/ Asked(o, g) = 0
         \/ \E i \in DOMAIN Lines[o] : Lines[o][i].good = g /\ Asked(o, g) = Lines[o][i].qty
<1> DEFINE f == [i \in DOMAIN Lines[o] |-> Lines[o][i].qty]
           S == RowsOf(o, g)
<1>1. IsFiniteSet(S) /\ Cardinality(S) \in Nat /\ Cardinality(S) <= 1
  BY RowsAreFinite, FS_CardinalityType DEF NamedOnce
<1>2. \A i \in S : i \in DOMAIN Lines[o] /\ Lines[o][i].good = g /\ f[i] = Lines[o][i].qty
  BY DEF RowsOf
<1>3. \A i \in S : f[i] \in Nat
  BY RowsAreFinite DEF RowsOf
<1> SUFFICES \/ SumFunctionOnSet(f, S) = 0
             \/ \E i \in S : SumFunctionOnSet(f, S) = f[i]
  BY <1>2 DEF Asked
<1> HIDE DEF f, S
<1>4. CASE S = {}
  BY <1>4, SumOfNone
<1>5. CASE S # {}
  <2>1. Cardinality(S) = 1
    BY <1>1, <1>5, FS_EmptySet
  <2>2. PICK i : S = {i}
    BY <1>1, <2>1, FS_Singleton
  <2>3. f[i] \in Int /\ i \in S
    BY <1>3, <2>2
  <2>4. PICK rest : rest = S \ {i}
    OBVIOUS
  <2>5. SumFunctionOnSet(f, S) = f[i] + SumFunctionOnSet(f, rest)
    <3>1. \A j \in S : f[j] \in Int
      BY <1>3
    <3> QED BY <1>1, <2>3, <2>4, <3>1, SumRemove
  <2>6. rest = {}
    BY <2>2, <2>4
  <2>7. SumFunctionOnSet(f, rest) = 0
    BY <2>6, SumOfNone
  <2> QED BY <2>3, <2>5, <2>7
<1> QED BY <1>4, <1>5

LEMMA ReservedIsNat ==
  ASSUME reserved \in SUBSET Orders, IsFiniteSet(reserved), NEW g
  PROVE  ReservedOf(g) \in Nat
<1>1. \A o \in reserved : [p \in reserved |-> Asked(p, g)][o] \in Nat
  BY AskedIsNat
<1> QED BY <1>1, SumIsNat DEF ReservedOf

\* What is reserved, with one order more.
LEMMA ReservedGrows ==
  ASSUME reserved \in SUBSET Orders, IsFiniteSet(reserved), NEW o \in Orders, o \notin reserved,
         reserved' = reserved \cup {o}, NEW g
  PROVE  IsFiniteSet(reserved') /\ ReservedOf(g)' = ReservedOf(g) + Asked(o, g)
<1>1. PICK R : R = reserved
  OBVIOUS
<1>2. PICK T : T = reserved \cup {o}
  OBVIOUS
<1>3. PICK f : f = [p \in R |-> Asked(p, g)]
  OBVIOUS
<1>4. PICK h : h = [p \in T |-> Asked(p, g)]
  OBVIOUS
<1>5. ReservedOf(g) = SumFunctionOnSet(f, R) /\ ReservedOf(g)' = SumFunctionOnSet(h, T)
  BY <1>1, <1>2, <1>3, <1>4 DEF ReservedOf, Asked, RowsOf
<1>6. IsFiniteSet(T) /\ IsFiniteSet(R) /\ o \in T /\ T \ {o} = R
  BY <1>1, <1>2, FS_AddElement
<1>7. \A p \in T : h[p] \in Int
  BY <1>1, <1>2, <1>4, AskedIsNat
<1>8. SumFunctionOnSet(h, T) = h[o] + SumFunctionOnSet(h, R)
  <2>1. SumFunctionOnSet(h, T) = h[o] + SumFunctionOnSet(h, T \ {o})
    BY <1>6, <1>7, SumRemove
  <2> QED BY <1>6, <2>1
<1>9. \A p \in R : h[p] = f[p]
  BY <1>3, <1>4, <1>6
<1>10. SumFunctionOnSet(h, R) = SumFunctionOnSet(f, R)
  BY <1>6, <1>9, SumSame
<1>11. h[o] = Asked(o, g) /\ Asked(o, g) \in Nat
  BY <1>4, <1>6, AskedIsNat
<1>12. SumFunctionOnSet(f, R) \in Nat
  BY <1>1, <1>5, ReservedIsNat
<1> QED BY <1>2, <1>5, <1>6, <1>8, <1>10, <1>11, <1>12

\* What is reserved, without one order.
LEMMA ReservedShrinks ==
  ASSUME reserved \in SUBSET Orders, IsFiniteSet(reserved), NEW o,
         reserved' = reserved \ {o}, NEW g
  PROVE  /\ IsFiniteSet(reserved')
         /\ ReservedOf(g)' \in Nat /\ ReservedOf(g)' <= ReservedOf(g)
<1>1. PICK R : R = reserved
  OBVIOUS
<1>2. PICK T : T = reserved \ {o}
  OBVIOUS
<1>3. PICK f : f = [p \in R |-> Asked(p, g)]
  OBVIOUS
<1>4. PICK h : h = [p \in T |-> Asked(p, g)]
  OBVIOUS
<1>5. ReservedOf(g) = SumFunctionOnSet(f, R) /\ ReservedOf(g)' = SumFunctionOnSet(h, T)
  BY <1>1, <1>2, <1>3, <1>4 DEF ReservedOf, Asked, RowsOf
<1>6. T \in SUBSET R /\ IsFiniteSet(R) /\ IsFiniteSet(T)
  BY <1>1, <1>2, FS_Subset
<1>7. \A p \in R : f[p] \in Nat
  BY <1>1, <1>3, AskedIsNat
<1>8. \A p \in T : h[p] = f[p]
  BY <1>3, <1>4, <1>6
<1>9. SumFunctionOnSet(h, T) = SumFunctionOnSet(f, T)
  BY <1>6, <1>8, SumSame
<1>10. SumFunctionOnSet(f, T) <= SumFunctionOnSet(f, R)
  BY <1>6, <1>7, SumOfSubset
<1>11. SumFunctionOnSet(f, T) \in Nat
  BY <1>6, <1>7, SumIsNat
<1> QED BY <1>2, <1>5, <1>6, <1>9, <1>10, <1>11

LEMMA AvailableIsInt ==
  ASSUME reserved \in SUBSET Orders, IsFiniteSet(reserved), book \in [Goods -> Int],
         NEW g \in Goods
  PROVE  ReservedOf(g) \in Nat /\ Available(g) \in Int /\ Available(g) = book[g] - ReservedOf(g)
BY ReservedIsNat DEF Available

\* Sessions go on as they were or give up their checks, and whatever the others
\* have seen of a good that is not cut stays available.
LEMMA StillKept ==
  ASSUME IInv, CoveredInv, cut \subseteq cut',
         reserved' \in SUBSET Orders, IsFiniteSet(reserved'), book' \in [Goods -> Int],
         \A t \in Sessions : sess'[t] = sess[t] \/ sess'[t].line = 0,
         \A g \in Goods \ cut' :
           \/ Available(g)' >= Available(g)
           \/ \A t \in Sessions : sess'[t].line > 0 => g \notin Checked(t)
  PROVE  ChecksPending' /\ CheckedStill'
<1>1. ChecksPending'
  BY DEF CoveredInv, ChecksPending, Pending
<1>2. ASSUME NEW t \in Sessions, sess'[t].line > 0, NEW i \in DOMAIN Lines[sess'[t].order],
             i < sess'[t].line, NEW g, g = Lines[sess'[t].order][i].good, g \notin cut'
      PROVE  Available(g)' >= Lines[sess'[t].order][i].qty
  <2> DEFINE o == sess[t].order
  <2>1. sess'[t] = sess[t] /\ sess[t].line > 0
    BY <1>2
  <2>2. o \in Orders /\ i \in DOMAIN Lines[o]
    BY <1>2, <2>1 DEF CoveredInv, ChecksPending, Pending, IInv, PhasesNameOrders, SellPhases
  <2>3. g \in Goods \ cut' /\ Lines[o][i].qty \in Nat
    BY <1>2, <2>1, <2>2, RowsAreFinite
  <2>4. g \in Checked(t)
    BY <1>2, <2>1, <2>2, <2>3 DEF Checked, RowsOf
  <2>5. Available(g) >= Lines[o][i].qty
    BY <1>2, <2>1, <2>2, <2>3 DEF CoveredInv, CheckedStill
  <2>6. Available(g)' >= Available(g)
    BY <1>2, <2>3, <2>4
  <2>7. Available(g) \in Int
    BY <2>3, AvailableIsInt DEF IInv, ControlOK, CoveredInv
  <2>8. Available(g)' \in Int
    <3>1. PICK R \in SUBSET Orders : R = reserved' /\ IsFiniteSet(R)
      OBVIOUS
    <3>2. \A p \in R : [q \in R |-> Asked(q, g)][p] \in Nat
      BY AskedIsNat
    <3>3. SumFunctionOnSet([q \in R |-> Asked(q, g)], R) \in Nat
      BY <3>1, <3>2, SumIsNat
    <3>4. Available(g)' = book'[g] - SumFunctionOnSet([q \in R |-> Asked(q, g)], R)
      BY <2>1, <3>1 DEF Available, ReservedOf, Asked, RowsOf
    <3> QED BY <2>3, <3>3, <3>4
  <2> QED BY <2>1, <2>3, <2>5, <2>6, <2>7, <2>8
<1>3. CheckedStill'
  BY <1>2 DEF CheckedStill, Available, ReservedOf, Asked, RowsOf
<1> QED BY <1>1, <1>3

\* Neither the reservations, the book nor the goods that are cut change.
LEMMA SameCovered ==
  ASSUME IInv, CoveredInv, reserved' = reserved, book' = book, cut' = cut,
         \A t \in Sessions : sess'[t] = sess[t] \/ sess'[t].line = 0
  PROVE  CoveredInv'
<1>1. reserved \in SUBSET Orders
  BY DEF IInv, ControlOK
<1>2. \A g \in Goods \ cut' : Available(g)' = Available(g) /\ Available(g) \in Int
  BY <1>1, AvailableIsInt DEF CoveredInv, Available, ReservedOf, Asked, RowsOf
<1>3. ChecksPending' /\ CheckedStill'
  BY <1>1, <1>2, StillKept DEF CoveredInv
<1> QED BY <1>3 DEF CoveredInv, ReservationsCovered, NamedOnce, ReservedOf, Asked, RowsOf

\* The book changes, and enough of every good is left.
LEMMA BookCovered ==
  ASSUME IInv, CoveredInv, reserved' = reserved, book' \in [Goods -> Int], cut \subseteq cut',
         \A g \in Goods \ cut' : NamedOnce(g) => ReservedOf(g) <= book'[g],
         \A t \in Sessions : sess'[t] = sess[t] \/ sess'[t].line = 0,
         \A g \in Goods \ cut' :
           \/ book'[g] >= book[g]
           \/ \A t \in Sessions : sess'[t].line > 0 => g \notin Checked(t)
  PROVE  CoveredInv'
<1>1. reserved \in SUBSET Orders /\ IsFiniteSet(reserved)
  BY DEF IInv, ControlOK, CoveredInv
<1>2. \A g \in Goods : Available(g)' = book'[g] - ReservedOf(g)
  BY DEF Available, ReservedOf, Asked, RowsOf
<1>3. ASSUME NEW g \in Goods \ cut', book'[g] >= book[g] PROVE Available(g)' >= Available(g)
  <2>1. ReservedOf(g) \in Nat /\ Available(g) = book[g] - ReservedOf(g)
    BY <1>1, AvailableIsInt DEF CoveredInv
  <2>2. book'[g] \in Int /\ book[g] \in Int
    BY DEF CoveredInv
  <2> QED BY <1>2, <1>3, <2>1, <2>2
<1>4. ChecksPending' /\ CheckedStill'
  BY <1>1, <1>3, StillKept
<1> QED BY <1>1, <1>4 DEF CoveredInv, ReservationsCovered, NamedOnce, ReservedOf, Asked, RowsOf

LEMMA ReleasedCovered ==
  ASSUME IInv, CoveredInv, NEW o, reserved' = reserved \ {o}, book' = book, cut' = cut,
         \A t \in Sessions : sess'[t] = sess[t] \/ sess'[t].line = 0
  PROVE  CoveredInv'
<1>1. reserved \in SUBSET Orders /\ IsFiniteSet(reserved)
  BY DEF IInv, ControlOK, CoveredInv
<1>2. IsFiniteSet(reserved')
  BY <1>1, ReservedShrinks
<1>3. ASSUME NEW g \in Goods
      PROVE  ReservedOf(g)' \in Nat /\ ReservedOf(g)' <= ReservedOf(g) /\ ReservedOf(g) \in Nat
  BY <1>1, ReservedShrinks, ReservedIsNat
<1>4. ASSUME NEW g \in Goods \ cut', NamedOnce(g) PROVE ReservedOf(g)' <= book'[g]
  <2>1. ReservedOf(g) <= book[g] /\ book[g] \in Int
    BY <1>4 DEF CoveredInv, ReservationsCovered
  <2> QED BY <1>3, <2>1
<1>5. ASSUME NEW g \in Goods \ cut' PROVE Available(g)' >= Available(g)
  <2>1. book[g] \in Int
    BY DEF CoveredInv
  <2> QED BY <1>3, <2>1 DEF Available
<1>6. ChecksPending' /\ CheckedStill'
  BY <1>1, <1>2, <1>5, StillKept DEF CoveredInv
<1> QED BY <1>2, <1>4, <1>6 DEF CoveredInv, ReservationsCovered, NamedOnce, RowsOf

LEMMA ReserveCovered ==
  ASSUME IInv, CoveredInv, NEW o \in Orders, ZakazReserve(o)
  PROVE  CoveredInv'
<1>1. CASE o \in reserved
  <2>1. /\ reserved' = reserved /\ book' = book /\ sess' = sess /\ cut \subseteq cut'
        /\ book \in [Goods -> Int] /\ reserved \in SUBSET Orders
    BY <1>1 DEF ZakazReserve, CoveredInv, IInv, ControlOK
  <2>2. \A g \in Goods \ cut' : book'[g] >= book[g]
    BY <2>1
  <2>3. \A g \in Goods \ cut' : NamedOnce(g) => ReservedOf(g) <= book'[g]
    BY <2>1 DEF CoveredInv, ReservationsCovered
  <2> QED BY <2>1, <2>2, <2>3, BookCovered
<1>2. CASE o \notin reserved
  <2>1. /\ reserved \in SUBSET Orders /\ IsFiniteSet(reserved) /\ reserved' \in SUBSET Orders
        /\ reserved' = reserved \cup {o} /\ book' = book /\ sess' = sess /\ cut \subseteq cut'
        /\ book \in [Goods -> Int]
    BY DEF IInv, ControlOK, CoveredInv, ZakazReserve
  <2>2. IsFiniteSet(reserved')
    BY <1>2, <2>1, ReservedGrows
  <2>3. ASSUME NEW g \in Goods \ cut', NamedOnce(g) PROVE ReservedOf(g)' <= book'[g]
    <3>1. ReservedOf(g)' = ReservedOf(g) + Asked(o, g)
      BY <1>2, <2>1, ReservedGrows
    <3>2. ReservedOf(g) <= book[g] /\ book[g] \in Int /\ ReservedOf(g) \in Nat
      BY <2>1, <2>3, ReservedIsNat DEF CoveredInv, ReservationsCovered
    <3>3. CASE Asked(o, g) = 0
      BY <2>1, <3>1, <3>2, <3>3
    <3>4. ASSUME NEW i \in DOMAIN Lines[o], Lines[o][i].good = g, Asked(o, g) = Lines[o][i].qty
          PROVE  ReservedOf(g)' <= book'[g]
      <4>1. Available(g) + 0 >= Asked(o, g)
        BY <1>2, <3>4 DEF ZakazReserve
      <4>2. Asked(o, g) \in Nat
        BY AskedIsNat
      <4> QED BY <2>1, <3>1, <3>2, <4>1, <4>2 DEF Available
    <3>5. \/ Asked(o, g) = 0
          \/ \E i \in DOMAIN Lines[o] : Lines[o][i].good = g /\ Asked(o, g) = Lines[o][i].qty
      BY <2>3, AskedOnce
    <3> QED BY <3>3, <3>4, <3>5
  <2>4. ASSUME NEW g \in Goods \ cut'
        PROVE  \/ Available(g)' >= Available(g)
               \/ \A t \in Sessions : sess'[t].line > 0 => g \notin Checked(t)
    <3>1. RowsOf(o, g) = {} \/ \A t \in Sessions : g \notin Checked(t)
      BY DEF ZakazReserve
    <3>2. CASE RowsOf(o, g) = {}
      <4>1. Asked(o, g) = 0
        BY <3>2, SumOfNone DEF Asked
      <4>2. ReservedOf(g)' = ReservedOf(g) + Asked(o, g)
        BY <1>2, <2>1, ReservedGrows
      <4>3. ReservedOf(g) \in Nat /\ book[g] \in Int
        BY <2>1, ReservedIsNat
      <4> QED BY <2>1, <4>1, <4>2, <4>3 DEF Available
    <3> QED BY <3>1, <3>2
  <2>5. ChecksPending' /\ CheckedStill'
    BY <2>1, <2>2, <2>4, StillKept
  <2> QED BY <2>1, <2>2, <2>3, <2>5 DEF CoveredInv, ReservationsCovered, NamedOnce, RowsOf
<1> QED BY <1>1, <1>2

\* A sale leaves what is reserved: it takes no more than it has seen available.
LEMMA PostCovered ==
  ASSUME IInv, CoveredInv, NEW s \in Sessions, PostSale(s)
  PROVE  CoveredInv'
<1>1. PICK o : o = sess[s].order
  OBVIOUS
<1>2. /\ o \in Orders /\ AllChecked(s) /\ book' = [g \in Goods |-> book[g] - Asked(o, g)]
      /\ reserved' = reserved /\ cut \subseteq cut'
  BY <1>1 DEF IInv, PhasesNameOrders, SellPhases, Pending, PostSale
<1>3. reserved \in SUBSET Orders /\ IsFiniteSet(reserved) /\ book \in [Goods -> Int]
  BY DEF IInv, ControlOK, CoveredInv
<1>4. book' \in [Goods -> Int]
  BY <1>2, AskedIsNat DEF CoveredInv
<1>5. /\ \A t \in Sessions : t # s => sess'[t] = sess[t]
      /\ sess'[s].line = 0
  BY ProceedMoves DEF IInv, PostSale
<1>6. ASSUME NEW g \in Goods \ cut', NamedOnce(g) PROVE ReservedOf(g) <= book'[g]
  <2>1. ReservedOf(g) <= book[g] /\ book[g] \in Int /\ ReservedOf(g) \in Nat
    BY <1>2, <1>3, <1>6, ReservedIsNat DEF CoveredInv, ReservationsCovered
  <2>2. book'[g] = book[g] - Asked(o, g)
    BY <1>2
  <2>3. CASE Asked(o, g) = 0
    BY <2>1, <2>2, <2>3
  <2>4. ASSUME NEW i \in DOMAIN Lines[o], Lines[o][i].good = g, Asked(o, g) = Lines[o][i].qty
        PROVE  ReservedOf(g) <= book'[g]
    <3>1. i < sess[s].line /\ sess[s].line > 0
      <4>1. Lines[o] \in Seq([good : Goods, qty : Nat])
        BY <1>2, OrderAssumption
      <4>2. i \in 1 .. Len(Lines[o]) /\ Len(Lines[o]) \in Nat
        BY <4>1
      <4> QED BY <1>1, <1>2, <4>2 DEF AllChecked
    <3>2. Available(g) >= Asked(o, g)
      BY <1>1, <1>2, <2>4, <3>1 DEF CoveredInv, CheckedStill
    <3>3. Asked(o, g) \in Nat
      BY <1>2, AskedIsNat
    <3> QED BY <2>1, <2>2, <3>2, <3>3 DEF Available
  <2> QED BY <1>2, <1>6, <2>3, <2>4, AskedOnce
<1>7. ASSUME NEW g \in Goods \ cut'
      PROVE  \/ book'[g] >= book[g]
             \/ \A t \in Sessions : sess'[t].line > 0 => g \notin Checked(t)
  <2>1. RowsOf(o, g) = {} \/ \A t \in Sessions \ {s} : g \notin Checked(t)
    BY <1>1 DEF PostSale
  <2>2. CASE RowsOf(o, g) = {}
    <3>1. Asked(o, g) = 0
      BY <2>2, SumOfNone DEF Asked
    <3> QED BY <1>2, <1>3, <3>1
  <2>3. CASE \A t \in Sessions \ {s} : g \notin Checked(t)
    BY <1>5, <2>3
  <2> QED BY <2>1, <2>2, <2>3
<1> QED BY <1>2, <1>4, <1>5, <1>6, <1>7, BookCovered

LEMMA UnpostCovered ==
  ASSUME IInv, CoveredInv, NEW k \in Sales, DocumentUnpost(k)
  PROVE  CoveredInv'
<1>1. PICK o : o = sale[k].order
  OBVIOUS
<1>2. /\ o \in Orders /\ book' = [g \in Goods |-> book[g] + Asked(o, g)] /\ reserved' = reserved
      /\ cut' = cut /\ sess' = sess
  BY <1>1 DEF IInv, DraftsNameOrders, DocumentUnpost
<1>3. book' \in [Goods -> Int]
  BY <1>2, AskedIsNat DEF CoveredInv
<1>4. \A g \in Goods : book'[g] >= book[g] /\ book'[g] \in Int /\ book[g] \in Int
  BY <1>2, <1>3, AskedIsNat DEF CoveredInv
<1>5. ASSUME NEW g \in Goods \ cut', NamedOnce(g) PROVE ReservedOf(g) <= book'[g]
  <2>1. ReservedOf(g) <= book[g] /\ ReservedOf(g) \in Nat
    BY <1>2, <1>5, ReservedIsNat DEF IInv, ControlOK, CoveredInv, ReservationsCovered
  <2> QED BY <1>4, <2>1
<1> QED BY <1>2, <1>3, <1>4, <1>5, BookCovered

LEMMA ReceiveCovered ==
  ASSUME IInv, CoveredInv, NEW g \in Goods, Receive(g)
  PROVE  CoveredInv'
<1>1. book' \in [Goods -> Int] /\ reserved' = reserved /\ cut' = cut /\ sess' = sess
  BY DEF CoveredInv, Receive
<1>2. \A h \in Goods : book'[h] >= book[h] /\ book[h] \in Int /\ book'[h] \in Int
  BY DEF CoveredInv, Receive
<1>3. \A h \in Goods : ReservedOf(h) \in Nat
  BY ReservedIsNat DEF IInv, ControlOK, CoveredInv
<1>4. ASSUME NEW h \in Goods \ cut', NamedOnce(h) PROVE ReservedOf(h) <= book'[h]
  BY <1>1, <1>2, <1>3, <1>4 DEF CoveredInv, ReservationsCovered
<1> QED BY <1>1, <1>2, <1>4, BookCovered

LEMMA WriteOffCovered ==
  ASSUME IInv, CoveredInv, NEW g \in Goods, WriteOff(g)
  PROVE  CoveredInv'
<1>1. /\ book' \in [Goods -> Int] /\ reserved' = reserved /\ sess' = sess
      /\ cut' = cut \cup {g}
  BY DEF CoveredInv, WriteOff
<1>2. \A h \in Goods \ cut' : book'[h] = book[h] /\ book[h] \in Int /\ h \notin cut
  BY <1>1 DEF CoveredInv, WriteOff
<1>3. ASSUME NEW h \in Goods \ cut', NamedOnce(h) PROVE ReservedOf(h) <= book'[h]
  BY <1>2, <1>3 DEF CoveredInv, ReservationsCovered
<1> QED BY <1>1, <1>2, <1>3, BookCovered

\* A row is checked: what it asks for is available.
LEMMA CheckingCovered ==
  ASSUME IInv, CoveredInv, NEW s \in Sessions, LockSale(s) \/ CheckRow(s)
  PROVE  CoveredInv'
<1>1. /\ book' = book /\ reserved' = reserved /\ cut' = cut
      /\ sess[s].line \in Nat /\ Pending(s) /\ sess[s].order \in Orders
  BY DEF IInv, ControlOK, Session, PhasesNameOrders, SellPhases, Pending, LockSale, CheckRow
<1>2. /\ \A t \in Sessions : t # s => sess'[t] = sess[t]
      /\ sess'[s].order = sess[s].order /\ sess'[s].pc = sess[s].pc
      /\ sess'[s].line = 1 \/ (CheckRow(s) /\ sess'[s].line = sess[s].line + 1)
  BY DEF IInv, ControlOK, Session, LockSale, CheckRow
<1>3. ChecksPending'
  BY <1>1, <1>2 DEF CoveredInv, ChecksPending, Pending
<1>4. ASSUME NEW t \in Sessions, sess'[t].line > 0, NEW i \in DOMAIN Lines[sess'[t].order],
             i < sess'[t].line, Lines[sess'[t].order][i].good \notin cut
      PROVE  Available(Lines[sess'[t].order][i].good) >= Lines[sess'[t].order][i].qty
  <2>1. CASE t # s
    BY <1>2, <1>4, <2>1 DEF CoveredInv, CheckedStill
  <2>2. CASE t = s
    <3>1. Lines[sess[s].order] \in Seq([good : Goods, qty : Nat])
      BY <1>1, OrderAssumption
    <3>2. i \in Nat /\ i >= 1 /\ i \in DOMAIN Lines[sess[s].order]
      BY <1>2, <1>4, <2>2, <3>1
    <3>3. CheckRow(s) /\ sess'[s].line = sess[s].line + 1
      BY <1>2, <1>4, <2>2, <3>2
    <3>4. CASE i = sess[s].line
      BY <1>2, <2>2, <3>3, <3>4 DEF CheckRow, Row
    <3>5. CASE i # sess[s].line
      <4>1. i < sess[s].line /\ sess[s].line > 0
        BY <1>1, <1>4, <2>2, <3>2, <3>3, <3>5
      <4> QED BY <1>2, <1>4, <2>2, <3>2, <4>1 DEF CoveredInv, CheckedStill
    <3> QED BY <3>4, <3>5
  <2> QED BY <2>1, <2>2
<1>5. CheckedStill'
  BY <1>1, <1>4 DEF CheckedStill, Available, ReservedOf, Asked, RowsOf
<1> QED BY <1>1, <1>3, <1>5 DEF CoveredInv, ReservationsCovered, NamedOnce, ReservedOf, Asked, RowsOf

LEMMA NextCovered == IInv /\ CoveredInv /\ [Next]_vars => CoveredInv'
<1> SUFFICES ASSUME IInv, CoveredInv, [Next]_vars PROVE CoveredInv'
  OBVIOUS
<1>1. Idle.line = 0
  BY DEF Idle
<1>2. CASE UNCHANGED vars
  BY <1>2, SameCovered DEF vars
<1>3. ASSUME NEW g \in Goods, Receive(g) \/ WriteOff(g) PROVE CoveredInv'
  BY <1>3, ReceiveCovered, WriteOffCovered
<1>4. ASSUME NEW o \in Orders, ZakazCreate(o) \/ ZakazReserve(o) PROVE CoveredInv'
  BY <1>4, ReserveCovered, SameCovered DEF ZakazCreate
<1>5. ASSUME NEW k \in Sales, DocumentUnpost(k) PROVE CoveredInv'
  BY <1>5, UnpostCovered
<1>6. ASSUME NEW s \in Sessions, NEW pc, NEW o, NEW k, NEW mem, Begin(s, pc, o, k, mem)
      PROVE  \A t \in Sessions : sess'[t] = sess[t] \/ sess'[t].line = 0
  BY <1>6 DEF Begin, IInv, ControlOK
<1>7. ASSUME NEW s \in Sessions, Finish(s)
      PROVE  \A t \in Sessions : sess'[t] = sess[t] \/ sess'[t].line = 0
  BY <1>1, <1>7 DEF Finish, IInv, ControlOK
<1>8. ASSUME NEW s \in Sessions, NEW o \in Orders, NEW new \in States, ZakazState(s, o, new)
      PROVE  CoveredInv'
  <2>1. \A t \in Sessions : sess'[t] = sess[t] \/ sess'[t].line = 0
    BY <1>6, <1>8 DEF ZakazState
  <2> QED BY <1>8, <2>1, SameCovered DEF ZakazState
<1>9. ASSUME NEW s \in Sessions, NEW o \in Orders, NEW k \in Sales,
             ZakazShip(s, o, k) \/ RmkSell(s, o, k)
      PROVE  CoveredInv'
  <2>1. \A t \in Sessions : sess'[t] = sess[t] \/ sess'[t].line = 0
    BY <1>6, <1>9 DEF ZakazShip, RmkSell
  <2> QED BY <1>9, <2>1, SameCovered DEF ZakazShip, RmkSell, CreateSale
<1>10. ASSUME NEW s \in Sessions, NEW k \in Sales, DocumentPost(s, k) PROVE CoveredInv'
  <2>1. \A t \in Sessions : sess'[t] = sess[t] \/ sess'[t].line = 0
    BY <1>6, <1>10 DEF DocumentPost
  <2> QED BY <1>10, <2>1, SameCovered DEF DocumentPost
<1>11. ASSUME NEW s \in Sessions, Continue(s) PROVE CoveredInv'
  <2>1. CASE ReleaseForZakaz(s) \/ CloseShipped(s)
    <3>1. \A t \in Sessions : sess'[t] = sess[t] \/ sess'[t].line = 0
      BY <1>7, <2>1 DEF ReleaseForZakaz, CloseShipped
    <3> QED BY <2>1, <3>1, ReleasedCovered DEF ReleaseForZakaz, CloseShipped
  <2>2. CASE PostSale(s)
    BY <2>2, PostCovered
  <2>3. CASE SaleRefused(s) \/ CloseSold(s)
    <3>1. \A t \in Sessions : sess'[t] = sess[t] \/ sess'[t].line = 0
      BY <1>7, <2>3 DEF SaleRefused, CloseSold
    <3> QED BY <2>3, <3>1, SameCovered DEF SaleRefused, CloseSold
  <2>4. CASE SalePosted(s)
    <3>1. \A t \in Sessions : sess'[t] = sess[t] \/ sess'[t].line = 0
      BY <2>4, ProceedMoves DEF SalePosted, IInv
    <3> QED BY <2>4, <3>1, SameCovered DEF SalePosted
  <2>5. CASE LockSale(s) \/ CheckRow(s)
    BY <2>5, CheckingCovered
  <2> QED BY <1>11, <2>1, <2>2, <2>3, <2>4, <2>5 DEF Continue
<1>12. ASSUME NEW s \in Sessions, Crash(s) PROVE CoveredInv'
  <2>1. \A t \in Sessions : sess'[t] = sess[t] \/ sess'[t].line = 0
    BY <1>7, <1>12 DEF Crash
  <2> QED BY <1>12, <2>1, SameCovered DEF Crash
<1> QED BY <1>2, <1>3, <1>4, <1>5, <1>8, <1>9, <1>10, <1>11, <1>12 DEF Next

LEMMA InitCovered == Init => CoveredInv
<1> SUFFICES ASSUME Init PROVE CoveredInv
  OBVIOUS
<1>1. book \in [Goods -> Int] /\ IsFiniteSet(reserved)
  BY FS_EmptySet DEF Init
<1>2. \A g \in Goods : ReservedOf(g) = 0 /\ book[g] = 0
  BY SumOfNone DEF Init, ReservedOf
<1>3. ChecksPending /\ CheckedStill
  BY DEF Init, Idle, ChecksPending, CheckedStill
<1> QED BY <1>1, <1>2, <1>3 DEF CoveredInv, ReservationsCovered

\* ReservationsCovered for every instance: no interleaving of reserving, selling,
\* shipping, cancelling and crashing leaves less on the book of a good than is
\* reserved of it, until the good is cut: written off, or sold or reserved by
\* someone between a sale's check of it and the sale.
THEOREM ReservationsAreCovered == Spec => []ReservationsCovered
<1>1. Init => IInv /\ CoveredInv
  BY InitIInv, InitCovered
<1>2. IInv /\ CoveredInv /\ [Next]_vars => (IInv /\ CoveredInv)'
  BY NextIInv, NextCovered
<1>3. CoveredInv => ReservationsCovered
  BY DEF CoveredInv
<1> QED BY <1>1, <1>2, <1>3, PTL DEF Spec

=============================================================================
