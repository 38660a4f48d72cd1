------------------------ MODULE CustomerCart_proofs ------------------------
(***************************************************************************)
(* Proofs about CustomerCart, for every set of customers, requests and     *)
(* goods, all prices and promotions and all bounds.  Each theorem has an   *)
(* inductive invariant of its own (OnceInv, OneRowInv, PricesInv,          *)
(* NumbersInv, ConservedInv); they share what is true of every request:    *)
(* its type (CartTypes), that requests of one customer under way are       *)
(* recorded as overlapping (Overlaps), and that the rows it names are its  *)
(* customer's (RowsAreOwn).  The accounts of customers follow, with an     *)
(* invariant of their own (AccountsInv).                                   *)
(***************************************************************************)
EXTENDS CustomerCart, CustomerAccounts, FiniteSums, SequenceTheorems, TLAPS

\* The types of all of the state.
CartTypes ==
  /\ TypeOK
  /\ req \in [Requests -> RequestState]
  /\ orders \in Seq(Order)
  /\ asked \in [Customers -> [Goods -> Int]]
  /\ edits \in Nat /\ begun \in Nat
  /\ IsFiniteSet(created)

\* The steps of a checkout, each of which remembers what it has read.
Reads == {"check", "clear", "number", "save"}

\* What a request holds by where it is.
LEMMA RequestFields ==
  ASSUME NEW s \in RequestState
  PROVE  /\ s.pc \in {"idle", "add", "set"} \cup Reads
         /\ s.pc = "idle" => s = Idle
         /\ s.pc # "idle" => s.cust \in Customers
         /\ s.pc = "add" => /\ s.good \in Goods /\ s.qty \in Nat /\ s.row \in Nat /\ s.had \in Nat
         /\ s.pc = "set" => s.row \in Nat /\ s.qty \in Nat /\ s.had \in Nat
         /\ s.pc \in Reads => s.lines \subseteq Line /\ s.asOf \in Nat
         /\ s.pc \in {"number", "save"} => s.dead \subseteq Nat
         /\ s.pc = "number" => s.prefix \in PrefixIB
         /\ s.pc = "save" => s.number \in DocNumber
<1>1. CASE s = Idle
  BY <1>1 DEF Idle, Reads
<1>2. CASE s \in [pc : {"add"}, cust : Customers, good : Goods, qty : Nat, row : Nat, had : Nat,
                  fresh : BOOLEAN]
  BY <1>2 DEF Reads
<1>3. CASE s \in [pc : {"set"}, cust : Customers, row : Nat, qty : Nat, had : Nat]
  BY <1>3 DEF Reads
<1>4. CASE s \in [pc : {"check", "clear"}, cust : Customers, lines : SUBSET Line, asOf : Nat]
  BY <1>4 DEF Reads
<1>5. CASE s \in [pc : {"number"}, cust : Customers, lines : SUBSET Line, asOf : Nat,
                  dead : SUBSET Nat, prefix : PrefixIB]
  BY <1>5 DEF Reads
<1>6. CASE s \in [pc : {"save"}, cust : Customers, lines : SUBSET Line, asOf : Nat,
                  dead : SUBSET Nat, number : DocNumber]
  BY <1>6 DEF Reads
<1> QED BY <1>1, <1>2, <1>3, <1>4, <1>5, <1>6 DEF RequestState

-----------------------------------------------------------------------------
(***************************************************************************)
(* Numbers.                                                                *)
(***************************************************************************)

\* Numbers are strictly ordered as text.
LEMMA TextOrder ==
  /\ \A a \in DocNumber : ~ TextLess(a, a)
  /\ \A a, b, c \in DocNumber : TextLess(a, b) /\ TextLess(b, c) => TextLess(a, c)
<1>1. \A k \in Nat : TextKey(k) \in Nat
  BY DEF TextKey, Padded
<1>2. \A p \in PrefixIB : Rank[p] \in Nat
  BY NumberingAssumption
<1> QED BY <1>1, <1>2 DEF TextLess, DocNumber

\* A finite set of numbers has one that no other follows as text.
LEMMA GreatestExists ==
  ASSUME NEW S \in SUBSET DocNumber, IsFiniteSet(S), S # {}
  PROVE  \E a \in S : \A b \in S : ~ TextLess(a, b)
<1> DEFINE B == {T \in SUBSET S : T # {} /\ ~ \E a \in T : \A b \in T : ~ TextLess(a, b)}
<1> SUFFICES ASSUME B # {} PROVE FALSE
  OBVIOUS
<1>1. PICK T \in B : \A V \in B : V \subseteq T => V = T
  <2> HIDE DEF B
  <2>1. B \in SUBSET (SUBSET S)
    BY DEF B
  <2> QED BY <2>1, LeastSubset
<1>2. PICK x \in T : TRUE
  OBVIOUS
<1>3. T \ {x} \notin B
  BY <1>1, <1>2
<1>4. T \ {x} # {}
  BY <1>2, TextOrder
<1>5. PICK m \in T \ {x} : \A b \in T \ {x} : ~ TextLess(m, b)
  BY <1>3, <1>4
<1>6. T \subseteq DocNumber
  OBVIOUS
<1>7. TextLess(m, x)
  BY <1>5
<1>8. \A b \in T : ~ TextLess(x, b)
  BY <1>2, <1>5, <1>6, <1>7, TextOrder
<1> QED BY <1>2, <1>8

\* Of numbers with one prefix, as long as five digits are enough, the next one is
\* greater than all.
LEMMA NextNumberFollows ==
  ASSUME NEW p \in PrefixIB, NEW S \in SUBSET DocNumber, IsFiniteSet(S)
  PROVE  /\ NextNumber(p, S) \in DocNumber
         /\ NextNumber(p, S).prefix = p
         /\ \/ NextNumber(p, S) \notin S
            \/ NextNumber(p, S).count >= Padded
            \/ \E n \in S : n.prefix # p
<1>1. CASE S = {}
  BY <1>1 DEF NextNumber, LastCount, DocNumber
<1>2. CASE S # {}
  <2>1. PICK a : a = CHOOSE x \in S : \A b \in S : ~ TextLess(x, b)
    OBVIOUS
  <2>2. a \in S /\ \A b \in S : ~ TextLess(a, b)
    BY <1>2, <2>1, GreatestExists
  <2>3. LastCount(S) = a.count
    BY <1>2, <2>1 DEF LastCount
  <2>4. NextNumber(p, S) = [prefix |-> p, count |-> a.count + 1]
    BY <2>3 DEF NextNumber
  <2>5. a.count \in Nat
    BY <2>2 DEF DocNumber
  <2>6. NextNumber(p, S) \in DocNumber
    BY <2>4, <2>5 DEF DocNumber
  <2>7. ASSUME a.count + 1 < Padded, \A n \in S : n.prefix = p, NextNumber(p, S) \in S PROVE FALSE
    <3>1. ~ TextLess(a, NextNumber(p, S))
      BY <2>2, <2>7
    <3>2. ~ TextKey(a.count) < TextKey(a.count + 1)
      BY <2>2, <2>4, <2>7, <3>1 DEF TextLess
    <3> QED BY <2>5, <2>7, <3>2 DEF TextKey, Padded
  <2> QED BY <2>4, <2>5, <2>6, <2>7 DEF Padded
<1> QED BY <1>1, <1>2

-----------------------------------------------------------------------------
(***************************************************************************)
(* Types.                                                                  *)
(***************************************************************************)

\* There are finitely many numbers.
LEMMA NumbersFinite ==
  ASSUME CartTypes
  PROVE  Numbers \in SUBSET DocNumber /\ IsFiniteSet(Numbers)
<1>1. DOMAIN orders = 1 .. Len(orders) /\ Len(orders) \in Nat
  BY DEF CartTypes
<1>2. IsFiniteSet(DOMAIN orders)
  BY <1>1, FS_Interval
<1>3. PICK f : f = [i \in DOMAIN orders |-> orders[i].number]
  OBVIOUS
<1>4. Numbers = {f[i] : i \in DOMAIN orders}
  BY <1>3 DEF Numbers
<1>5. IsFiniteSet(Numbers)
  <2>1. PICK D : D = DOMAIN orders
    OBVIOUS
  <2>2. Numbers = {f[i] : i \in D} /\ IsFiniteSet(D)
    BY <1>2, <1>4, <2>1
  <2>3. f \in Surjection(D, Numbers)
    BY <1>3, <2>1, <2>2 DEF Surjection
  <2> QED BY <2>2, <2>3, FS_Surjection
<1> QED BY <1>5 DEF CartTypes, TypeOK, Numbers

LEMMA InitTypes == Init => CartTypes
<1> SUFFICES ASSUME Init PROVE CartTypes
  OBVIOUS
<1> USE CartAssumption, PriceAssumption
<1>1. \A r \in Requests : req[r] = Idle /\ Idle.pc = "idle" /\ Idle \in RequestState
  BY DEF Init, Idle, RequestState
<1>2. orders \in Seq(Order)
  <2>1. [cust |-> NoOne, lines |-> {}, number |-> FirstNumber, byHand |-> FALSE, asOf |-> 0] \in Order
    BY DEF Order
  <2> QED BY <2>1 DEF Init
<1>3. overlapped \in [Customers -> SUBSET SUBSET Operation] /\ asked \in [Customers -> [Goods -> Int]]
  BY DEF Init
<1>4. \A i \in DOMAIN orders : orders[i].number \in DocNumber /\ orders[i].cust \in Customers \cup {NoOne}
  BY DEF Init
<1>5. /\ nextRow \in 1 .. MaxRows + 1 /\ DOMAIN rows \subseteq 1 .. nextRow - 1
      /\ \A i \in DOMAIN rows : rows[i] \in Row
  BY DEF Init
<1>6. TypeOK
  BY <1>1, <1>3, <1>4, <1>5 DEF Init, TypeOK, DocNumber
<1> QED BY <1>1, <1>2, <1>3, <1>6 DEF Init, CartTypes

\* A request that begins.
LEMMA BeginTypes ==
  ASSUME CartTypes, NEW r \in Requests, NEW s \in RequestState, s.pc \notin {"idle", "save"},
         NEW operation \in Operation, Begin(r, s, operation),
         UNCHANGED <<hasCart, rows, nextRow, orders, prefix, lock, site, asked>>
  PROVE  CartTypes'
<1>1. \A q \in Active : OperationOf(q) \in Operation
  BY DEF OperationOf, Operation
<1>2. s.cust \in Customers
  BY RequestFields
<1>3. overlapped' \in [Customers -> SUBSET SUBSET Operation]
  <2>1. {{operation, OperationOf(q)} : q \in {q \in Active : req[q].cust = s.cust}}
          \in SUBSET SUBSET Operation
    BY <1>1
  <2> QED BY <1>2, <2>1 DEF Begin, CartTypes, TypeOK
<1>4. req' \in [Requests -> RequestState] /\ \A q \in Requests : lock' = q <=> req'[q].pc = "save"
  BY DEF Begin, CartTypes, TypeOK, Idle
<1>5. begun' \in Nat
  BY DEF Begin, CartTypes
<1> QED BY <1>3, <1>4, <1>5 DEF CartTypes, TypeOK, site

\* A request that goes on or ends, without the lock.
LEMMA RequestTypes ==
  ASSUME CartTypes, NEW r \in Requests, NEW s \in RequestState, s.pc # "save",
         req' = [req EXCEPT ![r] = s], lock' = IF lock = r THEN NoOne ELSE lock
  PROVE  /\ req' \in [Requests -> RequestState]
         /\ lock' \in Requests \cup {NoOne}
         /\ \A q \in Requests : lock' = q <=> req'[q].pc = "save"
BY CartAssumption DEF CartTypes, TypeOK

\* An order more.
LEMMA AppendTypes ==
  ASSUME CartTypes, NEW o \in Order, orders' = Append(orders, o)
  PROVE  /\ orders' \in Seq(Order)
         /\ \A i \in DOMAIN orders' :
              orders'[i].number \in DocNumber /\ orders'[i].cust \in Customers \cup {NoOne}
<1>1. orders' \in Seq(Order)
  BY DEF CartTypes
<1>2. \A i \in DOMAIN orders' : orders'[i] \in Order
  BY <1>1
<1> QED BY <1>1, <1>2 DEF Order

LEMMA IdleTypes == Idle \in RequestState /\ Idle.pc = "idle"
BY DEF Idle, RequestState

\* The steps of the routes, one by one.
LEMMA FinishAddTypes ==
  ASSUME CartTypes, NEW r \in Requests, FinishAdd(r)
  PROVE  CartTypes'
<1>1. PICK s \in RequestState : s = req[r]
  BY DEF CartTypes
<1>2. s.pc = "add" /\ s.cust \in Customers /\ s.good \in Goods /\ s.qty \in Nat /\ s.had \in Nat
  BY <1>1, RequestFields DEF FinishAdd
<1>3. lock # r
  BY <1>1, <1>2 DEF CartTypes, TypeOK
<1>4. /\ req' \in [Requests -> RequestState]
      /\ \A q \in Requests : lock' = q <=> req'[q].pc = "save"
  BY <1>3, IdleTypes, RequestTypes DEF FinishAdd, Finish
<1>5. /\ nextRow' \in 1 .. MaxRows + 1 /\ DOMAIN rows' \subseteq 1 .. nextRow' - 1
      /\ \A i \in DOMAIN rows' : rows'[i] \in Row
  <2>1. nextRow \in Nat /\ \A i \in DOMAIN rows : rows[i] \in Row /\ i \in 1 .. nextRow - 1
    BY CartAssumption DEF CartTypes, TypeOK
  <2>2. CASE /\ nextRow <= MaxRows
             /\ rows' = [i \in DOMAIN rows \cup {nextRow} |->
                           IF i = nextRow THEN [cust |-> s.cust, good |-> s.good, qty |-> s.qty]
                                          ELSE rows[i]]
             /\ nextRow' = nextRow + 1
    BY <1>2, <2>1, <2>2, CartAssumption DEF Row, CartTypes, TypeOK
  <2>3. CASE /\ s.row \in DOMAIN rows
             /\ rows' = [rows EXCEPT ![s.row].qty = Increased(s.had, s.qty)]
             /\ nextRow' = nextRow
    <3>1. Increased(s.had, s.qty) \in Nat
      BY <1>2 DEF Increased
    <3> QED BY <2>1, <2>3, <3>1 DEF Row, CartTypes, TypeOK
  <2> QED BY <1>1, <2>2, <2>3 DEF FinishAdd
<1>6. asked' \in [Customers -> [Goods -> Int]]
  <2>1. asked' = [asked EXCEPT ![s.cust][s.good] = @ + s.qty]
    BY <1>1 DEF FinishAdd
  <2> QED BY <1>2, <2>1 DEF CartTypes
<1>7. hasCart' \subseteq Customers
  BY <1>1, <1>2 DEF FinishAdd, CartTypes, TypeOK
<1> QED BY <1>4, <1>5, <1>6, <1>7 DEF FinishAdd, CartTypes, TypeOK, site

LEMMA FinishSetTypes ==
  ASSUME CartTypes, NEW r \in Requests, FinishSet(r)
  PROVE  CartTypes'
<1>1. PICK s \in RequestState : s = req[r]
  BY DEF CartTypes
<1>2. s.pc = "set" /\ s.cust \in Customers /\ s.qty \in Nat /\ s.had \in Nat /\ s.row \in Nat
  BY <1>1, RequestFields DEF FinishSet
<1>3. lock # r
  BY <1>1, <1>2 DEF CartTypes, TypeOK
<1>4. /\ req' \in [Requests -> RequestState]
      /\ \A q \in Requests : lock' = q <=> req'[q].pc = "save"
  BY <1>3, IdleTypes, RequestTypes DEF FinishSet, Finish
<1>5. DOMAIN rows' \subseteq DOMAIN rows /\ \A i \in DOMAIN rows' : rows'[i] \in Row
  <2>1. \A i \in DOMAIN rows : rows[i] \in Row
    BY DEF CartTypes, TypeOK
  <2>2. CASE rows' = [i \in DOMAIN rows \ {s.row} |-> rows[i]]
    BY <2>1, <2>2
  <2>3. CASE rows' = rows
    BY <2>1, <2>3
  <2>4. CASE s.row \in DOMAIN rows /\ rows' = [rows EXCEPT ![s.row].qty = s.qty]
    BY <1>2, <2>1, <2>4 DEF Row
  <2> QED BY <1>1, <2>2, <2>3, <2>4 DEF FinishSet
<1>6. asked' \in [Customers -> [Goods -> Int]]
  <2>1. s.row \in DOMAIN rows => rows[s.row].good \in Goods /\ rows[s.row].qty \in Int
    BY DEF CartTypes, TypeOK, Row
  <2>2. CASE s.row \in DOMAIN rows /\ rows' # rows
    <3>1. asked' = [asked EXCEPT ![s.cust][rows[s.row].good] = @ + s.qty - rows[s.row].qty]
      BY <1>1, <2>2 DEF FinishSet
    <3> QED BY <1>2, <2>1, <2>2, <3>1 DEF CartTypes
  <2>3. CASE ~ (s.row \in DOMAIN rows /\ rows' # rows)
    BY <1>1, <2>3 DEF FinishSet, CartTypes
  <2> QED BY <2>2, <2>3
<1> QED BY <1>4, <1>5, <1>6 DEF FinishSet, CartTypes, TypeOK, site

LEMMA CheckoutTypes ==
  ASSUME CartTypes, NEW r \in Requests,
         CheckStock(r) \/ ReadRows(r) \/ TakeNumber(r) \/ SaveOrder(r)
  PROVE  CartTypes'
<1>1. PICK s \in RequestState : s = req[r]
  BY DEF CartTypes
<1>2. CASE CheckStock(r)
  <2>1. s.pc = "check" /\ req' = [req EXCEPT ![r] = [s EXCEPT !.pc = "clear"]]
    BY <1>1, <1>2 DEF CheckStock, CartTypes
  <2>2. [s EXCEPT !.pc = "clear"] \in RequestState
    BY <2>1 DEF RequestState, Idle
  <2>3. lock # r
    BY <1>1, <2>1 DEF CartTypes, TypeOK
  <2>4. [s EXCEPT !.pc = "clear"].pc = "clear"
    BY <2>1 DEF RequestState, Idle
  <2>5. /\ req' \in [Requests -> RequestState]
        /\ \A q \in Requests : lock' = q <=> req'[q].pc = "save"
    BY <1>2, <2>1, <2>2, <2>3, <2>4, RequestTypes DEF CheckStock
  <2> QED BY <1>2, <2>5 DEF CheckStock, CartTypes, TypeOK, site
<1>3. CASE ReadRows(r)
  <2> DEFINE t == [pc |-> "number", cust |-> s.cust, lines |-> s.lines,
                   asOf |-> s.asOf, dead |-> RowsOf(s.cust), prefix |-> prefix]
  <2>1. s.pc = "clear" /\ req' = [req EXCEPT ![r] = t]
    BY <1>1, <1>3 DEF ReadRows
  <2>2. RowsOf(s.cust) \subseteq Nat
    BY CartAssumption DEF RowsOf, CartTypes, TypeOK
  <2>3. t \in RequestState
    BY <2>1, <2>2, RequestFields DEF RequestState, CartTypes, TypeOK, Reads
  <2>4. lock # r
    BY <1>1, <2>1 DEF CartTypes, TypeOK
  <2>5. /\ req' \in [Requests -> RequestState]
        /\ \A q \in Requests : lock' = q <=> req'[q].pc = "save"
    BY <1>3, <2>1, <2>3, <2>4, RequestTypes DEF ReadRows
  <2> QED BY <1>3, <2>5 DEF ReadRows, CartTypes, TypeOK, site
<1>4. CASE TakeNumber(r)
  <2> DEFINE t == [pc |-> "save", cust |-> s.cust, lines |-> s.lines, asOf |-> s.asOf,
                   dead |-> s.dead, number |-> NextNumber(s.prefix, Numbers)]
  <2>1. s.pc = "number" /\ req' = [req EXCEPT ![r] = t]
    BY <1>1, <1>4 DEF TakeNumber
  <2>2. NextNumber(s.prefix, Numbers) \in DocNumber
    BY <2>1, RequestFields, NumbersFinite, NextNumberFollows
  <2>3. t \in RequestState
    BY <2>1, <2>2, RequestFields DEF RequestState, Reads
  <2>4. lock = NoOne /\ lock' = r
    BY <1>4 DEF TakeNumber
  <2>5. req' \in [Requests -> RequestState]
    BY <2>1, <2>3 DEF CartTypes
  <2>6. \A q \in Requests : lock' = q <=> req'[q].pc = "save"
    BY <2>1, <2>4, CartAssumption DEF CartTypes, TypeOK
  <2> QED BY <1>4, <2>4, <2>5, <2>6 DEF TakeNumber, CartTypes, TypeOK, site
<1>5. CASE SaveOrder(r)
  <2> DEFINE o == [cust |-> s.cust, lines |-> s.lines, number |-> s.number, byHand |-> FALSE,
                                           asOf |-> s.asOf]
  <2>1. s.pc = "save" /\ req' = [req EXCEPT ![r] = Idle] /\ orders' = Append(orders, o)
    BY <1>1, <1>5 DEF SaveOrder, Finish
  <2>2. o \in Order
    BY <2>1, RequestFields DEF Order, Reads
  <2>3. lock = r /\ lock' = NoOne
    BY <1>1, <1>5, <2>1 DEF SaveOrder, CartTypes, TypeOK
  <2>4. /\ req' \in [Requests -> RequestState]
        /\ \A q \in Requests : lock' = q <=> req'[q].pc = "save"
    BY <2>1, <2>3, IdleTypes, RequestTypes
  <2>5. /\ orders' \in Seq(Order)
        /\ \A i \in DOMAIN orders' :
             orders'[i].number \in DocNumber /\ orders'[i].cust \in Customers \cup {NoOne}
    <3> HIDE DEF o
    <3> QED BY <2>1, <2>2, AppendTypes
  <2>6. DOMAIN rows' \subseteq DOMAIN rows /\ \A i \in DOMAIN rows' : rows'[i] = rows[i]
    BY <1>5 DEF SaveOrder
  <2> QED BY <1>5, <2>3, <2>4, <2>5, <2>6 DEF SaveOrder, CartTypes, TypeOK, site
<1> QED BY <1>2, <1>3, <1>4, <1>5

\* What changes the site changes nothing of carts and orders.
Elsewhere ==
  /\ edits' = edits + 1
  /\ UNCHANGED <<hasCart, rows, nextRow, orders, lock, req, begun, asked, overlapped>>

LEMMA ElsewhereTypes ==
  ASSUME CartTypes,
         \/ \E p \in PrefixIB : ChangePrefix(p)
         \/ SiteAdmin
         \/ \E g \in Goods : SellElsewhere(g)
         \/ NextDay
  PROVE  CartTypes' /\ Elsewhere
<1>1. CASE \E p \in PrefixIB : ChangePrefix(p)
  BY <1>1 DEF ChangePrefix, Elsewhere, CartTypes, TypeOK
<1>2. CASE \E p \in PromoIds : SiteCreatePromotion(p) \/ SiteTogglePromotion(p) \/ SiteDeletePromotion(p)
  <2>1. PICK p \in PromoIds : SiteCreatePromotion(p) \/ SiteTogglePromotion(p) \/ SiteDeletePromotion(p)
    BY <1>2
  <2>2. created' \in {created, created \cup {p}, created \ {p}}
    BY <2>1 DEF SiteCreatePromotion, SiteTogglePromotion, SiteDeletePromotion
  <2>3. IsFiniteSet(created')
    <3>1. IsFiniteSet(created) /\ IsFiniteSet(created \cup {p}) /\ IsFiniteSet(created \ {p})
      BY FS_AddElement, FS_Subset DEF CartTypes
    <3> QED BY <2>2, <3>1
  <2> QED BY <2>1, <2>3 DEF SiteCreatePromotion, SiteTogglePromotion, SiteDeletePromotion, Edit,
                            Elsewhere, CartTypes, TypeOK
<1>3. CASE \E g \in Goods : SiteToggleProduct(g)
  BY <1>3 DEF SiteToggleProduct, Edit, Elsewhere, CartTypes, TypeOK
<1>4. CASE \E g \in Goods : SellElsewhere(g)
  <2>1. PICK g \in Goods : SellElsewhere(g)
    BY <1>4
  <2>2. stock' \in [Goods -> Nat]
    BY <2>1 DEF SellElsewhere, CartTypes, TypeOK
  <2> QED BY <2>1, <2>2 DEF SellElsewhere, Edit, Elsewhere, CartTypes, TypeOK
<1>5. CASE NextDay
  BY <1>5 DEF NextDay, Edit, Elsewhere, CartTypes, TypeOK
<1> QED BY <1>1, <1>2, <1>3, <1>4, <1>5 DEF SiteAdmin

\* Two requests begin with what they read.
AddRead(c, g, q, row, had, fresh) ==
  [pc |-> "add", cust |-> c, good |-> g, qty |-> q, row |-> row, had |-> had, fresh |-> fresh]

LEMMA BeginAddTypes ==
  ASSUME CartTypes, NEW r \in Requests, NEW c \in Customers, NEW g \in Goods, NEW q \in Quantities,
         BeginAdd(r, c, g, q)
  PROVE  /\ CartTypes'
         /\ UNCHANGED <<hasCart, rows, nextRow, orders, prefix, lock, site, asked>>
         /\ \E row \in Nat, had \in Nat, fresh \in BOOLEAN :
              /\ Begin(r, AddRead(c, g, q, row, had, fresh), "add")
              /\ \/ row = 0 /\ RowsWith(c, g) = {}
                 \/ row \in DOMAIN rows /\ RowsWith(c, g) = {row} /\ had = rows[row].qty
<1>1. UNCHANGED <<hasCart, rows, nextRow, orders, prefix, lock, site, asked>>
  BY DEF BeginAdd
<1>2. \E row \in Nat, had \in Nat, fresh \in BOOLEAN :
              /\ Begin(r, AddRead(c, g, q, row, had, fresh), "add")
              /\ \/ row = 0 /\ RowsWith(c, g) = {}
                 \/ row \in DOMAIN rows /\ RowsWith(c, g) = {row} /\ had = rows[row].qty
  <2>1. \A i \in DOMAIN rows : i \in Nat /\ rows[i].qty \in Nat
    BY CartAssumption DEF CartTypes, TypeOK, Row
  <2>2. CASE RowsWith(c, g) = {} /\ Begin(r, AddRead(c, g, q, 0, 0, c \notin hasCart), "add")
    BY <2>2
  <2>3. CASE \E i \in DOMAIN rows :
               /\ RowsWith(c, g) = {i}
               /\ Begin(r, AddRead(c, g, q, i, rows[i].qty, FALSE), "add")
    BY <2>1, <2>3
  <2> QED BY <2>2, <2>3 DEF BeginAdd, AddRead
<1>3. PICK row \in Nat, had \in Nat, fresh \in BOOLEAN :
        Begin(r, AddRead(c, g, q, row, had, fresh), "add")
  BY <1>2
<1>4. PICK s : s = AddRead(c, g, q, row, had, fresh)
  OBVIOUS
<1>5. s \in RequestState /\ s.pc = "add"
  BY <1>4, CartAssumption DEF AddRead, RequestState
<1>6. CartTypes'
  BY <1>1, <1>3, <1>4, <1>5, BeginTypes DEF Operation
<1> QED BY <1>1, <1>2, <1>6

SetRead(c, i, q) == [pc |-> "set", cust |-> c, row |-> i, qty |-> q, had |-> rows[i].qty]

LEMMA BeginSetTypes ==
  ASSUME CartTypes, NEW r \in Requests, NEW c \in Customers, NEW i \in DOMAIN rows,
         NEW q \in Quantities, BeginSet(r, c, i, q)
  PROVE  /\ CartTypes'
         /\ UNCHANGED <<hasCart, rows, nextRow, orders, prefix, lock, site, asked>>
         /\ i \in RowsOf(c)
         /\ Begin(r, SetRead(c, i, q), "set")
<1>1. /\ UNCHANGED <<hasCart, rows, nextRow, orders, prefix, lock, site, asked>>
      /\ i \in RowsOf(c)
      /\ Begin(r, SetRead(c, i, q), "set")
  BY DEF BeginSet, SetRead
<1>2. PICK s : s = SetRead(c, i, q)
  OBVIOUS
<1>3. s \in RequestState /\ s.pc = "set"
  <2>1. i \in Nat /\ rows[i].qty \in Nat /\ q \in Nat
    BY CartAssumption DEF CartTypes, TypeOK, Row
  <2> QED BY <1>2, <2>1 DEF SetRead, RequestState
<1>4. CartTypes'
  BY <1>1, <1>2, <1>3, BeginTypes DEF Operation
<1> QED BY <1>1, <1>4

CheckoutRead(c) == [pc |-> "check", cust |-> c, lines |-> GetCartItems(c), asOf |-> edits]

\* Prices are natural numbers: a promotion never makes one negative.
LEMMA PriceIsNat ==
  ASSUME NEW base \in Nat, NEW p \in PromoIds \cup {0}
  PROVE  EffectivePrice(base, p) \in Nat
<1>1. CASE p # 0 /\ ApplyDiscount(base, p) < base
  <2>1. PICK n : n = IF Promo[p].kind = "fixed" THEN 100 * (base - Promo[p].value)
                                                ELSE base * (100 - Promo[p].value)
    OBVIOUS
  <2>2. n \in Int
    BY <1>1, <2>1, PriceAssumption
  <2>3. ApplyDiscount(base, p) = IF n < 0 THEN 0 ELSE Hundredths(n)
    BY <2>1 DEF ApplyDiscount
  <2>4. n >= 0 => Hundredths(n) \in Nat
    BY <2>2 DEF Hundredths
  <2> QED BY <1>1, <2>2, <2>3, <2>4 DEF EffectivePrice
<1>2. CASE ~ (p # 0 /\ ApplyDiscount(base, p) < base)
  BY <1>2 DEF EffectivePrice
<1> QED BY <1>1, <1>2


\* A finite set of naturals has its greatest element.
LEMMA GreatestOfNaturals ==
  ASSUME NEW S, IsFiniteSet(S), S # {}, \A x \in S : x \in Nat
  PROVE  Max(S) \in S
<1>1. \E x \in S : \A y \in S : x >= y
  <2> DEFINE B == {T \in SUBSET S : T # {} /\ ~ \E x \in T : \A y \in T : x >= y}
  <2> SUFFICES ASSUME B # {} PROVE FALSE
    OBVIOUS
  <2>1. PICK T \in B : \A V \in B : V \subseteq T => V = T
    <3> HIDE DEF B
    <3>1. B \in SUBSET (SUBSET S)
      BY DEF B
    <3> QED BY <3>1, LeastSubset
  <2>2. PICK x \in T : TRUE
    OBVIOUS
  <2>3. T \ {x} \notin B /\ T \subseteq Nat
    BY <2>1, <2>2
  <2>4. T \ {x} # {}
    BY <2>2, <2>3
  <2>5. PICK m \in T \ {x} : \A y \in T \ {x} : m >= y
    BY <2>3, <2>4
  <2>6. CASE m >= x
    BY <2>2, <2>5, <2>6
  <2>7. CASE x >= m
    <3>1. \A y \in T : x >= y
      BY <2>2, <2>3, <2>5, <2>7
    <3> QED BY <2>2, <3>1
  <2> QED BY <2>2, <2>3, <2>5, <2>6, <2>7
<1> QED BY <1>1 DEF Max

\* A promotion that applies is one there is.
LEMMA PromotionFound ==
  ASSUME CartTypes, NEW g, NEW on
  PROVE  FindPromotion(enabled, g, on) \in PromoIds \cup {0}
<1>1. ASSUME NEW S \in SUBSET enabled, S # {} PROVE Max(S) \in PromoIds
  <2>1. S \subseteq Nat /\ S \subseteq PromoIds /\ S \subseteq created
    BY PriceAssumption DEF CartTypes, TypeOK
  <2>2. IsFiniteSet(S)
    BY <2>1, FS_Subset DEF CartTypes
  <2> QED BY <1>1, <2>1, <2>2, GreatestOfNaturals
<1> DEFINE active == {p \in enabled : ActiveOn(p, on)}
           byProduct == {p \in active : Promo[p].good = g}
           byCategory == {p \in active : CategoryOf[g] # NoOne /\ Promo[p].category = CategoryOf[g]}
           global == {p \in active : Promo[p].good = NoOne /\ Promo[p].category = NoOne}
<1>2. /\ byProduct # {} => Max(byProduct) \in PromoIds
      /\ byCategory # {} => Max(byCategory) \in PromoIds
      /\ global # {} => Max(global) \in PromoIds
  BY <1>1
<1>3. FindPromotion(enabled, g, on) =
        CASE byProduct # {} -> Max(byProduct)
          [] byProduct = {} /\ byCategory # {} -> Max(byCategory)
          [] byProduct = {} /\ byCategory = {} /\ global # {} -> Max(global)
          [] OTHER -> 0
  BY DEF FindPromotion
<1> HIDE DEF byProduct, byCategory, global, active
<1> QED BY <1>2, <1>3

PriceNow(g) == EffectivePrice(RetailPrice[g], FindPromotion(enabled, g, today))

\* The lines read from a cart: one for each row, at the price of now.
LEMMA CartItems ==
  ASSUME CartTypes, NEW c \in Customers
  PROVE  /\ GetCartItems(c) \subseteq Line
         /\ \A l \in GetCartItems(c) :
              /\ l.row \in RowsOf(c) /\ l.good = rows[l.row].good /\ l.qty = rows[l.row].qty
              /\ l.price = PriceNow(l.good)
         /\ \A i \in RowsOf(c) : \E l \in GetCartItems(c) : l.row = i
         /\ \A k, l \in GetCartItems(c) : k.row = l.row => k = l
<1>1. \A g \in Goods : PriceNow(g) \in Nat
  BY PromotionFound, PriceIsNat, PriceAssumption DEF PriceNow
<1>2. \A i \in RowsOf(c) : rows[i] \in Row /\ i \in Nat
  BY CartAssumption DEF RowsOf, CartTypes, TypeOK
<1>3. GetCartItems(c) = {[row |-> i, good |-> rows[i].good, qty |-> rows[i].qty,
                          price |-> PriceNow(rows[i].good)] : i \in RowsOf(c)}
  BY DEF GetCartItems, PriceNow
<1>4. \A i \in RowsOf(c) : [row |-> i, good |-> rows[i].good, qty |-> rows[i].qty,
                           price |-> PriceNow(rows[i].good)] \in Line
  BY <1>1, <1>2 DEF Line, Row
<1>5. GetCartItems(c) \subseteq Line
  <2> HIDE DEF PriceNow
  <2> QED BY <1>3, <1>4
<1>6. \A l \in GetCartItems(c) :
        /\ l.row \in RowsOf(c) /\ l.good = rows[l.row].good /\ l.qty = rows[l.row].qty
        /\ l.price = PriceNow(l.good)
  <2> HIDE DEF PriceNow
  <2> QED BY <1>3
<1>7. ASSUME NEW i \in RowsOf(c) PROVE \E l \in GetCartItems(c) : l.row = i
  <2>1. PICK l : l = [row |-> i, good |-> rows[i].good, qty |-> rows[i].qty,
                      price |-> PriceNow(rows[i].good)]
    OBVIOUS
  <2>2. l \in GetCartItems(c)
    <3> HIDE DEF PriceNow
    <3> QED BY <1>3, <2>1
  <2> QED BY <2>1, <2>2
<1>8. \A k, l \in GetCartItems(c) : k.row = l.row => k = l
  <2> HIDE DEF PriceNow
  <2> QED BY <1>3
<1> QED BY <1>5, <1>6, <1>7, <1>8

LEMMA BeginCheckoutTypes ==
  ASSUME CartTypes, NEW r \in Requests, NEW c \in Customers, BeginCheckout(r, c)
  PROVE  /\ CartTypes'
         /\ UNCHANGED <<hasCart, rows, nextRow, orders, prefix, lock, site, asked>>
         /\ Begin(r, CheckoutRead(c), "checkout")
<1>1. /\ UNCHANGED <<hasCart, rows, nextRow, orders, prefix, lock, site, asked>>
      /\ Begin(r, CheckoutRead(c), "checkout")
  BY DEF BeginCheckout, CheckoutRead
<1>2. PICK s : s = CheckoutRead(c)
  OBVIOUS
<1>3. s \in RequestState /\ s.pc = "check"
  BY <1>2, CartItems DEF CheckoutRead, RequestState, CartTypes
<1>4. CartTypes'
  BY <1>1, <1>2, <1>3, BeginTypes DEF Operation
<1> QED BY <1>1, <1>4

LEMMA FailTypes ==
  ASSUME CartTypes, NEW r \in Requests, Fail(r)
  PROVE  CartTypes'
<1>1. req' = [req EXCEPT ![r] = Idle] /\ lock' = IF lock = r THEN NoOne ELSE lock
  BY DEF Fail, Finish
<1>2. /\ req' \in [Requests -> RequestState] /\ lock' \in Requests \cup {NoOne}
      /\ \A q \in Requests : lock' = q <=> req'[q].pc = "save"
  BY <1>1, IdleTypes, RequestTypes
<1> QED BY <1>2 DEF Fail, CartTypes, TypeOK, site

LEMMA ZakazTypes ==
  ASSUME CartTypes, NEW number \in Custom \cup {NextNumber(prefix, Numbers)}, NEW byHand \in BOOLEAN,
         ZakazCreate(number, byHand)
  PROVE  /\ CartTypes'
         /\ number \in DocNumber
         /\ orders' = Append(orders, [cust |-> NoOne, lines |-> {}, number |-> number, byHand |-> byHand,
                                              asOf |-> edits])
<1> DEFINE o == [cust |-> NoOne, lines |-> {}, number |-> number, byHand |-> byHand,
                                              asOf |-> edits]
<1>1. number \in DocNumber
  <2>1. prefix \in PrefixIB
    BY DEF CartTypes, TypeOK
  <2>2. NextNumber(prefix, Numbers) \in DocNumber
    BY <2>1, NumbersFinite, NextNumberFollows
  <2> QED BY <2>2, CartAssumption
<1>2. o \in Order /\ orders' = Append(orders, o)
  BY <1>1 DEF ZakazCreate, Order, CartTypes
<1>3. /\ orders' \in Seq(Order)
      /\ \A i \in DOMAIN orders' :
           orders'[i].number \in DocNumber /\ orders'[i].cust \in Customers \cup {NoOne}
  <2> HIDE DEF o
  <2> QED BY <1>2, AppendTypes
<1> QED BY <1>1, <1>2, <1>3 DEF ZakazCreate, CartTypes, TypeOK, site

\* Every step is one of these.
LEMMA Steps ==
  ASSUME Next
  PROVE  \/ \E r \in Requests, c \in Customers, g \in Goods, q \in Quantities : BeginAdd(r, c, g, q)
         \/ \E r \in Requests, c \in Customers, i \in DOMAIN rows, q \in Quantities : BeginSet(r, c, i, q)
         \/ \E r \in Requests, c \in Customers : BeginCheckout(r, c)
         \/ \E r \in Requests : FinishAdd(r) \/ FinishSet(r)
         \/ \E r \in Requests : CheckStock(r) \/ ReadRows(r) \/ TakeNumber(r) \/ SaveOrder(r)
         \/ \E r \in Requests : Fail(r)
         \/ \E number \in Custom \cup {NextNumber(prefix, Numbers)}, byHand \in BOOLEAN :
             ZakazCreate(number, byHand)
         \/ \/ \E p \in PrefixIB : ChangePrefix(p)
            \/ SiteAdmin
            \/ \E g \in Goods : SellElsewhere(g)
            \/ NextDay
BY DEF Next, CartRoutes, CheckoutRoute

\* Every step keeps the types.
LEMMA TypesNext ==
  ASSUME CartTypes, [Next]_vars
  PROVE  CartTypes'
<1>1. CASE UNCHANGED vars
  BY <1>1 DEF vars, site, CartTypes, TypeOK
<1>2. CASE Next
  BY <1>2, Steps, BeginAddTypes, BeginSetTypes, BeginCheckoutTypes, FinishAddTypes, FinishSetTypes,
     CheckoutTypes, FailTypes, ZakazTypes, ElsewhereTypes
<1> QED BY <1>1, <1>2

-----------------------------------------------------------------------------
(***************************************************************************)
(* What a step does to requests, rows and orders.                          *)
(***************************************************************************)

OpOf(s) == IF s.pc \in {"add", "set"} THEN s.pc ELSE "checkout"

\* A request begins, or one goes on as the same operation of its customer, or
\* one ends, or none of them acts.
Begins(r) ==
  \E s \in RequestState : s.pc # "idle" /\ Begin(r, s, OpOf(s))

GoesOn(r) ==
  /\ r \in Active /\ overlapped' = overlapped
  /\ \E s \in RequestState :
       /\ req' = [req EXCEPT ![r] = s]
       /\ s.pc # "idle" => s.cust = req[r].cust /\ OpOf(s) = OperationOf(r)

LEMMA RequestStep ==
  ASSUME CartTypes, [Next]_vars
  PROVE  \/ \E r \in Requests : Begins(r) \/ GoesOn(r)
         \/ UNCHANGED <<req, overlapped>>
<1>1. CASE UNCHANGED vars
  BY <1>1 DEF vars
<1>2. ASSUME NEW r \in Requests, NEW c \in Customers, NEW g \in Goods, NEW q \in Quantities,
             BeginAdd(r, c, g, q)
      PROVE  Begins(r)
  <2>1. PICK row \in Nat, had \in Nat, fresh \in BOOLEAN :
          Begin(r, AddRead(c, g, q, row, had, fresh), "add")
    BY <1>2, BeginAddTypes
  <2>2. PICK s : s = AddRead(c, g, q, row, had, fresh)
    OBVIOUS
  <2>3. s \in RequestState /\ s.pc # "idle" /\ OpOf(s) = "add"
    BY <2>2, CartAssumption DEF AddRead, RequestState, OpOf
  <2> QED BY <2>1, <2>2, <2>3 DEF Begins
<1>3. ASSUME NEW r \in Requests, NEW c \in Customers, NEW i \in DOMAIN rows, NEW q \in Quantities,
             BeginSet(r, c, i, q)
      PROVE  Begins(r)
  <2>1. Begin(r, SetRead(c, i, q), "set")
    BY <1>3, BeginSetTypes
  <2>2. PICK s : s = SetRead(c, i, q)
    OBVIOUS
  <2>3. i \in Nat /\ rows[i].qty \in Nat /\ q \in Nat
    BY CartAssumption DEF CartTypes, TypeOK, Row
  <2>4. s \in RequestState /\ s.pc # "idle" /\ OpOf(s) = "set"
    BY <2>2, <2>3 DEF SetRead, RequestState, OpOf
  <2> QED BY <2>1, <2>2, <2>4 DEF Begins
<1>4. ASSUME NEW r \in Requests, NEW c \in Customers, BeginCheckout(r, c)
      PROVE  Begins(r)
  <2>1. Begin(r, CheckoutRead(c), "checkout")
    BY <1>4, BeginCheckoutTypes
  <2>2. PICK s : s = CheckoutRead(c)
    OBVIOUS
  <2>3. s \in RequestState /\ s.pc # "idle" /\ OpOf(s) = "checkout"
    BY <2>2, CartItems DEF CheckoutRead, RequestState, CartTypes, OpOf
  <2> QED BY <2>1, <2>2, <2>3 DEF Begins
<1>5. ASSUME NEW r \in Requests, FinishAdd(r) \/ FinishSet(r) \/ SaveOrder(r) \/ Fail(r)
      PROVE  GoesOn(r)
  <2>1. req' = [req EXCEPT ![r] = Idle] /\ overlapped' = overlapped /\ r \in Active
    BY <1>5 DEF FinishAdd, FinishSet, SaveOrder, Fail, Finish, Active
  <2> QED BY <2>1, IdleTypes DEF GoesOn
<1>6. ASSUME NEW r \in Requests, CheckStock(r) \/ ReadRows(r) \/ TakeNumber(r)
      PROVE  GoesOn(r)
  <2>1. CartTypes'
    BY <1>6, CheckoutTypes
  <2>2. PICK s \in RequestState : s = req'[r]
    BY <2>1 DEF CartTypes
  <2>3. req[r].pc \in Reads /\ overlapped' = overlapped /\ r \in Active
    BY <1>6 DEF CheckStock, ReadRows, TakeNumber, Reads, Active
  <2>4. req' = [req EXCEPT ![r] = s] /\ s.cust = req[r].cust /\ s.pc \in Reads
    <3>1. CASE CheckStock(r)
      <4>1. req' = [req EXCEPT ![r].pc = "clear"] /\ req[r] \in RequestState /\ req[r].pc = "check"
        BY <3>1 DEF CheckStock, CartTypes
      <4>2. s = [req[r] EXCEPT !.pc = "clear"] /\ req' = [req EXCEPT ![r] = s]
        BY <2>2, <4>1 DEF CartTypes
      <4>3. s.pc = "clear" /\ s.cust = req[r].cust
        BY <4>1, <4>2 DEF RequestState, Idle
      <4> QED BY <4>2, <4>3 DEF Reads
    <3>2. CASE ReadRows(r)
      BY <2>2, <3>2 DEF ReadRows, CartTypes, Reads
    <3>3. CASE TakeNumber(r)
      BY <2>2, <3>3 DEF TakeNumber, CartTypes, Reads
    <3> QED BY <1>6, <3>1, <3>2, <3>3
  <2>5. OpOf(s) = OperationOf(r)
    BY <2>3, <2>4 DEF OpOf, OperationOf, Reads
  <2> QED BY <2>3, <2>4, <2>5 DEF GoesOn
<1>7. ASSUME NEW number \in Custom \cup {NextNumber(prefix, Numbers)}, NEW byHand \in BOOLEAN,
         ZakazCreate(number, byHand)
      PROVE  UNCHANGED <<req, overlapped>>
  BY <1>7 DEF ZakazCreate
<1>8. Elsewhere => UNCHANGED <<req, overlapped>>
  BY DEF Elsewhere
<1>9. CASE Next
  BY <1>2, <1>3, <1>4, <1>5, <1>6, <1>7, <1>8, <1>9, Steps, ElsewhereTypes
<1> QED BY <1>1, <1>9

\* Two requests of one customer under way have overlapped.
Overlaps ==
  \A r, q \in Active : (r # q /\ req[r].cust = req[q].cust)
    => {OperationOf(r), OperationOf(q)} \in overlapped[req[r].cust]

\* Whoever begins is recorded with those under way.
LEMMA OverlapsNext ==
  ASSUME CartTypes, Overlaps, [Next]_vars
  PROVE  Overlaps' /\ \A c \in Customers : overlapped[c] \subseteq overlapped'[c]
<1>1. CASE UNCHANGED <<req, overlapped>>
  BY <1>1 DEF Overlaps, Active, OperationOf
<1>2. ASSUME NEW r \in Requests, GoesOn(r)
      PROVE  Overlaps' /\ \A c \in Customers : overlapped[c] \subseteq overlapped'[c]
  <2>1. PICK s \in RequestState :
          /\ req' = [req EXCEPT ![r] = s]
          /\ s.pc # "idle" => s.cust = req[r].cust /\ OpOf(s) = OperationOf(r)
    BY <1>2 DEF GoesOn
  <2>2. req'[r] = s /\ \A q \in Requests \ {r} : req'[q] = req[q]
    BY <2>1 DEF CartTypes
  <2>3. \A q \in Active' : q \in Active /\ req'[q].cust = req[q].cust /\ OperationOf(q)' = OperationOf(q)
    BY <1>2, <2>1, <2>2 DEF GoesOn, Active, OperationOf, OpOf
  <2> QED BY <1>2, <2>3 DEF GoesOn, Overlaps
<1>3. ASSUME NEW r \in Requests, Begins(r)
      PROVE  Overlaps' /\ \A c \in Customers : overlapped[c] \subseteq overlapped'[c]
  <2>1. PICK s \in RequestState : s.pc # "idle" /\ Begin(r, s, OpOf(s))
    BY <1>3 DEF Begins
  <2>2. /\ req[r] = Idle /\ req'[r] = s /\ \A q \in Requests \ {r} : req'[q] = req[q]
        /\ s.cust \in Customers
    BY <2>1, RequestFields DEF Begin, CartTypes
  <2> DEFINE Pairs == {{OpOf(s), OperationOf(q)} : q \in {q \in Active : req[q].cust = s.cust}}
  <2>3. /\ overlapped'[s.cust] = overlapped[s.cust] \cup Pairs
        /\ \A c \in Customers \ {s.cust} : overlapped'[c] = overlapped[c]
    BY <2>1, <2>2 DEF Begin, CartTypes, TypeOK
  <2>4. r \notin Active /\ Active' = Active \cup {r} /\ OperationOf(r)' = OpOf(s)
    BY <2>1, <2>2 DEF Active, Idle, OperationOf, OpOf
  <2>5. \A q \in Active : q # r /\ req'[q] = req[q] /\ OperationOf(q)' = OperationOf(q)
                          /\ req[q].cust \in Customers
    BY <2>2, <2>4, RequestFields DEF Active, OperationOf, CartTypes
  <2>6. \A q \in Active : req[q].cust = s.cust => {OpOf(s), OperationOf(q)} \in overlapped'[s.cust]
    BY <2>3
  <2> HIDE DEF Pairs
  <2>7. ASSUME NEW p \in Active', NEW q \in Active', p # q, req'[p].cust = req'[q].cust
        PROVE  {OperationOf(p)', OperationOf(q)'} \in overlapped'[req'[p].cust]
    <3>1. CASE p = r
      BY <2>2, <2>4, <2>5, <2>6, <2>7, <3>1
    <3>2. CASE q = r
      <4>1. {OperationOf(p)', OperationOf(q)'} = {OpOf(s), OperationOf(p)}
        BY <2>4, <2>5, <2>7, <3>2
      <4> QED BY <2>2, <2>4, <2>5, <2>6, <2>7, <3>2, <4>1
    <3>3. CASE p # r /\ q # r
      <4>1. p \in Active /\ q \in Active
        BY <2>4, <3>3
      <4>2. {OperationOf(p), OperationOf(q)} \in overlapped[req[p].cust]
        BY <2>5, <2>7, <4>1 DEF Overlaps
      <4> QED BY <2>3, <2>5, <4>1, <4>2
    <3> QED BY <3>1, <3>2, <3>3
  <2> QED BY <2>3, <2>7 DEF Overlaps
<1> QED BY <1>1, <1>2, <1>3, RequestStep

\* Rows are made with new ids and keep their customer and their good.
RowsKept ==
  /\ nextRow' >= nextRow
  /\ \A i \in DOMAIN rows' : i < nextRow =>
       i \in DOMAIN rows /\ rows'[i].cust = rows[i].cust /\ rows'[i].good = rows[i].good

\* Every step keeps rows that way.
LEMMA RowsStep ==
  ASSUME CartTypes, [Next]_vars
  PROVE  RowsKept
<1>1. nextRow \in Nat /\ \A i \in DOMAIN rows : i \in 1 .. nextRow - 1 /\ rows[i] \in Row
  BY CartAssumption DEF CartTypes, TypeOK
<1>2. CASE UNCHANGED <<rows, nextRow>>
  BY <1>1, <1>2 DEF RowsKept
<1>3. ASSUME NEW r \in Requests, FinishAdd(r)
      PROVE  RowsKept
  <2>1. CASE \E row : /\ rows' = [i \in DOMAIN rows \cup {nextRow} |-> IF i = nextRow THEN row ELSE rows[i]]
                      /\ nextRow' = nextRow + 1
    BY <1>1, <2>1 DEF RowsKept
  <2>2. CASE \E i, q : rows' = [rows EXCEPT ![i].qty = q] /\ nextRow' = nextRow
    <3>1. PICK i, q : rows' = [rows EXCEPT ![i].qty = q] /\ nextRow' = nextRow
      BY <2>2
    <3>2. \A j \in DOMAIN rows' : /\ j \in DOMAIN rows
                                  /\ rows'[j] = rows[j] \/ rows'[j] = [rows[j] EXCEPT !.qty = q]
      BY <3>1
    <3> QED BY <1>1, <3>1, <3>2 DEF RowsKept, Row
  <2> QED BY <1>3, <2>1, <2>2 DEF FinishAdd
<1>4. ASSUME NEW r \in Requests, FinishSet(r)
      PROVE  RowsKept
  <2>1. nextRow' = nextRow
    BY <1>4 DEF FinishSet
  <2>2. CASE rows' = [i \in DOMAIN rows \ {req[r].row} |-> rows[i]]
    BY <1>1, <2>1, <2>2 DEF RowsKept
  <2>3. CASE rows' = rows
    BY <1>1, <2>1, <2>3 DEF RowsKept
  <2>4. CASE rows' = [rows EXCEPT ![req[r].row].qty = req[r].qty]
    <3>1. \A j \in DOMAIN rows' : /\ j \in DOMAIN rows
                                  /\ rows'[j] = rows[j] \/ rows'[j] = [rows[j] EXCEPT !.qty = req[r].qty]
      BY <2>4
    <3> QED BY <1>1, <2>1, <3>1 DEF RowsKept, Row
  <2> QED BY <1>4, <2>2, <2>3, <2>4 DEF FinishSet
<1>5. ASSUME NEW r \in Requests, SaveOrder(r)
      PROVE  RowsKept
  BY <1>1, <1>5 DEF SaveOrder, RowsKept
<1>6. ASSUME NEW r \in Requests, CheckStock(r) \/ ReadRows(r) \/ TakeNumber(r) \/ Fail(r)
      PROVE  UNCHANGED <<rows, nextRow>>
  BY <1>6 DEF CheckStock, ReadRows, TakeNumber, Fail
<1>7. CASE Next
  BY <1>2, <1>3, <1>4, <1>5, <1>6, <1>7, Steps, ElsewhereTypes
     DEF Elsewhere, BeginAdd, BeginSet, BeginCheckout, ZakazCreate
<1> QED BY <1>2, <1>7 DEF vars

\* A checkout has just begun, or it goes on with what it read.
CartRead(q) ==
  /\ req'[q].cust \in Customers
  /\ req'[q] = CheckoutRead(req'[q].cust)
  /\ UNCHANGED <<rows, nextRow, orders, site, asked>>

LinesKept(q) ==
  /\ req[q].pc \in Reads
  /\ req'[q].cust = req[q].cust /\ req'[q].lines = req[q].lines /\ req'[q].asOf = req[q].asOf
  /\ req'[q].pc \in {"number", "save"} =>
       \/ req[q].pc \in {"number", "save"} /\ req'[q].dead = req[q].dead
       \/ req'[q].dead = RowsOf(req[q].cust) /\ UNCHANGED <<rows, nextRow>>

LEMMA CheckoutStep ==
  ASSUME CartTypes, [Next]_vars, NEW q \in Requests, req'[q].pc \in Reads
  PROVE  CartRead(q) \/ LinesKept(q)
<1>1. ASSUME req'[q] = req[q]
      PROVE  LinesKept(q)
  BY <1>1 DEF LinesKept
<1>2. CASE UNCHANGED vars
  BY <1>1, <1>2 DEF vars
<1>3. ASSUME NEW r \in Requests, NEW s, s.pc \notin Reads, req' = [req EXCEPT ![r] = s]
      PROVE  LinesKept(q)
  BY <1>1, <1>3 DEF CartTypes
<1>4. ASSUME NEW r \in Requests, NEW c \in Customers, NEW g \in Goods, NEW k \in Quantities,
             BeginAdd(r, c, g, k)
      PROVE  LinesKept(q)
  <2>1. PICK row \in Nat, had \in Nat, fresh \in BOOLEAN :
          Begin(r, AddRead(c, g, k, row, had, fresh), "add")
    BY <1>4, BeginAddTypes
  <2>2. PICK s : s = AddRead(c, g, k, row, had, fresh)
    OBVIOUS
  <2>3. s.pc \notin Reads /\ req' = [req EXCEPT ![r] = s]
    BY <2>1, <2>2 DEF AddRead, Begin, Reads
  <2> QED BY <1>3, <2>3
<1>5. ASSUME NEW r \in Requests, NEW c \in Customers, NEW i \in DOMAIN rows, NEW k \in Quantities,
             BeginSet(r, c, i, k)
      PROVE  LinesKept(q)
  <2>1. PICK s : s = SetRead(c, i, k)
    OBVIOUS
  <2>2. s.pc \notin Reads /\ req' = [req EXCEPT ![r] = s]
    BY <1>5, <2>1, BeginSetTypes DEF SetRead, Begin, Reads
  <2> QED BY <1>3, <2>2
<1>6. ASSUME NEW r \in Requests, NEW c \in Customers, BeginCheckout(r, c)
      PROVE  CartRead(q) \/ LinesKept(q)
  <2>1. /\ req' = [req EXCEPT ![r] = CheckoutRead(c)]
        /\ UNCHANGED <<rows, nextRow, orders, site, asked>>
    BY <1>6, BeginCheckoutTypes DEF Begin
  <2>2. CASE q = r
    <3>1. req'[q] = CheckoutRead(c) /\ CheckoutRead(c).cust = c
      BY <2>1, <2>2 DEF CartTypes, CheckoutRead
    <3> QED BY <2>1, <3>1 DEF CartRead
  <2>3. CASE q # r
    BY <1>1, <2>1, <2>3 DEF CartTypes
  <2> QED BY <2>2, <2>3
<1>7. ASSUME NEW r \in Requests, FinishAdd(r) \/ FinishSet(r) \/ SaveOrder(r) \/ Fail(r)
      PROVE  LinesKept(q)
  <2>1. req' = [req EXCEPT ![r] = Idle] /\ Idle.pc \notin Reads
    BY <1>7 DEF FinishAdd, FinishSet, SaveOrder, Fail, Finish, Idle, Reads
  <2> QED BY <1>3, <2>1
<1>8. ASSUME NEW r \in Requests, CheckStock(r)
      PROVE  LinesKept(q)
  <2>1. CASE q = r
    <3>1. req'[q] = [req[q] EXCEPT !.pc = "clear"] /\ req[q].pc = "check" /\ req[q] \in RequestState
      BY <1>8, <2>1 DEF CheckStock, CartTypes
    <3>2. /\ req'[q].pc = "clear" /\ req'[q].cust = req[q].cust /\ req'[q].lines = req[q].lines
          /\ req'[q].asOf = req[q].asOf
      BY <3>1 DEF RequestState, Idle
    <3> QED BY <3>1, <3>2 DEF LinesKept, Reads
  <2>2. CASE q # r
    BY <1>1, <1>8, <2>2 DEF CheckStock, CartTypes
  <2> QED BY <2>1, <2>2
<1>9. ASSUME NEW r \in Requests, ReadRows(r) \/ TakeNumber(r)
      PROVE  LinesKept(q)
  <2>1. CASE q = r
    BY <1>9, <2>1 DEF ReadRows, TakeNumber, CartTypes, LinesKept, Reads
  <2>2. CASE q # r
    BY <1>1, <1>9, <2>2 DEF ReadRows, TakeNumber, CartTypes
  <2> QED BY <2>1, <2>2
<1>10. ASSUME req' = req
       PROVE  LinesKept(q)
  BY <1>1, <1>10
<1>11. CASE Next
  BY <1>4, <1>5, <1>6, <1>7, <1>8, <1>9, <1>10, <1>11, Steps, ElsewhereTypes DEF Elsewhere, ZakazCreate
<1> QED BY <1>2, <1>11

\* What a cart request holds it has just read, or it held it before.
LEMMA CartStep ==
  ASSUME CartTypes, [Next]_vars, NEW q \in Requests, req'[q].pc \in {"add", "set"}
  PROVE  \/ req'[q] = req[q]
         \/ /\ UNCHANGED <<rows, nextRow, orders, asked>>
            /\ req'[q].cust \in Customers
            /\ \/ /\ req'[q].pc = "add" /\ req'[q].row = 0
                  /\ RowsWith(req'[q].cust, req'[q].good) = {}
               \/ /\ req'[q].pc = "add" /\ req'[q].row \in RowsWith(req'[q].cust, req'[q].good)
                  /\ req'[q].had = rows[req'[q].row].qty
               \/ req'[q].pc = "set" /\ req'[q].row \in RowsOf(req'[q].cust)
<1>1. CASE UNCHANGED req
  BY <1>1
<1>2. ASSUME NEW r \in Requests, NEW s, s.pc \notin {"add", "set"}, req' = [req EXCEPT ![r] = s]
      PROVE  req'[q] = req[q]
  BY <1>2 DEF CartTypes
<1>3. ASSUME NEW r \in Requests, NEW c \in Customers, NEW g \in Goods, NEW k \in Quantities,
             BeginAdd(r, c, g, k), req'[q] # req[q]
      PROVE  /\ UNCHANGED <<rows, nextRow, orders, asked>>
             /\ req'[q].cust \in Customers /\ req'[q].pc = "add"
             /\ \/ req'[q].row = 0 /\ RowsWith(req'[q].cust, req'[q].good) = {}
                \/ /\ req'[q].row \in RowsWith(req'[q].cust, req'[q].good)
                   /\ req'[q].had = rows[req'[q].row].qty
  <2>1. PICK row \in Nat, had \in Nat, fresh \in BOOLEAN :
          /\ Begin(r, AddRead(c, g, k, row, had, fresh), "add")
          /\ \/ row = 0 /\ RowsWith(c, g) = {}
             \/ row \in DOMAIN rows /\ RowsWith(c, g) = {row} /\ had = rows[row].qty
    BY <1>3, BeginAddTypes
  <2>2. q = r /\ req'[q] = AddRead(c, g, k, row, had, fresh)
    BY <1>3, <2>1 DEF Begin, CartTypes
  <2>3. UNCHANGED <<rows, nextRow, orders, asked>>
    BY <1>3, BeginAddTypes
  <2> QED BY <2>1, <2>2, <2>3 DEF AddRead
<1>4. ASSUME NEW r \in Requests, NEW c \in Customers, NEW i \in DOMAIN rows, NEW k \in Quantities,
             BeginSet(r, c, i, k), req'[q] # req[q]
      PROVE  /\ UNCHANGED <<rows, nextRow, orders, asked>>
             /\ req'[q].cust \in Customers
             /\ req'[q].pc = "set" /\ req'[q].row \in RowsOf(req'[q].cust)
  <2>1. q = r /\ req'[q] = SetRead(c, i, k) /\ i \in RowsOf(c)
    BY <1>4, BeginSetTypes DEF Begin, CartTypes
  <2>2. UNCHANGED <<rows, nextRow, orders, asked>>
    BY <1>4, BeginSetTypes
  <2> QED BY <2>1, <2>2 DEF SetRead
<1>5. ASSUME NEW r \in Requests, NEW c \in Customers, BeginCheckout(r, c)
      PROVE  req'[q] = req[q]
  <2>1. PICK s : s = CheckoutRead(c)
    OBVIOUS
  <2>2. s.pc \notin {"add", "set"} /\ req' = [req EXCEPT ![r] = s]
    BY <1>5, <2>1, BeginCheckoutTypes DEF CheckoutRead, Begin
  <2> QED BY <1>2, <2>2
<1>6. ASSUME NEW r \in Requests, FinishAdd(r) \/ FinishSet(r) \/ SaveOrder(r) \/ Fail(r)
      PROVE  req'[q] = req[q]
  <2>1. req' = [req EXCEPT ![r] = Idle] /\ Idle.pc \notin {"add", "set"}
    BY <1>6 DEF FinishAdd, FinishSet, SaveOrder, Fail, Finish, Idle
  <2> QED BY <1>2, <2>1
<1>7. ASSUME NEW r \in Requests, CheckStock(r) \/ ReadRows(r) \/ TakeNumber(r)
      PROVE  req'[q] = req[q]
  <2>1. CASE CheckStock(r)
    <3>1. q # r
      BY <2>1 DEF CheckStock, CartTypes, RequestState, Idle
    <3> QED BY <2>1, <3>1 DEF CheckStock, CartTypes
  <2>2. CASE ReadRows(r) \/ TakeNumber(r)
    BY <2>2 DEF ReadRows, TakeNumber, CartTypes
  <2> QED BY <1>7, <2>1, <2>2
<1>8. CASE Next
  BY <1>1, <1>3, <1>4, <1>5, <1>6, <1>7, <1>8, Steps, ElsewhereTypes DEF Elsewhere, ZakazCreate
<1> QED BY <1>1, <1>8 DEF vars

\* The rows a request has read and will write, delete or order: they are, or
\* were, of its customer.
NamedRows(s) ==
  {i \in Nat \ {0} :
     \/ s.pc \in {"add", "set"} /\ i = s.row
     \/ s.pc \in Reads /\ \E l \in s.lines : l.row = i
     \/ s.pc \in {"number", "save"} /\ i \in s.dead}

RowsAreOwn ==
  \A q \in Requests : \A i \in NamedRows(req[q]) :
    i < nextRow /\ (i \in DOMAIN rows => rows[i].cust = req[q].cust)

LEMMA RowsAreOwnNext ==
  ASSUME CartTypes, RowsAreOwn, [Next]_vars
  PROVE  RowsAreOwn'
<1> SUFFICES ASSUME NEW q \in Requests, NEW i \in NamedRows(req'[q])
             PROVE  i < nextRow' /\ (i \in DOMAIN rows' => rows'[i].cust = req'[q].cust)
  BY DEF RowsAreOwn, NamedRows
<1>1. RowsKept
  BY RowsStep
<1>2. nextRow \in Nat /\ nextRow' \in Nat /\ i \in Nat /\ \A j \in DOMAIN rows : j \in Nat /\ j < nextRow
  <2>1. CartTypes'
    BY TypesNext
  <2> QED BY <2>1, CartAssumption DEF CartTypes, TypeOK, NamedRows
<1>3. ASSUME i \in NamedRows(req[q]), req'[q].cust = req[q].cust
      PROVE  i < nextRow' /\ (i \in DOMAIN rows' => rows'[i].cust = req'[q].cust)
  BY <1>1, <1>2, <1>3 DEF RowsAreOwn, RowsKept
<1>4. ASSUME i \in RowsOf(req'[q].cust)
      PROVE  i < nextRow' /\ (i \in DOMAIN rows' => rows'[i].cust = req'[q].cust)
  BY <1>1, <1>2, <1>4 DEF RowsOf, RowsKept
<1>5. CASE req'[q].pc \in Reads
  <2>1. CASE CartRead(q)
    <3>1. req'[q].cust \in Customers /\ req'[q] = CheckoutRead(req'[q].cust)
      BY <2>1 DEF CartRead
    <3>2. PICK c \in Customers : c = req'[q].cust
      BY <3>1
    <3>3. req'[q].lines = GetCartItems(c) /\ req'[q].pc = "check"
      BY <3>1, <3>2 DEF CheckoutRead
    <3>4. \E l \in GetCartItems(c) : l.row = i
      BY <3>3 DEF NamedRows
    <3>5. i \in RowsOf(c)
      BY <3>4, CartItems
    <3> QED BY <1>4, <3>2, <3>5
  <2>2. CASE LinesKept(q)
    <3>1. i \in NamedRows(req[q]) \/ i \in RowsOf(req[q].cust)
      BY <1>5, <2>2 DEF LinesKept, NamedRows, Reads
    <3> QED BY <1>3, <1>4, <2>2, <3>1 DEF LinesKept
  <2> QED BY <1>5, <2>1, <2>2, CheckoutStep
<1>6. CASE req'[q].pc \in {"add", "set"}
  <2>1. CASE req'[q] = req[q]
    BY <1>3, <2>1
  <2>2. CASE req'[q] # req[q]
    <3>1. i = req'[q].row /\ i # 0
      BY <1>6 DEF NamedRows, Reads
    <3> QED BY <1>4, <1>6, <2>2, <3>1, CartStep DEF RowsWith
  <2> QED BY <2>1, <2>2
<1> QED BY <1>5, <1>6 DEF NamedRows, Reads

-----------------------------------------------------------------------------
(***************************************************************************)
(* Rows are ordered once.                                                  *)
(***************************************************************************)

Common == CartTypes /\ Overlaps /\ RowsAreOwn

LEMMA CommonInit == Init => Common
<1> SUFFICES ASSUME Init PROVE Common
  OBVIOUS
<1>1. CartTypes /\ \A r \in Requests : req[r] = Idle
  BY InitTypes DEF Init
<1> QED BY <1>1 DEF Common, Overlaps, RowsAreOwn, NamedRows, Active, Idle, Reads

LEMMA CommonNext ==
  ASSUME Common, [Next]_vars
  PROVE  Common'
BY TypesNext, OverlapsNext, RowsAreOwnNext DEF Common

\* A step leaves the orders, or adds one without lines, or that of a checkout.
LEMMA OrdersStep ==
  ASSUME CartTypes, [Next]_vars
  PROVE  \/ orders' = orders
         \/ \E number \in Custom \cup {NextNumber(prefix, Numbers)}, byHand \in BOOLEAN :
              /\ ZakazCreate(number, byHand)
              /\ orders' = Append(orders, [cust |-> NoOne, lines |-> {}, number |-> number, byHand |-> byHand,
                                              asOf |-> edits])
         \/ \E r \in Requests :
              /\ SaveOrder(r) /\ req[r].pc = "save"
              /\ orders' = Append(orders, [cust |-> req[r].cust, lines |-> req[r].lines,
                                           number |-> req[r].number, byHand |-> FALSE,
                                           asOf |-> req[r].asOf])
<1>1. CASE Next
  BY <1>1, Steps, ElsewhereTypes
     DEF BeginAdd, BeginSet, BeginCheckout, FinishAdd, FinishSet, CheckStock, ReadRows, TakeNumber,
         SaveOrder, Fail, ZakazCreate, Elsewhere
<1> QED BY <1>1 DEF vars

\* The rows of an order are gone.
OrderedRowsGone ==
  \A i \in DOMAIN orders : \A l \in orders[i].lines : l.row < nextRow /\ l.row \notin DOMAIN rows

\* A checkout deletes the rows it orders, those that are still there.
CheckoutsClear ==
  \A q \in Requests : req[q].pc \in {"number", "save"} =>
    \A l \in req[q].lines : l.row \in DOMAIN rows => l.row \in req[q].dead

\* A checkout orders rows of an earlier order only if the two overlapped.
CheckoutsApart ==
  \A q \in Requests : req[q].pc \in Reads =>
    \A i \in OrdersOf(req[q].cust) : \A k \in orders[i].lines, l \in req[q].lines :
      k.row = l.row => {"checkout"} \in overlapped[req[q].cust]

\* The inductive invariant of OrderedOnce.
OnceInv == Common /\ OrderedRowsGone /\ CheckoutsClear /\ CheckoutsApart /\ OrderedOnce

LEMMA OnceInit == Init => OnceInv
<1> SUFFICES ASSUME Init PROVE OnceInv
  OBVIOUS
<1>1. Common /\ \A r \in Requests : req[r] = Idle
  BY CommonInit DEF Init
<1>2. \A i \in DOMAIN orders : i = 1 /\ orders[i].lines = {}
  BY DEF Init
<1> QED BY <1>1, <1>2 DEF OnceInv, OrderedRowsGone, CheckoutsClear, CheckoutsApart, OrderedOnce,
                          OrdersOf, Idle, Reads

\* The rows of a checkout are rows it names.
LEMMA LinesNamed ==
  ASSUME Common, NEW q \in Requests, req[q].pc \in Reads, NEW l \in req[q].lines
  PROVE  /\ l.row \in Nat /\ l.row < nextRow /\ (l.row \in DOMAIN rows => rows[l.row].cust = req[q].cust)
<1>1. l.row \in Nat /\ nextRow \in Nat /\ \A i \in DOMAIN rows : i # 0
  <2>1. l \in Line
    BY RequestFields DEF Common, CartTypes
  <2> QED BY <2>1, CartAssumption DEF Line, Common, CartTypes, TypeOK
<1>2. CASE l.row = 0
  BY <1>1, <1>2 DEF Common, CartTypes, TypeOK
<1>3. CASE l.row # 0
  BY <1>1, <1>3 DEF Common, RowsAreOwn, NamedRows
<1> QED BY <1>1, <1>2, <1>3

\* No step brings the row of an order back, and ids are not used again.
LEMMA OrderedRowsGoneNext ==
  ASSUME OnceInv, [Next]_vars
  PROVE  OrderedRowsGone'
<1> USE DEF OnceInv, Common
<1>1. RowsKept /\ CartTypes'
  BY RowsStep, TypesNext
<1>2. nextRow \in Nat /\ nextRow' \in Nat
  BY <1>1, CartAssumption DEF CartTypes, TypeOK
<1>3. ASSUME NEW l, l.row \in Nat, l.row < nextRow, l.row \notin DOMAIN rows
      PROVE  l.row < nextRow' /\ l.row \notin DOMAIN rows'
  BY <1>1, <1>2, <1>3 DEF RowsKept
<1>4. \A i \in DOMAIN orders : \A l \in orders[i].lines : l.row < nextRow' /\ l.row \notin DOMAIN rows'
  <2>1. \A i \in DOMAIN orders : \A l \in orders[i].lines : l.row \in Nat
    <3>1. \A i \in DOMAIN orders : orders[i] \in Order
      BY DEF CartTypes
    <3> QED BY <3>1 DEF Order, Line
  <2> QED BY <1>3, <2>1 DEF OrderedRowsGone
<1>5. CASE orders' = orders
  BY <1>4, <1>5 DEF OrderedRowsGone
<1>6. ASSUME NEW o, orders' = Append(orders, o),
             \A l \in o.lines : l.row < nextRow' /\ l.row \notin DOMAIN rows'
      PROVE  OrderedRowsGone'
  <2>1. \A i \in DOMAIN orders' : orders'[i] = o \/ (i \in DOMAIN orders /\ orders'[i] = orders[i])
    BY <1>6 DEF CartTypes
  <2> QED BY <1>4, <1>6, <2>1 DEF OrderedRowsGone
<1>7. ASSUME NEW r \in Requests, SaveOrder(r), req[r].pc = "save",
             NEW l \in req[r].lines
      PROVE  l.row < nextRow' /\ l.row \notin DOMAIN rows'
  <2>1. l.row < nextRow /\ (l.row \in DOMAIN rows => l.row \in req[r].dead)
    BY <1>7, LinesNamed DEF CheckoutsClear, Reads
  <2> QED BY <1>7, <2>1 DEF SaveOrder
<1>8. CASE \E number, byHand : orders' = Append(orders, [cust |-> NoOne, lines |-> {}, number |-> number, byHand |-> byHand,
                                              asOf |-> edits])
  <2>1. PICK o : o.lines = {} /\ orders' = Append(orders, o)
    BY <1>8
  <2> QED BY <1>6, <2>1
<1>9. CASE \E r \in Requests :
              /\ SaveOrder(r) /\ req[r].pc = "save"
              /\ orders' = Append(orders, [cust |-> req[r].cust, lines |-> req[r].lines,
                                           number |-> req[r].number, byHand |-> FALSE,
                                           asOf |-> req[r].asOf])
  <2>1. PICK r \in Requests :
              /\ SaveOrder(r) /\ req[r].pc = "save"
              /\ orders' = Append(orders, [cust |-> req[r].cust, lines |-> req[r].lines,
                                           number |-> req[r].number, byHand |-> FALSE,
                                           asOf |-> req[r].asOf])
    BY <1>9
  <2>2. PICK o : o.lines = req[r].lines /\ orders' = Append(orders, o)
    BY <2>1
  <2> QED BY <1>6, <1>7, <2>1, <2>2
<1> QED BY <1>5, <1>8, <1>9, OrdersStep

\* The rows to delete are read after the lines, and rows only go.
LEMMA CheckoutsClearNext ==
  ASSUME OnceInv, [Next]_vars
  PROVE  CheckoutsClear'
<1> USE DEF OnceInv, Common
<1> SUFFICES ASSUME NEW q \in Requests, req'[q].pc \in {"number", "save"},
                    NEW l \in req'[q].lines, l.row \in DOMAIN rows'
             PROVE  l.row \in req'[q].dead
  BY DEF CheckoutsClear
<1>1. LinesKept(q)
  <2>1. ~ CartRead(q)
    BY DEF CartRead, CheckoutRead
  <2> QED BY <2>1, CheckoutStep DEF Reads
<1>2. l \in req[q].lines /\ req[q].pc \in Reads
  BY <1>1 DEF LinesKept
<1>3. l.row < nextRow /\ (l.row \in DOMAIN rows => rows[l.row].cust = req[q].cust)
  BY <1>2, LinesNamed
<1>4. l.row \in DOMAIN rows
  BY <1>3, RowsStep DEF RowsKept
<1>5. CASE req[q].pc \in {"number", "save"} /\ req'[q].dead = req[q].dead
  BY <1>2, <1>4, <1>5 DEF CheckoutsClear
<1>6. CASE req'[q].dead = RowsOf(req[q].cust)
  BY <1>3, <1>4, <1>6 DEF RowsOf
<1> QED BY <1>1, <1>5, <1>6 DEF LinesKept

\* Two checkouts of one customer under way have overlapped.
LEMMA TwoCheckouts ==
  ASSUME Common, NEW r \in Requests, NEW q \in Requests, r # q,
         req[r].pc \in Reads, req[q].pc \in Reads, req[r].cust = req[q].cust
  PROVE  {"checkout"} \in overlapped[req[q].cust]
<1>1. r \in Active /\ q \in Active /\ OperationOf(r) = "checkout" /\ OperationOf(q) = "checkout"
  BY DEF Active, OperationOf, Reads
<1>2. {OperationOf(r), OperationOf(q)} \in overlapped[req[q].cust]
  BY <1>1 DEF Common, Overlaps
<1>3. {OperationOf(r), OperationOf(q)} = {"checkout"}
  BY <1>1
<1> QED BY <1>2, <1>3

\* A checkout that begins after an order sees none of its rows.
LEMMA CheckoutsApartNext ==
  ASSUME OnceInv, [Next]_vars
  PROVE  CheckoutsApart'
<1> USE DEF OnceInv, Common
<1> SUFFICES ASSUME NEW q \in Requests, req'[q].pc \in Reads,
                    NEW i \in DOMAIN orders', orders'[i].cust = req'[q].cust,
                    NEW k \in orders'[i].lines, NEW l \in req'[q].lines, k.row = l.row
             PROVE  {"checkout"} \in overlapped'[req'[q].cust]
  BY DEF CheckoutsApart, OrdersOf
<1>1. CartTypes' /\ \A c \in Customers : overlapped[c] \subseteq overlapped'[c]
  BY TypesNext, OverlapsNext
<1>2. req'[q].cust \in Customers
  BY <1>1, RequestFields DEF CartTypes, Reads
<1>3. CASE CartRead(q)
  <2>1. /\ req'[q].lines = GetCartItems(req'[q].cust) /\ orders' = orders
    BY <1>3 DEF CartRead, CheckoutRead
  <2>2. l.row \in DOMAIN rows
    BY <1>2, <2>1, CartItems DEF RowsOf
  <2>3. i \in DOMAIN orders /\ k \in orders[i].lines
    BY <2>1 DEF OrdersOf
  <2>4. k.row \notin DOMAIN rows
    BY <2>3 DEF OrderedRowsGone
  <2> QED BY <2>2, <2>4
<1>4. CASE LinesKept(q)
  <2>1. req[q].pc \in Reads /\ l \in req[q].lines /\ req'[q].cust = req[q].cust
    BY <1>4 DEF LinesKept
  <2>2. ASSUME i \in DOMAIN orders, orders'[i] = orders[i]
        PROVE  {"checkout"} \in overlapped'[req'[q].cust]
    <3>1. i \in OrdersOf(req[q].cust) /\ k \in orders[i].lines
      BY <2>1, <2>2 DEF OrdersOf
    <3>2. {"checkout"} \in overlapped[req[q].cust]
      BY <2>1, <3>1 DEF CheckoutsApart
    <3> QED BY <1>1, <1>2, <2>1, <3>2
  <2>3. CASE orders' = orders
    BY <2>2, <2>3 DEF OrdersOf
  <2>4. ASSUME NEW o, orders' = Append(orders, o), i \notin DOMAIN orders
        PROVE  orders'[i] = o
    BY <2>4 DEF CartTypes, OrdersOf
  <2>5. ASSUME NEW o, orders' = Append(orders, o), i \in DOMAIN orders
        PROVE  orders'[i] = orders[i]
    BY <2>5 DEF CartTypes, OrdersOf
  <2>6. CASE \E number, byHand : orders' = Append(orders, [cust |-> NoOne, lines |-> {}, number |-> number, byHand |-> byHand,
                                              asOf |-> edits])
    <3>1. PICK o : o.lines = {} /\ orders' = Append(orders, o)
      BY <2>6
    <3> QED BY <2>2, <2>4, <2>5, <3>1
  <2>7. CASE \E r \in Requests :
              /\ SaveOrder(r) /\ req[r].pc = "save"
              /\ orders' = Append(orders, [cust |-> req[r].cust, lines |-> req[r].lines,
                                           number |-> req[r].number, byHand |-> FALSE,
                                           asOf |-> req[r].asOf])
    <3>1. PICK r \in Requests :
              /\ SaveOrder(r) /\ req[r].pc = "save"
              /\ orders' = Append(orders, [cust |-> req[r].cust, lines |-> req[r].lines,
                                           number |-> req[r].number, byHand |-> FALSE,
                                           asOf |-> req[r].asOf])
      BY <2>7
    <3>2. PICK o : o.cust = req[r].cust /\ orders' = Append(orders, o)
      BY <3>1
    <3>3. CASE i \notin DOMAIN orders
      <4>1. req[r].cust = req[q].cust
        BY <2>1, <2>4, <3>2, <3>3 DEF OrdersOf
      <4>2. r # q
        <5>1. req'[r] = Idle
          BY <3>1 DEF SaveOrder, Finish, CartTypes
        <5> QED BY <5>1 DEF Idle, Reads
      <4>3. {"checkout"} \in overlapped[req[q].cust]
        BY <2>1, <3>1, <4>1, <4>2, TwoCheckouts DEF Reads
      <4> QED BY <1>1, <1>2, <2>1, <4>3
    <3> QED BY <2>2, <2>5, <3>2, <3>3
  <2> QED BY <2>3, <2>6, <2>7, OrdersStep
<1> QED BY <1>3, <1>4, CheckoutStep

\* The order a checkout saves repeats only what CheckoutsApart allows.
LEMMA OrderedOnceNext ==
  ASSUME OnceInv, [Next]_vars
  PROVE  OrderedOnce'
<1> USE DEF OnceInv, Common
<1> SUFFICES ASSUME NEW c \in Customers, NEW i \in OrdersOf(c)', NEW j \in OrdersOf(c)', i # j,
                    NEW k \in orders'[i].lines, NEW l \in orders'[j].lines, k.row = l.row
             PROVE  {"checkout"} \in overlapped'[c]
  BY DEF OrderedOnce
<1>1. overlapped[c] \subseteq overlapped'[c]
  BY OverlapsNext
<1>2. ASSUME i \in OrdersOf(c), j \in OrdersOf(c), orders'[i] = orders[i], orders'[j] = orders[j]
      PROVE  {"checkout"} \in overlapped'[c]
  BY <1>1, <1>2 DEF OrderedOnce
<1>3. CASE orders' = orders
  BY <1>2, <1>3 DEF OrdersOf
<1>4. ASSUME NEW o, orders' = Append(orders, o), NEW m \in OrdersOf(c)'
      PROVE  \/ m = Len(orders) + 1 /\ orders'[m] = o
             \/ m \in OrdersOf(c) /\ orders'[m] = orders[m]
  BY <1>4 DEF CartTypes, OrdersOf
<1>5. CASE \E number, byHand : orders' = Append(orders, [cust |-> NoOne, lines |-> {}, number |-> number, byHand |-> byHand,
                                              asOf |-> edits])
  <2>1. PICK o : o.lines = {} /\ orders' = Append(orders, o)
    BY <1>5
  <2> QED BY <1>2, <1>4, <2>1
<1>6. CASE \E r \in Requests :
            /\ SaveOrder(r) /\ req[r].pc = "save"
            /\ orders' = Append(orders, [cust |-> req[r].cust, lines |-> req[r].lines,
                                         number |-> req[r].number, byHand |-> FALSE,
                                           asOf |-> req[r].asOf])
  <2>1. PICK r \in Requests :
            /\ SaveOrder(r) /\ req[r].pc = "save"
            /\ orders' = Append(orders, [cust |-> req[r].cust, lines |-> req[r].lines,
                                         number |-> req[r].number, byHand |-> FALSE,
                                           asOf |-> req[r].asOf])
    BY <1>6
  <2>2. PICK o : o.cust = req[r].cust /\ o.lines = req[r].lines /\ orders' = Append(orders, o)
    BY <2>1
  <2>3. ASSUME NEW m \in OrdersOf(c)', orders'[m] = o, NEW n \in OrdersOf(c),
               NEW a \in o.lines, NEW b \in orders[n].lines, a.row = b.row
        PROVE  {"checkout"} \in overlapped'[c]
    <3>1. o.cust = c
      BY <2>3 DEF OrdersOf
    <3>2. {"checkout"} \in overlapped[req[r].cust]
      BY <2>1, <2>2, <2>3, <3>1 DEF CheckoutsApart, Reads
    <3> QED BY <1>1, <2>2, <3>1, <3>2
  <2>4. CASE i = Len(orders) + 1 /\ orders'[i] = o
    <3>1. j \in OrdersOf(c) /\ orders'[j] = orders[j]
      BY <1>4, <2>2, <2>4
    <3> QED BY <2>3, <2>4, <3>1
  <2>5. CASE j = Len(orders) + 1 /\ orders'[j] = o
    <3>1. i \in OrdersOf(c) /\ orders'[i] = orders[i]
      BY <1>4, <2>2, <2>5
    <3> QED BY <2>3, <2>5, <3>1
  <2> QED BY <1>2, <1>4, <2>2, <2>4, <2>5
<1> QED BY <1>3, <1>5, <1>6, OrdersStep

\* A row of a cart is ordered once, unless two checkouts of its customer overlapped
\* (customer_service.checkout reads the lines, and later the rows to delete).
THEOREM RowsOrderedOnce == Spec => []OrderedOnce
<1>1. OnceInv /\ [Next]_vars => OnceInv'
  BY CommonNext, OrderedRowsGoneNext, CheckoutsClearNext, CheckoutsApartNext, OrderedOnceNext DEF OnceInv
<1>2. OnceInv => OrderedOnce
  BY DEF OnceInv
<1> QED BY OnceInit, <1>1, <1>2, PTL DEF Spec

-----------------------------------------------------------------------------
(***************************************************************************)
(* A good has one row.                                                     *)
(***************************************************************************)

\* Whoever will insert a row saw none, and there is none unless another first
\* addition overlapped.
AddsFirst ==
  \A q \in Requests : (req[q].pc = "add" /\ req[q].row = 0) =>
    RowsWith(req[q].cust, req[q].good) = {} \/ {"add"} \in overlapped[req[q].cust]

\* Two rows of one good come of overlapping additions.
RowsApart ==
  \A c \in Customers, g \in Goods :
    {"add"} \in overlapped[c] \/ \A i, j \in RowsWith(c, g) : i = j

\* The inductive invariant of OneRowPerGood.
OneRowInv == Common /\ AddsFirst /\ RowsApart

\* Only the end of an addition makes a row.
LEMMA RowAdded ==
  ASSUME CartTypes, [Next]_vars
  PROVE  \/ \A c, g : RowsWith(c, g)' \subseteq RowsWith(c, g)
         \/ \E r \in Requests :
              /\ req[r].pc = "add" /\ req[r].row = 0 /\ req' = [req EXCEPT ![r] = Idle]
              /\ \A c, g : RowsWith(c, g)' = RowsWith(c, g) \cup
                   (IF c = req[r].cust /\ g = req[r].good THEN {nextRow} ELSE {})
<1>1. nextRow \in Nat /\ \A i \in DOMAIN rows : i \in Nat /\ i < nextRow /\ i # 0
  BY CartAssumption DEF CartTypes, TypeOK
<1>2. ASSUME DOMAIN rows' \subseteq DOMAIN rows
      PROVE  \A c, g : RowsWith(c, g)' \subseteq RowsWith(c, g)
  BY <1>1, <1>2, RowsStep DEF RowsKept, RowsWith, RowsOf
<1>3. ASSUME NEW r \in Requests, FinishAdd(r)
      PROVE  \/ DOMAIN rows' \subseteq DOMAIN rows
             \/ /\ req[r].pc = "add" /\ req[r].row = 0 /\ req' = [req EXCEPT ![r] = Idle]
                /\ \A c, g : RowsWith(c, g)' = RowsWith(c, g) \cup
                     (IF c = req[r].cust /\ g = req[r].good THEN {nextRow} ELSE {})
  <2>1. CASE req[r].row = 0
    <3> DEFINE row == [cust |-> req[r].cust, good |-> req[r].good, qty |-> req[r].qty]
    <3>1. rows' = [i \in DOMAIN rows \cup {nextRow} |-> IF i = nextRow THEN row ELSE rows[i]]
      BY <1>1, <1>3, <2>1 DEF FinishAdd
    <3>2. \A i \in DOMAIN rows : rows'[i] = rows[i]
      BY <1>1, <3>1
    <3>3. rows'[nextRow] = row /\ DOMAIN rows' = DOMAIN rows \cup {nextRow} /\ nextRow \notin DOMAIN rows
      BY <1>1, <3>1
    <3>4. \A c, g : RowsWith(c, g)' = RowsWith(c, g) \cup
                     (IF c = req[r].cust /\ g = req[r].good THEN {nextRow} ELSE {})
      BY <3>2, <3>3 DEF RowsWith, RowsOf
    <3> QED BY <1>3, <2>1, <3>4 DEF FinishAdd, Finish
  <2>2. CASE req[r].row # 0
    BY <1>3, <2>2 DEF FinishAdd
  <2> QED BY <2>1, <2>2
<1>4. CASE Next
  <2>1. \/ DOMAIN rows' \subseteq DOMAIN rows
        \/ \E r \in Requests : FinishAdd(r)
    BY <1>4, Steps, ElsewhereTypes
       DEF BeginAdd, BeginSet, BeginCheckout, FinishSet, CheckStock, ReadRows, TakeNumber,
           SaveOrder, Fail, ZakazCreate, Elsewhere
  <2> QED BY <1>2, <1>3, <2>1
<1> QED BY <1>2, <1>4 DEF vars

\* Every step keeps both.
LEMMA OneRowNext ==
  ASSUME OneRowInv, [Next]_vars
  PROVE  AddsFirst' /\ RowsApart'
<1> USE DEF OneRowInv, Common
<1>1. CartTypes' /\ \A c \in Customers : overlapped[c] \subseteq overlapped'[c]
  BY TypesNext, OverlapsNext
<1>2. \A q \in Requests : req'[q].pc = "add" => req'[q].cust \in Customers
  BY <1>1, RequestFields DEF CartTypes
<1>3. \A q \in Requests : (req'[q].pc = "add" /\ req'[q].row = 0) =>
        \/ req'[q] = req[q]
        \/ RowsWith(req'[q].cust, req'[q].good) = {} /\ UNCHANGED rows
  <2>1. \A c, g : 0 \notin RowsWith(c, g)
    BY CartAssumption DEF RowsWith, RowsOf, CartTypes, TypeOK
  <2> QED BY <2>1, CartStep
<1>4. CASE \A c, g : RowsWith(c, g)' \subseteq RowsWith(c, g)
  <2>1. RowsApart'
    BY <1>1, <1>4 DEF RowsApart
  <2>2. ASSUME NEW q \in Requests, req'[q].pc = "add" /\ req'[q].row = 0, NEW c, c = req'[q].cust,
               NEW g, g = req'[q].good
        PROVE  RowsWith(c, g)' = {} \/ {"add"} \in overlapped'[c]
    <3>1. CASE req'[q] = req[q]
      BY <1>1, <1>2, <1>4, <2>2, <3>1 DEF AddsFirst
    <3>2. CASE RowsWith(req'[q].cust, req'[q].good) = {}
      BY <1>4, <2>2, <3>2
    <3> QED BY <1>3, <2>2, <3>1, <3>2
  <2>3. AddsFirst'
    BY <2>2 DEF AddsFirst, RowsWith, RowsOf
  <2> QED BY <2>1, <2>3
<1>5. ASSUME NEW r \in Requests,
             req[r].pc = "add", req[r].row = 0, req' = [req EXCEPT ![r] = Idle],
             \A c, g : RowsWith(c, g)' = RowsWith(c, g) \cup
                   (IF c = req[r].cust /\ g = req[r].good THEN {nextRow} ELSE {})
      PROVE  AddsFirst' /\ RowsApart'
  <2>1. RowsApart'
    <3> SUFFICES ASSUME NEW c \in Customers, NEW g \in Goods, {"add"} \notin overlapped'[c],
                        NEW i \in RowsWith(c, g)', NEW j \in RowsWith(c, g)'
                 PROVE  i = j
      BY DEF RowsApart
    <3>1. {"add"} \notin overlapped[c]
      BY <1>1
    <3>2. CASE c = req[r].cust /\ g = req[r].good
      BY <1>5, <3>1, <3>2 DEF AddsFirst
    <3>3. CASE ~ (c = req[r].cust /\ g = req[r].good)
      BY <1>5, <3>1, <3>3 DEF RowsApart
    <3> QED BY <3>2, <3>3
  <2>2. ASSUME NEW q \in Requests, req'[q].pc = "add" /\ req'[q].row = 0, NEW c, c = req'[q].cust,
               NEW g, g = req'[q].good
        PROVE  RowsWith(c, g)' = {} \/ {"add"} \in overlapped'[c]
    <3>1. q # r /\ req'[q] = req[q]
      BY <1>5, <2>2 DEF Idle, CartTypes
    <3>2. CASE c = req[r].cust
      <4>1. r \in Active /\ q \in Active /\ OperationOf(r) = "add" /\ OperationOf(q) = "add"
        BY <1>5, <2>2, <3>1 DEF Active, OperationOf
      <4>2. {OperationOf(r), OperationOf(q)} \in overlapped[c]
        BY <2>2, <3>1, <3>2, <4>1 DEF Overlaps
      <4>3. {OperationOf(r), OperationOf(q)} = {"add"}
        BY <4>1
      <4> QED BY <1>1, <1>2, <2>2, <4>2, <4>3
    <3>3. CASE c # req[r].cust
      BY <1>1, <1>2, <1>5, <2>2, <3>1, <3>3 DEF AddsFirst
    <3> QED BY <3>2, <3>3
  <2>3. AddsFirst'
    BY <2>2 DEF AddsFirst, RowsWith, RowsOf
  <2> QED BY <2>1, <2>3
<1> QED BY <1>4, <1>5, RowAdded

\* A good has one row in a cart, unless two first additions of one customer overlapped
\* (customer_service.add_to_cart looks for the row, then inserts one).
THEOREM GoodsHaveOneRow == Spec => []OneRowPerGood
<1>1. Init => OneRowInv
  BY CommonInit DEF Init, OneRowInv, AddsFirst, RowsApart, RowsWith, RowsOf, Idle
<1>2. OneRowInv /\ [Next]_vars => OneRowInv'
  BY CommonNext, OneRowNext DEF OneRowInv
<1>3. OneRowInv => OneRowPerGood
  <2> SUFFICES ASSUME OneRowInv, NEW c \in Customers, NEW g \in Goods, {"add"} \notin overlapped[c]
               PROVE  ~ Cardinality(RowsWith(c, g)) > 1
    BY DEF OneRowPerGood
  <2>1. \A i, j \in RowsWith(c, g) : i = j
    BY DEF OneRowInv, RowsApart
  <2>2. PICK S : S = RowsWith(c, g)
    OBVIOUS
  <2>3. CASE S = {}
    BY <2>2, <2>3, FS_EmptySet
  <2>4. CASE S # {}
    <3>1. PICK i \in S : S = {i}
      BY <2>1, <2>2, <2>4
    <3> QED BY <2>2, <3>1, FS_Singleton
  <2> QED BY <2>3, <2>4
<1> QED BY <1>1, <1>2, <1>3, PTL DEF Spec

-----------------------------------------------------------------------------
(***************************************************************************)
(* Cart and catalogue agree on prices.                                     *)
(***************************************************************************)

\* What has been read since the last change has the prices of now.
Current(asOf, lines) ==
  asOf <= edits /\ (asOf = edits => \A l \in lines : l.price = PriceNow(l.good))

\* It is so of orders and of checkouts under way.
OrdersCurrent == \A i \in DOMAIN orders : Current(orders[i].asOf, orders[i].lines)

CheckoutsCurrent == \A q \in Requests : req[q].pc \in Reads => Current(req[q].asOf, req[q].lines)

\* The inductive invariant of CatalogPriceCharged.
PricesInv == CartTypes /\ OrdersCurrent /\ CheckoutsCurrent

\* Only a counted change changes the site.
LEMMA SiteStep ==
  ASSUME CartTypes, [Next]_vars
  PROVE  UNCHANGED site \/ Elsewhere
<1>1. CASE Next
  BY <1>1, Steps, ElsewhereTypes
     DEF BeginAdd, BeginSet, BeginCheckout, FinishAdd, FinishSet, CheckStock, ReadRows, TakeNumber,
         SaveOrder, Fail, ZakazCreate
<1> QED BY <1>1 DEF vars

\* Every step keeps both: what is read is read at the prices of now, and a change
\* of the site leaves nothing read since.
LEMMA PricesNext ==
  ASSUME PricesInv, [Next]_vars
  PROVE  OrdersCurrent' /\ CheckoutsCurrent'
<1> USE DEF PricesInv
<1>1. edits \in Nat /\ \A i \in DOMAIN orders : orders[i].asOf \in Nat
  <2>1. \A i \in DOMAIN orders : orders[i] \in Order
    BY DEF CartTypes
  <2> QED BY <2>1 DEF Order, CartTypes
<1>2. \A q \in Requests : req[q].pc \in Reads => req[q].asOf \in Nat
  BY RequestFields DEF CartTypes
<1>3. CASE Elsewhere
  <2>1. edits' = edits + 1 /\ orders' = orders /\ req' = req
    BY <1>3 DEF Elsewhere
  <2>2. OrdersCurrent'
    BY <1>1, <2>1 DEF OrdersCurrent, Current
  <2>3. CheckoutsCurrent'
    BY <1>1, <1>2, <2>1 DEF CheckoutsCurrent, Current
  <2> QED BY <2>2, <2>3
<1>4. CASE UNCHANGED site
  <2>1. edits' = edits /\ \A g : PriceNow(g)' = PriceNow(g)
    BY <1>4 DEF site, PriceNow
  <2>2. \A asOf, lines : Current(asOf, lines) <=>
          asOf <= edits' /\ (asOf = edits' => \A l \in lines : l.price = PriceNow(l.good)')
    BY <2>1 DEF Current
  <2>3. CheckoutsCurrent'
    <3> SUFFICES ASSUME NEW q \in Requests, req'[q].pc \in Reads
                 PROVE  Current(req'[q].asOf, req'[q].lines)
      BY <2>2 DEF CheckoutsCurrent, Current
    <3>1. CASE CartRead(q)
      <4>1. PICK c \in Customers : c = req'[q].cust
        BY <3>1 DEF CartRead
      <4>2. req'[q].lines = GetCartItems(c) /\ req'[q].asOf = edits
        BY <3>1, <4>1 DEF CartRead, CheckoutRead
      <4> QED BY <1>1, <4>2, CartItems DEF Current
    <3>2. CASE LinesKept(q)
      BY <3>2 DEF LinesKept, CheckoutsCurrent
    <3> QED BY <3>1, <3>2, CheckoutStep
  <2>4. OrdersCurrent'
    <3>1. ASSUME NEW o, orders' = Append(orders, o), Current(o.asOf, o.lines)
          PROVE  OrdersCurrent'
      <4>1. \A i \in DOMAIN orders' : orders'[i] = o \/ (i \in DOMAIN orders /\ orders'[i] = orders[i])
        BY <3>1 DEF CartTypes
      <4>2. \A i \in DOMAIN orders' : Current(orders'[i].asOf, orders'[i].lines)
        BY <3>1, <4>1 DEF OrdersCurrent
      <4> QED BY <2>2, <4>2 DEF OrdersCurrent, Current
    <3>2. CASE orders' = orders
      BY <2>2, <3>2 DEF OrdersCurrent, Current
    <3>3. CASE \E number, byHand : orders' = Append(orders, [cust |-> NoOne, lines |-> {}, number |-> number, byHand |-> byHand,
                                              asOf |-> edits])
      <4>1. PICK o : o.lines = {} /\ o.asOf = edits /\ orders' = Append(orders, o)
        BY <3>3
      <4>2. Current(o.asOf, o.lines)
        BY <1>1, <4>1 DEF Current
      <4> QED BY <3>1, <4>1, <4>2
    <3>4. CASE \E r \in Requests :
              /\ SaveOrder(r) /\ req[r].pc = "save"
              /\ orders' = Append(orders, [cust |-> req[r].cust, lines |-> req[r].lines,
                                           number |-> req[r].number, byHand |-> FALSE,
                                           asOf |-> req[r].asOf])
      <4>1. PICK r \in Requests :
              /\ SaveOrder(r) /\ req[r].pc = "save"
              /\ orders' = Append(orders, [cust |-> req[r].cust, lines |-> req[r].lines,
                                           number |-> req[r].number, byHand |-> FALSE,
                                           asOf |-> req[r].asOf])
        BY <3>4
      <4>2. PICK o : o.lines = req[r].lines /\ o.asOf = req[r].asOf /\ orders' = Append(orders, o)
        BY <4>1
      <4>3. Current(o.asOf, o.lines)
        BY <4>1, <4>2 DEF CheckoutsCurrent, Reads
      <4> QED BY <3>1, <4>2, <4>3
    <3> QED BY <3>2, <3>3, <3>4, OrdersStep
  <2> QED BY <2>3, <2>4
<1> QED BY <1>3, <1>4, SiteStep

\* A line is sold at the price the catalogue shows, if nothing has changed on the site
\* since the cart was read (effective_price, for the catalogue and for the cart).
THEOREM PricesOfCatalogue == Spec => []CatalogPriceCharged
<1>1. Init => PricesInv
  <2> SUFFICES ASSUME Init PROVE PricesInv
    OBVIOUS
  <2>1. CartTypes /\ \A r \in Requests : req[r] = Idle
    BY InitTypes DEF Init
  <2>2. \A i \in DOMAIN orders : orders[i].asOf = 0 /\ orders[i].lines = {}
    BY DEF Init
  <2>3. OrdersCurrent
    BY <2>2 DEF Init, OrdersCurrent, Current
  <2>4. CheckoutsCurrent
    BY <2>1 DEF CheckoutsCurrent, Idle, Reads
  <2> QED BY <2>1, <2>3, <2>4 DEF PricesInv
<1>2. PricesInv /\ [Next]_vars => PricesInv'
  BY TypesNext, PricesNext DEF PricesInv
<1>3. PricesInv => CatalogPriceCharged
  <2> SUFFICES ASSUME PricesInv, NEW i \in DOMAIN orders, orders[i].asOf = edits,
                      NEW l \in orders[i].lines, l.good \in DOMAIN AvailableProducts
               PROVE  l.price = AvailableProducts[l.good]
    BY DEF CatalogPriceCharged
  <2>1. l.price = PriceNow(l.good)
    BY DEF PricesInv, OrdersCurrent, Current
  <2>2. AvailableProducts[l.good] = PriceNow(l.good)
    BY DEF AvailableProducts, PriceNow
  <2> QED BY <2>1, <2>2
<1> QED BY <1>1, <1>2, <1>3, PTL DEF Spec

-----------------------------------------------------------------------------
(***************************************************************************)
(* Numbers repeat only where counting by text goes wrong.                  *)
(***************************************************************************)

\* A number that may be given to the next order: orders have it only by hand, or
\* counting has gone wrong.
Fresh(number, given) ==
  \/ \A i \in DOMAIN given : given[i].number = number => given[i].byHand
  \/ number.count >= Padded
  \/ \E i \in DOMAIN given : given[i].number.prefix # number.prefix

\* The number a checkout has taken, with the lock, is so still when it saves.
TakenFresh == \A q \in Requests : req[q].pc = "save" => Fresh(req[q].number, orders)

\* The inductive invariant of NumbersDistinct.
NumbersInv == CartTypes /\ TakenFresh /\ NumbersDistinct

\* A counted number is fresh.
LEMMA NextIsFresh ==
  ASSUME NumbersInv, NEW p \in PrefixIB
  PROVE  Fresh(NextNumber(p, Numbers), orders)
<1>1. PICK n : n = NextNumber(p, Numbers)
  OBVIOUS
<1>2. \/ n \notin Numbers
      \/ n.count >= Padded
      \/ \E m \in Numbers : m.prefix # n.prefix
  BY <1>1, NumbersFinite, NextNumberFollows DEF NumbersInv
<1>3. Fresh(n, orders)
  BY <1>2 DEF Fresh, Numbers
<1> QED BY <1>1, <1>3

\* An order whose number is fresh or given by hand.
LEMMA FreshOrder ==
  ASSUME NumbersInv, NEW o, orders' = Append(orders, o), Fresh(o.number, orders) \/ o.byHand
  PROVE  NumbersDistinct'
<1> USE DEF NumbersInv
<1>1. /\ Len(orders) \in Nat /\ DOMAIN orders = 1 .. Len(orders) /\ DOMAIN orders' = 1 .. Len(orders) + 1
      /\ orders'[Len(orders) + 1] = o /\ \A i \in DOMAIN orders : orders'[i] = orders[i]
      /\ Len(orders') = Len(orders) + 1
  BY DEF CartTypes
<1>3. ASSUME NEW i \in DOMAIN orders', NEW j \in DOMAIN orders', i < j,
             orders'[i].number = orders'[j].number
      PROVE  \/ orders'[i].byHand \/ orders'[j].byHand
             \/ orders'[j].number.count >= Padded
             \/ \E k \in 1 .. j - 1 : orders'[k].number.prefix # orders'[j].number.prefix
  <2>1. i \in DOMAIN orders /\ i \in Nat /\ j \in Nat
    BY <1>1, <1>3
  <2>2. CASE j \in DOMAIN orders
    <3>1. \/ orders[i].byHand \/ orders[j].byHand
          \/ orders[j].number.count >= Padded
          \/ \E k \in 1 .. j - 1 : orders[k].number.prefix # orders[j].number.prefix
      BY <1>1, <1>3, <2>1, <2>2 DEF NumbersDistinct
    <3>2. \A k \in 1 .. j - 1 : k \in DOMAIN orders
      BY <1>1, <2>2
    <3> QED BY <1>1, <2>1, <2>2, <3>1, <3>2
  <2>3. CASE j = Len(orders) + 1
    <3>1. orders'[j] = o /\ orders'[i] = orders[i] /\ o.number = orders[i].number
      BY <1>1, <1>3, <2>1, <2>3
    <3>2. \/ orders[i].byHand \/ o.byHand
          \/ o.number.count >= Padded
          \/ \E k \in DOMAIN orders : orders[k].number.prefix # o.number.prefix
      BY <2>1, <3>1 DEF Fresh
    <3>3. \A k \in DOMAIN orders : k \in 1 .. j - 1
      BY <1>1, <2>3
    <3> QED BY <1>1, <3>1, <3>2, <3>3
  <2> QED BY <1>1, <2>2, <2>3
<1> QED BY <1>3 DEF NumbersDistinct

\* An order gets a number taken under the lock, a counted one, or one given by hand.
LEMMA NumbersNext ==
  ASSUME NumbersInv, [Next]_vars
  PROVE  NumbersDistinct'
<1>1. CASE orders' = orders
  BY <1>1 DEF NumbersInv, NumbersDistinct
<1>2. CASE \E number \in Custom \cup {NextNumber(prefix, Numbers)}, byHand \in BOOLEAN :
             /\ ZakazCreate(number, byHand)
             /\ orders' = Append(orders, [cust |-> NoOne, lines |-> {}, number |-> number, byHand |-> byHand,
                                              asOf |-> edits])
  <2>1. PICK number \in Custom \cup {NextNumber(prefix, Numbers)}, byHand \in BOOLEAN :
             /\ ZakazCreate(number, byHand)
             /\ orders' = Append(orders, [cust |-> NoOne, lines |-> {}, number |-> number, byHand |-> byHand,
                                              asOf |-> edits])
    BY <1>2
  <2>2. Fresh(number, orders) \/ byHand
    <3>1. prefix \in PrefixIB
      BY DEF NumbersInv, CartTypes, TypeOK
    <3> QED BY <2>1, <3>1, NextIsFresh DEF ZakazCreate
  <2>3. PICK o : o.number = number /\ o.byHand = byHand /\ orders' = Append(orders, o)
    BY <2>1
  <2> QED BY <2>2, <2>3, FreshOrder
<1>3. CASE \E r \in Requests :
              /\ SaveOrder(r) /\ req[r].pc = "save"
              /\ orders' = Append(orders, [cust |-> req[r].cust, lines |-> req[r].lines,
                                           number |-> req[r].number, byHand |-> FALSE,
                                           asOf |-> req[r].asOf])
  <2>1. PICK r \in Requests :
              /\ SaveOrder(r) /\ req[r].pc = "save"
              /\ orders' = Append(orders, [cust |-> req[r].cust, lines |-> req[r].lines,
                                           number |-> req[r].number, byHand |-> FALSE,
                                           asOf |-> req[r].asOf])
    BY <1>3
  <2>2. PICK o : o.number = req[r].number /\ orders' = Append(orders, o)
    BY <2>1
  <2>3. Fresh(o.number, orders)
    BY <2>1, <2>2 DEF NumbersInv, TakenFresh
  <2> QED BY <2>2, <2>3, FreshOrder
<1> QED BY <1>1, <1>2, <1>3, OrdersStep DEF NumbersInv

\* Whoever saves has just taken the number, or held it with the lock.
LEMMA TakenFreshNext ==
  ASSUME NumbersInv, [Next]_vars
  PROVE  TakenFresh'
<1> USE DEF NumbersInv
<1> SUFFICES ASSUME NEW q \in Requests, req'[q].pc = "save" PROVE Fresh(req'[q].number, orders')
  BY DEF TakenFresh
<1>1. PICK n : n = req'[q].number
  OBVIOUS
<1>2. ASSUME Fresh(n, orders), orders' = orders PROVE Fresh(req'[q].number, orders')
  BY <1>1, <1>2 DEF Fresh
<1>3. CASE TakeNumber(q)
  <2>1. n = NextNumber(req[q].prefix, Numbers) /\ req[q].pc = "number" /\ orders' = orders
    BY <1>1, <1>3 DEF TakeNumber, CartTypes
  <2>2. req[q].prefix \in PrefixIB
    BY <2>1, RequestFields DEF CartTypes
  <2>3. Fresh(n, orders)
    BY <2>1, <2>2, NextIsFresh
  <2> QED BY <1>1, <1>2, <2>1, <2>3
<1>4. CASE req'[q] = req[q]
  <2>1. Fresh(n, orders) /\ lock = q /\ lock # NoOne
    BY <1>1, <1>4, CartAssumption DEF TakenFresh, CartTypes, TypeOK
  <2>2. CASE orders' = orders
    BY <1>1, <1>2, <2>1, <2>2
  <2>3. CASE \E number \in Custom \cup {NextNumber(prefix, Numbers)}, byHand \in BOOLEAN :
             /\ ZakazCreate(number, byHand)
             /\ orders' = Append(orders, [cust |-> NoOne, lines |-> {}, number |-> number, byHand |-> byHand,
                                              asOf |-> edits])
    <3>1. PICK number \in Custom \cup {NextNumber(prefix, Numbers)}, byHand \in BOOLEAN :
             /\ ZakazCreate(number, byHand)
             /\ orders' = Append(orders, [cust |-> NoOne, lines |-> {}, number |-> number, byHand |-> byHand,
                                              asOf |-> edits])
      BY <2>3
    <3>2. byHand
      BY <2>1, <3>1 DEF ZakazCreate
    <3>3. PICK o : orders' = Append(orders, o) /\ o = [cust |-> NoOne, lines |-> {}, number |-> number,
                                                      byHand |-> byHand, asOf |-> edits]
      BY <3>1
    <3>4. /\ DOMAIN orders = 1 .. Len(orders) /\ DOMAIN orders' = 1 .. Len(orders) + 1 /\ Len(orders) \in Nat
          /\ orders'[Len(orders) + 1] = o
          /\ \A i \in DOMAIN orders : orders'[i] = orders[i]
      BY <3>3 DEF CartTypes
    <3>5. \A i \in DOMAIN orders' : i \in DOMAIN orders \/ orders'[i].byHand
      BY <3>2, <3>3, <3>4
    <3>6. \A i \in DOMAIN orders : i \in DOMAIN orders'
      BY <3>4
    <3> QED BY <1>1, <2>1, <3>4, <3>5, <3>6 DEF Fresh
  <2>4. ASSUME NEW r \in Requests, SaveOrder(r), req[r].pc = "save" PROVE FALSE
    <3>1. r = q
      BY <2>1, <2>4 DEF CartTypes, TypeOK
    <3>2. req'[q] = Idle
      BY <2>4, <3>1 DEF SaveOrder, Finish, CartTypes
    <3> QED BY <3>2 DEF Idle
  <2> QED BY <2>2, <2>3, <2>4, OrdersStep
<1>5. TakeNumber(q) \/ req'[q] = req[q]
  <2>1. ASSUME NEW r \in Requests, NEW s, s.pc # "save", req' = [req EXCEPT ![r] = s]
        PROVE  req'[q] = req[q]
    BY <2>1 DEF CartTypes
  <2>2. ASSUME NEW r \in Requests, NEW c \in Customers, NEW g \in Goods, NEW k \in Quantities,
               BeginAdd(r, c, g, k)
        PROVE  req'[q] = req[q]
    <3>1. PICK row \in Nat, had \in Nat, fresh \in BOOLEAN :
            Begin(r, AddRead(c, g, k, row, had, fresh), "add")
      BY <2>2, BeginAddTypes
    <3>2. PICK s : s = AddRead(c, g, k, row, had, fresh)
      OBVIOUS
    <3>3. s.pc # "save" /\ req' = [req EXCEPT ![r] = s]
      BY <3>1, <3>2 DEF AddRead, Begin
    <3> QED BY <2>1, <3>3
  <2>3. ASSUME NEW r \in Requests, NEW c \in Customers, NEW i \in DOMAIN rows, NEW k \in Quantities,
               BeginSet(r, c, i, k)
        PROVE  req'[q] = req[q]
    <3>1. PICK s : s = SetRead(c, i, k)
      OBVIOUS
    <3>2. s.pc # "save" /\ req' = [req EXCEPT ![r] = s]
      BY <2>3, <3>1, BeginSetTypes DEF SetRead, Begin
    <3> QED BY <2>1, <3>2
  <2>4. ASSUME NEW r \in Requests, NEW c \in Customers, BeginCheckout(r, c)
        PROVE  req'[q] = req[q]
    <3>1. PICK s : s = CheckoutRead(c)
      OBVIOUS
    <3>2. s.pc # "save" /\ req' = [req EXCEPT ![r] = s]
      BY <2>4, <3>1, BeginCheckoutTypes DEF CheckoutRead, Begin
    <3> QED BY <2>1, <3>2
  <2>5. ASSUME NEW r \in Requests, FinishAdd(r) \/ FinishSet(r) \/ SaveOrder(r) \/ Fail(r)
        PROVE  req'[q] = req[q]
    <3>1. req' = [req EXCEPT ![r] = Idle] /\ Idle.pc # "save"
      BY <2>5 DEF FinishAdd, FinishSet, SaveOrder, Fail, Finish, Idle
    <3> QED BY <2>1, <3>1
  <2>6. ASSUME NEW r \in Requests, CheckStock(r)
        PROVE  req'[q] = req[q]
    <3>1. q # r
      BY <2>6 DEF CheckStock, CartTypes, RequestState, Idle
    <3> QED BY <2>6, <3>1 DEF CheckStock, CartTypes
  <2>7. ASSUME NEW r \in Requests, ReadRows(r) \/ TakeNumber(r)
        PROVE  TakeNumber(q) \/ req'[q] = req[q]
    BY <2>7 DEF ReadRows, TakeNumber, CartTypes
  <2>8. CASE Next
    BY <2>2, <2>3, <2>4, <2>5, <2>6, <2>7, <2>8, Steps, ElsewhereTypes DEF Elsewhere, ZakazCreate
  <2> QED BY <2>8 DEF vars
<1> QED BY <1>3, <1>4, <1>5

\* Two orders have one number only where one of them was given it by hand, past 99999, or
\* with different prefixes about: requests that create orders at the same time never take
\* the same number (next_document_number under its advisory lock), whatever numbers are
\* given by hand.
THEOREM NumbersRepeatByText == Spec => []NumbersDistinct
<1>1. Init => NumbersInv
  <2> SUFFICES ASSUME Init PROVE NumbersInv
    OBVIOUS
  <2>1. CartTypes /\ \A r \in Requests : req[r] = Idle
    BY InitTypes DEF Init
  <2>2. Len(orders) = 1 /\ DOMAIN orders = {1} /\ orders[1].number = FirstNumber
    BY DEF Init
  <2> QED BY <2>1, <2>2 DEF NumbersInv, TakenFresh, NumbersDistinct, Idle
<1>2. NumbersInv /\ [Next]_vars => NumbersInv'
  BY TypesNext, NumbersNext, TakenFreshNext DEF NumbersInv
<1>3. NumbersInv => NumbersDistinct
  BY DEF NumbersInv
<1> QED BY <1>1, <1>2, <1>3, PTL DEF Spec

-----------------------------------------------------------------------------
(***************************************************************************)
(* What is put into a cart is in it or in an order.                        *)
(***************************************************************************)

\* The lines of a checkout or an order: finitely many, of different rows.
WellMade(lines) == IsFiniteSet(lines) /\ \A k, l \in lines : k.row = l.row => k = l

\* So are those of every order and of every checkout under way.
LinesWellMade ==
  /\ \A i \in DOMAIN orders : WellMade(orders[i].lines)
  /\ \A q \in Requests : req[q].pc \in Reads => WellMade(req[q].lines)

\* There are finitely many rows.
LEMMA RowsFinite ==
  ASSUME CartTypes
  PROVE  /\ IsFiniteSet(DOMAIN rows)
         /\ \A c : IsFiniteSet(RowsOf(c))
         /\ \A c, g : IsFiniteSet(RowsWith(c, g))
<1>1. nextRow - 1 \in Int /\ DOMAIN rows \subseteq 1 .. nextRow - 1
  BY CartAssumption DEF CartTypes, TypeOK
<1>2. IsFiniteSet(DOMAIN rows)
  BY <1>1, FS_Interval, FS_Subset
<1> QED BY <1>2, FS_Subset DEF RowsOf, RowsWith

\* What is read of a cart is well made, and stays so.
LEMMA CartWellMade ==
  ASSUME CartTypes, NEW c \in Customers
  PROVE  WellMade(GetCartItems(c))
<1>1. PICK R, f : /\ R = RowsOf(c)
                  /\ f = [i \in R |-> [row |-> i, good |-> rows[i].good, qty |-> rows[i].qty,
                                       price |-> PriceNow(rows[i].good)]]
  OBVIOUS
<1>2. GetCartItems(c) = {f[i] : i \in R}
  BY <1>1 DEF GetCartItems, PriceNow
<1>3. PICK T : T = GetCartItems(c)
  OBVIOUS
<1>4. f \in Surjection(R, T)
  <2>1. \A i \in R : f[i] \in T
    BY <1>2, <1>3
  <2> QED BY <1>1, <1>2, <1>3, <2>1 DEF Surjection
<1>5. IsFiniteSet(T)
  BY <1>1, <1>4, RowsFinite, FS_Surjection
<1> QED BY <1>3, <1>5, CartItems DEF WellMade

LEMMA LinesWellMadeNext ==
  ASSUME CartTypes, LinesWellMade, [Next]_vars
  PROVE  LinesWellMade'
<1>1. ASSUME NEW q \in Requests, req'[q].pc \in Reads
      PROVE  WellMade(req'[q].lines)
  <2>1. CASE CartRead(q)
    <3>1. PICK c \in Customers : c = req'[q].cust
      BY <2>1 DEF CartRead
    <3>2. req'[q].lines = GetCartItems(c)
      BY <2>1, <3>1 DEF CartRead, CheckoutRead
    <3> QED BY <3>2, CartWellMade
  <2>2. CASE LinesKept(q)
    BY <2>2 DEF LinesKept, LinesWellMade
  <2> QED BY <1>1, <2>1, <2>2, CheckoutStep
<1>2. ASSUME NEW o, orders' = Append(orders, o), WellMade(o.lines)
      PROVE  \A i \in DOMAIN orders' : WellMade(orders'[i].lines)
  <2>1. \A i \in DOMAIN orders' : orders'[i] = o \/ (i \in DOMAIN orders /\ orders'[i] = orders[i])
    BY <1>2 DEF CartTypes
  <2> QED BY <1>2, <2>1 DEF LinesWellMade
<1>3. CASE orders' = orders
  BY <1>1, <1>3 DEF LinesWellMade
<1>4. CASE \E number, byHand : orders' = Append(orders, [cust |-> NoOne, lines |-> {}, number |-> number, byHand |-> byHand,
                                              asOf |-> edits])
  <2>1. PICK o : o.lines = {} /\ orders' = Append(orders, o)
    BY <1>4
  <2>2. WellMade(o.lines)
    BY <2>1, FS_EmptySet DEF WellMade
  <2> QED BY <1>1, <1>2, <2>1, <2>2 DEF LinesWellMade
<1>5. CASE \E r \in Requests :
            /\ SaveOrder(r) /\ req[r].pc = "save"
            /\ orders' = Append(orders, [cust |-> req[r].cust, lines |-> req[r].lines,
                                         number |-> req[r].number, byHand |-> FALSE,
                                           asOf |-> req[r].asOf])
  <2>1. PICK r \in Requests :
            /\ SaveOrder(r) /\ req[r].pc = "save"
            /\ orders' = Append(orders, [cust |-> req[r].cust, lines |-> req[r].lines,
                                         number |-> req[r].number, byHand |-> FALSE,
                                           asOf |-> req[r].asOf])
    BY <1>5
  <2>2. PICK o : o.lines = req[r].lines /\ orders' = Append(orders, o)
    BY <2>1
  <2>3. WellMade(o.lines)
    BY <2>1, <2>2 DEF LinesWellMade, Reads
  <2> QED BY <1>1, <1>2, <2>2, <2>3 DEF LinesWellMade
<1> QED BY <1>3, <1>4, <1>5, OrdersStep

\* What a request has read of its cart is what the cart holds.
CartIsRead(s) ==
  /\ (s.pc = "add" /\ s.row # 0) =>
       /\ s.row \in RowsWith(s.cust, s.good) /\ rows[s.row].qty = s.had
  /\ s.pc \in Reads =>
       /\ RowsOf(s.cust) = {l.row : l \in s.lines}
       /\ \A l \in s.lines : rows[l.row].good = l.good /\ rows[l.row].qty = l.qty
  /\ s.pc \in {"number", "save"} => s.dead = RowsOf(s.cust)

\* It is so as long as no two operations on the cart have overlapped.
SoleSeesCart == \A q \in Active : overlapped[req[q].cust] = {} => CartIsRead(req[q])

\* A request changes the rows of its own customer.
LEMMA OthersRows ==
  ASSUME Common, NEW r \in Requests, FinishAdd(r) \/ FinishSet(r) \/ SaveOrder(r),
         NEW c, c # req[r].cust
  PROVE  /\ RowsOf(c)' = RowsOf(c)
         /\ \A i \in RowsOf(c) : rows'[i] = rows[i]
<1> USE DEF Common
<1>1. nextRow \in Nat /\ \A i \in DOMAIN rows : i \in Nat /\ i < nextRow /\ i # 0 /\ rows[i] \in Row
  BY CartAssumption DEF CartTypes, TypeOK
<1>2. CASE FinishAdd(r)
  <2>1. CASE /\ rows' = [i \in DOMAIN rows \cup {nextRow} |->
                           IF i = nextRow THEN [cust |-> req[r].cust, good |-> req[r].good, qty |-> req[r].qty]
                                          ELSE rows[i]]
    <3>1. \A i \in DOMAIN rows : rows'[i] = rows[i]
      BY <1>1, <2>1
    <3>2. rows'[nextRow].cust = req[r].cust /\ DOMAIN rows' = DOMAIN rows \cup {nextRow}
      BY <2>1
    <3> QED BY <1>1, <3>1, <3>2 DEF RowsOf
  <2>2. CASE /\ req[r].row \in DOMAIN rows
             /\ rows' = [rows EXCEPT ![req[r].row].qty = Increased(req[r].had, req[r].qty)]
    <3>1. rows[req[r].row].cust = req[r].cust /\ rows'[req[r].row].cust = req[r].cust
      <4>1. rows[req[r].row].cust = req[r].cust
        BY <1>1, <1>2, <2>2 DEF RowsAreOwn, NamedRows, FinishAdd
      <4>2. rows'[req[r].row] = [rows[req[r].row] EXCEPT !.qty = Increased(req[r].had, req[r].qty)]
        BY <2>2
      <4> QED BY <1>1, <2>2, <4>1, <4>2 DEF Row
    <3> QED BY <2>2, <3>1 DEF RowsOf
  <2> QED BY <1>2, <2>1, <2>2 DEF FinishAdd
<1>3. CASE FinishSet(r)
  <2>1. CASE rows' = [i \in DOMAIN rows \ {req[r].row} |-> rows[i]]
    <3>1. req[r].row \in DOMAIN rows => rows[req[r].row].cust = req[r].cust
      BY <1>1, <1>3 DEF RowsAreOwn, NamedRows, FinishSet
    <3> QED BY <2>1, <3>1 DEF RowsOf
  <2>2. CASE rows' = rows
    BY <2>2 DEF RowsOf
  <2>3. CASE req[r].row \in DOMAIN rows /\ rows' = [rows EXCEPT ![req[r].row].qty = req[r].qty]
    <3>1. rows[req[r].row].cust = req[r].cust /\ rows'[req[r].row].cust = req[r].cust
      <4>1. rows[req[r].row].cust = req[r].cust
        BY <1>1, <1>3, <2>3 DEF RowsAreOwn, NamedRows, FinishSet
      <4>2. rows'[req[r].row] = [rows[req[r].row] EXCEPT !.qty = req[r].qty]
        BY <2>3
      <4> QED BY <1>1, <2>3, <4>1, <4>2 DEF Row
    <3> QED BY <2>3, <3>1 DEF RowsOf
  <2> QED BY <1>3, <2>1, <2>2, <2>3 DEF FinishSet
<1>4. CASE SaveOrder(r)
  <2>1. rows' = [i \in DOMAIN rows \ req[r].dead |-> rows[i]] /\ req[r].pc = "save"
    BY <1>4 DEF SaveOrder
  <2>2. \A i \in req[r].dead : i \in DOMAIN rows => rows[i].cust = req[r].cust
    BY <1>1, <2>1 DEF RowsAreOwn, NamedRows
  <2> QED BY <2>1, <2>2 DEF RowsOf
<1> QED BY <1>2, <1>3, <1>4

\* Which steps change rows, orders or what was asked for.
LEMMA CartsStep ==
  ASSUME CartTypes, [Next]_vars
  PROVE  \/ UNCHANGED <<rows, orders, asked>>
         \/ \E r \in Requests : FinishAdd(r) \/ FinishSet(r) \/ SaveOrder(r)
         \/ \E number \in Custom \cup {NextNumber(prefix, Numbers)}, byHand \in BOOLEAN :
              /\ ZakazCreate(number, byHand) /\ UNCHANGED <<rows, asked>>
              /\ orders' = Append(orders, [cust |-> NoOne, lines |-> {}, number |-> number, byHand |-> byHand,
                                              asOf |-> edits])
<1>1. CASE Next
  BY <1>1, Steps, ElsewhereTypes
     DEF BeginAdd, BeginSet, BeginCheckout, CheckStock, ReadRows, TakeNumber, Fail, ZakazCreate, Elsewhere
<1> QED BY <1>1 DEF vars

\* A request whose cart nobody else touches goes on seeing what the cart holds.
LEMMA SoleSeesCartNext ==
  ASSUME Common, SoleSeesCart, [Next]_vars
  PROVE  SoleSeesCart'
<1> USE DEF Common
<1>1. CartTypes' /\ Common' /\ \A c \in Customers : overlapped[c] \subseteq overlapped'[c]
  BY TypesNext, CommonNext, OverlapsNext
<1> SUFFICES ASSUME NEW q \in Active', overlapped'[req'[q].cust] = {} PROVE CartIsRead(req[q])'
  BY DEF SoleSeesCart
<1>2. q \in Requests /\ req'[q].pc # "idle" /\ req'[q].cust \in Customers
  BY <1>1, RequestFields DEF Active, CartTypes
<1>3. ASSUME NEW r \in Requests, FinishAdd(r) \/ FinishSet(r) \/ SaveOrder(r)
      PROVE  CartIsRead(req[q])'
  <2>1. req' = [req EXCEPT ![r] = Idle] /\ overlapped' = overlapped /\ r \in Active
    BY <1>3 DEF FinishAdd, FinishSet, SaveOrder, Finish, Active
  <2>2. q # r /\ req'[q] = req[q] /\ q \in Active
    BY <1>2, <2>1 DEF Idle, CartTypes, Active
  <2>3. req[q].cust # req[r].cust
    BY <2>1, <2>2 DEF Overlaps
  <2>4. PICK c : c = req[q].cust
    OBVIOUS
  <2>5. RowsOf(c)' = RowsOf(c) /\ \A i \in RowsOf(c) : rows'[i] = rows[i]
    BY <1>3, <2>3, <2>4, OthersRows
  <2>6. PICK s : s = req[q] /\ s = req'[q]
    BY <2>2
  <2>7. CartIsRead(s)
    BY <2>1, <2>2, <2>6 DEF SoleSeesCart
  <2>8. \A g : RowsWith(c, g)' = RowsWith(c, g)
    BY <2>5 DEF RowsWith
  <2>9. \A g : RowsWith(c, g) \subseteq RowsOf(c)
    BY DEF RowsWith
  <2>10. (s.pc = "add" /\ s.row # 0) => s.row \in RowsWith(c, s.good)' /\ rows'[s.row].qty = s.had
    BY <2>4, <2>5, <2>6, <2>7, <2>8, <2>9 DEF CartIsRead
  <2>11. s.pc \in Reads =>
           /\ RowsOf(c)' = {l.row : l \in s.lines}
           /\ \A l \in s.lines : rows'[l.row].good = l.good /\ rows'[l.row].qty = l.qty
    BY <2>4, <2>5, <2>6, <2>7 DEF CartIsRead
  <2>12. s.pc \in {"number", "save"} => s.dead = RowsOf(c)'
    BY <2>4, <2>5, <2>6, <2>7 DEF CartIsRead
  <2>13. c = req'[q].cust
    BY <2>4, <2>2
  <2> QED BY <2>6, <2>10, <2>11, <2>12, <2>13 DEF CartIsRead, RowsWith, RowsOf
<1>4. CASE UNCHANGED rows
  <2>1. ASSUME req'[q] = req[q]
        PROVE  CartIsRead(req[q])'
    <3>1. CartIsRead(req[q])
      BY <1>1, <1>2, <2>1 DEF SoleSeesCart, Active
    <3> QED BY <1>4, <2>1, <3>1 DEF CartIsRead, RowsWith, RowsOf
  <2>2. CASE req'[q].pc \in {"add", "set"} /\ req'[q] # req[q]
    <3>1. (req'[q].pc = "add" /\ req'[q].row # 0) =>
            /\ req'[q].row \in RowsWith(req'[q].cust, req'[q].good)
            /\ rows[req'[q].row].qty = req'[q].had
      BY <1>2, <2>2, CartStep
    <3> QED BY <1>4, <2>2, <3>1 DEF CartIsRead, RowsWith, RowsOf, Reads
  <2>3. CASE req'[q].pc \in Reads
    <3>1. CASE CartRead(q)
      <4>1. PICK c \in Customers : c = req'[q].cust
        BY <3>1 DEF CartRead
      <4>2. req'[q].lines = GetCartItems(c) /\ req'[q].pc = "check"
        BY <3>1, <4>1 DEF CartRead, CheckoutRead
      <4>3. /\ RowsOf(c) = {l.row : l \in GetCartItems(c)}
            /\ \A l \in GetCartItems(c) : rows[l.row].good = l.good /\ rows[l.row].qty = l.qty
        BY CartItems
      <4> QED BY <1>4, <4>1, <4>2, <4>3 DEF CartIsRead, RowsOf
    <3>2. CASE LinesKept(q)
      <4>1. /\ req[q].pc \in Reads /\ q \in Active
            /\ req'[q].cust = req[q].cust /\ req'[q].lines = req[q].lines
        BY <1>2, <3>2 DEF LinesKept, Reads, Active
      <4>2. CartIsRead(req[q])
        BY <1>1, <1>2, <4>1 DEF SoleSeesCart
      <4>3. req'[q].pc \in {"number", "save"} => req'[q].dead = RowsOf(req[q].cust)
        BY <3>2, <4>2 DEF LinesKept, CartIsRead
      <4> QED BY <1>4, <2>3, <4>1, <4>2, <4>3 DEF CartIsRead, RowsOf, Reads
    <3> QED BY <1>2, <2>3, <3>1, <3>2, CheckoutStep
  <2>4. req'[q].pc \in {"add", "set"} \cup Reads
    BY <1>1, <1>2, RequestFields DEF CartTypes
  <2> QED BY <2>1, <2>2, <2>3, <2>4
<1> QED BY <1>3, <1>4, CartsStep

\* A checkout's lines ask for what the cart holds.
LEMMA LinesHoldCart ==
  ASSUME CartTypes, NEW c, NEW g, NEW lines \in SUBSET Line, WellMade(lines),
         RowsOf(c) = {l.row : l \in lines},
         \A l \in lines : rows[l.row].good = l.good /\ rows[l.row].qty = l.qty
  PROVE  InLines(lines, g) = InCart(c, g)
<1>1. PICK L, f, h : /\ L = {l \in lines : l.good = g}
                     /\ f = [l \in lines |-> l.qty]
                     /\ h = [l \in lines |-> l.row]
  OBVIOUS
<1>2. PICK k : k = [i \in DOMAIN rows |-> rows[i].qty]
  OBVIOUS
<1>3. IsFiniteSet(L)
  BY <1>1, FS_Subset DEF WellMade
<1>4. \A l \in L : f[l] \in Int /\ l.row \in DOMAIN rows
  BY <1>1 DEF Line, RowsOf
<1>5. \A x, y \in L : h[x] = h[y] => x = y
  BY <1>1 DEF WellMade
<1>6. \A x \in L : k[h[x]] = f[x]
  BY <1>1, <1>2, <1>4
<1>7. RowsWith(c, g) = {h[x] : x \in L}
  <2>1. \A x \in L : h[x] \in RowsWith(c, g)
    BY <1>1 DEF RowsWith
  <2>2. ASSUME NEW i \in RowsWith(c, g) PROVE \E x \in L : h[x] = i
    <3>1. PICK l \in lines : l.row = i
      BY <2>2 DEF RowsWith
    <3>2. l \in L
      BY <1>1, <2>2, <3>1 DEF RowsWith
    <3> QED BY <1>1, <3>1, <3>2
  <2> QED BY <2>1, <2>2
<1>8. SumFunctionOnSet(f, L) = SumFunctionOnSet(k, {h[x] : x \in L})
  <2>1. \A l \in L : f[l] \in Int
    BY <1>4
  <2> QED BY <1>3, <1>5, <1>6, <2>1, SumReindex
<1> QED BY <1>1, <1>2, <1>7, <1>8 DEF InLines, InCart

\* The sums are integers.
LEMMA InLinesIsInt ==
  ASSUME NEW lines \in SUBSET Line, WellMade(lines), NEW g
  PROVE  InLines(lines, g) \in Int
<1>1. PICK L, f : L = {l \in lines : l.good = g} /\ f = [l \in lines |-> l.qty]
  OBVIOUS
<1>2. IsFiniteSet(L) /\ \A l \in L : f[l] \in Int
  BY <1>1, FS_Subset DEF WellMade, Line
<1>3. SumFunctionOnSet(f, L) \in Int
  BY <1>2, SumIsInt
<1> QED BY <1>1, <1>3 DEF InLines

LEMMA CartIsInt ==
  ASSUME CartTypes, NEW c, NEW g
  PROVE  InCart(c, g) \in Int /\ \A i \in DOMAIN rows : rows[i].qty \in Int
<1>1. PICK S, k : S = RowsWith(c, g) /\ k = [i \in DOMAIN rows |-> rows[i].qty]
  OBVIOUS
<1>2. \A i \in DOMAIN rows : rows[i].qty \in Int
  BY DEF CartTypes, TypeOK, Row
<1>3. \A i \in S : k[i] \in Int
  BY <1>1, <1>2 DEF RowsWith, RowsOf
<1>4. SumFunctionOnSet(k, S) \in Int
  BY <1>1, <1>3, RowsFinite, SumIsInt
<1> QED BY <1>1, <1>2, <1>4 DEF InCart

\* The rows of a good change as sums do.
LEMMA CartSame ==
  ASSUME CartTypes, NEW c, NEW g, RowsWith(c, g)' = RowsWith(c, g),
         \A i \in RowsWith(c, g) : rows'[i].qty = rows[i].qty
  PROVE  InCart(c, g)' = InCart(c, g)
<1>1. PICK S, k, m : /\ S = RowsWith(c, g) /\ S = RowsWith(c, g)'
                     /\ k = [i \in DOMAIN rows |-> rows[i].qty]
                     /\ m = [i \in DOMAIN rows' |-> rows'[i].qty]
  OBVIOUS
<1>2. S \subseteq DOMAIN rows /\ S \subseteq DOMAIN rows'
  BY <1>1 DEF RowsWith, RowsOf
<1>3. IsFiniteSet(S) /\ \A i \in S : k[i] = m[i]
  BY <1>1, <1>2, RowsFinite
<1>4. SumFunctionOnSet(k, S) = SumFunctionOnSet(m, S)
  BY <1>3, SumSame
<1> QED BY <1>1, <1>4 DEF InCart

LEMMA CartChange ==
  ASSUME CartTypes, CartTypes', NEW c, NEW g, RowsWith(c, g)' = RowsWith(c, g),
         NEW j \in RowsWith(c, g),
         \A i \in RowsWith(c, g) \ {j} : rows'[i].qty = rows[i].qty
  PROVE  InCart(c, g)' = InCart(c, g) + rows'[j].qty - rows[j].qty
<1>1. PICK S, k, m : /\ S = RowsWith(c, g) /\ S = RowsWith(c, g)'
                     /\ k = [i \in DOMAIN rows |-> rows[i].qty]
                     /\ m = [i \in DOMAIN rows' |-> rows'[i].qty]
  OBVIOUS
<1>2. S \subseteq DOMAIN rows /\ S \subseteq DOMAIN rows'
  BY <1>1 DEF RowsWith, RowsOf
<1>3. \A i \in S : k[i] \in Int /\ m[i] \in Int
  <2>1. \A i \in DOMAIN rows : rows[i].qty \in Int
    BY DEF CartTypes, TypeOK, Row
  <2>2. \A i \in DOMAIN rows' : rows'[i].qty \in Int
    BY DEF CartTypes, TypeOK, Row
  <2> QED BY <1>1, <1>2, <2>1, <2>2
<1>4. IsFiniteSet(S) /\ j \in S /\ \A i \in S \ {j} : k[i] = m[i]
  BY <1>1, <1>2, RowsFinite
<1>5. SumFunctionOnSet(m, S) = SumFunctionOnSet(k, S) + m[j] - k[j]
  BY <1>3, <1>4, SumChange
<1>6. m[j] = rows'[j].qty /\ k[j] = rows[j].qty
  BY <1>1, <1>2, <1>4
<1> QED BY <1>1, <1>5, <1>6 DEF InCart

LEMMA CartLoses ==
  ASSUME CartTypes, NEW c, NEW g, NEW j \in RowsWith(c, g), RowsWith(c, g)' = RowsWith(c, g) \ {j},
         \A i \in RowsWith(c, g) \ {j} : rows'[i].qty = rows[i].qty
  PROVE  InCart(c, g)' = InCart(c, g) - rows[j].qty
<1>1. PICK S, T, k, m : /\ S = RowsWith(c, g) /\ T = RowsWith(c, g)'
                        /\ k = [i \in DOMAIN rows |-> rows[i].qty]
                        /\ m = [i \in DOMAIN rows' |-> rows'[i].qty]
  OBVIOUS
<1>2. S \subseteq DOMAIN rows /\ T \subseteq DOMAIN rows' /\ T = S \ {j} /\ j \in S
  BY <1>1 DEF RowsWith, RowsOf
<1>3. IsFiniteSet(S) /\ IsFiniteSet(T)
  BY <1>1, <1>2, RowsFinite, FS_Subset
<1>4. \A i \in S : k[i] \in Int
  BY <1>1, <1>2, CartIsInt
<1>5. \A i \in T : k[i] = m[i]
  BY <1>1, <1>2
<1>6. SumFunctionOnSet(k, S) = k[j] + SumFunctionOnSet(k, T)
  BY <1>2, <1>3, <1>4, SumRemove
<1>7. SumFunctionOnSet(k, T) = SumFunctionOnSet(m, T)
  BY <1>3, <1>5, SumSame
<1>8. SumFunctionOnSet(k, T) \in Int
  BY <1>2, <1>3, <1>4, SumIsInt
<1>9. k[j] \in Int /\ k[j] = rows[j].qty
  BY <1>1, <1>2, <1>4
<1> QED BY <1>1, <1>6, <1>7, <1>8, <1>9 DEF InCart

LEMMA CartGains ==
  ASSUME CartTypes, CartTypes', NEW c, NEW g, NEW j, j \notin RowsWith(c, g),
         RowsWith(c, g)' = RowsWith(c, g) \cup {j},
         \A i \in RowsWith(c, g) : rows'[i].qty = rows[i].qty
  PROVE  InCart(c, g)' = InCart(c, g) + rows'[j].qty
<1>1. PICK S, T, k, m : /\ S = RowsWith(c, g) /\ T = RowsWith(c, g)'
                        /\ k = [i \in DOMAIN rows |-> rows[i].qty]
                        /\ m = [i \in DOMAIN rows' |-> rows'[i].qty]
  OBVIOUS
<1>2. S \subseteq DOMAIN rows /\ T \subseteq DOMAIN rows' /\ S = T \ {j} /\ j \in T
  BY <1>1 DEF RowsWith, RowsOf
<1>3. IsFiniteSet(S) /\ IsFiniteSet(T)
  <2>1. IsFiniteSet(S)
    BY <1>1, RowsFinite
  <2>2. T = S \cup {j}
    BY <1>2
  <2> QED BY <2>1, <2>2, FS_AddElement
<1>4. \A i \in T : m[i] \in Int
  <2>1. \A i \in DOMAIN rows' : rows'[i].qty \in Int
    BY DEF CartTypes, TypeOK, Row
  <2> QED BY <1>1, <1>2, <2>1
<1>5. \A i \in S : k[i] = m[i]
  BY <1>1, <1>2
<1>6. SumFunctionOnSet(m, T) = m[j] + SumFunctionOnSet(m, S)
  BY <1>2, <1>3, <1>4, SumRemove
<1>7. SumFunctionOnSet(k, S) = SumFunctionOnSet(m, S)
  BY <1>3, <1>5, SumSame
<1>8. SumFunctionOnSet(m, S) \in Int
  BY <1>2, <1>3, <1>4, SumIsInt
<1>9. m[j] \in Int /\ m[j] = rows'[j].qty
  BY <1>1, <1>2, <1>4
<1> QED BY <1>1, <1>6, <1>7, <1>8, <1>9 DEF InCart

\* An order more.
LEMMA OrderedMore ==
  ASSUME CartTypes, LinesWellMade, NEW o \in Order, orders' = Append(orders, o), WellMade(o.lines),
         NEW c, NEW g
  PROVE  Ordered(c, g)' = Ordered(c, g) + (IF o.cust = c THEN InLines(o.lines, g) ELSE 0)
<1>1. /\ Len(orders) \in Nat /\ DOMAIN orders = 1 .. Len(orders) /\ DOMAIN orders' = 1 .. Len(orders) + 1
      /\ orders'[Len(orders) + 1] = o /\ \A i \in DOMAIN orders : orders'[i] = orders[i]
  BY DEF CartTypes
<1>2. PICK n : n = Len(orders) + 1
  OBVIOUS
<1>3. PICK S, T, k, m : /\ S = OrdersOf(c) /\ T = OrdersOf(c)'
                        /\ k = [i \in DOMAIN orders |-> InLines(orders[i].lines, g)]
                        /\ m = [i \in DOMAIN orders' |-> InLines(orders'[i].lines, g)]
  OBVIOUS
<1>4. Ordered(c, g) = SumFunctionOnSet(k, S) /\ Ordered(c, g)' = SumFunctionOnSet(m, T)
  <2>1. Ordered(c, g) = SumFunctionOnSet(k, S)
    BY <1>3 DEF Ordered
  <2>2. Ordered(c, g)' = SumFunctionOnSet(m, T)
    BY <1>3 DEF Ordered, InLines
  <2> QED BY <2>1, <2>2
<1>5. n \notin S /\ T = S \cup (IF o.cust = c THEN {n} ELSE {}) /\ \A i \in S : k[i] = m[i]
  BY <1>1, <1>2, <1>3 DEF OrdersOf
<1>6. IsFiniteSet(S) /\ IsFiniteSet(T)
  <2>1. IsFiniteSet(DOMAIN orders) /\ IsFiniteSet(DOMAIN orders')
    BY <1>1, FS_Interval
  <2> QED BY <1>3, <2>1, FS_Subset DEF OrdersOf
<1>7. \A i \in S : k[i] \in Int
  <2>1. \A i \in DOMAIN orders : orders[i].lines \in SUBSET Line
    <3>1. \A i \in DOMAIN orders : orders[i] \in Order
      BY DEF CartTypes
    <3> QED BY <3>1 DEF Order
  <2>2. \A i \in DOMAIN orders : InLines(orders[i].lines, g) \in Int
    BY <2>1, InLinesIsInt DEF LinesWellMade
  <2> QED BY <1>3, <2>2 DEF OrdersOf
<1>8. SumFunctionOnSet(k, S) \in Int /\ SumFunctionOnSet(k, S) = SumFunctionOnSet(m, S)
  BY <1>5, <1>6, <1>7, SumIsInt, SumSame
<1>9. CASE o.cust = c
  <2>1. m[n] = InLines(o.lines, g) /\ m[n] \in Int
    <3>1. m[n] = InLines(o.lines, g)
      BY <1>1, <1>2, <1>3
    <3>2. o.lines \in SUBSET Line
      BY DEF Order
    <3> QED BY <3>1, <3>2, InLinesIsInt
  <2>2. \A i \in T : m[i] \in Int
    BY <1>5, <1>7, <1>9, <2>1
  <2>3. n \in T /\ T \ {n} = S
    BY <1>5, <1>9
  <2>4. SumFunctionOnSet(m, T) = m[n] + SumFunctionOnSet(m, S)
    BY <1>6, <2>2, <2>3, SumRemove
  <2> QED BY <1>4, <1>8, <1>9, <2>1, <2>4
<1>10. CASE o.cust # c
  BY <1>4, <1>5, <1>8, <1>10
<1> QED BY <1>9, <1>10

LEMMA OrderedIsInt ==
  ASSUME CartTypes, LinesWellMade, NEW c, NEW g
  PROVE  Ordered(c, g) \in Int
<1>1. PICK S, k : /\ S = OrdersOf(c)
                  /\ k = [i \in DOMAIN orders |-> InLines(orders[i].lines, g)]
  OBVIOUS
<1>2. IsFiniteSet(S)
  <2>1. DOMAIN orders = 1 .. Len(orders) /\ Len(orders) \in Nat
    BY DEF CartTypes
  <2>2. IsFiniteSet(DOMAIN orders)
    BY <2>1, FS_Interval
  <2> QED BY <1>1, <2>2, FS_Subset DEF OrdersOf
<1>3. \A i \in S : k[i] \in Int
  <2>1. \A i \in DOMAIN orders : orders[i].lines \in SUBSET Line
    <3>1. \A i \in DOMAIN orders : orders[i] \in Order
      BY DEF CartTypes
    <3> QED BY <3>1 DEF Order
  <2>2. \A i \in DOMAIN orders : InLines(orders[i].lines, g) \in Int
    BY <2>1, InLinesIsInt DEF LinesWellMade
  <2> QED BY <1>1, <2>2 DEF OrdersOf
<1>4. SumFunctionOnSet(k, S) \in Int
  BY <1>2, <1>3, SumIsInt
<1> QED BY <1>1, <1>4 DEF Ordered

\* The inductive invariant of CartConserved.
ConservedInv == Common /\ LinesWellMade /\ SoleSeesCart /\ CartConserved

\* The customers a step is not of.
LEMMA OthersConserved ==
  ASSUME ConservedInv, NEW r \in Requests, FinishAdd(r) \/ FinishSet(r) \/ SaveOrder(r),
         NEW c \in Customers, c # req[r].cust, NEW g \in Goods, overlapped'[c] = {}
  PROVE  InCart(c, g)' + Ordered(c, g)' = asked'[c][g]
<1> USE DEF ConservedInv, Common
<1>1. overlapped'[c] = overlapped[c] /\ InCart(c, g) + Ordered(c, g) = asked[c][g]
  BY DEF CartConserved, FinishAdd, FinishSet, SaveOrder
<1>2. InCart(c, g)' = InCart(c, g)
  <2>1. RowsOf(c)' = RowsOf(c) /\ \A i \in RowsOf(c) : rows'[i] = rows[i]
    BY OthersRows
  <2>2. RowsWith(c, g)' = RowsWith(c, g) /\ RowsWith(c, g) \subseteq RowsOf(c)
    BY <2>1 DEF RowsWith
  <2> QED BY <2>1, <2>2, CartSame
<1>3. req[r].cust \in Customers /\ asked'[c][g] = asked[c][g]
  <2>1. req[r].cust \in Customers
    BY RequestFields DEF CartTypes, FinishAdd, FinishSet, SaveOrder
  <2>2. CASE FinishAdd(r)
    BY <2>1, <2>2 DEF FinishAdd, CartTypes
  <2>3. CASE FinishSet(r)
    <3>1. asked' = asked \/ \E k, v : asked' = [asked EXCEPT ![req[r].cust][k] = v]
      BY <2>3 DEF FinishSet
    <3> QED BY <2>1, <3>1 DEF CartTypes
  <2>4. CASE SaveOrder(r)
    BY <2>1, <2>4 DEF SaveOrder
  <2> QED BY <2>1, <2>2, <2>3, <2>4
<1>4. Ordered(c, g)' = Ordered(c, g)
  <2>1. CASE orders' = orders
    BY <2>1 DEF Ordered, OrdersOf, InLines
  <2>2. CASE SaveOrder(r)
    <3>1. PICK o : o = [cust |-> req[r].cust, lines |-> req[r].lines, number |-> req[r].number, byHand |-> FALSE,
                                           asOf |-> req[r].asOf]
      OBVIOUS
    <3>2. o \in Order /\ o.cust = req[r].cust /\ o.lines = req[r].lines
      BY <2>2, <3>1, RequestFields DEF Order, SaveOrder, CartTypes, Reads
    <3>3. WellMade(o.lines) /\ orders' = Append(orders, o)
      BY <2>2, <3>1, <3>2 DEF SaveOrder, LinesWellMade, Reads
    <3>4. Ordered(c, g)' = Ordered(c, g) + (IF o.cust = c THEN InLines(o.lines, g) ELSE 0)
      BY <3>2, <3>3, OrderedMore
    <3> QED BY <3>2, <3>4, OrderedIsInt
  <2> QED BY <2>1, <2>2 DEF FinishAdd, FinishSet
<1> QED BY <1>1, <1>2, <1>3, <1>4

\* The customer an addition is of.
LEMMA FinishAddConserved ==
  ASSUME ConservedInv, CartTypes', NEW r \in Requests, FinishAdd(r), NEW c, c = req[r].cust,
         NEW g \in Goods, overlapped'[c] = {}
  PROVE  InCart(c, g)' + Ordered(c, g)' = asked'[c][g]
<1> USE DEF ConservedInv, Common
<1>1. PICK s : s = req[r]
  OBVIOUS
<1>2. /\ s.pc = "add" /\ c \in Customers /\ s.cust = c
      /\ s.good \in Goods /\ s.qty \in Nat /\ s.row \in Nat /\ s.had \in Nat
  BY <1>1, RequestFields DEF FinishAdd, CartTypes
<1>3. InCart(c, g) + Ordered(c, g) = asked[c][g] /\ CartIsRead(s)
  BY <1>1, <1>2 DEF CartConserved, SoleSeesCart, Active, FinishAdd
<1>4. Ordered(c, g)' = Ordered(c, g) /\ Ordered(c, g) \in Int
  <2>1. Ordered(c, g)' = Ordered(c, g)
    BY DEF FinishAdd, Ordered, OrdersOf, InLines
  <2> QED BY <2>1, OrderedIsInt
<1>5. /\ asked[c][g] \in Int
      /\ asked'[c][g] = asked[c][g] + (IF g = s.good THEN s.qty ELSE 0)
  <2>1. asked' = [asked EXCEPT ![c][s.good] = @ + s.qty]
    BY <1>1, <1>2 DEF FinishAdd
  <2>2. asked \in [Customers -> [Goods -> Int]]
    BY DEF CartTypes
  <2> QED BY <1>2, <2>1, <2>2
<1>6. nextRow \in Nat /\ \A i \in DOMAIN rows : i \in Nat /\ i < nextRow /\ i # 0 /\ rows[i] \in Row
  BY CartAssumption DEF CartTypes, TypeOK
<1>7. InCart(c, g)' = InCart(c, g) + (IF g = s.good THEN s.qty ELSE 0)
  <2>1. CASE s.row = 0
    <3>1. PICK n : n = nextRow
      OBVIOUS
    <3>2. rows' = [i \in DOMAIN rows \cup {n} |->
                     IF i = n THEN [cust |-> c, good |-> s.good, qty |-> s.qty] ELSE rows[i]]
      BY <1>1, <1>2, <1>6, <2>1, <3>1 DEF FinishAdd
    <3>3. DOMAIN rows' = DOMAIN rows \cup {n} /\ n \notin DOMAIN rows
      BY <1>6, <3>1, <3>2
    <3>4. rows'[n] = [cust |-> c, good |-> s.good, qty |-> s.qty]
      BY <3>2
    <3>5. rows'[n].cust = c /\ rows'[n].good = s.good /\ rows'[n].qty = s.qty
      BY <3>4
    <3>6. \A i \in DOMAIN rows : rows'[i] = rows[i]
      BY <3>2, <3>3
    <3>7. RowsWith(c, g)' = RowsWith(c, g) \cup (IF g = s.good THEN {n} ELSE {})
      BY <3>3, <3>5, <3>6 DEF RowsWith, RowsOf
    <3>8. RowsWith(c, g) \subseteq DOMAIN rows
      BY DEF RowsWith, RowsOf
    <3>9. \A i \in RowsWith(c, g) : rows'[i].qty = rows[i].qty
      BY <3>6, <3>8
    <3>10. CASE g = s.good
      <4>1. RowsWith(c, g)' = RowsWith(c, g) \cup {n} /\ n \notin RowsWith(c, g)
        BY <3>3, <3>7, <3>8, <3>10
      <4>2. InCart(c, g)' = InCart(c, g) + rows'[n].qty
        BY <3>9, <4>1, CartGains
      <4> QED BY <3>5, <3>10, <4>2
    <3>11. CASE g # s.good
      <4>1. RowsWith(c, g)' = RowsWith(c, g)
        BY <3>7, <3>11
      <4>2. InCart(c, g)' = InCart(c, g)
        BY <3>9, <4>1, CartSame
      <4> QED BY <3>11, <4>2, CartIsInt
    <3> QED BY <3>10, <3>11
  <2>2. CASE s.row # 0
    <3>1. PICK j : j = s.row
      OBVIOUS
    <3>2. j \in RowsWith(c, s.good) /\ rows[j].qty = s.had
      BY <1>2, <1>3, <2>2, <3>1 DEF CartIsRead
    <3>3. j \in DOMAIN rows /\ rows[j].cust = c /\ rows[j].good = s.good /\ rows[j] \in Row
      BY <1>6, <3>2 DEF RowsWith, RowsOf
    <3>4. rows' = [rows EXCEPT ![j].qty = s.had + s.qty]
      BY <1>1, <1>6, <2>2, <3>1 DEF FinishAdd, Increased
    <3>5. rows'[j] = [rows[j] EXCEPT !.qty = s.had + s.qty]
      BY <3>3, <3>4
    <3>6. rows'[j].cust = c /\ rows'[j].good = s.good /\ rows'[j].qty = s.had + s.qty
      BY <3>3, <3>5 DEF Row
    <3>7. DOMAIN rows' = DOMAIN rows /\ \A i \in DOMAIN rows \ {j} : rows'[i] = rows[i]
      BY <3>4
    <3>8. RowsWith(c, g)' = RowsWith(c, g)
      BY <3>3, <3>6, <3>7 DEF RowsWith, RowsOf
    <3>9. \A i \in RowsWith(c, g) \ {j} : rows'[i].qty = rows[i].qty
      BY <3>7 DEF RowsWith, RowsOf
    <3>10. CASE g = s.good
      <4>1. j \in RowsWith(c, g)
        BY <3>2, <3>10
      <4>2. InCart(c, g)' = InCart(c, g) + rows'[j].qty - rows[j].qty
        BY <3>8, <3>9, <4>1, CartChange
      <4>3. InCart(c, g) \in Int
        BY CartIsInt
      <4> QED BY <1>2, <3>2, <3>6, <3>10, <4>2, <4>3
    <3>11. CASE g # s.good
      <4>1. j \notin RowsWith(c, g)
        BY <3>3, <3>11 DEF RowsWith
      <4>2. \A i \in RowsWith(c, g) : rows'[i].qty = rows[i].qty
        BY <3>9, <4>1
      <4>3. InCart(c, g)' = InCart(c, g)
        BY <3>8, <4>2, CartSame
      <4> QED BY <3>11, <4>3, CartIsInt
    <3> QED BY <3>10, <3>11
  <2> QED BY <2>1, <2>2
<1>8. InCart(c, g) \in Int
  BY CartIsInt
<1> QED BY <1>2, <1>3, <1>4, <1>5, <1>7, <1>8

\* The customer a change of a quantity is of.
LEMMA FinishSetConserved ==
  ASSUME ConservedInv, CartTypes', NEW r \in Requests, FinishSet(r), NEW c, c = req[r].cust,
         NEW g \in Goods, overlapped'[c] = {}
  PROVE  InCart(c, g)' + Ordered(c, g)' = asked'[c][g]
<1> USE DEF ConservedInv, Common
<1>1. PICK s : s = req[r]
  OBVIOUS
<1>2. /\ s.pc = "set" /\ c \in Customers /\ s.cust = c
      /\ s.row \in Nat /\ s.qty \in Nat /\ s.had \in Nat
  BY <1>1, RequestFields DEF FinishSet, CartTypes
<1>3. InCart(c, g) + Ordered(c, g) = asked[c][g]
  BY <1>1, <1>2 DEF CartConserved, FinishSet
<1>4. Ordered(c, g)' = Ordered(c, g) /\ Ordered(c, g) \in Int
  <2>1. Ordered(c, g)' = Ordered(c, g)
    BY DEF FinishSet, Ordered, OrdersOf, InLines
  <2> QED BY <2>1, OrderedIsInt
<1>5. asked \in [Customers -> [Goods -> Int]] /\ asked[c][g] \in Int /\ InCart(c, g) \in Int
  BY <1>2, CartIsInt DEF CartTypes
<1>6. \A i \in DOMAIN rows : rows[i] \in Row
  BY DEF CartTypes, TypeOK
<1>7. PICK j : j = s.row
  OBVIOUS
<1>8. CASE rows' = rows
  <2>1. asked' = asked
    BY <1>8 DEF FinishSet
  <2>2. InCart(c, g)' = InCart(c, g)
    BY <1>8 DEF InCart, RowsWith, RowsOf
  <2> QED BY <1>3, <1>4, <2>1, <2>2
<1>9. CASE rows' # rows /\ j \notin DOMAIN rows
  <2>1. asked' = asked
    BY <1>1, <1>7, <1>9 DEF FinishSet
  <2>2. rows' = [i \in DOMAIN rows \ {j} |-> rows[i]]
    BY <1>1, <1>7, <1>9 DEF FinishSet
  <2>3. RowsWith(c, g)' = RowsWith(c, g) /\ \A i \in RowsWith(c, g) : rows'[i].qty = rows[i].qty
    BY <1>9, <2>2 DEF RowsWith, RowsOf
  <2>4. InCart(c, g)' = InCart(c, g)
    BY <2>3, CartSame
  <2> QED BY <1>3, <1>4, <2>1, <2>4
<1>10. CASE rows' # rows /\ j \in DOMAIN rows
  <2>1. rows[j].cust = c /\ rows[j] \in Row
    <3>1. j # 0
      BY <1>10, CartAssumption DEF CartTypes, TypeOK
    <3>2. j \in NamedRows(req[r])
      BY <1>1, <1>2, <1>7, <3>1 DEF NamedRows
    <3> QED BY <1>1, <1>2, <1>6, <1>7, <1>10, <3>2 DEF RowsAreOwn
  <2>2. rows[j].good \in Goods /\ rows[j].qty \in Nat
    BY <2>1 DEF Row
  <2>3. asked'[c][g] = asked[c][g] + (IF g = rows[j].good THEN s.qty - rows[j].qty ELSE 0)
    <3>1. asked' = [asked EXCEPT ![c][rows[j].good] = @ + s.qty - rows[j].qty]
      BY <1>1, <1>2, <1>7, <1>10 DEF FinishSet
    <3> QED BY <1>2, <1>5, <2>2, <3>1
  <2>4. CASE g # rows[j].good
    <3>1. j \notin RowsWith(c, g)
      BY <2>4 DEF RowsWith
    <3>2. RowsWith(c, g)' = RowsWith(c, g) /\ \A i \in RowsWith(c, g) : rows'[i].qty = rows[i].qty
      <4>1. CASE rows' = [i \in DOMAIN rows \ {j} |-> rows[i]]
        BY <3>1, <4>1 DEF RowsWith, RowsOf
      <4>2. CASE rows' = [rows EXCEPT ![j].qty = s.qty]
        <5>1. rows'[j] = [rows[j] EXCEPT !.qty = s.qty]
          BY <1>10, <4>2
        <5>2. rows'[j].cust = c /\ rows'[j].good = rows[j].good
          BY <2>1, <5>1 DEF Row
        <5>3. DOMAIN rows' = DOMAIN rows /\ \A i \in DOMAIN rows \ {j} : rows'[i] = rows[i]
          BY <4>2
        <5> QED BY <2>4, <3>1, <5>2, <5>3 DEF RowsWith, RowsOf
      <4> QED BY <1>1, <1>7, <1>10, <4>1, <4>2 DEF FinishSet
    <3>3. InCart(c, g)' = InCart(c, g)
      BY <3>2, CartSame
    <3> QED BY <1>3, <1>4, <1>5, <2>3, <2>4, <3>3
  <2>5. CASE g = rows[j].good /\ rows' = [i \in DOMAIN rows \ {j} |-> rows[i]] /\ s.qty = 0
    <3>1. j \in RowsWith(c, g) /\ RowsWith(c, g)' = RowsWith(c, g) \ {j}
      BY <1>10, <2>1, <2>5 DEF RowsWith, RowsOf
    <3>2. \A i \in RowsWith(c, g) \ {j} : rows'[i].qty = rows[i].qty
      BY <2>5 DEF RowsWith, RowsOf
    <3>3. InCart(c, g)' = InCart(c, g) - rows[j].qty
      BY <3>1, <3>2, CartLoses
    <3> QED BY <1>3, <1>4, <1>5, <2>2, <2>3, <2>5, <3>3
  <2>6. CASE g = rows[j].good /\ rows' = [rows EXCEPT ![j].qty = s.qty]
    <3>1. rows'[j] = [rows[j] EXCEPT !.qty = s.qty]
      BY <1>10, <2>6
    <3>2. rows'[j].cust = c /\ rows'[j].good = g /\ rows'[j].qty = s.qty
      BY <2>1, <2>6, <3>1 DEF Row
    <3>3. DOMAIN rows' = DOMAIN rows /\ \A i \in DOMAIN rows \ {j} : rows'[i] = rows[i]
      BY <2>6
    <3>4. j \in RowsWith(c, g) /\ RowsWith(c, g)' = RowsWith(c, g)
      BY <1>10, <2>1, <2>6, <3>2, <3>3 DEF RowsWith, RowsOf
    <3>5. \A i \in RowsWith(c, g) \ {j} : rows'[i].qty = rows[i].qty
      BY <3>3 DEF RowsWith, RowsOf
    <3>6. InCart(c, g)' = InCart(c, g) + rows'[j].qty - rows[j].qty
      BY <3>4, <3>5, CartChange
    <3> QED BY <1>2, <1>3, <1>4, <1>5, <2>2, <2>3, <2>6, <3>2, <3>6
  <2> QED BY <1>1, <1>7, <1>10, <2>4, <2>5, <2>6 DEF FinishSet
<1> QED BY <1>8, <1>9, <1>10

\* The customer a checkout is of.
LEMMA SaveOrderConserved ==
  ASSUME ConservedInv, NEW r \in Requests, SaveOrder(r), NEW c, c = req[r].cust,
         NEW g \in Goods, overlapped'[c] = {}
  PROVE  InCart(c, g)' + Ordered(c, g)' = asked'[c][g]
<1> USE DEF ConservedInv, Common
<1>1. PICK s : s = req[r]
  OBVIOUS
<1>2. /\ s.pc = "save" /\ c \in Customers /\ s.cust = c /\ s.lines \in SUBSET Line /\ s.asOf \in Nat
      /\ s.number \in DocNumber /\ WellMade(s.lines)
  BY <1>1, RequestFields DEF SaveOrder, CartTypes, Reads, LinesWellMade
<1>3. InCart(c, g) + Ordered(c, g) = asked[c][g] /\ CartIsRead(s) /\ asked' = asked
  BY <1>1, <1>2 DEF CartConserved, SoleSeesCart, Active, SaveOrder
<1>4. /\ s.dead = RowsOf(c) /\ RowsOf(c) = {l.row : l \in s.lines}
      /\ \A l \in s.lines : rows[l.row].good = l.good /\ rows[l.row].qty = l.qty
  BY <1>2, <1>3 DEF CartIsRead, Reads
<1>5. InLines(s.lines, g) = InCart(c, g)
  BY <1>2, <1>4, LinesHoldCart
<1>6. Ordered(c, g)' = Ordered(c, g) + InLines(s.lines, g)
  <2>1. PICK o : o = [cust |-> c, lines |-> s.lines, number |-> s.number, byHand |-> FALSE,
                                           asOf |-> s.asOf]
    OBVIOUS
  <2>2. o \in Order /\ o.cust = c /\ o.lines = s.lines
    BY <1>2, <2>1 DEF Order
  <2>3. orders' = Append(orders, o) /\ WellMade(o.lines)
    BY <1>1, <1>2, <2>1, <2>2 DEF SaveOrder
  <2>4. Ordered(c, g)' = Ordered(c, g) + (IF o.cust = c THEN InLines(o.lines, g) ELSE 0)
    BY <2>2, <2>3, OrderedMore
  <2> QED BY <2>2, <2>4
<1>7. InCart(c, g)' = 0
  <2>1. rows' = [i \in DOMAIN rows \ s.dead |-> rows[i]]
    BY <1>1 DEF SaveOrder
  <2>2. RowsWith(c, g)' = {}
    BY <1>4, <2>1 DEF RowsWith, RowsOf
  <2>3. PICK k : k = [i \in DOMAIN rows' |-> rows'[i].qty]
    OBVIOUS
  <2>4. InCart(c, g)' = SumFunctionOnSet(k, {})
    BY <2>2, <2>3 DEF InCart
  <2> QED BY <2>4, SumOfNone
<1>8. InCart(c, g) \in Int /\ Ordered(c, g) \in Int
  BY CartIsInt, OrderedIsInt
<1> QED BY <1>3, <1>5, <1>6, <1>7, <1>8

\* Every step moves as much as it says.
LEMMA CartConservedNext ==
  ASSUME ConservedInv, [Next]_vars
  PROVE  CartConserved'
<1> USE DEF ConservedInv, Common
<1>1. CartTypes' /\ \A c \in Customers : overlapped[c] \subseteq overlapped'[c]
  BY TypesNext, OverlapsNext
<1> SUFFICES ASSUME NEW c \in Customers, NEW g \in Goods, overlapped'[c] = {}
             PROVE  InCart(c, g)' + Ordered(c, g)' = asked'[c][g]
  BY DEF CartConserved
<1>2. InCart(c, g) + Ordered(c, g) = asked[c][g]
  BY <1>1 DEF CartConserved
<1>3. CASE UNCHANGED <<rows, orders, asked>>
  BY <1>2, <1>3 DEF InCart, Ordered, OrdersOf, InLines, RowsWith, RowsOf
<1>4. ASSUME NEW r \in Requests, FinishAdd(r) \/ FinishSet(r) \/ SaveOrder(r)
      PROVE  InCart(c, g)' + Ordered(c, g)' = asked'[c][g]
  <2>1. CASE c # req[r].cust
    BY <1>4, <2>1, OthersConserved
  <2>2. CASE c = req[r].cust
    BY <1>1, <1>4, <2>2, FinishAddConserved, FinishSetConserved, SaveOrderConserved
  <2> QED BY <2>1, <2>2
<1>5. ASSUME NEW number \in Custom \cup {NextNumber(prefix, Numbers)}, NEW byHand \in BOOLEAN,
             ZakazCreate(number, byHand), UNCHANGED <<rows, asked>>,
             orders' = Append(orders, [cust |-> NoOne, lines |-> {}, number |-> number, byHand |-> byHand,
                                              asOf |-> edits])
      PROVE  InCart(c, g)' + Ordered(c, g)' = asked'[c][g]
  <2>1. PICK o : o = [cust |-> NoOne, lines |-> {}, number |-> number, byHand |-> byHand,
                                              asOf |-> edits]
    OBVIOUS
  <2>2. number \in DocNumber
    <3>1. prefix \in PrefixIB
      BY DEF CartTypes, TypeOK
    <3>2. NextNumber(prefix, Numbers) \in DocNumber
      BY <3>1, NumbersFinite, NextNumberFollows
    <3> QED BY <3>2, CartAssumption
  <2>3. o \in Order /\ o.cust # c /\ o.lines = {}
    BY <2>1, <2>2, CartAssumption DEF Order, CartTypes
  <2>4. WellMade(o.lines)
    BY <2>3, FS_EmptySet DEF WellMade
  <2>5. Ordered(c, g)' = Ordered(c, g) + (IF o.cust = c THEN InLines(o.lines, g) ELSE 0)
    <3>1. orders' = Append(orders, o)
      BY <1>5, <2>1
    <3> QED BY <2>3, <2>4, <3>1, OrderedMore
  <2>6. Ordered(c, g)' = Ordered(c, g)
    BY <2>3, <2>5, OrderedIsInt
  <2>7. InCart(c, g)' = InCart(c, g) /\ asked' = asked
    BY <1>5 DEF InCart, RowsWith, RowsOf
  <2> QED BY <1>2, <2>6, <2>7
<1> QED BY <1>3, <1>4, <1>5, CartsStep

\* What a customer puts into a cart is in it or in an order, neither lost nor ordered
\* twice, as long as no two requests of the customer overlapped (add_to_cart,
\* set_cart_quantity and checkout, each of which reads before it writes).
THEOREM CartsAreConserved == Spec => []CartConserved
<1>1. Init => ConservedInv
  <2> SUFFICES ASSUME Init PROVE ConservedInv
    OBVIOUS
  <2>1. Common /\ \A r \in Requests : req[r] = Idle /\ Idle.pc = "idle"
    BY CommonInit DEF Init, Idle
  <2>2. SoleSeesCart
    BY <2>1 DEF SoleSeesCart, Active
  <2>3. DOMAIN orders = {1} /\ orders[1].lines = {} /\ orders[1].cust = NoOne /\ rows = <<>>
    BY DEF Init
  <2>4. LinesWellMade
    BY <2>1, <2>3, FS_EmptySet DEF LinesWellMade, WellMade, Reads
  <2>5. ASSUME NEW c \in Customers, NEW g \in Goods
        PROVE  InCart(c, g) + Ordered(c, g) = asked[c][g]
    <3>1. RowsWith(c, g) = {} /\ OrdersOf(c) = {}
      BY <2>3, CartAssumption DEF RowsWith, RowsOf, OrdersOf
    <3>2. PICK k, m : /\ k = [i \in DOMAIN rows |-> rows[i].qty]
                      /\ m = [i \in DOMAIN orders |-> InLines(orders[i].lines, g)]
      OBVIOUS
    <3>3. InCart(c, g) = SumFunctionOnSet(k, {}) /\ Ordered(c, g) = SumFunctionOnSet(m, {})
      BY <3>1, <3>2 DEF InCart, Ordered
    <3>4. asked[c][g] = 0
      BY DEF Init
    <3> QED BY <3>3, <3>4, SumOfNone
  <2> QED BY <2>1, <2>2, <2>4, <2>5 DEF ConservedInv, CartConserved
<1>2. ConservedInv /\ [Next]_vars => ConservedInv'
  BY CommonNext, LinesWellMadeNext, SoleSeesCartNext, CartConservedNext DEF ConservedInv, Common
<1>3. ConservedInv => CartConserved
  BY DEF ConservedInv
<1> QED BY <1>1, <1>2, <1>3, PTL DEF Spec

-----------------------------------------------------------------------------
(***************************************************************************)
(* The accounts of customers, beside the carts.  What a request remembers  *)
(* of the tables stays true of them as they change (OrderKnows,            *)
(* EntryKnows), and a number that only orders by telephone touched is      *)
(* nobody's or has one account and one kontragent (NumberFits).            *)
(***************************************************************************)

\* The steps of an order by telephone.
Ordering == {"kontragent", "code", "create", "link", "order"}

\* k is a kontragent with the number d.
Numbered(kon, k, d) == k \in DOMAIN kon /\ kon[k] \in Variants(d)

\* What is true of the account and the kontragent that an order remembers,
\* while they are there: an id is not used again.
OrderKnows(s, acc, next, kon) ==
  s.pc \in Ordering =>
    /\ s.account < next
    /\ s.account \in DOMAIN acc => acc[s.account].phone \in Variants(s.phone)
    /\ s.account \in DOMAIN acc /\ (s.pc = "order" \/ s.linked # 0) => acc[s.account].kontragent # 0
    /\ s.pc \in {"code", "create"} => s.kontragent = 0
    /\ s.pc \in {"link", "order"} => Numbered(kon, s.kontragent, s.phone)
    /\ s.pc = "order" => s.account # 0

\* The same of an entry.
EntryKnows(s, acc, next) ==
  s.pc = "bind" =>
    /\ s.account < next
    /\ s.account \in DOMAIN acc => acc[s.account].phone = Synthetic(s.user)

\* An account is linked to a kontragent of its own number.
LinksFit(acc, kon) ==
  \A a \in DOMAIN acc : acc[a].kontragent # 0 => Numbered(kon, acc[a].kontragent, acc[a].phone.of)

\* An order is of the number it was made for.
OrderFits(o, acc, next, kon) ==
  /\ o.account < next
  /\ Numbered(kon, o.kontragent, o.phone)
  /\ o.account \in DOMAIN acc => acc[o.account].phone \in Variants(o.phone) /\ acc[o.account].kontragent # 0

\* Users are bound to accounts of their own, and let in to those.
EntriesFit ==
  /\ \A u \in DOMAIN bindings : bindings[u] \in DOMAIN accounts /\ accounts[bindings[u]].phone = Synthetic(u)
  /\ \A e \in entries : e.user \in DOMAIN bindings /\ e.account = bindings[e.user]

\* Nobody has the number d, and an order for it is to create everything.
FreeTables(d, acc, kon) ==
  /\ \A b \in DOMAIN acc : acc[b].phone.of # d
  /\ \A l \in DOMAIN kon : kon[l].of # d
AsksNew(d, s) == s.pc \in Ordering /\ s.phone = d => s.account = 0 /\ s.pc \in {"kontragent", "code", "create"}
NumberFree(d) ==
  /\ FreeTables(d, accounts, kontragenty)
  /\ \A i \in DOMAIN phoneOrders : phoneOrders[i].phone # d
  /\ \A r \in AccountRequests : AsksNew(d, accountReq[r])

\* One account and one kontragent have it, linked to one another; an order for
\* it has found both, or began too early and is to fail.
TakenTables(d, a, k, acc, kon) ==
  /\ a \in DOMAIN acc /\ acc[a] = [phone |-> Plain(d), kontragent |-> k]
  /\ \A b \in DOMAIN acc \ {a} : acc[b].phone.of # d
  /\ k \in DOMAIN kon /\ kon[k] = Plain(d)
  /\ \A l \in DOMAIN kon \ {k} : kon[l].of # d
AsksTaken(d, a, k, s) ==
  s.pc \in Ordering /\ s.phone = d =>
    \/ s.account = 0 /\ s.pc # "order"
    \/ s.account = a /\ s.pc = "kontragent" /\ s.linked = k
    \/ s.account = a /\ s.pc = "link" /\ s.linked = k /\ s.kontragent = k
    \/ s.account = a /\ s.pc = "order" /\ s.kontragent = k
NumberTaken(d, a, k) ==
  /\ TakenTables(d, a, k, accounts, kontragenty)
  /\ \A i \in DOMAIN phoneOrders :
       phoneOrders[i].phone = d => phoneOrders[i].account = a /\ phoneOrders[i].kontragent = k
  /\ \A r \in AccountRequests : AsksTaken(d, a, k, accountReq[r])

\* Nobody has the number, or one account and one kontragent.
NumberFits(d) == NumberFree(d) \/ \E a \in DOMAIN accounts, k \in DOMAIN kontragenty : NumberTaken(d, a, k)

\* What every step keeps.
AccountsInv ==
  /\ AccountsTypeOK
  /\ \A r \in AccountRequests :
       /\ OrderKnows(accountReq[r], accounts, nextAccount, kontragenty)
       /\ EntryKnows(accountReq[r], accounts, nextAccount)
  /\ LinksFit(accounts, kontragenty)
  /\ \A i \in DOMAIN phoneOrders : OrderFits(phoneOrders[i], accounts, nextAccount, kontragenty)
  /\ EntriesFit
  /\ \A d \in Phones \ touched : NumberFits(d)

\* What a request holds by where it is.
LEMMA AccountRequestFields ==
  ASSUME NEW s \in AccountRequestState
  PROVE  /\ s.pc \in {"idle", "register", "account", "bind"} \cup Ordering
         /\ s.pc = "idle" => s = AccountIdle
         /\ s.pc = "register" => s.phone \in Phone
         /\ s.pc \in Ordering => s.phone \in Phones /\ s.account \in Nat
         /\ s.pc \in Ordering \ {"order"} => s.linked \in Nat
         /\ s.pc \in Ordering \ {"kontragent"} => s.kontragent \in Nat
         /\ s.pc \in {"account", "bind"} => s.user \in Users
         /\ s.pc = "bind" => s.account \in Nat
<1>1. CASE s = AccountIdle
  BY <1>1 DEF AccountIdle, Ordering
<1>2. CASE s \in [pc : {"register"}, phone : Phone]
  BY <1>2 DEF Ordering
<1>3. CASE s \in [pc : {"kontragent"}, phone : Phones, account : Nat, linked : Nat]
  BY <1>3 DEF Ordering
<1>4. CASE s \in [pc : {"code", "create", "link"}, phone : Phones, account : Nat, linked : Nat,
                  kontragent : Nat]
  BY <1>4 DEF Ordering
<1>5. CASE s \in [pc : {"order"}, phone : Phones, account : Nat, kontragent : Nat]
  BY <1>5 DEF Ordering
<1>6. CASE s \in [pc : {"account"}, user : Users] \cup [pc : {"bind"}, user : Users, account : Nat]
  BY <1>6 DEF Ordering
<1> QED BY <1>1, <1>2, <1>3, <1>4, <1>5, <1>6 DEF AccountRequestState

\* A search finds one of the rows, or nothing among none.
LEMMA FoundIsHit ==
  ASSUME NEW S, NEW f, NEW rows0, rows0 = [x \in S |-> f[x]], NEW x \in Found(rows0)
  PROVE  (S = {} /\ x = 0) \/ x \in S
<1>1. CASE S = {}
  <2>1. rows0 = <<>>
    BY <1>1
  <2> QED BY <1>1, <2>1 DEF Found
<1>2. CASE S # {}
  <2>1. rows0 # <<>>
    BY <1>2
  <2> QED BY <1>2, <2>1 DEF Found, Hits
<1> QED BY <1>1, <1>2

\* So do the search for the account of a number,
LEMMA AccountFound ==
  ASSUME NEW d, NEW a \in Found(AccountRows(d))
  PROVE  \/ AccountsOf(Variants(d)) = {} /\ a = 0
         \/ a \in AccountsOf(Variants(d))
<1>1. PICK S, f : S = AccountsOf(Variants(d)) /\ f = [b \in S |-> accounts[b].phone]
  OBVIOUS
<1>2. AccountRows(d) = [b \in S |-> f[b]]
  BY <1>1 DEF AccountRows
<1> QED BY <1>1, <1>2, FoundIsHit

\* the search for its kontragent,
LEMMA KontragentFound ==
  ASSUME NEW d, NEW k \in Found(KontragentRows(d))
  PROVE  \/ KontragentyOf(Variants(d)) = {} /\ k = 0
         \/ k \in KontragentyOf(Variants(d))
<1>1. PICK S, f : S = KontragentyOf(Variants(d)) /\ f = [b \in S |-> kontragenty[b]]
  OBVIOUS
<1>2. KontragentRows(d) = [b \in S |-> f[b]]
  BY <1>1 DEF KontragentRows
<1> QED BY <1>1, <1>2, FoundIsHit

\* and the search for the account of a user.
LEMMA SyntheticFound ==
  ASSUME NEW u, NEW a \in Found([b \in AccountsOf({Synthetic(u)}) |-> accounts[b].phone])
  PROVE  a = 0 \/ a \in AccountsOf({Synthetic(u)})
<1>1. PICK S, f, R : /\ S = AccountsOf({Synthetic(u)})
                     /\ f = [b \in S |-> accounts[b].phone]
                     /\ R = [b \in AccountsOf({Synthetic(u)}) |-> accounts[b].phone]
  OBVIOUS
<1>2. R = [b \in S |-> f[b]] /\ a \in Found(R)
  BY <1>1
<1>3. (S = {} /\ a = 0) \/ a \in S
  BY <1>2, FoundIsHit
<1> QED BY <1>1, <1>3

\* What every step does to the tables: an account keeps its number, and a
\* kontragent once it has one; its id is not used again; a kontragent stays.
Grows ==
  /\ nextAccount' >= nextAccount
  /\ \A a \in DOMAIN accounts' :
       IF a \in DOMAIN accounts
       THEN /\ accounts'[a].phone = accounts[a].phone
            /\ accounts[a].kontragent # 0 => accounts'[a].kontragent # 0
       ELSE a = nextAccount /\ nextAccount' = nextAccount + 1
  /\ DOMAIN kontragenty \subseteq DOMAIN kontragenty'
  /\ \A k \in DOMAIN kontragenty : kontragenty'[k] = kontragenty[k]

\* The types at first.
LEMMA AccountTypesInit == AccountsAssumption /\ AccountsInit => AccountsTypeOK
<1> SUFFICES ASSUME AccountsAssumption, AccountsInit PROVE AccountsTypeOK
  OBVIOUS
<1>1. AccountIdle \in AccountRequestState
  BY DEF AccountRequestState
<1>2. accountReq \in [AccountRequests -> AccountRequestState]
  BY <1>1 DEF AccountsInit
<1>3. /\ DOMAIN accounts = {} /\ DOMAIN bindings = {} /\ kontragenty \in Seq(Typed) /\ Len(kontragenty) = 0
      /\ phoneOrders \in Seq(PhoneOrder) /\ Len(phoneOrders) = 0
  BY DEF AccountsInit
<1> QED BY <1>2, <1>3 DEF AccountsInit, AccountsTypeOK, AccountsAssumption

\* A request goes on as s.
LEMMA BecomeTypes ==
  ASSUME AccountsTypeOK, NEW r \in AccountRequests, NEW s \in AccountRequestState, Become(r, s)
  PROVE  accountReq' \in [AccountRequests -> AccountRequestState] /\ accountBegun' \in 0 .. MaxAccountRequests
BY DEF AccountsTypeOK, Become

\* A request begins as s.
LEMMA BeginTypesOfAccounts ==
  ASSUME AccountsAssumption, AccountsTypeOK, NEW r \in AccountRequests, NEW s \in AccountRequestState,
         BeginRequest(r, s)
  PROVE  accountReq' \in [AccountRequests -> AccountRequestState] /\ accountBegun' \in 0 .. MaxAccountRequests
BY DEF AccountsAssumption, AccountsTypeOK, BeginRequest

\* An account is inserted.
LEMMA InsertTypes ==
  ASSUME AccountsAssumption, AccountsTypeOK, NEW phone \in Login, NEW k \in Nat, InsertAccount(phone, k)
  PROVE  /\ nextAccount' \in 1 .. MaxAccounts + 1
         /\ DOMAIN accounts' \subseteq 1 .. nextAccount' - 1
         /\ \A a \in DOMAIN accounts' : accounts'[a] \in Account
         /\ nextAccount \notin DOMAIN accounts /\ DOMAIN accounts' = DOMAIN accounts \cup {nextAccount}
         /\ accounts'[nextAccount] = [phone |-> phone, kontragent |-> k]
         /\ \A a \in DOMAIN accounts : accounts'[a] = accounts[a]
<1>1. nextAccount \in Nat /\ MaxAccounts \in Nat /\ nextAccount' = nextAccount + 1
  BY DEF AccountsAssumption, AccountsTypeOK, InsertAccount
<1>2. nextAccount \notin DOMAIN accounts
  BY <1>1 DEF AccountsTypeOK
<1>3. accounts' = [a \in DOMAIN accounts \cup {nextAccount} |->
                     IF a = nextAccount THEN [phone |-> phone, kontragent |-> k] ELSE accounts[a]]
  BY DEF InsertAccount
<1>4. /\ DOMAIN accounts' = DOMAIN accounts \cup {nextAccount}
      /\ accounts'[nextAccount] = [phone |-> phone, kontragent |-> k]
      /\ \A a \in DOMAIN accounts : accounts'[a] = accounts[a]
  BY <1>2, <1>3
<1>5. [phone |-> phone, kontragent |-> k] \in Account
  BY DEF Account
<1>6. nextAccount' \in 1 .. MaxAccounts + 1
  BY <1>1 DEF AccountsTypeOK, InsertAccount
<1>7. DOMAIN accounts' \subseteq 1 .. nextAccount' - 1
  BY <1>1, <1>4 DEF AccountsTypeOK
<1> QED BY <1>2, <1>4, <1>5, <1>6, <1>7 DEF AccountsTypeOK

\* The rest of the state, which most steps leave alone.
LEMMA SameTables ==
  ASSUME AccountsTypeOK, UNCHANGED <<accounts, nextAccount, kontragenty, bindings>>
  PROVE  Grows
BY DEF AccountsTypeOK, Grows

\* The steps that change no table keep the types.
LEMMA QuietTypes ==
  ASSUME AccountsAssumption, AccountsTypeOK, NEW r \in AccountRequests,
         \/ FailAccountRequest(r) \/ FindKontragent(r) \/ NextCode(r) \/ FindSynthetic(r)
         \/ \E phone \in Phone : BeginRegister(r, phone)
         \/ \E d \in Phones : BeginOrder(r, d)
  PROVE  AccountsTypeOK' /\ Grows
<1> DEFINE s == accountReq[r]
<1>1. s \in AccountRequestState /\ AccountIdle \in AccountRequestState
  BY DEF AccountsTypeOK, AccountRequestState
<1>2. CASE FailAccountRequest(r)
  <2>1. codeLock' \in AccountRequests \cup {Nobody}
    BY <1>2 DEF FailAccountRequest, AccountsTypeOK
  <2>2. Become(r, AccountIdle)
    BY <1>2 DEF FailAccountRequest
  <2> QED BY <1>1, <1>2, <2>1, <2>2, BecomeTypes, SameTables DEF FailAccountRequest, AccountsTypeOK
<1>3. CASE FindKontragent(r)
  <2>1. PICK k \in Found(KontragentRows(s.phone)) :
               Become(r, [pc |-> IF k = 0 THEN "code" ELSE "link", phone |-> s.phone,
                          account |-> s.account, linked |-> s.linked, kontragent |-> k])
    BY <1>3 DEF FindKontragent
  <2>2. k \in Nat
    BY KontragentFound DEF KontragentyOf, AccountsTypeOK
  <2>3. PICK t : /\ t = [pc |-> IF k = 0 THEN "code" ELSE "link", phone |-> s.phone,
                         account |-> s.account, linked |-> s.linked, kontragent |-> k]
                 /\ Become(r, t)
    BY <2>1
  <2>4. s.phone \in Phones /\ s.account \in Nat /\ s.linked \in Nat
    BY <1>1, <1>3, AccountRequestFields DEF FindKontragent, Ordering
  <2>5. t \in AccountRequestState
    BY <2>2, <2>3, <2>4 DEF AccountRequestState
  <2> QED BY <1>3, <2>3, <2>5, BecomeTypes, SameTables DEF FindKontragent, AccountsTypeOK
<1>4. CASE NextCode(r)
  <2>1. PICK t : t = [s EXCEPT !.pc = "create"] /\ Become(r, t)
    BY <1>4 DEF NextCode
  <2>2. t \in AccountRequestState
    <3>1. s \in [pc : {"code", "create", "link"}, phone : Phones, account : Nat, linked : Nat,
                 kontragent : Nat]
      BY <1>1, <1>4 DEF NextCode, AccountRequestState, AccountIdle
    <3> QED BY <2>1, <3>1 DEF AccountRequestState
  <2> QED BY <1>4, <2>1, <2>2, BecomeTypes, SameTables DEF NextCode, AccountsTypeOK
<1>5. CASE FindSynthetic(r)
  <2>1. PICK a \in Found([b \in AccountsOf({Synthetic(s.user)}) |-> accounts[b].phone]) :
               Become(r, [pc |-> "bind", user |-> s.user, account |-> a])
    BY <1>5 DEF FindSynthetic
  <2>2. a \in Nat
    <3>1. a = 0 \/ a \in AccountsOf({Synthetic(s.user)})
      BY SyntheticFound
    <3> QED BY <3>1 DEF AccountsOf, AccountsTypeOK
  <2>3. PICK t : t = [pc |-> "bind", user |-> s.user, account |-> a] /\ Become(r, t)
    BY <2>1
  <2>4. t \in AccountRequestState
    BY <1>1, <1>5, <2>2, <2>3, AccountRequestFields DEF FindSynthetic, AccountRequestState
  <2> QED BY <1>5, <2>3, <2>4, BecomeTypes, SameTables DEF FindSynthetic, AccountsTypeOK
<1>6. CASE \E phone \in Phone : BeginRegister(r, phone)
  <2>1. PICK phone \in Phone : BeginRegister(r, phone)
    BY <1>6
  <2>2. PICK t : t = [pc |-> "register", phone |-> phone] /\ BeginRequest(r, t)
    BY <2>1 DEF BeginRegister
  <2>3. t \in AccountRequestState
    BY <2>2 DEF AccountRequestState
  <2> QED BY <2>1, <2>2, <2>3, BeginTypesOfAccounts, SameTables DEF BeginRegister, AccountsTypeOK
<1>7. CASE \E d \in Phones : BeginOrder(r, d)
  <2>1. PICK d \in Phones : BeginOrder(r, d)
    BY <1>7
  <2>2. PICK a \in Found(AccountRows(d)) :
               BeginRequest(r, [pc |-> "kontragent", phone |-> d, account |-> a,
                         linked |-> IF a = 0 THEN 0 ELSE accounts[a].kontragent])
    BY <2>1 DEF BeginOrder
  <2>3. a = 0 \/ a \in DOMAIN accounts
    BY AccountFound DEF AccountsOf
  <2>4. a \in Nat /\ (a # 0 => accounts[a].kontragent \in Nat)
    BY <2>3 DEF AccountsTypeOK, Account
  <2>5. PICK t : /\ t = [pc |-> "kontragent", phone |-> d, account |-> a,
                         linked |-> IF a = 0 THEN 0 ELSE accounts[a].kontragent]
                 /\ BeginRequest(r, t)
    BY <2>2
  <2>6. t \in AccountRequestState
    BY <2>4, <2>5 DEF AccountRequestState
  <2> QED BY <2>1, <2>5, <2>6, BeginTypesOfAccounts, SameTables DEF BeginOrder, AccountsTypeOK
<1> QED BY <1>2, <1>3, <1>4, <1>5, <1>6, <1>7

\* The tables a step leaves alone.
LEMMA SameTypes ==
  ASSUME AccountsTypeOK, UNCHANGED <<kontragenty, phoneOrders>>
  PROVE  kontragenty' \in Seq(Typed) /\ phoneOrders' \in Seq(PhoneOrder)
BY DEF AccountsTypeOK

\* The insert of a registration keeps them.
LEMMA FinishRegisterTypes ==
  ASSUME AccountsAssumption, AccountsTypeOK, NEW r \in AccountRequests, FinishRegister(r)
  PROVE  AccountsTypeOK' /\ Grows
<1>1. PICK phone : phone = accountReq[r].phone
  OBVIOUS
<1>2. phone \in Phone /\ phone.of \in Phones /\ AccountIdle \in AccountRequestState
  BY <1>1, AccountRequestFields DEF FinishRegister, AccountsTypeOK, Phone, AccountRequestState
<1>3. InsertAccount(phone, 0) /\ Become(r, AccountIdle) /\ phone \in Login
  BY <1>1, <1>2 DEF FinishRegister, Login
<1>4. /\ nextAccount' \in 1 .. MaxAccounts + 1
      /\ DOMAIN accounts' \subseteq 1 .. nextAccount' - 1
      /\ \A a \in DOMAIN accounts' : accounts'[a] \in Account
      /\ DOMAIN accounts' = DOMAIN accounts \cup {nextAccount}
      /\ \A a \in DOMAIN accounts : accounts'[a] = accounts[a]
  BY <1>3, InsertTypes
<1>5. nextAccount' = nextAccount + 1 /\ nextAccount \in Nat
  BY <1>3 DEF InsertAccount, AccountsAssumption, AccountsTypeOK
<1>6. accountReq' \in [AccountRequests -> AccountRequestState] /\ accountBegun' \in 0 .. MaxAccountRequests
  BY <1>2, <1>3, BecomeTypes
<1>7. Grows
  BY <1>4, <1>5 DEF FinishRegister, Grows
<1>8. touched' \subseteq Phones \cup Users
  BY <1>1, <1>2 DEF FinishRegister, AccountsTypeOK
<1> QED BY <1>4, <1>6, <1>7, <1>8 DEF FinishRegister, AccountsTypeOK

\* So does the commit of resolve_customer_by_phone,
LEMMA ResolveTypes ==
  ASSUME AccountsAssumption, AccountsTypeOK, NEW r \in AccountRequests, Resolve(r)
  PROVE  AccountsTypeOK' /\ Grows
<1>1. PICK s, k : /\ s = accountReq[r]
                  /\ k = IF s.kontragent = 0 THEN Len(kontragenty) + 1 ELSE s.kontragent
  OBVIOUS
<1>2. /\ s.pc \in {"create", "link"} /\ s.phone \in Phones /\ s.account \in Nat /\ s.linked \in Nat
      /\ s.kontragent \in Nat /\ Plain(s.phone) \in Login /\ Plain(s.phone) \in Typed
  <2>1. s.pc \in {"create", "link"} /\ s \in AccountRequestState
    BY <1>1 DEF Resolve, AccountsTypeOK
  <2> QED BY <2>1, AccountRequestFields DEF Ordering, Plain, Login, Phone, Typed
<1>3. /\ Len(kontragenty) \in Nat /\ k \in Nat /\ nextAccount \in Nat /\ nextAccount >= 1
      /\ kontragenty \in Seq(Typed)
  BY <1>1, <1>2 DEF AccountsTypeOK, AccountsAssumption
<1>4. LinkAccount(s, k)
  BY <1>1 DEF Resolve
<1>5. /\ nextAccount' \in 1 .. MaxAccounts + 1
      /\ DOMAIN accounts' \subseteq 1 .. nextAccount' - 1
      /\ \A a \in DOMAIN accounts' : accounts'[a] \in Account
      /\ nextAccount' >= nextAccount
      /\ \A a \in DOMAIN accounts' :
           IF a \in DOMAIN accounts
           THEN /\ accounts'[a].phone = accounts[a].phone
                /\ accounts[a].kontragent # 0 => accounts'[a].kontragent # 0
           ELSE a = nextAccount /\ nextAccount' = nextAccount + 1
  <2>1. CASE InsertAccount(Plain(s.phone), k)
    <3>1. /\ nextAccount' \in 1 .. MaxAccounts + 1
          /\ DOMAIN accounts' \subseteq 1 .. nextAccount' - 1
          /\ \A a \in DOMAIN accounts' : accounts'[a] \in Account
          /\ DOMAIN accounts' = DOMAIN accounts \cup {nextAccount}
          /\ \A a \in DOMAIN accounts : accounts'[a] = accounts[a]
      BY <1>2, <1>3, <2>1, InsertTypes
    <3>2. nextAccount' = nextAccount + 1
      BY <2>1 DEF InsertAccount
    <3> QED BY <1>3, <3>1, <3>2
  <2>2. CASE /\ s.account \in DOMAIN accounts
             /\ accounts' = [accounts EXCEPT ![s.account].kontragent = k]
             /\ UNCHANGED nextAccount
    <3>1. accounts[s.account] \in Account /\ k # 0
      BY <1>1, <1>3, <2>2 DEF AccountsTypeOK
    <3>2. accounts'[s.account] = [accounts[s.account] EXCEPT !.kontragent = k]
      BY <2>2
    <3>3. accounts'[s.account] \in Account /\ accounts'[s.account].phone = accounts[s.account].phone
          /\ accounts'[s.account].kontragent = k
      BY <1>3, <3>1, <3>2 DEF Account
    <3>4. DOMAIN accounts' = DOMAIN accounts
          /\ \A a \in DOMAIN accounts \ {s.account} : accounts'[a] = accounts[a]
      BY <2>2
    <3> QED BY <1>3, <2>2, <3>1, <3>3, <3>4 DEF AccountsTypeOK
  <2>3. CASE UNCHANGED <<accounts, nextAccount>>
    BY <1>3, <2>3 DEF AccountsTypeOK
  <2> QED BY <1>4, <2>1, <2>2, <2>3 DEF LinkAccount
<1>6. /\ kontragenty' \in Seq(Typed) /\ Len(kontragenty') <= MaxKontragenty
      /\ DOMAIN kontragenty \subseteq DOMAIN kontragenty'
      /\ \A i \in DOMAIN kontragenty : kontragenty'[i] = kontragenty[i]
  <2>1. CASE s.pc = "create"
    <3>1. kontragenty' = Append(kontragenty, Plain(s.phone)) /\ Len(kontragenty) < MaxKontragenty
      BY <1>1, <2>1 DEF Resolve
    <3> QED BY <1>2, <1>3, <3>1 DEF AccountsAssumption
  <2>2. CASE s.pc # "create"
    BY <1>1, <2>2 DEF Resolve, AccountsTypeOK
  <2> QED BY <2>1, <2>2
<1>7. PICK t : t = [pc |-> "order", phone |-> s.phone, account |-> AccountOf(s), kontragent |-> k]
  OBVIOUS
<1>8. t \in AccountRequestState /\ Become(r, t)
  <2>1. AccountOf(s) \in Nat
    BY <1>2, <1>3 DEF AccountOf
  <2> QED BY <1>1, <1>2, <1>3, <1>7, <2>1 DEF Resolve, AccountRequestState
<1>9. accountReq' \in [AccountRequests -> AccountRequestState] /\ accountBegun' \in 0 .. MaxAccountRequests
  BY <1>8, BecomeTypes
<1>10. codeLock' \in AccountRequests \cup {Nobody} /\ UNCHANGED <<bindings, phoneOrders, entries, touched>>
  BY DEF Resolve, AccountsTypeOK
<1>11. Grows
  BY <1>5, <1>6 DEF Grows
<1> QED BY <1>5, <1>6, <1>9, <1>10, <1>11 DEF AccountsTypeOK

\* and the commit of an entry.
LEMMA BindTypes ==
  ASSUME AccountsAssumption, AccountsTypeOK, NEW r \in AccountRequests, Bind(r)
  PROVE  AccountsTypeOK' /\ Grows
<1>1. PICK u, a : /\ u = accountReq[r].user
                  /\ a = IF accountReq[r].account = 0 THEN nextAccount ELSE accountReq[r].account
  OBVIOUS
<1>2. u \in Users /\ a \in Nat /\ nextAccount \in Nat /\ Synthetic(u) \in Login /\ AccountIdle \in AccountRequestState
  <2>1. accountReq[r].pc = "bind" /\ accountReq[r] \in AccountRequestState
    BY DEF Bind, AccountsTypeOK
  <2> QED BY <1>1, <2>1, AccountRequestFields DEF Login, AccountRequestState, AccountsTypeOK, AccountsAssumption
<1>3. accountReq' \in [AccountRequests -> AccountRequestState] /\ accountBegun' \in 0 .. MaxAccountRequests
  BY <1>2, BecomeTypes DEF Bind
<1>4. /\ nextAccount' \in 1 .. MaxAccounts + 1
      /\ DOMAIN accounts' \subseteq 1 .. nextAccount' - 1
      /\ \A b \in DOMAIN accounts' : accounts'[b] \in Account
      /\ Grows
  <2>1. CASE InsertAccount(Synthetic(u), 0)
    <3>1. /\ nextAccount' \in 1 .. MaxAccounts + 1
          /\ DOMAIN accounts' \subseteq 1 .. nextAccount' - 1
          /\ \A b \in DOMAIN accounts' : accounts'[b] \in Account
          /\ DOMAIN accounts' = DOMAIN accounts \cup {nextAccount}
          /\ \A b \in DOMAIN accounts : accounts'[b] = accounts[b]
      BY <1>2, <2>1, InsertTypes
    <3>2. nextAccount' = nextAccount + 1 /\ UNCHANGED kontragenty
      BY <2>1 DEF InsertAccount, Bind
    <3> QED BY <1>2, <3>1, <3>2 DEF Grows
  <2>2. CASE UNCHANGED <<accounts, nextAccount>>
    BY <1>2, <2>2 DEF AccountsTypeOK, Grows, Bind
  <2> QED BY <1>1, <2>1, <2>2 DEF Bind
<1>5. /\ DOMAIN bindings' \subseteq Users /\ \A v \in DOMAIN bindings' : bindings'[v] \in Nat
      /\ entries' \subseteq [user : Users, account : Nat]
  <2>1. CASE /\ bindings' = [v \in DOMAIN bindings \cup {u} |-> IF v = u THEN a ELSE bindings[v]]
             /\ entries' = entries \cup {[user |-> u, account |-> a]}
    BY <1>2, <2>1 DEF AccountsTypeOK
  <2>2. CASE /\ u \in DOMAIN bindings /\ UNCHANGED bindings
             /\ entries' = entries \cup {[user |-> u, account |-> bindings[u]]}
    BY <1>2, <2>2 DEF AccountsTypeOK
  <2> QED BY <1>1, <2>1, <2>2 DEF Bind
<1> QED BY <1>3, <1>4, <1>5, SameTypes DEF Bind, AccountsTypeOK

\* The remaining steps keep the types.
LEMMA CreateOrderTypes ==
  ASSUME AccountsInv, NEW r \in AccountRequests, CreateOrder(r)
  PROVE  AccountsTypeOK' /\ Grows
<1>1. PICK s, o : /\ s = accountReq[r]
                  /\ o = [phone |-> s.phone, account |-> s.account, kontragent |-> s.kontragent]
  OBVIOUS
<1>2. AccountsTypeOK /\ OrderKnows(s, accounts, nextAccount, kontragenty)
  BY <1>1 DEF AccountsInv
<1>3. s.pc = "order" /\ s \in AccountRequestState /\ AccountIdle \in AccountRequestState
  BY <1>1, <1>2 DEF CreateOrder, AccountsTypeOK, AccountRequestState
<1>4. accountReq' \in [AccountRequests -> AccountRequestState] /\ accountBegun' \in 0 .. MaxAccountRequests
  BY <1>2, <1>3, BecomeTypes DEF CreateOrder
<1>5. s.phone \in Phones /\ s.account \in Nat \ {0} /\ s.kontragent \in Nat \ {0}
  <2>1. s.account # 0 /\ s.kontragent \in DOMAIN kontragenty /\ kontragenty \in Seq(Typed)
    BY <1>2, <1>3 DEF OrderKnows, Numbered, Ordering, AccountsTypeOK
  <2>2. s.kontragent # 0
    BY <2>1
  <2> QED BY <1>3, <2>1, <2>2, AccountRequestFields DEF Ordering
<1>6. o \in PhoneOrder /\ phoneOrders \in Seq(PhoneOrder)
  BY <1>1, <1>2, <1>5 DEF PhoneOrder, AccountsTypeOK
<1>7. phoneOrders' \in Seq(PhoneOrder) /\ Len(phoneOrders') <= MaxPhoneOrders
  <2>1. phoneOrders' = Append(phoneOrders, o) /\ Len(phoneOrders) < MaxPhoneOrders
    BY <1>1 DEF CreateOrder
  <2>2. MaxPhoneOrders \in Nat
    BY AccountsAssumption
  <2> QED BY <1>6, <2>1, <2>2
<1>8. Grows
  BY <1>2, SameTables DEF CreateOrder
<1> QED BY <1>2, <1>4, <1>7, <1>8 DEF CreateOrder, AccountsTypeOK

\* An entry of a bound user changes no table but the history.
LEMMA BeginEntryTypes ==
  ASSUME AccountsTypeOK, NEW r \in AccountRequests, NEW u \in Users, BeginEntry(r, u)
  PROVE  AccountsTypeOK' /\ Grows
<1>1. Grows
  BY SameTables DEF BeginEntry
<1>2. CASE u \in DOMAIN bindings
  BY <1>1, <1>2 DEF BeginEntry, AccountsTypeOK
<1>3. CASE u \notin DOMAIN bindings
  <2>1. PICK s : s = [pc |-> "account", user |-> u] /\ BeginRequest(r, s) /\ UNCHANGED entries
    BY <1>3 DEF BeginEntry
  <2>2. s \in AccountRequestState
    BY <2>1 DEF AccountRequestState
  <2>3. accountReq' \in [AccountRequests -> AccountRequestState] /\ accountBegun' \in 0 .. MaxAccountRequests
    BY <2>1, <2>2, BeginTypesOfAccounts, AccountsAssumption
  <2> QED BY <1>1, <2>1, <2>3 DEF BeginEntry, AccountsTypeOK
<1> QED BY <1>2, <1>3

\* An account is deleted.
LEMMA DeleteTypes ==
  ASSUME AccountsTypeOK, NEW a \in DOMAIN accounts, AdminDeleteCustomer(a)
  PROVE  /\ AccountsTypeOK' /\ Grows
         /\ DOMAIN accounts' = DOMAIN accounts \ {a}
         /\ \A b \in DOMAIN accounts' : accounts'[b] = accounts[b]
<1>1. accounts' = [b \in DOMAIN accounts \ {a} |-> accounts[b]]
  BY DEF AdminDeleteCustomer
<1>2. DOMAIN accounts' = DOMAIN accounts \ {a} /\ \A b \in DOMAIN accounts' : accounts'[b] = accounts[b]
  BY <1>1
<1>3. accounts[a].phone.of \in Phones \cup Users
  BY DEF AccountsTypeOK, Account, Login, Phone, Synthetic
<1>4. touched' \subseteq Phones \cup Users
  BY <1>3 DEF AdminDeleteCustomer, AccountsTypeOK
<1>5. Grows
  <2>1. nextAccount' >= nextAccount
    BY AccountsAssumption DEF AdminDeleteCustomer, AccountsTypeOK
  <2> QED BY <1>2, <2>1 DEF AdminDeleteCustomer, Grows
<1> QED BY <1>2, <1>4, <1>5 DEF AdminDeleteCustomer, AccountsTypeOK

\* A kontragent is entered by hand.
LEMMA CreateKontragentTypes ==
  ASSUME AccountsTypeOK, NEW number \in Typed, CreateKontragent(number)
  PROVE  AccountsTypeOK' /\ Grows
<1>1. kontragenty' = Append(kontragenty, number) /\ Len(kontragenty) < MaxKontragenty /\ kontragenty \in Seq(Typed)
  BY DEF CreateKontragent, AccountsTypeOK
<1>2. kontragenty' \in Seq(Typed) /\ Len(kontragenty') <= MaxKontragenty
      /\ DOMAIN kontragenty \subseteq DOMAIN kontragenty'
      /\ \A i \in DOMAIN kontragenty : kontragenty'[i] = kontragenty[i]
  BY <1>1, AccountsAssumption
<1>3. touched' \subseteq Phones \cup Users
  BY DEF CreateKontragent, AccountsTypeOK, Typed
<1>4. Grows
  <2>1. nextAccount' >= nextAccount
    BY AccountsAssumption DEF CreateKontragent, AccountsTypeOK
  <2> QED BY <1>2, <2>1 DEF CreateKontragent, Grows
<1> QED BY <1>2, <1>3, <1>4 DEF CreateKontragent, AccountsTypeOK

\* What is known of a request or an order stays true as the tables grow.
LEMMA OrderKnowsStays ==
  ASSUME AccountsTypeOK, AccountsTypeOK', Grows, NEW s \in AccountRequestState,
         OrderKnows(s, accounts, nextAccount, kontragenty)
  PROVE  OrderKnows(s, accounts', nextAccount', kontragenty')
<1> SUFFICES ASSUME s.pc \in Ordering PROVE OrderKnows(s, accounts', nextAccount', kontragenty')
  BY DEF OrderKnows
<1>1. s.account \in Nat /\ nextAccount \in Nat /\ nextAccount' \in Nat /\ nextAccount' >= nextAccount
      /\ s.account < nextAccount
  BY AccountRequestFields, AccountsAssumption DEF AccountsTypeOK, Grows, OrderKnows
<1>2. s.account < nextAccount'
  BY <1>1
<1>3. s.account \in DOMAIN accounts' =>
        /\ s.account \in DOMAIN accounts /\ accounts'[s.account].phone = accounts[s.account].phone
        /\ accounts[s.account].kontragent # 0 => accounts'[s.account].kontragent # 0
  BY <1>1 DEF Grows
<1> QED BY <1>1, <1>2, <1>3 DEF OrderKnows, Numbered, Grows

\* The same of an entry,
LEMMA EntryKnowsStays ==
  ASSUME AccountsTypeOK, AccountsTypeOK', Grows, NEW s \in AccountRequestState, EntryKnows(s, accounts, nextAccount)
  PROVE  EntryKnows(s, accounts', nextAccount')
<1> SUFFICES ASSUME s.pc = "bind" PROVE EntryKnows(s, accounts', nextAccount')
  BY DEF EntryKnows
<1>1. s.account \in Nat /\ nextAccount \in Nat /\ nextAccount' \in Nat /\ nextAccount' >= nextAccount
      /\ s.account < nextAccount
  BY AccountRequestFields, AccountsAssumption DEF AccountsTypeOK, Grows, EntryKnows
<1>2. s.account \in DOMAIN accounts' =>
        s.account \in DOMAIN accounts /\ accounts'[s.account].phone = accounts[s.account].phone
  BY <1>1 DEF Grows
<1> QED BY <1>1, <1>2 DEF EntryKnows

\* and of an order that was made.
LEMMA OrderFitsStays ==
  ASSUME AccountsTypeOK, AccountsTypeOK', Grows, NEW o \in PhoneOrder,
         OrderFits(o, accounts, nextAccount, kontragenty)
  PROVE  OrderFits(o, accounts', nextAccount', kontragenty')
<1>1. o.account \in Nat /\ nextAccount \in Nat /\ nextAccount' \in Nat /\ nextAccount' >= nextAccount
      /\ o.account < nextAccount
  BY AccountsAssumption DEF AccountsTypeOK, Grows, OrderFits, PhoneOrder
<1>2. o.account \in DOMAIN accounts' =>
        /\ o.account \in DOMAIN accounts /\ accounts'[o.account].phone = accounts[o.account].phone
        /\ accounts[o.account].kontragent # 0 => accounts'[o.account].kontragent # 0
  BY <1>1 DEF Grows
<1> QED BY <1>1, <1>2 DEF OrderFits, Numbered, Grows

\* Every step keeps the types, and lets the tables grow.
LEMMA AccountTypesNext ==
  ASSUME AccountsInv, AccountsNext
  PROVE  AccountsTypeOK' /\ Grows
<1> USE AccountsAssumption
<1>0. AccountsTypeOK
  BY DEF AccountsInv
<1>1. ASSUME NEW r \in AccountRequests, Routes(r) \/ AgentCreateOrder(r) \/ FailAccountRequest(r)
      PROVE  AccountsTypeOK' /\ Grows
  BY <1>0, <1>1, QuietTypes, FinishRegisterTypes, ResolveTypes, BindTypes, CreateOrderTypes, BeginEntryTypes
     DEF Routes, AgentCreateOrder
<1> QED BY <1>0, <1>1, DeleteTypes, CreateKontragentTypes DEF AccountsNext

\* A request that goes on as x knows what it should, and so do the others.
Knows(x, acc, next, kon) == OrderKnows(x, acc, next, kon) /\ EntryKnows(x, acc, next)

\* So does every request.
LEMMA RequestsKnow ==
  ASSUME AccountsInv, AccountsTypeOK', Grows,
         \A q \in AccountRequests :
           accountReq'[q] = accountReq[q] \/ Knows(accountReq'[q], accounts', nextAccount', kontragenty')
  PROVE  \A q \in AccountRequests :
           /\ OrderKnows(accountReq'[q], accounts', nextAccount', kontragenty')
           /\ EntryKnows(accountReq'[q], accounts', nextAccount')
<1> SUFFICES ASSUME NEW q \in AccountRequests, accountReq'[q] = accountReq[q]
             PROVE  Knows(accountReq'[q], accounts', nextAccount', kontragenty')
  BY DEF Knows
<1>1. PICK s \in AccountRequestState : s = accountReq[q]
  BY DEF AccountsInv, AccountsTypeOK
<1>2. OrderKnows(s, accounts, nextAccount, kontragenty) /\ EntryKnows(s, accounts, nextAccount) /\ AccountsTypeOK
  BY <1>1 DEF AccountsInv
<1>3. Knows(s, accounts', nextAccount', kontragenty')
  BY <1>2, OrderKnowsStays, EntryKnowsStays DEF Knows
<1> QED BY <1>1, <1>3

\* What a request may go on as, for every number.
Fine(x) ==
  /\ Knows(x, accounts, nextAccount, kontragenty)
  /\ \A d \in Phones :
       /\ NumberFree(d) => AsksNew(d, x)
       /\ \A a, k : NumberTaken(d, a, k) => AsksTaken(d, a, k, x)

\* A request that orders nothing and binds nobody is fine.
LEMMA ElsewhereIsFine ==
  ASSUME NEW x, x.pc \notin Ordering, x.pc # "bind"
  PROVE  Fine(x)
BY DEF Fine, Knows, OrderKnows, EntryKnows, AsksNew, AsksTaken

\* The number of a customer's account.
LEMMA VariantsAre ==
  ASSUME NEW d
  PROVE  /\ \A p \in Variants(d) : p.of = d
         /\ Plain(d) \in Variants(d) /\ Plain(d).of = d
BY DEF Variants, Plain

\* The account an order has found is the one that has the number.
LEMMA BeginOrderFine ==
  ASSUME AccountsInv, NEW r \in AccountRequests, NEW d \in Phones, BeginOrder(r, d)
  PROVE  \E x : accountReq' = [accountReq EXCEPT ![r] = x] /\ Fine(x)
<1>0. PICK a \in Found(AccountRows(d)) :
             BeginRequest(r, [pc |-> "kontragent", phone |-> d, account |-> a,
                              linked |-> IF a = 0 THEN 0 ELSE accounts[a].kontragent])
  BY DEF BeginOrder
<1>1. PICK x : /\ x = [pc |-> "kontragent", phone |-> d, account |-> a,
                       linked |-> IF a = 0 THEN 0 ELSE accounts[a].kontragent]
               /\ accountReq' = [accountReq EXCEPT ![r] = x]
  BY <1>0 DEF BeginRequest
<1>2. (AccountsOf(Variants(d)) = {} /\ a = 0) \/ a \in AccountsOf(Variants(d))
  BY AccountFound
<1>3. nextAccount \in Nat /\ nextAccount >= 1 /\ \A b \in DOMAIN accounts : b \in Nat /\ b < nextAccount /\ b # 0
  BY AccountsAssumption DEF AccountsInv, AccountsTypeOK
<1>4. Knows(x, accounts, nextAccount, kontragenty)
  BY <1>1, <1>2, <1>3 DEF Knows, OrderKnows, EntryKnows, Ordering, AccountsOf
<1>5. ASSUME NEW e \in Phones, NumberFree(e) PROVE AsksNew(e, x)
  <2>1. e = d => AccountsOf(Variants(d)) = {}
    BY <1>5, VariantsAre DEF NumberFree, FreeTables, AccountsOf
  <2> QED BY <1>1, <1>2, <2>1 DEF AsksNew
<1>6. ASSUME NEW e \in Phones, NEW b, NEW k, NumberTaken(e, b, k) PROVE AsksTaken(e, b, k, x)
  <2>1. /\ b \in DOMAIN accounts /\ accounts[b].phone = Plain(e) /\ accounts[b].kontragent = k
        /\ \A c \in DOMAIN accounts \ {b} : accounts[c].phone.of # e
    BY <1>6 DEF NumberTaken, TakenTables
  <2>2. e = d => a = b
    BY <1>2, <2>1, VariantsAre DEF AccountsOf
  <2> QED BY <1>1, <1>3, <2>1, <2>2 DEF AsksTaken
<1> QED BY <1>1, <1>4, <1>5, <1>6 DEF Fine

\* So is the kontragent.
LEMMA FindKontragentFine ==
  ASSUME AccountsInv, NEW r \in AccountRequests, FindKontragent(r)
  PROVE  \E x : accountReq' = [accountReq EXCEPT ![r] = x] /\ Fine(x)
<1>1. PICK s \in AccountRequestState : s = accountReq[r]
  BY DEF AccountsInv, AccountsTypeOK
<1>0. PICK k \in Found(KontragentRows(s.phone)) :
             Become(r, [pc |-> IF k = 0 THEN "code" ELSE "link", phone |-> s.phone,
                        account |-> s.account, linked |-> s.linked, kontragent |-> k])
  BY <1>1 DEF FindKontragent
<1>2. PICK x : /\ x = [pc |-> IF k = 0 THEN "code" ELSE "link", phone |-> s.phone,
                       account |-> s.account, linked |-> s.linked, kontragent |-> k]
               /\ accountReq' = [accountReq EXCEPT ![r] = x]
  BY <1>0 DEF Become
<1>3. (KontragentyOf(Variants(s.phone)) = {} /\ k = 0) \/ k \in KontragentyOf(Variants(s.phone))
  BY KontragentFound
<1>4. s.pc = "kontragent" /\ OrderKnows(s, accounts, nextAccount, kontragenty)
  BY <1>1 DEF FindKontragent, AccountsInv
<1>5. \A l \in DOMAIN kontragenty : l # 0
  BY DEF AccountsInv, AccountsTypeOK
<1>6. Knows(x, accounts, nextAccount, kontragenty)
  BY <1>2, <1>3, <1>4, <1>5 DEF Knows, OrderKnows, EntryKnows, Ordering, KontragentyOf, Numbered
<1>7. ASSUME NEW e \in Phones, NumberFree(e) PROVE AsksNew(e, x)
  <2>1. e = s.phone => KontragentyOf(Variants(s.phone)) = {}
    BY <1>7, VariantsAre DEF NumberFree, FreeTables, KontragentyOf
  <2>2. AsksNew(e, s)
    BY <1>1, <1>7 DEF NumberFree
  <2> QED BY <1>2, <1>3, <1>4, <2>1, <2>2 DEF AsksNew, Ordering
<1>8. ASSUME NEW e \in Phones, NEW b, NEW l, NumberTaken(e, b, l) PROVE AsksTaken(e, b, l, x)
  <2>1. l \in DOMAIN kontragenty /\ kontragenty[l] = Plain(e)
        /\ \A m \in DOMAIN kontragenty \ {l} : kontragenty[m].of # e
    BY <1>8 DEF NumberTaken, TakenTables
  <2>2. e = s.phone => k = l /\ k # 0
    BY <1>3, <1>5, <2>1, VariantsAre DEF KontragentyOf
  <2>3. AsksTaken(e, b, l, s)
    BY <1>1, <1>8 DEF NumberTaken
  <2> QED BY <1>2, <1>4, <2>2, <2>3 DEF AsksTaken, Ordering
<1> QED BY <1>2, <1>6, <1>7, <1>8 DEF Fine

\* The lock of codes changes nothing of that.
LEMMA NextCodeFine ==
  ASSUME AccountsInv, NEW r \in AccountRequests, NextCode(r)
  PROVE  \E x : accountReq' = [accountReq EXCEPT ![r] = x] /\ Fine(x)
<1>1. PICK s \in AccountRequestState : s = accountReq[r]
  BY DEF AccountsInv, AccountsTypeOK
<1>2. PICK x : x = [s EXCEPT !.pc = "create"] /\ accountReq' = [accountReq EXCEPT ![r] = x]
  BY <1>1 DEF NextCode, Become
<1>3. s.pc = "code" /\ OrderKnows(s, accounts, nextAccount, kontragenty)
  BY <1>1 DEF NextCode, AccountsInv
<1>4. s \in [pc : {"code", "create", "link"}, phone : Phones, account : Nat, linked : Nat, kontragent : Nat]
  BY <1>3 DEF AccountRequestState, AccountIdle
<1>5. /\ x.pc = "create" /\ x.phone = s.phone /\ x.account = s.account /\ x.linked = s.linked
      /\ x.kontragent = s.kontragent
  BY <1>2, <1>4
<1>6. Knows(x, accounts, nextAccount, kontragenty)
  BY <1>3, <1>5 DEF Knows, OrderKnows, EntryKnows, Ordering
<1>7. ASSUME NEW e \in Phones, NumberFree(e) PROVE AsksNew(e, x)
  <2>1. AsksNew(e, s)
    BY <1>1, <1>7 DEF NumberFree
  <2> QED BY <1>3, <1>5, <2>1 DEF AsksNew, Ordering
<1>8. ASSUME NEW e \in Phones, NEW b, NEW l, NumberTaken(e, b, l) PROVE AsksTaken(e, b, l, x)
  <2>1. AsksTaken(e, b, l, s)
    BY <1>1, <1>8 DEF NumberTaken
  <2> QED BY <1>3, <1>5, <2>1 DEF AsksTaken, Ordering
<1> QED BY <1>2, <1>6, <1>7, <1>8 DEF Fine

\* The account an entry has found is the user's.
LEMMA FindSyntheticFine ==
  ASSUME AccountsInv, NEW r \in AccountRequests, FindSynthetic(r)
  PROVE  \E x : accountReq' = [accountReq EXCEPT ![r] = x] /\ Fine(x)
<1>1. PICK u : u = accountReq[r].user
  OBVIOUS
<1>0. PICK a \in Found([b \in AccountsOf({Synthetic(u)}) |-> accounts[b].phone]) :
             Become(r, [pc |-> "bind", user |-> u, account |-> a])
  BY <1>1 DEF FindSynthetic
<1>2. PICK x : x = [pc |-> "bind", user |-> u, account |-> a] /\ accountReq' = [accountReq EXCEPT ![r] = x]
  BY <1>0 DEF Become
<1>3. a = 0 \/ a \in AccountsOf({Synthetic(u)})
  BY SyntheticFound
<1>4. nextAccount \in Nat /\ nextAccount >= 1 /\ \A b \in DOMAIN accounts : b \in Nat /\ b < nextAccount /\ b # 0
  BY AccountsAssumption DEF AccountsInv, AccountsTypeOK
<1>5. Knows(x, accounts, nextAccount, kontragenty)
  BY <1>2, <1>3, <1>4 DEF Knows, OrderKnows, EntryKnows, Ordering, AccountsOf
<1>6. x.pc \notin Ordering
  BY <1>2 DEF Ordering
<1>7. Fine(x)
  BY <1>5, <1>6 DEF Fine, AsksNew, AsksTaken
<1> QED BY <1>2, <1>7

\* The steps that change no table: a request goes on as one that is fine, or
\* none does.
Quiet(r) ==
  \/ \E phone \in Phone : BeginRegister(r, phone)
  \/ \E d \in Phones : BeginOrder(r, d)
  \/ FindKontragent(r) \/ NextCode(r)
  \/ \E u \in Users : BeginEntry(r, u)
  \/ FindSynthetic(r) \/ FailAccountRequest(r)

\* So a step that changes no table leaves every request fine.
LEMMA QuietIsFine ==
  ASSUME AccountsInv, NEW r \in AccountRequests, Quiet(r)
  PROVE  /\ UNCHANGED <<accounts, nextAccount, kontragenty, bindings, phoneOrders, touched>>
         /\ \A q \in AccountRequests : accountReq'[q] = accountReq[q] \/ Fine(accountReq'[q])
<1>1. UNCHANGED <<accounts, nextAccount, kontragenty, bindings, phoneOrders, touched>>
  BY DEF Quiet, BeginRegister, BeginOrder, FindKontragent, NextCode, BeginEntry, FindSynthetic, FailAccountRequest
<1>2. UNCHANGED accountReq \/ \E x : accountReq' = [accountReq EXCEPT ![r] = x] /\ Fine(x)
  <2>1. CASE \E phone \in Phone : BeginRegister(r, phone)
    <3>1. PICK phone, x : x = [pc |-> "register", phone |-> phone] /\ accountReq' = [accountReq EXCEPT ![r] = x]
      BY <2>1 DEF BeginRegister, BeginRequest
    <3>2. x.pc \notin Ordering /\ x.pc # "bind"
      BY <3>1 DEF Ordering
    <3> QED BY <3>1, <3>2, ElsewhereIsFine
  <2>2. CASE \E u \in Users : BeginEntry(r, u)
    <3>1. PICK u : BeginEntry(r, u)
      BY <2>2
    <3>2. CASE u \notin DOMAIN bindings
      <4>1. PICK x : x = [pc |-> "account", user |-> u] /\ accountReq' = [accountReq EXCEPT ![r] = x]
        BY <3>1, <3>2 DEF BeginEntry, BeginRequest
      <4>2. x.pc \notin Ordering /\ x.pc # "bind"
        BY <4>1 DEF Ordering
      <4> QED BY <4>1, <4>2, ElsewhereIsFine
    <3> QED BY <3>1, <3>2 DEF BeginEntry
  <2>3. CASE FailAccountRequest(r)
    <3>1. PICK x : x = AccountIdle /\ accountReq' = [accountReq EXCEPT ![r] = x]
      BY <2>3 DEF FailAccountRequest, Become
    <3>2. x.pc \notin Ordering /\ x.pc # "bind"
      BY <3>1 DEF Ordering, AccountIdle
    <3> QED BY <3>1, <3>2, ElsewhereIsFine
  <2> QED BY <2>1, <2>2, <2>3, BeginOrderFine, FindKontragentFine, NextCodeFine, FindSyntheticFine DEF Quiet
<1>3. DOMAIN accountReq = AccountRequests
  BY DEF AccountsInv, AccountsTypeOK
<1> QED BY <1>1, <1>2, <1>3

\* What a step leaves of the tables if it writes nothing of the number d.
Apart(d) ==
  /\ \A b \in DOMAIN accounts' : (b \in DOMAIN accounts /\ accounts'[b] = accounts[b]) \/ accounts'[b].phone.of # d
  /\ \A b \in DOMAIN accounts : accounts[b].phone.of = d => b \in DOMAIN accounts' /\ accounts'[b] = accounts[b]
  /\ \A l \in DOMAIN kontragenty' :
       (l \in DOMAIN kontragenty /\ kontragenty'[l] = kontragenty[l]) \/ kontragenty'[l].of # d
  /\ \A l \in DOMAIN kontragenty : l \in DOMAIN kontragenty' /\ kontragenty'[l] = kontragenty[l]

\* A request that orders nothing for the number.
OfAnother(d, x) == x.pc \in Ordering => x.phone # d

\* Such a step leaves the number as it was.
LEMMA NumberStays ==
  ASSUME NEW d \in Phones, NumberFits(d), Apart(d),
         \A i \in DOMAIN phoneOrders' :
           phoneOrders'[i].phone = d => i \in DOMAIN phoneOrders /\ phoneOrders'[i] = phoneOrders[i],
         \A q \in AccountRequests :
           accountReq'[q] = accountReq[q] \/ OfAnother(d, accountReq'[q]) \/ Fine(accountReq'[q])
  PROVE  NumberFits(d)'
<1>1. CASE NumberFree(d)
  <2>1. FreeTables(d, accounts', kontragenty')
    BY <1>1 DEF NumberFree, FreeTables, Apart
  <2>2. \A i \in DOMAIN phoneOrders' : phoneOrders'[i].phone # d
    BY <1>1 DEF NumberFree
  <2>3. \A q \in AccountRequests : AsksNew(d, accountReq'[q])
    <3> SUFFICES ASSUME NEW q \in AccountRequests PROVE AsksNew(d, accountReq'[q])
      OBVIOUS
    <3>1. AsksNew(d, accountReq[q])
      BY <1>1 DEF NumberFree
    <3>2. CASE OfAnother(d, accountReq'[q])
      BY <3>2 DEF OfAnother, AsksNew
    <3> QED BY <1>1, <3>1, <3>2 DEF Fine
  <2> QED BY <2>1, <2>2, <2>3 DEF NumberFits, NumberFree
<1>2. ASSUME NEW a \in DOMAIN accounts, NEW k \in DOMAIN kontragenty, NumberTaken(d, a, k)
      PROVE  NumberFits(d)'
  <2>0. accounts[a] = [phone |-> Plain(d), kontragent |-> k] /\ accounts[a].phone.of = d
    BY <1>2, VariantsAre DEF NumberTaken, TakenTables
  <2>1. TakenTables(d, a, k, accounts', kontragenty')
    BY <1>2, <2>0 DEF NumberTaken, TakenTables, Apart
  <2>2. \A i \in DOMAIN phoneOrders' :
          phoneOrders'[i].phone = d => phoneOrders'[i].account = a /\ phoneOrders'[i].kontragent = k
    BY <1>2 DEF NumberTaken
  <2>3. \A q \in AccountRequests : AsksTaken(d, a, k, accountReq'[q])
    <3> SUFFICES ASSUME NEW q \in AccountRequests PROVE AsksTaken(d, a, k, accountReq'[q])
      OBVIOUS
    <3>1. AsksTaken(d, a, k, accountReq[q])
      BY <1>2 DEF NumberTaken
    <3>2. CASE OfAnother(d, accountReq'[q])
      BY <3>2 DEF OfAnother, AsksTaken
    <3> QED BY <1>2, <3>1, <3>2 DEF Fine
  <2>4. NumberTaken(d, a, k)' /\ a \in DOMAIN accounts' /\ k \in DOMAIN kontragenty'
    BY <2>1, <2>2, <2>3 DEF NumberTaken, TakenTables
  <2> QED BY <2>4 DEF NumberFits
<1> QED BY <1>1, <1>2 DEF NumberFits

\* A row inserted into customers.
LEMMA Inserted ==
  ASSUME AccountsInv, NEW p \in Login, NEW k \in Nat, InsertAccount(p, k)
  PROVE  /\ nextAccount \notin DOMAIN accounts /\ DOMAIN accounts' = DOMAIN accounts \cup {nextAccount}
         /\ accounts'[nextAccount] = [phone |-> p, kontragent |-> k]
         /\ \A a \in DOMAIN accounts : accounts'[a] = accounts[a]
         /\ \A a \in DOMAIN accounts : accounts[a].phone # p
         /\ nextAccount \in Nat \ {0} /\ nextAccount' = nextAccount + 1
<1>0. AccountsTypeOK
  BY DEF AccountsInv
<1>1. \A a \in DOMAIN accounts : accounts[a].phone # p
  BY DEF InsertAccount, AccountsOf
<1>2. nextAccount \in Nat \ {0} /\ nextAccount' = nextAccount + 1
  BY <1>0, AccountsAssumption DEF InsertAccount, AccountsTypeOK
<1> QED BY <1>0, <1>1, <1>2, InsertTypes, AccountsAssumption

\* What a step has to show once the types are known to be kept.
TablesFit ==
  /\ LinksFit(accounts', kontragenty')
  /\ \A i \in DOMAIN phoneOrders' : OrderFits(phoneOrders'[i], accounts', nextAccount', kontragenty')
  /\ EntriesFit'
  /\ \A q \in AccountRequests :
       accountReq'[q] = accountReq[q] \/ Knows(accountReq'[q], accounts', nextAccount', kontragenty')
  /\ \A d \in Phones \ touched' : NumberFits(d)'

\* The orders there were fit still.
LEMMA OrdersStay ==
  ASSUME AccountsInv, AccountsTypeOK', Grows, phoneOrders' = phoneOrders
  PROVE  \A i \in DOMAIN phoneOrders' : OrderFits(phoneOrders'[i], accounts', nextAccount', kontragenty')
<1> SUFFICES ASSUME NEW i \in DOMAIN phoneOrders
             PROVE  OrderFits(phoneOrders[i], accounts', nextAccount', kontragenty')
  OBVIOUS
<1>1. PICK o \in PhoneOrder : o = phoneOrders[i]
  BY DEF AccountsInv, AccountsTypeOK
<1>2. OrderFits(o, accounts, nextAccount, kontragenty) /\ AccountsTypeOK
  BY <1>1 DEF AccountsInv
<1> QED BY <1>1, <1>2, OrderFitsStays

\* Links that were there fit still, and new ones fit if they name a kontragent
\* of the number.
LEMMA LinksStay ==
  ASSUME AccountsInv, Grows,
         \A a \in DOMAIN accounts' :
           \/ a \in DOMAIN accounts /\ accounts'[a] = accounts[a]
           \/ accounts'[a].kontragent = 0
           \/ Numbered(kontragenty', accounts'[a].kontragent, accounts'[a].phone.of)
  PROVE  LinksFit(accounts', kontragenty')
<1> SUFFICES ASSUME NEW a \in DOMAIN accounts, a \in DOMAIN accounts', accounts'[a] = accounts[a],
                    accounts[a].kontragent # 0
             PROVE  Numbered(kontragenty', accounts[a].kontragent, accounts[a].phone.of)
  BY DEF LinksFit
<1>1. Numbered(kontragenty, accounts[a].kontragent, accounts[a].phone.of)
  BY DEF AccountsInv, LinksFit
<1> QED BY <1>1 DEF Numbered, Grows

\* Users stay bound while their accounts are there.
LEMMA EntriesStay ==
  ASSUME AccountsInv, UNCHANGED <<bindings, entries>>,
         \A u \in DOMAIN bindings : bindings[u] \in DOMAIN accounts'
                                    /\ accounts'[bindings[u]].phone = accounts[bindings[u]].phone
  PROVE  EntriesFit'
BY DEF AccountsInv, EntriesFit

\* The steps that change no table.
LEMMA QuietKeeps ==
  ASSUME AccountsInv, AccountsTypeOK', Grows, NEW r \in AccountRequests, Quiet(r)
  PROVE  TablesFit
<1>1. /\ UNCHANGED <<accounts, nextAccount, kontragenty, bindings, phoneOrders, touched>>
      /\ \A q \in AccountRequests : accountReq'[q] = accountReq[q] \/ Fine(accountReq'[q])
  BY QuietIsFine
<1>2. LinksFit(accounts', kontragenty')
  BY <1>1 DEF AccountsInv
<1>3. EntriesFit'
  <2>1. UNCHANGED entries
        \/ \E u \in Users : u \in DOMAIN bindings /\ entries' = entries \cup {[user |-> u, account |-> bindings[u]]}
    BY DEF Quiet, BeginRegister, BeginOrder, FindKontragent, NextCode, BeginEntry, FindSynthetic, FailAccountRequest
  <2> QED BY <1>1, <2>1 DEF AccountsInv, EntriesFit
<1>4. \A q \in AccountRequests :
        accountReq'[q] = accountReq[q] \/ Knows(accountReq'[q], accounts', nextAccount', kontragenty')
  BY <1>1 DEF Fine
<1>5. ASSUME NEW d \in Phones \ touched' PROVE NumberFits(d)'
  <2>1. Apart(d)
    BY <1>1 DEF Apart
  <2>2. NumberFits(d)
    BY <1>1, <1>5 DEF AccountsInv, NumberFits
  <2> QED BY <1>1, <2>1, <2>2, NumberStays
<1> QED BY <1>1, <1>2, <1>3, <1>4, <1>5, OrdersStay DEF TablesFit

\* A request ends.
LEMMA EndedIsFine ==
  ASSUME AccountsInv, NEW r \in AccountRequests, Become(r, AccountIdle)
  PROVE  /\ \A q \in AccountRequests :
              accountReq'[q] = accountReq[q] \/ Knows(accountReq'[q], accounts', nextAccount', kontragenty')
         /\ \A d \in Phones : \A q \in AccountRequests :
              accountReq'[q] = accountReq[q] \/ OfAnother(d, accountReq'[q]) \/ Fine(accountReq'[q])
<1>1. DOMAIN accountReq = AccountRequests
  BY DEF AccountsInv, AccountsTypeOK
<1>2. \A q \in AccountRequests : accountReq'[q] = accountReq[q] \/ accountReq'[q] = AccountIdle
  BY <1>1 DEF Become
<1>3. AccountIdle.pc \notin Ordering /\ AccountIdle.pc # "bind"
  BY DEF AccountIdle, Ordering
<1>4. \A d : OfAnother(d, AccountIdle)
  BY <1>3 DEF OfAnother
<1>5. Knows(AccountIdle, accounts', nextAccount', kontragenty')
  BY <1>3 DEF Knows, OrderKnows, EntryKnows
<1> QED BY <1>2, <1>4, <1>5

\* A registration touches its number only.
LEMMA FinishRegisterKeeps ==
  ASSUME AccountsInv, AccountsTypeOK', Grows, NEW r \in AccountRequests, FinishRegister(r)
  PROVE  TablesFit
<1>1. PICK p : p = accountReq[r].phone
  OBVIOUS
<1>2. p \in Phone /\ p \in Login
  BY <1>1, AccountRequestFields DEF FinishRegister, AccountsInv, AccountsTypeOK, Login
<1>3. InsertAccount(p, 0) /\ Become(r, AccountIdle) /\ touched' = touched \cup {p.of}
      /\ UNCHANGED <<kontragenty, bindings, phoneOrders, entries>>
  BY <1>1 DEF FinishRegister
<1>4. /\ nextAccount \notin DOMAIN accounts /\ DOMAIN accounts' = DOMAIN accounts \cup {nextAccount}
      /\ accounts'[nextAccount] = [phone |-> p, kontragent |-> 0]
      /\ \A a \in DOMAIN accounts : accounts'[a] = accounts[a]
  BY <1>2, <1>3, Inserted
<1>5. LinksFit(accounts', kontragenty')
  BY <1>4, LinksStay
<1>6. EntriesFit'
  BY <1>3, <1>4, EntriesStay DEF AccountsInv, EntriesFit
<1>7. ASSUME NEW d \in Phones \ touched' PROVE NumberFits(d)'
  <2>1. Apart(d)
    BY <1>3, <1>4, <1>7 DEF Apart
  <2>2. NumberFits(d)
    BY <1>3, <1>7 DEF AccountsInv, NumberFits
  <2> QED BY <1>3, <2>1, <2>2, NumberStays, EndedIsFine
<1> QED BY <1>3, <1>5, <1>6, <1>7, OrdersStay, EndedIsFine DEF TablesFit

\* Deleting an account touches its number only, and no bound user's.
LEMMA DeleteKeeps ==
  ASSUME AccountsInv, AccountsTypeOK', Grows, NEW a \in DOMAIN accounts, AdminDeleteCustomer(a)
  PROVE  TablesFit
<1>1. /\ DOMAIN accounts' = DOMAIN accounts \ {a} /\ \A b \in DOMAIN accounts' : accounts'[b] = accounts[b]
      /\ touched' = touched \cup {accounts[a].phone.of} /\ \A u \in DOMAIN bindings : bindings[u] # a
      /\ UNCHANGED <<kontragenty, bindings, phoneOrders, entries, accountReq>>
  BY DeleteTypes DEF AdminDeleteCustomer, AccountsInv
<1>2. LinksFit(accounts', kontragenty')
  BY <1>1, LinksStay
<1>3. EntriesFit'
  BY <1>1, EntriesStay DEF AccountsInv, EntriesFit
<1>4. ASSUME NEW d \in Phones \ touched' PROVE NumberFits(d)'
  <2>1. Apart(d)
    BY <1>1, <1>4 DEF Apart
  <2>2. NumberFits(d)
    BY <1>1, <1>4 DEF AccountsInv, NumberFits
  <2> QED BY <1>1, <2>1, <2>2, NumberStays
<1> QED BY <1>1, <1>2, <1>3, <1>4, OrdersStay DEF TablesFit

\* A kontragent entered by hand touches its number only.
LEMMA CreateKontragentKeeps ==
  ASSUME AccountsInv, AccountsTypeOK', Grows, NEW number \in Typed, CreateKontragent(number)
  PROVE  TablesFit
<1>1. /\ kontragenty' = Append(kontragenty, number) /\ touched' = touched \cup {number.of}
      /\ UNCHANGED <<accounts, nextAccount, bindings, phoneOrders, entries, accountReq>>
  BY DEF CreateKontragent
<1>2. LinksFit(accounts', kontragenty')
  BY <1>1, LinksStay
<1>3. EntriesFit'
  BY <1>1, EntriesStay DEF AccountsInv, EntriesFit
<1>4. ASSUME NEW d \in Phones \ touched' PROVE NumberFits(d)'
  <2>0. kontragenty \in Seq(Typed)
    BY DEF AccountsInv, AccountsTypeOK
  <2>1. Apart(d)
    BY <1>1, <1>4, <2>0 DEF Apart
  <2>2. NumberFits(d)
    BY <1>1, <1>4 DEF AccountsInv, NumberFits
  <2> QED BY <1>1, <2>1, <2>2, NumberStays
<1> QED BY <1>1, <1>2, <1>3, <1>4, OrdersStay DEF TablesFit

\* An entry binds its user to an account of the user's own.
LEMMA BindKeeps ==
  ASSUME AccountsInv, AccountsTypeOK', Grows, NEW r \in AccountRequests, Bind(r)
  PROVE  TablesFit
<1>1. PICK s \in AccountRequestState : s = accountReq[r]
  BY DEF AccountsInv, AccountsTypeOK
<1>2. PICK u, a : u = s.user /\ a = IF s.account = 0 THEN nextAccount ELSE s.account
  OBVIOUS
<1>3. /\ s.pc = "bind" /\ u \in Users /\ Synthetic(u) \in Login /\ Synthetic(u).of = u
      /\ EntryKnows(s, accounts, nextAccount) /\ \A b \in DOMAIN accounts : b # 0
  BY <1>1, <1>2, AccountRequestFields DEF Bind, AccountsInv, AccountsTypeOK, Login, Synthetic
<1>4. /\ Become(r, AccountIdle)
      /\ UNCHANGED <<kontragenty, phoneOrders, touched>>
  BY DEF Bind
<1>5. CASE UNCHANGED <<accounts, nextAccount, bindings>>
  <2>1. u \in DOMAIN bindings /\ entries' = entries \cup {[user |-> u, account |-> bindings[u]]}
    <3>1. u \in DOMAIN bindings
      <4>1. CASE u \notin DOMAIN bindings
        BY <1>1, <1>2, <1>5, <4>1 DEF Bind
      <4> QED BY <4>1
    <3> QED BY <1>1, <1>2, <3>1 DEF Bind
  <2>2. EntriesFit'
    BY <1>5, <2>1 DEF AccountsInv, EntriesFit
  <2>3. LinksFit(accounts', kontragenty')
    BY <1>4, <1>5 DEF AccountsInv
  <2>4. ASSUME NEW d \in Phones \ touched' PROVE NumberFits(d)'
    <3>1. Apart(d)
      BY <1>4, <1>5 DEF Apart
    <3>2. NumberFits(d)
      BY <1>4, <2>4 DEF AccountsInv, NumberFits
    <3> QED BY <1>4, <3>1, <3>2, NumberStays, EndedIsFine
  <2> QED BY <1>4, <2>2, <2>3, <2>4, OrdersStay, EndedIsFine DEF TablesFit
<1>6. CASE /\ u \notin DOMAIN bindings
           /\ bindings' = [v \in DOMAIN bindings \cup {u} |-> IF v = u THEN a ELSE bindings[v]]
           /\ entries' = entries \cup {[user |-> u, account |-> a]}
  <2>1. /\ a \in DOMAIN accounts' /\ accounts'[a].phone = Synthetic(u)
        /\ \A b \in DOMAIN accounts : b \in DOMAIN accounts' /\ accounts'[b] = accounts[b]
        /\ \A b \in DOMAIN accounts' \ DOMAIN accounts :
             accounts'[b].kontragent = 0 /\ accounts'[b].phone = Synthetic(u)
    <3>1. CASE s.account = 0 /\ InsertAccount(Synthetic(u), 0)
      <4>0. PICK p \in Login : p = Synthetic(u)
        BY <1>3
      <4>1. InsertAccount(p, 0)
        BY <3>1, <4>0
      <4>2. /\ DOMAIN accounts' = DOMAIN accounts \cup {nextAccount}
            /\ accounts'[nextAccount] = [phone |-> p, kontragent |-> 0]
            /\ \A b \in DOMAIN accounts : accounts'[b] = accounts[b]
        BY <4>1, Inserted
      <4> QED BY <1>2, <3>1, <4>0, <4>2
    <3>2. CASE s.account \in DOMAIN accounts /\ UNCHANGED <<accounts, nextAccount>>
      BY <1>2, <1>3, <3>2 DEF EntryKnows
    <3> QED BY <1>1, <1>2, <1>6, <3>1, <3>2 DEF Bind
  <2>2. EntriesFit'
    <3>1. /\ DOMAIN bindings' = DOMAIN bindings \cup {u} /\ bindings'[u] = a
          /\ \A v \in DOMAIN bindings : bindings'[v] = bindings[v]
      BY <1>6
    <3> QED BY <1>6, <2>1, <3>1 DEF AccountsInv, EntriesFit
  <2>3. LinksFit(accounts', kontragenty')
    BY <2>1, LinksStay
  <2>4. ASSUME NEW d \in Phones \ touched' PROVE NumberFits(d)'
    <3>0. u # d
      BY <1>3, AccountsAssumption
    <3>1. Apart(d)
      BY <1>3, <1>4, <2>1, <3>0 DEF Apart
    <3>2. NumberFits(d)
      BY <1>4, <2>4 DEF AccountsInv, NumberFits
    <3> QED BY <1>4, <3>1, <3>2, NumberStays, EndedIsFine
  <2> QED BY <1>4, <2>2, <2>3, <2>4, OrdersStay, EndedIsFine DEF TablesFit
<1> QED BY <1>1, <1>2, <1>5, <1>6 DEF Bind

\* An order is made of what its request has found or created.
LEMMA CreateOrderKeeps ==
  ASSUME AccountsInv, AccountsTypeOK', Grows, NEW r \in AccountRequests, CreateOrder(r)
  PROVE  TablesFit
<1>1. PICK s, o : /\ s = accountReq[r] /\ s \in AccountRequestState
                  /\ o = [phone |-> s.phone, account |-> s.account, kontragent |-> s.kontragent]
  BY DEF AccountsInv, AccountsTypeOK
<1>2. /\ s.pc = "order" /\ s.pc \in Ordering /\ OrderKnows(s, accounts, nextAccount, kontragenty)
      /\ phoneOrders' = Append(phoneOrders, o)
      /\ Become(r, AccountIdle)
      /\ UNCHANGED <<accounts, nextAccount, kontragenty, bindings, entries, touched>>
  BY <1>1 DEF CreateOrder, AccountsInv, Ordering
<1>3. /\ phoneOrders \in Seq(PhoneOrder)
      /\ Len(phoneOrders) \in Nat /\ DOMAIN phoneOrders = 1 .. Len(phoneOrders)
      /\ DOMAIN phoneOrders' = 1 .. Len(phoneOrders) + 1
      /\ \A i \in DOMAIN phoneOrders : phoneOrders'[i] = phoneOrders[i]
      /\ phoneOrders'[Len(phoneOrders) + 1] = o
  <2>1. phoneOrders \in Seq(PhoneOrder)
    BY DEF AccountsInv, AccountsTypeOK
  <2> QED BY <1>2, <2>1
<1>4. LinksFit(accounts', kontragenty')
  BY <1>2 DEF AccountsInv
<1>5. EntriesFit'
  BY <1>2 DEF AccountsInv, EntriesFit
<1>6. \A i \in DOMAIN phoneOrders' : OrderFits(phoneOrders'[i], accounts', nextAccount', kontragenty')
  <2>1. OrderFits(o, accounts, nextAccount, kontragenty)
    BY <1>1, <1>2 DEF OrderKnows, OrderFits
  <2>2. \A i \in DOMAIN phoneOrders : OrderFits(phoneOrders[i], accounts, nextAccount, kontragenty)
    BY DEF AccountsInv
  <2> QED BY <1>2, <1>3, <2>1, <2>2
<1>7. ASSUME NEW d \in Phones \ touched' PROVE NumberFits(d)'
  <2>1. Apart(d)
    BY <1>2 DEF Apart
  <2>2. NumberFits(d)
    BY <1>2, <1>7 DEF AccountsInv, NumberFits
  <2>3. CASE s.phone # d
    <3>1. \A i \in DOMAIN phoneOrders' :
            phoneOrders'[i].phone = d => i \in DOMAIN phoneOrders /\ phoneOrders'[i] = phoneOrders[i]
      BY <1>1, <1>3, <2>3
    <3> QED BY <1>2, <2>1, <2>2, <3>1, NumberStays, EndedIsFine
  <2>4. CASE s.phone = d
    <3>1. ~ NumberFree(d)
      BY <1>1, <1>2, <2>4 DEF NumberFree, AsksNew
    <3>2. PICK a \in DOMAIN accounts, k \in DOMAIN kontragenty : NumberTaken(d, a, k)
      BY <2>2, <3>1 DEF NumberFits
    <3>3. s.account = a /\ s.kontragent = k
      BY <1>1, <1>2, <2>4, <3>2 DEF NumberTaken, AsksTaken
    <3>4. \A i \in DOMAIN phoneOrders' :
            phoneOrders'[i].phone = d => phoneOrders'[i].account = a /\ phoneOrders'[i].kontragent = k
      BY <1>1, <1>3, <3>2, <3>3 DEF NumberTaken
    <3>5. \A q \in AccountRequests : AsksTaken(d, a, k, accountReq'[q])
      <4>1. \A q \in AccountRequests :
              accountReq'[q] = accountReq[q] \/ OfAnother(d, accountReq'[q]) \/ Fine(accountReq'[q])
        BY <1>2, EndedIsFine
      <4> QED BY <3>2, <4>1 DEF NumberTaken, Fine, OfAnother, AsksTaken
    <3>6. TakenTables(d, a, k, accounts', kontragenty')
      BY <1>2, <3>2 DEF NumberTaken
    <3>7. NumberTaken(d, a, k)' /\ a \in DOMAIN accounts' /\ k \in DOMAIN kontragenty'
      BY <1>2, <3>4, <3>5, <3>6 DEF NumberTaken
    <3> QED BY <3>7 DEF NumberFits
  <2> QED BY <2>3, <2>4
<1> QED BY <1>2, <1>4, <1>5, <1>6, <1>7, EndedIsFine DEF TablesFit

\* resolve_customer_by_phone, taken apart: the request s goes on as x with the
\* account a and the kontragent k, of which the tables then say the same.
Resolves(r, s, x, a, k) ==
  /\ s = accountReq[r] /\ s.pc \in {"create", "link"} /\ s.phone \in Phones
  /\ s.account \in Nat
  /\ k \in Nat \ {0} /\ Numbered(kontragenty', k, s.phone)
  /\ s.pc = "link" => k = s.kontragent /\ kontragenty' = kontragenty
  /\ DOMAIN kontragenty' \subseteq DOMAIN kontragenty \cup {k}
  /\ \A l \in DOMAIN kontragenty' \ DOMAIN kontragenty : l = k /\ kontragenty'[l] = Plain(s.phone)
  /\ a = IF s.account = 0 THEN nextAccount ELSE s.account
  /\ DOMAIN accounts \subseteq DOMAIN accounts'
  /\ \/ /\ s.account = 0
        /\ DOMAIN accounts' = DOMAIN accounts \cup {a} /\ a \notin DOMAIN accounts /\ a # 0 /\ a < nextAccount'
        /\ accounts'[a] = [phone |-> Plain(s.phone), kontragent |-> k]
        /\ \A b \in DOMAIN accounts : accounts'[b] = accounts[b] /\ accounts[b].phone # Plain(s.phone)
     \/ /\ s.account # 0 /\ s.linked # k /\ a \in DOMAIN accounts /\ DOMAIN accounts' = DOMAIN accounts
        /\ accounts'[a].phone = accounts[a].phone /\ accounts'[a].kontragent = k
        /\ \A b \in DOMAIN accounts \ {a} : accounts'[b] = accounts[b]
        /\ nextAccount' = nextAccount
     \/ /\ s.account # 0 /\ s.linked = k /\ accounts' = accounts /\ nextAccount' = nextAccount
  /\ x = [pc |-> "order", phone |-> s.phone, account |-> a, kontragent |-> k]
  /\ accountReq' = [accountReq EXCEPT ![r] = x]

\* resolve_customer_by_phone has such parts.
LEMMA ResolveIs ==
  ASSUME AccountsInv, NEW r \in AccountRequests, Resolve(r)
  PROVE  \E s \in AccountRequestState : \E x, a, k : Resolves(r, s, x, a, k)
<1>1. PICK s, k, a, x :
         /\ s = accountReq[r] /\ s \in AccountRequestState
         /\ k = IF s.kontragent = 0 THEN Len(kontragenty) + 1 ELSE s.kontragent
         /\ a = AccountOf(s)
         /\ x = [pc |-> "order", phone |-> s.phone, account |-> a, kontragent |-> k]
  BY DEF AccountsInv, AccountsTypeOK
<1>2. s.pc \in {"create", "link"} /\ s.pc \in Ordering /\ OrderKnows(s, accounts, nextAccount, kontragenty)
  BY <1>1 DEF Resolve, AccountsInv, Ordering
<1>3. s.phone \in Phones /\ s.account \in Nat /\ s.kontragent \in Nat
  BY <1>1, <1>2, AccountRequestFields DEF Ordering
<1>4. kontragenty \in Seq(Typed) /\ Len(kontragenty) \in Nat
  BY DEF AccountsInv, AccountsTypeOK
<1>5. /\ k \in Nat \ {0} /\ Numbered(kontragenty', k, s.phone)
      /\ s.pc = "link" => k = s.kontragent /\ kontragenty' = kontragenty
      /\ DOMAIN kontragenty' \subseteq DOMAIN kontragenty \cup {k}
      /\ \A l \in DOMAIN kontragenty' \ DOMAIN kontragenty : l = k /\ kontragenty'[l] = Plain(s.phone)
  <2>1. CASE s.pc = "create"
    <3>1. kontragenty' = Append(kontragenty, Plain(s.phone)) /\ k = Len(kontragenty) + 1
      BY <1>1, <1>2, <2>1 DEF Resolve, OrderKnows
    <3>2. /\ DOMAIN kontragenty' = 1 .. Len(kontragenty) + 1 /\ DOMAIN kontragenty = 1 .. Len(kontragenty)
          /\ kontragenty'[Len(kontragenty) + 1] = Plain(s.phone)
      BY <1>4, <3>1
    <3>3. Numbered(kontragenty', k, s.phone)
      BY <1>4, <3>1, <3>2, VariantsAre DEF Numbered
    <3> QED BY <1>4, <2>1, <3>1, <3>2, <3>3
  <2>2. CASE s.pc = "link"
    <3>1. kontragenty' = kontragenty /\ Numbered(kontragenty, s.kontragent, s.phone)
      BY <1>1, <1>2, <2>2 DEF Resolve, OrderKnows
    <3>2. s.kontragent # 0
      BY <1>4, <3>1 DEF Numbered
    <3> QED BY <1>1, <1>3, <3>1, <3>2
  <2> QED BY <1>2, <2>1, <2>2
<1>6. LinkAccount(s, k) /\ accountReq' = [accountReq EXCEPT ![r] = x]
  BY <1>1 DEF Resolve, Become
<1>7. a = IF s.account = 0 THEN nextAccount ELSE s.account
  BY <1>1 DEF AccountOf
<1>8. CASE s.account = 0 /\ InsertAccount(Plain(s.phone), k)
  <2>1. PICK p \in Login : p = Plain(s.phone)
    BY <1>3 DEF Plain, Login, Phone
  <2>2. InsertAccount(p, k)
    BY <1>8, <2>1
  <2>3. /\ nextAccount \notin DOMAIN accounts /\ DOMAIN accounts' = DOMAIN accounts \cup {nextAccount}
        /\ accounts'[nextAccount] = [phone |-> p, kontragent |-> k]
        /\ \A b \in DOMAIN accounts : accounts'[b] = accounts[b]
        /\ \A b \in DOMAIN accounts : accounts[b].phone # p
        /\ nextAccount \in Nat \ {0} /\ nextAccount' = nextAccount + 1
    BY <1>5, <2>2, Inserted
  <2>4. nextAccount < nextAccount'
    BY <2>3
  <2>5. /\ s.account = 0
        /\ DOMAIN accounts' = DOMAIN accounts \cup {a} /\ a \notin DOMAIN accounts /\ a # 0 /\ a < nextAccount'
        /\ accounts'[a] = [phone |-> Plain(s.phone), kontragent |-> k]
        /\ \A b \in DOMAIN accounts : accounts'[b] = accounts[b] /\ accounts[b].phone # Plain(s.phone)
    <3>1. a = nextAccount
      BY <1>7, <1>8
    <3> QED BY <1>8, <2>1, <2>3, <2>4, <3>1
  <2> QED BY <1>1, <1>2, <1>3, <1>5, <1>6, <1>7, <2>5 DEF Resolves
<1>9. CASE /\ s.account # 0 /\ s.linked # k /\ s.account \in DOMAIN accounts
           /\ accounts' = [accounts EXCEPT ![s.account].kontragent = k]
           /\ UNCHANGED nextAccount
  <2>1. accounts[s.account] \in Account
    BY <1>9 DEF AccountsInv, AccountsTypeOK
  <2>2. /\ DOMAIN accounts' = DOMAIN accounts /\ accounts'[s.account] = [accounts[s.account] EXCEPT !.kontragent = k]
        /\ \A b \in DOMAIN accounts \ {s.account} : accounts'[b] = accounts[b]
    BY <1>9
  <2>3. accounts'[s.account].phone = accounts[s.account].phone /\ accounts'[s.account].kontragent = k
    BY <2>1, <2>2 DEF Account
  <2>4. /\ s.account # 0 /\ s.linked # k /\ a \in DOMAIN accounts /\ DOMAIN accounts' = DOMAIN accounts
        /\ accounts'[a].phone = accounts[a].phone /\ accounts'[a].kontragent = k
        /\ \A b \in DOMAIN accounts \ {a} : accounts'[b] = accounts[b]
        /\ nextAccount' = nextAccount
    <3>1. a = s.account
      BY <1>7, <1>9
    <3> QED BY <1>9, <2>2, <2>3, <3>1
  <2> QED BY <1>1, <1>2, <1>3, <1>5, <1>6, <1>7, <2>4 DEF Resolves
<1>10. CASE s.account # 0 /\ s.linked = k /\ UNCHANGED <<accounts, nextAccount>>
  BY <1>1, <1>2, <1>3, <1>5, <1>6, <1>7, <1>10 DEF Resolves
<1> QED BY <1>6, <1>8, <1>9, <1>10 DEF LinkAccount

\* The account the request goes on with is of the number, and linked.
LEMMA ResolvedAccount ==
  ASSUME AccountsInv, AccountsTypeOK', Grows, NEW r \in AccountRequests, NEW s \in AccountRequestState,
         NEW x, NEW a, NEW k, Resolves(r, s, x, a, k)
  PROVE  /\ a < nextAccount' /\ a # 0
         /\ a \in DOMAIN accounts' => accounts'[a].phone \in Variants(s.phone) /\ accounts'[a].kontragent # 0
         /\ \A b \in DOMAIN accounts' :
              \/ b \in DOMAIN accounts /\ accounts'[b] = accounts[b]
              \/ b = a /\ accounts'[b].kontragent = k /\ accounts'[b].phone \in Variants(s.phone)
         /\ \A b \in DOMAIN accounts : b \in DOMAIN accounts' /\ accounts'[b].phone = accounts[b].phone
<1>1. s.pc \in Ordering /\ OrderKnows(s, accounts, nextAccount, kontragenty)
  BY DEF Resolves, AccountsInv, Ordering
<1>2. CASE s.account = 0
  BY <1>2, VariantsAre DEF Resolves
<1>3. CASE s.account # 0 /\ s.linked # k
  BY <1>1, <1>3 DEF Resolves, OrderKnows
<1>4. CASE s.account # 0 /\ s.linked = k
  BY <1>1, <1>4 DEF Resolves, OrderKnows
<1> QED BY <1>2, <1>3, <1>4

\* If nobody had the number, the account and the kontragent made now have it.
LEMMA ResolveFree ==
  ASSUME AccountsInv, NEW r \in AccountRequests, NEW s \in AccountRequestState, NEW x, NEW a, NEW k,
         Resolves(r, s, x, a, k), Grows, NumberFree(s.phone), phoneOrders' = phoneOrders
  PROVE  NumberFits(s.phone)'
<1> DEFINE d == s.phone
<1>1. s.account = 0 /\ s.pc = "create"
  <2>1. AsksNew(d, s)
    BY DEF NumberFree, Resolves
  <2> QED BY <2>1 DEF AsksNew, Resolves, Ordering
<1>2. TakenTables(d, a, k, accounts', kontragenty')
  <2>1. /\ a \in DOMAIN accounts' /\ accounts'[a] = [phone |-> Plain(d), kontragent |-> k]
        /\ \A b \in DOMAIN accounts' \ {a} : accounts'[b].phone.of # d
    BY <1>1 DEF Resolves, NumberFree, FreeTables
  <2>2. k \in DOMAIN kontragenty' /\ k \notin DOMAIN kontragenty
        /\ \A l \in DOMAIN kontragenty' \ {k} : l \in DOMAIN kontragenty
    <3>1. k \in DOMAIN kontragenty' /\ kontragenty'[k].of = d
      <4>1. PICK e : e = s.phone
        OBVIOUS
      <4>2. k \in DOMAIN kontragenty' /\ kontragenty'[k] \in Variants(e)
        BY <4>1 DEF Resolves, Numbered
      <4> QED BY <4>1, <4>2, VariantsAre
    <3>2. k \notin DOMAIN kontragenty
      BY <3>1 DEF Grows, NumberFree, FreeTables
    <3> QED BY <3>1, <3>2 DEF Resolves
  <2>3. kontragenty'[k] = Plain(d)
    BY <2>2 DEF Resolves
  <2>4. \A l \in DOMAIN kontragenty' \ {k} : kontragenty'[l].of # d
    BY <2>2 DEF Grows, NumberFree, FreeTables
  <2> QED BY <2>1, <2>2, <2>3, <2>4 DEF TakenTables
<1>3. \A q \in AccountRequests : AsksTaken(d, a, k, accountReq'[q])
  <2>1. DOMAIN accountReq = AccountRequests
    BY DEF AccountsInv, AccountsTypeOK
  <2>2. \A q \in AccountRequests \ {r} : accountReq'[q] = accountReq[q]
    BY <2>1 DEF Resolves
  <2>3. accountReq'[r] = x /\ AsksTaken(d, a, k, x)
    BY <2>1 DEF Resolves, AsksTaken
  <2>4. \A q \in AccountRequests : AsksTaken(d, a, k, accountReq[q])
    BY DEF NumberFree, AsksNew, AsksTaken
  <2> QED BY <2>2, <2>3, <2>4
<1>4. NumberTaken(d, a, k)' /\ a \in DOMAIN accounts' /\ k \in DOMAIN kontragenty'
  BY <1>2, <1>3 DEF NumberTaken, TakenTables, NumberFree
<1> QED BY <1>4 DEF NumberFits

\* If somebody had it, the request goes on with what was there.
LEMMA ResolveTaken ==
  ASSUME AccountsInv, NEW r \in AccountRequests, NEW s \in AccountRequestState, NEW x, NEW a, NEW k,
         Resolves(r, s, x, a, k), NEW b \in DOMAIN accounts, NEW l \in DOMAIN kontragenty,
         NumberTaken(s.phone, b, l), phoneOrders' = phoneOrders
  PROVE  NumberFits(s.phone)'
<1> DEFINE d == s.phone
<1>1. AsksTaken(d, b, l, s) /\ accounts[b].phone = Plain(d)
  BY DEF NumberTaken, TakenTables, Resolves
<1>2. s.account = b /\ s.pc = "link" /\ s.linked = l /\ s.kontragent = l
  BY <1>1 DEF AsksTaken, Resolves, Ordering
<1>3. b # 0
  BY DEF AccountsInv, AccountsTypeOK
<1>4. k = l /\ a = b /\ accounts' = accounts /\ kontragenty' = kontragenty
  BY <1>2, <1>3 DEF Resolves
<1>5. \A q \in AccountRequests : AsksTaken(d, b, l, accountReq'[q])
  <2>1. DOMAIN accountReq = AccountRequests
    BY DEF AccountsInv, AccountsTypeOK
  <2>2. \A q \in AccountRequests \ {r} : accountReq'[q] = accountReq[q]
    BY <2>1 DEF Resolves
  <2>3. accountReq'[r] = x /\ AsksTaken(d, b, l, x)
    BY <1>4, <2>1 DEF Resolves, AsksTaken
  <2> QED BY <2>2, <2>3 DEF NumberTaken
<1>6. NumberTaken(d, b, l)' /\ b \in DOMAIN accounts' /\ l \in DOMAIN kontragenty'
  BY <1>4, <1>5 DEF NumberTaken
<1> QED BY <1>6 DEF NumberFits

\* resolve_customer_by_phone changes what is of its number only.
LEMMA ResolveKeeps ==
  ASSUME AccountsInv, AccountsTypeOK', Grows, NEW r \in AccountRequests, Resolve(r)
  PROVE  TablesFit
<1>0. PICK s \in AccountRequestState : \E x, a, k : Resolves(r, s, x, a, k)
  BY ResolveIs
<1>1. PICK x, a, k : Resolves(r, s, x, a, k)
  BY <1>0
<1>2. UNCHANGED <<bindings, phoneOrders, entries, touched>>
  BY DEF Resolve
<1>3. /\ a < nextAccount' /\ a # 0
      /\ a \in DOMAIN accounts' => accounts'[a].phone \in Variants(s.phone) /\ accounts'[a].kontragent # 0
      /\ \A b \in DOMAIN accounts' :
           \/ b \in DOMAIN accounts /\ accounts'[b] = accounts[b]
           \/ b = a /\ accounts'[b].kontragent = k /\ accounts'[b].phone \in Variants(s.phone)
      /\ \A b \in DOMAIN accounts : b \in DOMAIN accounts' /\ accounts'[b].phone = accounts[b].phone
  BY <1>1, ResolvedAccount
<1>4. LinksFit(accounts', kontragenty')
  <2>1. \A b \in DOMAIN accounts' :
          \/ b \in DOMAIN accounts /\ accounts'[b] = accounts[b]
          \/ Numbered(kontragenty', accounts'[b].kontragent, accounts'[b].phone.of)
    BY <1>1, <1>3, VariantsAre DEF Resolves
  <2> QED BY <2>1, LinksStay
<1>5. EntriesFit'
  BY <1>2, <1>3, EntriesStay DEF AccountsInv, EntriesFit
<1>6. /\ \A q \in AccountRequests \ {r} : accountReq'[q] = accountReq[q]
      /\ accountReq'[r] = x
      /\ x = [pc |-> "order", phone |-> s.phone, account |-> a, kontragent |-> k]
  <2>1. DOMAIN accountReq = AccountRequests
    BY DEF AccountsInv, AccountsTypeOK
  <2> QED BY <1>1, <2>1 DEF Resolves
<1>7. Knows(x, accounts', nextAccount', kontragenty')
  BY <1>1, <1>3, <1>6 DEF Knows, OrderKnows, EntryKnows, Resolves
<1>8. ASSUME NEW d \in Phones \ touched' PROVE NumberFits(d)'
  <2>1. NumberFits(d)
    BY <1>2, <1>8 DEF AccountsInv, NumberFits
  <2>2. CASE d # s.phone
    <3>1. Apart(d)
      <4>1. \A b \in DOMAIN accounts' :
              (b \in DOMAIN accounts /\ accounts'[b] = accounts[b]) \/ accounts'[b].phone.of # d
        BY <1>3, <2>2, VariantsAre
      <4>2. \A b \in DOMAIN accounts :
              accounts[b].phone.of = d => b \in DOMAIN accounts' /\ accounts'[b] = accounts[b]
        BY <1>3, <4>1
      <4>3. \A l \in DOMAIN kontragenty' :
              (l \in DOMAIN kontragenty /\ kontragenty'[l] = kontragenty[l]) \/ kontragenty'[l].of # d
        BY <1>1, <2>2, VariantsAre DEF Resolves, Grows
      <4> QED BY <4>1, <4>2, <4>3 DEF Apart, Grows
    <3>2. OfAnother(d, x)
      BY <1>6, <2>2 DEF OfAnother
    <3> QED BY <1>2, <1>6, <2>1, <3>1, <3>2, NumberStays
  <2>3. CASE d = s.phone
    <3>1. CASE NumberFree(d)
      BY <1>1, <1>2, <2>3, <3>1, ResolveFree
    <3>2. ASSUME NEW b \in DOMAIN accounts, NEW l \in DOMAIN kontragenty, NumberTaken(d, b, l)
          PROVE  NumberFits(d)'
      BY <1>1, <1>2, <2>3, <3>2, ResolveTaken
    <3> QED BY <2>1, <3>1, <3>2 DEF NumberFits
  <2> QED BY <2>2, <2>3
<1> QED BY <1>2, <1>4, <1>5, <1>6, <1>7, <1>8, OrdersStay DEF TablesFit

-----------------------------------------------------------------------------
\* The invariant holds at first.
LEMMA AccountsInvInit == AccountsInit => AccountsInv
<1> SUFFICES ASSUME AccountsInit PROVE AccountsInv
  OBVIOUS
<1>1. AccountsTypeOK
  BY AccountTypesInit, AccountsAssumption
<1>2. /\ \A r \in AccountRequests : accountReq[r].pc = "idle"
      /\ DOMAIN accounts = {} /\ DOMAIN kontragenty = {} /\ DOMAIN phoneOrders = {} /\ DOMAIN bindings = {}
      /\ entries = {}
  BY DEF AccountsInit, AccountIdle
<1>3. \A r \in AccountRequests :
        /\ OrderKnows(accountReq[r], accounts, nextAccount, kontragenty)
        /\ EntryKnows(accountReq[r], accounts, nextAccount)
        /\ \A d \in Phones : AsksNew(d, accountReq[r])
  BY <1>2 DEF OrderKnows, EntryKnows, AsksNew, Ordering
<1>4. \A d \in Phones : NumberFree(d)
  BY <1>2, <1>3 DEF NumberFree, FreeTables
<1>5. LinksFit(accounts, kontragenty) /\ EntriesFit
  BY <1>2 DEF LinksFit, EntriesFit
<1> QED BY <1>1, <1>2, <1>3, <1>4, <1>5 DEF AccountsInv, NumberFits

\* Every step keeps the invariant.
LEMMA AccountsStep ==
  ASSUME AccountsInv, AccountsNext
  PROVE  AccountsInv'
<1>1. AccountsTypeOK' /\ Grows
  BY AccountTypesNext
<1>2. TablesFit
  <2>1. ASSUME NEW r \in AccountRequests, Routes(r) \/ AgentCreateOrder(r) \/ FailAccountRequest(r)
        PROVE  Quiet(r) \/ FinishRegister(r) \/ Bind(r) \/ Resolve(r) \/ CreateOrder(r)
    BY <2>1 DEF Routes, AgentCreateOrder, Quiet
  <2> QED BY <1>1, <2>1, QuietKeeps, FinishRegisterKeeps, BindKeeps, ResolveKeeps, CreateOrderKeeps, DeleteKeeps,
             CreateKontragentKeeps DEF AccountsNext
<1>3. \A q \in AccountRequests :
        /\ OrderKnows(accountReq'[q], accounts', nextAccount', kontragenty')
        /\ EntryKnows(accountReq'[q], accounts', nextAccount')
  BY <1>1, <1>2, RequestsKnow DEF TablesFit
<1> QED BY <1>1, <1>2, <1>3 DEF TablesFit, AccountsInv

\* The invariant of the accounts: requests know what the tables say of the
\* rows they remember, links are between rows of one number, and a number that
\* only orders by telephone touched has nothing or one of each.
THEOREM AccountsHold == AccountsSpec => []AccountsInv
<1>1. AccountsInit => AccountsInv
  BY AccountsInvInit
<1>2. AccountsInv /\ [AccountsNext]_accountVars => AccountsInv'
  <2> SUFFICES ASSUME AccountsInv, [AccountsNext]_accountVars PROVE AccountsInv'
    OBVIOUS
  <2>1. CASE UNCHANGED accountVars
    <3>1. AccountsTypeOK'
      BY <2>1 DEF accountVars, AccountsInv, AccountsTypeOK
    <3>2. \A d : (NumberFree(d) => NumberFree(d)') /\ \A a, k : NumberTaken(d, a, k) => NumberTaken(d, a, k)'
      BY <2>1 DEF accountVars, NumberFree, NumberTaken
    <3>3. LinksFit(accounts, kontragenty)' /\ EntriesFit'
      BY <2>1 DEF accountVars, AccountsInv, LinksFit, EntriesFit, Numbered
    <3>4. \A d \in Phones \ touched' :
            NumberFree(d)' \/ \E a \in DOMAIN accounts', k \in DOMAIN kontragenty' : NumberTaken(d, a, k)'
      <4> SUFFICES ASSUME NEW d \in Phones \ touched
                   PROVE  NumberFree(d)' \/ \E a \in DOMAIN accounts, k \in DOMAIN kontragenty : NumberTaken(d, a, k)'
        BY <2>1 DEF accountVars
      <4>1. NumberFree(d) \/ \E a \in DOMAIN accounts, k \in DOMAIN kontragenty : NumberTaken(d, a, k)
        BY DEF AccountsInv, NumberFits
      <4> QED BY <3>2, <4>1
    <3>5. /\ accounts' = accounts /\ nextAccount' = nextAccount /\ kontragenty' = kontragenty
          /\ accountReq' = accountReq /\ phoneOrders' = phoneOrders
      BY <2>1 DEF accountVars
    <3>6. /\ \A r \in AccountRequests :
               /\ OrderKnows(accountReq'[r], accounts', nextAccount', kontragenty')
               /\ EntryKnows(accountReq'[r], accounts', nextAccount')
          /\ \A i \in DOMAIN phoneOrders' : OrderFits(phoneOrders'[i], accounts', nextAccount', kontragenty')
      BY <3>5 DEF AccountsInv
    <3> QED BY <3>1, <3>3, <3>4, <3>6 DEF AccountsInv, NumberFits
  <2>2. CASE AccountsNext
    BY <2>2, AccountsStep
  <2> QED BY <2>1, <2>2
<1> QED BY <1>1, <1>2, PTL DEF AccountsSpec

\* A number only orders touched has one kontragent, and its orders agree.
LEMMA InvariantGivesOneCustomer == AccountsInv => OneCustomerPerNumber
<1> SUFFICES ASSUME AccountsInv, NEW d \in Phones \ touched
             PROVE  /\ Cardinality(KontragentyOf(Variants(d))) <= 1
                    /\ \A i, j \in DOMAIN phoneOrders : phoneOrders[i].phone = d /\ phoneOrders[j].phone = d =>
                         /\ phoneOrders[i].account = phoneOrders[j].account
                         /\ phoneOrders[i].kontragent = phoneOrders[j].kontragent
  BY DEF OneCustomerPerNumber
<1>1. CASE NumberFree(d)
  <2>1. KontragentyOf(Variants(d)) = {}
    BY <1>1, VariantsAre DEF NumberFree, FreeTables, KontragentyOf
  <2>2. Cardinality(KontragentyOf(Variants(d))) = 0
    BY <2>1, FS_EmptySet
  <2> QED BY <1>1, <2>2 DEF NumberFree
<1>2. ASSUME NEW a \in DOMAIN accounts, NEW k \in DOMAIN kontragenty, NumberTaken(d, a, k)
      PROVE  /\ Cardinality(KontragentyOf(Variants(d))) <= 1
             /\ \A i, j \in DOMAIN phoneOrders : phoneOrders[i].phone = d /\ phoneOrders[j].phone = d =>
                  /\ phoneOrders[i].account = phoneOrders[j].account
                  /\ phoneOrders[i].kontragent = phoneOrders[j].kontragent
  <2>1. KontragentyOf(Variants(d)) = {k}
    BY <1>2, VariantsAre DEF NumberTaken, TakenTables, KontragentyOf
  <2>2. Cardinality(KontragentyOf(Variants(d))) = 1
    BY <2>1, FS_Singleton
  <2> QED BY <1>2, <2>2 DEF NumberTaken
<1> QED BY <1>1, <1>2 DEF AccountsInv, NumberFits

\* An order and its account are of the number the order was made for.
LEMMA InvariantGivesOrders == AccountsInv => OrdersReachTheirNumber
<1> SUFFICES ASSUME AccountsInv, NEW i \in DOMAIN phoneOrders
             PROVE  /\ phoneOrders[i].kontragent \in KontragentyOf(Variants(phoneOrders[i].phone))
                    /\ phoneOrders[i].account \in DOMAIN accounts =>
                         /\ phoneOrders[i].account \in AccountsOf(Variants(phoneOrders[i].phone))
                         /\ accounts[phoneOrders[i].account].kontragent
                              \in KontragentyOf(Variants(phoneOrders[i].phone))
  BY DEF OrdersReachTheirNumber
<1>1. PICK o, d, a, k : o = phoneOrders[i] /\ d = o.phone /\ a = o.account /\ k = o.kontragent
  OBVIOUS
<1>2. OrderFits(o, accounts, nextAccount, kontragenty)
  BY <1>1 DEF AccountsInv
<1>3. /\ Numbered(kontragenty, k, d)
      /\ a \in DOMAIN accounts => accounts[a].phone \in Variants(d) /\ accounts[a].kontragent # 0
  BY <1>1, <1>2 DEF OrderFits
<1>4. a \in DOMAIN accounts => Numbered(kontragenty, accounts[a].kontragent, d)
  <2> SUFFICES ASSUME a \in DOMAIN accounts PROVE Numbered(kontragenty, accounts[a].kontragent, d)
    OBVIOUS
  <2>1. accounts[a].phone.of = d
    BY <1>3, VariantsAre
  <2> QED BY <1>3, <2>1 DEF AccountsInv, LinksFit
<1>5. /\ k \in KontragentyOf(Variants(d))
      /\ a \in DOMAIN accounts =>
           a \in AccountsOf(Variants(d)) /\ accounts[a].kontragent \in KontragentyOf(Variants(d))
  BY <1>3, <1>4 DEF Numbered, KontragentyOf, AccountsOf
<1> QED BY <1>1, <1>5

\* However the first orders from a number race, they go to one account and one
\* kontragent.
THEOREM CustomersHold == AccountsSpec => []OneCustomerPerNumber
BY AccountsHold, InvariantGivesOneCustomer, PTL

\* Every order goes to a kontragent of its number, and so does its account.
THEOREM OrdersOfNumbersHold == AccountsSpec => []OrdersReachTheirNumber
BY AccountsHold, InvariantGivesOrders, PTL

\* However the entries of a user race, all of them are into one account.
THEOREM EntriesHold == AccountsSpec => []EntriesAgree
<1>1. AccountsInv => EntriesAgree
  BY DEF AccountsInv, EntriesFit, EntriesAgree, AccountsOf
<1> QED BY <1>1, AccountsHold, PTL

=============================================================================
