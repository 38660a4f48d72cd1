------------------------- MODULE StockConcurrency --------------------------
(***************************************************************************)
(* The rows of stock_batches of one good in one warehouse, as concurrent   *)
(* transactions see them: what consume_batches and reserve lock with       *)
(* SELECT ... FOR UPDATE, what _check_stock and _rollback_stock read       *)
(* without a lock (app/services/stock_service.py, document_service.py).    *)
(*                                                                         *)
(* Control of stock is by warehouse.  Every statement of a READ COMMITTED  *)
(* transaction sees what was committed when it began.  A document is       *)
(* worked on by one session at a time: its advisory lock, the subject of   *)
(* DocumentLifecycle; an order has none, and any number of requests may    *)
(* reserve or release its goods at once.  A document that brings goods in  *)
(* creates one batch, named after it here.  How an outgoing document       *)
(* spreads over the batches is the cost method's choice (StockLedger), any *)
(* here; an order has one line of the good.                                *)
(***************************************************************************)
EXTENDS Integers, FiniteSets, Functions

CONSTANTS
  Sessions,
  In,         \* documents that bring goods in, and the batches they create
  Sales,      \* outgoing documents whose posting checks what is available
  WriteOffs,  \* outgoing documents that are not checked (SPISANIE, transfers)
  Orders,     \* orders (ZAKAZ) that reserve
  Ids,        \* rows there may be in reservations at a time, a bound of the model
  Quantity,   \* the quantity of every document and order
  MaxQuantity, \* bound of the model: what overwritten quantities may grow to
  NoSession, NoDoc

Out == Sales \cup WriteOffs
Docs == In \cup Out \cup Orders

ASSUME StockAssumption ==
  /\ IsFiniteSet(Docs) /\ IsFiniteSet(Ids)
  /\ Quantity \in [Docs -> Nat]
  /\ MaxQuantity \in Nat
  /\ NoSession \notin Sessions
  /\ NoDoc \notin Docs
  /\ In \cap Out = {}

VARIABLES
  posted,      \* the posted documents
  rows,        \* the batches that exist
  qty,         \* stock_batches.quantity
  taken,       \* stock_movements of outgoing documents: taken[d][b]
  reserved,    \* the order of every row of reservations, NoDoc where there is no row
  rowLock,     \* the session that holds the lock of a batch's row
  sess,        \* what every session is doing
  overwritten, \* history: batches written over a quantity changed since it was read
  loose,       \* history: orders that counted goods whose rows they had not locked
  together     \* history: orders two requests have worked on at once

vars == <<posted, rows, qty, taken, reserved, rowLock, sess, overwritten, loose, together>>

Phases == {"idle", "checked", "selected", "consuming", "undoing", "removing",
           "releasing", "rowsSelected", "rowsLocked", "reserving"}

Idle == [pc |-> "idle", doc |-> NoDoc, snap |-> {}, got |-> [b \in In |-> 0], gone |-> {}]

\* snap: the rows a SELECT found; got: the quantities read; gone: the rows of
\* reservations a DELETE found and, past "releasing", deleted.
Session == [pc : Phases, doc : Docs \cup {NoDoc}, snap : SUBSET In, got : [In -> Int],
            gone : SUBSET Ids]

TypeOK ==
  /\ posted \in SUBSET (In \cup Out)
  /\ rows \in SUBSET In
  /\ qty \in [In -> Int]
  /\ taken \in [Out -> [In -> Nat]]
  /\ reserved \in [Ids -> Orders \cup {NoDoc}]
  /\ rowLock \in [In -> Sessions \cup {NoSession}]
  /\ sess \in [Sessions -> Session]
  /\ overwritten \in SUBSET In
  /\ loose \in SUBSET Orders /\ together \in SUBSET Orders

Init ==
  /\ posted = {}
  /\ rows = {}
  /\ qty = [b \in In |-> 0]
  /\ taken = [d \in Out |-> [b \in In |-> 0]]
  /\ reserved = [i \in Ids |-> NoDoc]
  /\ rowLock = [b \in In |-> NoSession]
  /\ sess = [s \in Sessions |-> Idle]
  /\ overwritten = {}
  /\ loose = {} /\ together = {}

-----------------------------------------------------------------------------
Quantities(S) == SumFunctionOnSet(qty, S)

Book == Quantities(rows)

\* What the rows of reservations hold; a transaction does not see those it has deleted.
Reserved == [i \in Ids |-> IF reserved[i] = NoDoc THEN 0 ELSE Quantity[reserved[i]]]

ReservedBut(gone) == SumFunctionOnSet(Reserved, Ids \ gone)

At(s, pc) == sess[s].pc = pc

\* The advisory lock of the document is free.
Free(d) == \A s \in Sessions : sess[s].doc # d

\* Rows another session has not locked.
RowsFree(s, S) == \A b \in S : rowLock[b] \in {NoSession, s}

LockRows(s, S) == rowLock' = [b \in In |-> IF b \in S THEN s ELSE rowLock[b]]

\* The quantities of the rows of S, as they are now.
Read(S) == [b \in In |-> IF b \in S THEN qty[b] ELSE 0]

\* The batches an outgoing document took from.
Held(d) == {b \in rows : taken[d][b] > 0}

ReleaseRows(s) ==
  rowLock' = [b \in In |-> IF rowLock[b] = s THEN NoSession ELSE rowLock[b]]

\* Commit and rollback: row locks released, the request over.
End(s) ==
  /\ ReleaseRows(s)
  /\ sess' = [sess EXCEPT ![s] = Idle]

\* The transaction is undone: an error of the handler (not enough stock, a
\* batch already consumed, a foreign key), a deadlock victim, a crash.
Rollback(s) ==
  /\ ~ At(s, "idle")
  /\ End(s)
  /\ UNCHANGED <<posted, rows, qty, taken, reserved, overwritten, loose, together>>

-----------------------------------------------------------------------------
\* create_incoming: INSERT of a batch no one else can see before the commit.
PostIncoming(d) ==
  /\ d \notin posted
  /\ d \notin rows
  /\ Free(d)
  /\ posted' = posted \cup {d}
  /\ rows' = rows \cup {d}
  /\ qty' = [qty EXCEPT ![d] = Quantity[d]]
  /\ overwritten' = overwritten \ {d}
  /\ UNCHANGED <<taken, reserved, rowLock, sess, loose, together>>

\* _check_stock, without a lock; a write-off is not checked.
CheckStock(s, d) ==
  /\ At(s, "idle")
  /\ d \notin posted
  /\ Free(d)
  /\ d \in Sales => Book - ReservedBut({}) >= Quantity[d]
  /\ sess' = [sess EXCEPT ![s] = [Idle EXCEPT !.pc = "checked", !.doc = d]]
  /\ UNCHANGED <<posted, rows, qty, taken, reserved, rowLock, overwritten, loose, together>>

\* consume_batches: the rows with a quantity when the SELECT begins.
SelectBatches(s) ==
  /\ At(s, "checked")
  /\ sess' = [sess EXCEPT ![s].pc = "selected", ![s].snap = {b \in rows : qty[b] > 0}]
  /\ UNCHANGED <<posted, rows, qty, taken, reserved, rowLock, overwritten, loose, together>>

\* FOR UPDATE: it waits for the rows, then reads them as they are now and
\* keeps those that still have a quantity; too little is an error (Rollback).
LockBatches(s) ==
  LET found == sess[s].snap
      left == {b \in found : qty[b] > 0}
  IN
  /\ At(s, "selected")
  /\ RowsFree(s, found)
  /\ Quantities(left) >= Quantity[sess[s].doc]
  /\ LockRows(s, found)
  /\ sess' = [sess EXCEPT ![s] =
       [pc |-> "consuming", doc |-> @.doc, snap |-> left, got |-> Read(left), gone |-> {}]]
  /\ UNCHANGED <<posted, rows, qty, taken, reserved, overwritten, loose, together>>

\* What the document may take from the batches it has read.
Spreads(s) ==
  {t \in [In -> 0 .. Quantity[sess[s].doc]] :
     /\ \A b \in In : t[b] <= sess[s].got[b]
     /\ SumFunction(t) = Quantity[sess[s].doc]}

\* The batches and the movements are written, the document is posted.
ConsumeBatches(s) ==
  LET d == sess[s].doc IN
  /\ At(s, "consuming")
  /\ \E t \in Spreads(s) :
       /\ qty' = [b \in In |-> IF b \in sess[s].snap THEN sess[s].got[b] - t[b] ELSE qty[b]]
       /\ taken' = [taken EXCEPT ![d] = t]
  /\ posted' = posted \cup {d}
  /\ End(s)
  /\ UNCHANGED <<rows, reserved, overwritten, loose, together>>

-----------------------------------------------------------------------------
\* _rollback_stock of an outgoing document: session.get, without a lock.
ReadTaken(s, d) ==
  /\ At(s, "idle")
  /\ d \in posted \cap Out
  /\ Free(d)
  /\ sess' = [sess EXCEPT ![s] =
       [pc |-> "undoing", doc |-> d, snap |-> Held(d), got |-> Read(Held(d)), gone |-> {}]]
  /\ UNCHANGED <<posted, rows, qty, taken, reserved, rowLock, overwritten, loose, together>>

\* Mutant: the movements are deleted, the batches stay as they are.
GiveBackNothing(s) ==
  /\ At(s, "undoing")
  /\ taken' = [taken EXCEPT ![sess[s].doc] = [b \in In |-> 0]]
  /\ posted' = posted \ {sess[s].doc}
  /\ End(s)
  /\ UNCHANGED <<rows, qty, reserved, overwritten, loose, together>>

\* The UPDATE waits for the rows and writes the quantity that was read, plus
\* what the document had taken.
GiveBack(s) ==
  LET d == sess[s].doc
      back == sess[s].snap
  IN
  /\ At(s, "undoing")
  /\ RowsFree(s, back)
  /\ qty' = [b \in In |-> IF b \in back THEN sess[s].got[b] + taken[d][b] ELSE qty[b]]
  /\ \A b \in In : qty'[b] <= MaxQuantity
  /\ overwritten' = overwritten \cup {b \in back : qty[b] # sess[s].got[b]}
  /\ taken' = [taken EXCEPT ![d] = [b \in In |-> 0]]
  /\ posted' = posted \ {d}
  /\ End(s)
  /\ UNCHANGED <<rows, reserved, loose, together>>

\* _rollback_stock of an incoming document: "stock was already consumed by
\* later documents", on a quantity read without a lock.
ReadIncoming(s, d) ==
  /\ At(s, "idle")
  /\ d \in posted \cap In
  /\ Free(d)
  /\ qty[d] >= Quantity[d]
  /\ sess' = [sess EXCEPT ![s] =
       [pc |-> "removing", doc |-> d, snap |-> {d}, got |-> Read({d}), gone |-> {}]]
  /\ UNCHANGED <<posted, rows, qty, taken, reserved, rowLock, overwritten, loose, together>>

\* Mutant: no foreign key, and no one else's movements looked for.
RemoveIncomingAnyway(s) ==
  LET d == sess[s].doc IN
  /\ At(s, "removing")
  /\ RowsFree(s, {d})
  /\ rows' = rows \ {d}
  /\ qty' = [qty EXCEPT ![d] = 0]
  /\ posted' = posted \ {d}
  /\ End(s)
  /\ UNCHANGED <<taken, reserved, overwritten, loose, together>>

\* An emptied batch is deleted; the foreign key of a movement prevents it.
\* A deleted row drops out of the results of the statements that wait for it.
RemoveIncoming(s) ==
  LET d == sess[s].doc
      left == sess[s].got[d] - Quantity[d]
      deleted == IF left = 0 THEN {d} ELSE {}
  IN
  /\ At(s, "removing")
  /\ RowsFree(s, {d})
  /\ \A b \in deleted, o \in Out : taken[o][b] = 0
  /\ rows' = rows \ deleted
  /\ qty' = [qty EXCEPT ![d] = left]
  /\ overwritten' = overwritten \cup {b \in {d} : qty[b] # sess[s].got[b]}
  /\ posted' = posted \ {d}
  /\ ReleaseRows(s)
  /\ sess' = [t \in Sessions |-> IF t = s THEN Idle ELSE [sess[t] EXCEPT !.snap = @ \ deleted]]
  /\ UNCHANGED <<taken, reserved, loose, together>>

-----------------------------------------------------------------------------
\* A request of an order: the DELETE of release_for_zakaz begins.
FindReservations(s, o) ==
  /\ At(s, "idle")
  /\ sess' = [sess EXCEPT ![s] =
       [Idle EXCEPT !.pc = "releasing", !.doc = o, !.gone = {i \in Ids : reserved[i] = o}]]
  /\ together' = IF Free(o) THEN together ELSE together \cup {o}
  /\ UNCHANGED <<posted, rows, qty, taken, reserved, rowLock, overwritten, loose>>

\* It waits for the rows another transaction has deleted, and passes over them
\* when that one commits; the rows inserted meanwhile it does not find.
Deleted(s) == {i \in sess[s].gone : reserved[i] = sess[s].doc}

ReservationsFree(s) ==
  \A t \in Sessions \ {s} : At(t, "releasing") \/ sess[t].gone \cap sess[s].gone = {}

\* zakaz_state "done" or "cancelled": nothing but the release, committed.
ReleaseForZakaz(s) ==
  /\ At(s, "releasing")
  /\ ReservationsFree(s)
  /\ reserved' = [i \in Ids |-> IF i \in Deleted(s) THEN NoDoc ELSE reserved[i]]
  /\ End(s)
  /\ UNCHANGED <<posted, rows, qty, taken, overwritten, loose, together>>

\* Mutant of SelectRows: the earlier reservation stays.
SelectRowsOnly(s) ==
  /\ At(s, "releasing")
  /\ ReservationsFree(s)
  /\ sess' = [sess EXCEPT ![s].pc = "rowsSelected", ![s].snap = rows, ![s].gone = {}]
  /\ UNCHANGED <<posted, rows, qty, taken, reserved, rowLock, overwritten, loose, together>>

\* zakaz_reserve: the release is not committed yet, and reserve's SELECT of every
\* row of the good in the warehouse begins.
SelectRows(s) ==
  /\ At(s, "releasing")
  /\ ReservationsFree(s)
  /\ sess' = [sess EXCEPT ![s] =
       [pc |-> "rowsSelected", doc |-> @.doc, snap |-> rows, got |-> @.got, gone |-> Deleted(s)]]
  /\ UNCHANGED <<posted, rows, qty, taken, reserved, rowLock, overwritten, loose, together>>

\* Mutant: the rows are read, not locked.
LockAllRowsNot(s) ==
  /\ At(s, "rowsSelected")
  /\ sess' = [sess EXCEPT ![s].pc = "rowsLocked"]
  /\ UNCHANGED <<posted, rows, qty, taken, reserved, rowLock, overwritten, loose, together>>

\* FOR UPDATE: the rows that are still there.
LockAllRows(s) ==
  /\ At(s, "rowsSelected")
  /\ RowsFree(s, sess[s].snap)
  /\ LockRows(s, sess[s].snap)
  /\ sess' = [sess EXCEPT ![s].pc = "rowsLocked"]
  /\ UNCHANGED <<posted, rows, qty, taken, reserved, overwritten, loose, together>>

\* get_available, without the reservations this transaction has deleted; too
\* little is an error (Rollback).
CheckAvailable(s) ==
  LET o == sess[s].doc IN
  /\ At(s, "rowsLocked")
  /\ Book - ReservedBut(sess[s].gone) >= Quantity[o]
  /\ sess' = [sess EXCEPT ![s].pc = "reserving"]
  /\ loose' = IF \E b \in rows \ sess[s].snap : qty[b] # 0 THEN loose \cup {o} ELSE loose
  /\ UNCHANGED <<posted, rows, qty, taken, reserved, rowLock, overwritten, together>>

\* The INSERT of a row and the commit, of the DELETE too.
Reserve(s) ==
  /\ At(s, "reserving")
  /\ \E new \in Ids :
       /\ reserved[new] = NoDoc /\ \A t \in Sessions : new \notin sess[t].gone
       /\ reserved' = [i \in Ids |-> IF i = new THEN sess[s].doc
                                     ELSE IF i \in sess[s].gone THEN NoDoc ELSE reserved[i]]
  /\ End(s)
  /\ UNCHANGED <<posted, rows, qty, taken, overwritten, loose, together>>

-----------------------------------------------------------------------------
Step(s) ==
  \/ SelectBatches(s) \/ LockBatches(s) \/ ConsumeBatches(s)
  \/ GiveBack(s) \/ RemoveIncoming(s)
  \/ ReleaseForZakaz(s)
  \/ SelectRows(s) \/ LockAllRows(s) \/ CheckAvailable(s) \/ Reserve(s)
  \/ Rollback(s)

Start(s) ==
  \/ \E d \in Out : CheckStock(s, d) \/ ReadTaken(s, d)
  \/ \E d \in In : ReadIncoming(s, d)
  \/ \E o \in Orders : FindReservations(s, o)

Next ==
  \/ \E d \in In : PostIncoming(d)
  \/ \E s \in Sessions : Start(s) \/ Step(s)

Spec == Init /\ [][Next]_vars

-----------------------------------------------------------------------------
(***************************************************************************)
(* Properties                                                              *)
(***************************************************************************)

\* "чтобы два конкурентных списания не прошли проверку остатка
\* одновременно" (the FOR UPDATE of consume_batches): a document about to write
\* batches holds their rows, and the quantities it writes from are those of
\* the table, whatever sales, cancellations and reservations overlap.
ConsumesFreshBatches ==
  \A s \in Sessions : At(s, "consuming") =>
    \A b \in sess[s].snap : rowLock[b] = s /\ b \in rows /\ qty[b] = sess[s].got[b]

\* A movement is of a posted document and names a batch that exists, although
\* the check of _rollback_stock reads what other documents have left of a
\* batch without locking it: the foreign key stops the late ones.
MovementsHaveBatches ==
  \A d \in Out, b \in In : taken[d][b] > 0 => b \in rows /\ d \in posted

\* A batch holds what it brought in less what the documents took, unless a
\* cancellation has written it over a change made since it was read
\* (_rollback_stock locks nothing).
TakenFrom(b) == SumFunctionOnSet([d \in Out |-> taken[d][b]], Out)

BatchConserved(b) == qty[b] = Quantity[b] - TakenFrom(b)

BatchesConserved == \A b \in rows \ overwritten : BatchConserved(b)

\* "чтобы два конкурентных резервирования не прошли проверку доступного
\* остатка одновременно" (the FOR UPDATE of reserve): no step reserves more than
\* the book holds, two requests never reserve the same goods, be they of one
\* order, unless an order has counted a batch that was inserted after its
\* SELECT, which locks no such row.
ReservationCovered ==
  [][loose = {} =>
       \A i \in Ids :
         (reserved[i] = NoDoc /\ reserved'[i] # NoDoc /\ Quantity[reserved'[i]] > 0)
           => ReservedBut({})' <= Book]_vars

\* An order's goods are reserved once: zakaz_reserve releases the order's
\* reservation before it reserves anew.  Two requests of one order at once may
\* reserve them twice, and none but those: nothing locks an order.
ReservedOnce ==
  \A i, j \in Ids : (i # j /\ reserved[i] # NoDoc /\ reserved[i] = reserved[j])
    => reserved[i] \in together

=============================================================================
