---------------------------- MODULE StockLedger ----------------------------
(***************************************************************************)
(* What posting a document does to the batches of one good, to the stock   *)
(* movements and to account 41, and how cancelling the posting undoes it   *)
(* (app/services/document_service.py, app/services/stock_service.py).      *)
(*                                                                         *)
(* A posting is one transaction and is one step here: its interleavings    *)
(* are those of DocumentLifecycle and StockConcurrency.  Within the step   *)
(* the session does not flush by itself (autoflush=False), so a SELECT of  *)
(* quantities may lag behind the batches in memory: W.db and W.b below.    *)
(*                                                                         *)
(* Quantities count thousandths and money counts ten-thousandths, the      *)
(* scales of quantity and of unit_cost; amounts have two digits.  Values   *)
(* have the digits of their columns.  A quantity times a price counts      *)
(* ten-millionths, until it is rounded to an amount.                       *)
(***************************************************************************)
EXTENDS Integers, Sequences, SequencesExt, FiniteSetsExt

CONSTANTS
  Sklady,     \* warehouses
  Document,   \* the documents: [type, to, lines, given, total], a line being
              \* [sklad, qty, price]; total counts when it was given
  Reserved,   \* what orders have reserved in each warehouse
  Settings,   \* the values of <<restock_control, cost_method>> in use
  MaxBatches  \* bound of the model: batches ever created

Docs == DOMAIN Document
RestockControl == {"by_warehouse", "by_firm", "none"}
CostMethod == {"fifo", "lifo", "average"}
Incoming == {"prihod", "oprihodovanie", "vvod_ostatkov", "vozvrat"}
Outgoing == {"rashod", "spisanie"}
DocType == Incoming \cup Outgoing \cup {"peremeshenie", "inventarizaciya", "pereocenka"}

\* Prices and totals have two digits; quantities may have any sign.
ASSUME LedgerAssumption ==
  /\ IsFiniteSet(Docs)
  /\ "none" \notin Sklady
  /\ \A d \in Docs :
       /\ Document[d].type \in DocType
       /\ Document[d].to \in Sklady
       /\ Document[d].lines \in Seq([sklad : Sklady, qty : Int, price : Nat])
       /\ \A i \in DOMAIN Document[d].lines : Document[d].lines[i].price % 100 = 0
       /\ Document[d].given \in BOOLEAN
       /\ Document[d].total \in Int /\ Document[d].total % 100 = 0
  /\ Reserved \in [Sklady -> Nat]
  /\ Settings \subseteq RestockControl \X CostMethod
  /\ MaxBatches \in Nat

VARIABLES
  posted,   \* the posted documents
  batches,  \* stock_batches, in the order of their id
  moves,    \* stock_movements of each document
  acc41,    \* balance of account 41 over each document's entries
  revLog,   \* extra["_revaluation"] of each document
  restock, method,  \* the constants restock_control and cost_method
  recosted  \* history: a document averaged or revalued the batches

vars == <<posted, batches, moves, acc41, revLog, restock, method, recosted>>

-----------------------------------------------------------------------------
\* Numbers.

\* Decimal.quantize: to the nearest, ties to even.
Quantize(n, d) ==
  LET k == n \div d
      r == n % d
  IN IF 2 * r > d \/ (2 * r = d /\ k % 2 = 1) THEN k + 1 ELSE k

\* A quantity times a price, as an amount of two digits: quantized ...
QuantizeCents(x) == IF x >= 0 THEN 100 * Quantize(x, 100000) ELSE -100 * Quantize(-x, 100000)

\* ... and as a numeric(14,2) column stores it, ties away from zero.
Cents(x) == IF x >= 0 THEN 100 * ((x + 50000) \div 100000) ELSE -100 * ((50000 - x) \div 100000)

SumOver(S, f(_)) == SumFunctionOnSet([x \in S |-> f(x)], S)

\* A batch row that was deleted.
Gone == [sklad |-> "none", qty |-> 0, cost |-> 0, src |-> "none"]

-----------------------------------------------------------------------------
(***************************************************************************)
(* The work of one transaction: the batches in memory (b), the quantities  *)
(* a SELECT sees (db), the movements it adds (m), and whether an error was *)
(* raised (ok).                                                            *)
(***************************************************************************)
Quantities(b) == [i \in DOMAIN b |-> b[i].qty]

Begin(b) == [b |-> b, db |-> Quantities(b), m |-> <<>>, ok |-> TRUE]

Fail(W) == [W EXCEPT !.ok = FALSE]

Balance(W, sklady) ==
  SumOver({i \in DOMAIN W.b : W.b[i].sklad \in sklady}, LAMBDA i : W.db[i])

\* create_incoming: a batch, flushed, and its movement.
CreateIncoming(W, d, sklad, qty, price) ==
  LET b == Append(W.b, [sklad |-> sklad, qty |-> qty, cost |-> price, src |-> d]) IN
  [W EXCEPT !.b = b, !.db = Quantities(b),
            !.m = Append(W.m, [batch |-> Len(b), sklad |-> sklad, qty |-> qty, amount |-> Cents(qty * price)])]

\* consume_batches: the rows the SELECT finds.
Found(W, sklad) == {i \in DOMAIN W.b : W.b[i].sklad = sklad /\ W.db[i] > 0}

\* Mutant: newest first, whatever the method.
PlaceNewest(k, n, how) == n + 1 - k

\* The k-th of n batches in the order of the method.
Place(k, n, how) == IF how = "lifo" THEN n + 1 - k ELSE k

AverageCost(W, found) ==
  LET total == SumOver(found, LAMBDA i : W.b[i].qty)
      value == SumOver(found, LAMBDA i : W.b[i].qty * W.b[i].cost)
  IN IF total > 0 THEN Quantize(value, total) ELSE 0

\* Mutant: every movement at the cost of the first batch.
UnitCostOfFirst(W, found, i, how) == W.b[1].cost

UnitCost(W, found, i, how) == IF how = "average" THEN AverageCost(W, found) ELSE W.b[i].cost

\* The loop takes what it can from batch i; register_outgoing adds a movement
\* per batch consumed.  C is the work so far, the quantity left to take, and
\* the amount taken, not rounded.
TakeBatch(C, i, cost) ==
  LET take == IF C.W.b[i].qty < C.left THEN C.W.b[i].qty ELSE C.left
      row == [batch |-> i, sklad |-> C.W.b[i].sklad, qty |-> -take, amount |-> Cents(-(take * cost))]
  IN [W      |-> [C.W EXCEPT !.b[i].qty = @ - take, !.m = Append(@, row)],
      left   |-> C.left - take,
      amount |-> C.amount + take * cost]

TakeStep(W, sklad, how, C, k) ==
  LET i == Place(k, Len(W.b), how)
      found == Found(W, sklad)
  IN IF i \in found /\ C.left > 0 THEN TakeBatch(C, i, UnitCost(W, found, i, how)) ELSE C

TakeBatches(W, sklad, qty, how) ==
  LET after[k \in 0 .. Len(W.b)] ==
        IF k = 0 THEN [W |-> W, left |-> qty, amount |-> 0]
        ELSE TakeStep(W, sklad, how, after[k - 1], k)
  IN after[Len(W.b)]

\* A negative batch, whose INSERT flushes the session, and its movement.
Overdraw(W, d, sklad, qty, cost) ==
  LET b == Append(W.b, [sklad |-> sklad, qty |-> -qty, cost |-> cost, src |-> d]) IN
  [W EXCEPT !.b = b, !.db = Quantities(b),
            !.m = Append(@, [batch |-> Len(b), sklad |-> sklad, qty |-> -qty, amount |-> Cents(-(qty * cost))])]

\* register_outgoing where nothing was consumed: a movement of no batch.
NoBatch == 0
MoveNoBatch(W, sklad, qty) ==
  [W EXCEPT !.m = Append(@, [batch |-> NoBatch, sklad |-> sklad, qty |-> -qty, amount |-> 0])]

\* consume_batches and register_outgoing.  A shortfall fails, or becomes a
\* negative batch; a quantity of zero or below consumes nothing.
Consume(W, d, sklad, qty, how, allowNegative) ==
  LET C == TakeBatches(W, sklad, qty, how)
      cost == IF how = "average" THEN AverageCost(W, Found(W, sklad)) ELSE 0
  IN IF qty <= 0 THEN [W |-> MoveNoBatch(W, sklad, qty), left |-> qty, amount |-> 0]
     ELSE IF C.left <= 0 THEN C
     ELSE [C EXCEPT !.W = IF allowNegative THEN Overdraw(@, d, sklad, C.left, cost) ELSE Fail(@)]

-----------------------------------------------------------------------------
\* _check_stock, line by line, before any movement.
EnoughInStock(W, d) ==
  \A i \in DOMAIN Document[d].lines :
    LET line == Document[d].lines[i]
        where == IF restock = "by_warehouse" THEN {line.sklad} ELSE Sklady
    IN Balance(W, where) - SumOver(where, LAMBDA s : Reserved[s]) >= line.qty

CheckStock(W, d) ==
  IF Document[d].type = "rashod" /\ restock # "none" /\ ~ EnoughInStock(W, d)
  THEN Fail(W) ELSE W

\* Mutant: a shortfall is allowed whatever the control.
AllowNegativeAlways(type) == type = "rashod"

AllowNegative(type) == type = "rashod" /\ restock \in {"none", "by_firm"}

\* A transfer takes from one warehouse and brings into the other at the
\* average cost of what it took.
Transfer(W, d, line) ==
  LET C == Consume(W, d, line.sklad, line.qty, method, FALSE) IN
  IF ~ C.W.ok THEN C.W
  ELSE CreateIncoming(C.W, d, Document[d].to, line.qty,
                      IF line.qty > 0 THEN Quantize(C.amount, line.qty) ELSE 0)

\* _apply_stock_movement for one line.
ApplyLine(W, d, line) ==
  LET type == Document[d].type IN
  IF type \in Incoming THEN CreateIncoming(W, d, line.sklad, line.qty, line.price)
  ELSE IF type = "peremeshenie" THEN Transfer(W, d, line)
  ELSE Consume(W, d, line.sklad, line.qty, method, AllowNegative(type)).W

\* _apply_inventory for one line: the book is a SELECT.
ApplyInventoryLine(W, d, line) ==
  LET deviation == line.qty - Balance(W, {line.sklad}) IN
  IF deviation > 0 THEN CreateIncoming(W, d, line.sklad, deviation, line.price)
  ELSE IF deviation < 0 THEN Consume(W, d, line.sklad, -deviation, method, FALSE).W
  ELSE W

\* The movements of all lines; the first error undoes the whole posting.
LineStep(W, d, line) ==
  IF ~ W.ok THEN W
  ELSE IF Document[d].type = "inventarizaciya" THEN ApplyInventoryLine(W, d, line)
  ELSE ApplyLine(W, d, line)

ApplyLines(b, d) ==
  LET lines == Document[d].lines
      after[n \in 0 .. Len(lines)] ==
        IF n = 0 THEN CheckStock(Begin(b), d) ELSE LineStep(after[n - 1], d, lines[n])
  IN after[Len(lines)]

-----------------------------------------------------------------------------
\* _apply_revaluation: the batches on hand take the new cost; the log keeps
\* the old ones, for each line.
RevalueStep(R, line) ==
  LET found == {i \in DOMAIN R.b : R.b[i].sklad = line.sklad /\ R.b[i].qty # 0}
  IN [b    |-> [i \in DOMAIN R.b |-> IF i \in found THEN [R.b[i] EXCEPT !.cost = line.price] ELSE R.b[i]],
      log  |-> Append(R.log, [i \in found |-> R.b[i].cost]),
      diff |-> R.diff + SumOver(found, LAMBDA i : (line.price - R.b[i].cost) * R.b[i].qty)]

Revalue(b, d) ==
  LET lines == Document[d].lines
      after[n \in 0 .. Len(lines)] ==
        IF n = 0 THEN [b |-> b, log |-> <<>>, diff |-> 0] ELSE RevalueStep(after[n - 1], lines[n])
  IN after[Len(lines)]

\* _rollback_revaluation.
RestoreStep(b, old) ==
  [i \in DOMAIN b |-> IF i \in DOMAIN old /\ b[i] # Gone THEN [b[i] EXCEPT !.cost = old[i]] ELSE b[i]]

RestoreCosts(b, log) ==
  LET after[n \in 0 .. Len(log)] == IF n = 0 THEN b ELSE RestoreStep(after[n - 1], log[n])
  IN after[Len(log)]

-----------------------------------------------------------------------------
\* _apply_accounting, the entries that touch account 41.  The cost of what
\* left is a SELECT over the movements, after a flush.
LineAmount(d, i) == QuantizeCents(Document[d].lines[i].qty * Document[d].lines[i].price)

Total(d) ==
  IF Document[d].given THEN Document[d].total
  ELSE SumOver(DOMAIN Document[d].lines, LAMBDA i : LineAmount(d, i))

\* Mutant: the movements are not flushed before the SELECT.
OutgoingCostUnflushed(m) == 0

OutgoingCost(m) == -SumOver({k \in DOMAIN m : m[k].qty < 0}, LAMBDA k : m[k].amount)

IncomingCost(m) == SumOver({k \in DOMAIN m : m[k].qty > 0}, LAMBDA k : m[k].amount)

Account41(d, m) ==
  LET type == Document[d].type IN
  IF type \in Incoming THEN Total(d)
  ELSE IF type \in Outgoing THEN -OutgoingCost(m)
  ELSE IF type = "inventarizaciya" THEN IncomingCost(m) - OutgoingCost(m)
  ELSE 0

-----------------------------------------------------------------------------
\* A movement undone: what left a batch is given back, what entered it is
\* taken out, which fails when later documents have consumed it.
UndoMovement(U, row) ==
  IF row.qty >= 0 /\ U.b[row.batch].qty < row.qty THEN [U EXCEPT !.ok = FALSE]
  ELSE [U EXCEPT !.b[row.batch].qty = @ - row.qty]

\* Mutant: only what the document brought in is undone.
UndoIncomingOnly(U, d, row) ==
  IF row.batch = NoBatch \/ row.qty < 0 THEN U ELSE UndoMovement(U, row)

\* Mutant: the batches the document created stay.
UndoKeepsBatches(U, d, row) == IF row.batch = NoBatch THEN U ELSE UndoMovement(U, row)

\* A batch of the document that a movement leaves empty will be deleted.
UndoStep(U, d, row) ==
  IF ~ U.ok \/ row.batch = NoBatch \/ U.b[row.batch] = Gone THEN U
  ELSE LET V == UndoMovement(U, row) IN
       IF V.ok /\ V.b[row.batch].qty = 0 /\ V.b[row.batch].src = d
       THEN [V EXCEPT !.empty = @ \cup {row.batch}] ELSE V

\* _rollback_stock: the movements one by one, then the deletions.
Rollback(b, d, m) ==
  LET after[k \in 0 .. Len(m)] ==
        IF k = 0 THEN [b |-> b, ok |-> TRUE, empty |-> {}] ELSE UndoStep(after[k - 1], d, m[k])
      U == after[Len(m)]
  IN [ok |-> U.ok, b |-> [i \in DOMAIN U.b |-> IF i \in U.empty THEN Gone ELSE U.b[i]]]

-----------------------------------------------------------------------------
Init ==
  /\ posted = {}
  /\ batches = <<>>
  /\ moves = [d \in Docs |-> <<>>]
  /\ acc41 = [d \in Docs |-> 0]
  /\ revLog = [d \in Docs |-> <<>>]
  /\ \E s \in Settings : restock = s[1] /\ method = s[2]
  /\ recosted = FALSE

\* post_document of a document whose type moves stock.
PostDocument(d) ==
  /\ d \notin posted
  /\ Document[d].type # "pereocenka"
  /\ Document[d].lines # <<>>
  /\ \E W \in {ApplyLines(batches, d)} :
       /\ W.ok
       /\ Len(W.b) <= MaxBatches
       /\ batches' = W.b
       /\ moves' = [moves EXCEPT ![d] = W.m]
       /\ acc41' = [acc41 EXCEPT ![d] = Account41(d, W.m)]
  /\ posted' = posted \cup {d}
  /\ recosted' = (recosted \/ method = "average")
  /\ UNCHANGED <<revLog, restock, method>>

\* post_document of a revaluation.
PostRevaluation(d) ==
  /\ d \notin posted
  /\ Document[d].type = "pereocenka"
  /\ Document[d].lines # <<>>
  /\ \E R \in {Revalue(batches, d)} :
       /\ batches' = R.b
       /\ revLog' = [revLog EXCEPT ![d] = R.log]
       /\ acc41' = [acc41 EXCEPT ![d] = QuantizeCents(R.diff)]
  /\ posted' = posted \cup {d}
  /\ recosted' = TRUE
  /\ UNCHANGED <<moves, restock, method>>

\* unpost_document: batches restored, movements and entries deleted.
UnpostDocument(d) ==
  /\ d \in posted
  /\ Document[d].type # "pereocenka"
  /\ \E U \in {Rollback(batches, d, moves[d])} : U.ok /\ batches' = U.b
  /\ posted' = posted \ {d}
  /\ moves' = [moves EXCEPT ![d] = <<>>]
  /\ acc41' = [acc41 EXCEPT ![d] = 0]
  /\ UNCHANGED <<revLog, restock, method, recosted>>

UnpostRevaluation(d) ==
  /\ d \in posted
  /\ Document[d].type = "pereocenka"
  /\ posted' = posted \ {d}
  /\ batches' = RestoreCosts(batches, revLog[d])
  /\ acc41' = [acc41 EXCEPT ![d] = 0]
  /\ UNCHANGED <<moves, revLog, restock, method, recosted>>

\* An operator edits the constants of the information base.
ChangeConstants ==
  /\ \E s \in Settings \ {<<restock, method>>} : restock' = s[1] /\ method' = s[2]
  /\ UNCHANGED <<posted, batches, moves, acc41, revLog, recosted>>

Next ==
  \/ \E d \in Docs :
       \/ PostDocument(d) \/ PostRevaluation(d)
       \/ UnpostDocument(d) \/ UnpostRevaluation(d)
  \/ ChangeConstants

Spec == Init /\ [][Next]_vars

-----------------------------------------------------------------------------
(***************************************************************************)
(* Properties                                                              *)
(***************************************************************************)
Batch == [sklad : Sklady, qty : Int, cost : Nat, src : Docs] \cup {Gone}
Row == [batch : 0 .. MaxBatches, sklad : Sklady, qty : Int, amount : Int]

TypeOK ==
  /\ posted \subseteq Docs
  /\ Len(batches) <= MaxBatches /\ \A i \in DOMAIN batches : batches[i] \in Batch
  /\ \A d \in Docs : \A k \in DOMAIN moves[d] : moves[d][k] \in Row
  /\ acc41 \in [Docs -> Int]
  /\ <<restock, method>> \in Settings
  /\ recosted \in BOOLEAN

\* All rows of a register, as <<document, position>>, and those of batch i.
RowsIn(register) == UNION {{<<d, k>> : k \in DOMAIN register[d]} : d \in DOMAIN register}
RowsOf(i) == {r \in RowsIn(moves) : moves[r[1]][r[2]].batch = i}

\* The two registers of the warehouse agree: every batch holds what its
\* movements brought in less what they took out, whatever was posted and
\* cancelled in whatever order (create_incoming, consume_batches,
\* _rollback_stock), and no movement names a deleted batch (its foreign key).
BatchesMatchMovements ==
  \A i \in DOMAIN batches :
    /\ batches[i].qty = SumOver(RowsOf(i), LAMBDA r : moves[r[1]][r[2]].qty)
    /\ batches[i] = Gone => RowsOf(i) = {}

\* Under the control by warehouse no step takes a batch below zero
\* (consume_batches with allow_negative=False, the check of _rollback_stock):
\* the only batches below zero that appear are those which a line of a
\* quantity below zero brings in.
BringsNegative(d, qty) ==
  /\ Document[d].type \in Incoming \cup {"peremeshenie"}
  /\ qty < 0 /\ \E i \in DOMAIN Document[d].lines : Document[d].lines[i].qty = qty

ControlKeepsBatchesPositive ==
  [][restock = "by_warehouse" =>
       \A i \in DOMAIN batches' :
         batches'[i].qty < 0 =>
           IF i \in DOMAIN batches THEN batches'[i].qty >= batches[i].qty
           ELSE BringsNegative(batches'[i].src, batches'[i].qty)]_vars

\* FIFO takes the oldest batches, LIFO the newest (consume_batches, order by
\* id): a posting that takes from a batch leaves nothing in the batches of the
\* warehouse that come before it, although its later lines select quantities
\* that its earlier lines have not flushed.
Precedes(i, j) == IF method = "lifo" THEN i > j ELSE i < j

CostOrderKept ==
  [][posted' # posted /\ posted \subseteq posted' =>
       \A i, j \in DOMAIN batches :
         /\ batches[i].sklad = batches[j].sklad
         /\ Precedes(i, j)
         /\ batches'[j].qty < batches[j].qty
         => batches'[i].qty <= 0]_vars

OnHand(b, sklady) == SumOver({i \in DOMAIN b : b[i].sklad \in sklady}, LAMBDA i : b[i].qty)

\* "корректирует остатки до фактического количества" (_apply_inventory): the
\* posting of an inventory that counts a warehouse once leaves there what
\* was counted.
InventoryReachesFact ==
  [][\A d \in posted' \ posted :
       Document[d].type = "inventarizaciya" /\ Len(Document[d].lines) = 1 =>
         LET line == Document[d].lines[1] IN OnHand(batches', {line.sklad}) = line.qty]_vars

\* The entries on account 41 of a document are the amounts of its stock
\* movements (_apply_accounting reads those of what left back after a flush;
\* what came in is entered at the total of the document), but for a hundredth
\* a line that comes to half a hundredth, which the document and the column
\* round each in its way.  A total given with the lines may be any.
Halves(d) ==
  SumOver(DOMAIN Document[d].lines,
          LAMBDA i : IF (Document[d].lines[i].qty * Document[d].lines[i].price) % 100000 = 50000
                     THEN 100 ELSE 0)

Account41MatchesMovements ==
  \A d \in Docs :
    LET off == acc41[d] - SumOver(DOMAIN moves[d], LAMBDA k : moves[d][k].amount) IN
    /\ Document[d].type \in Outgoing \cup {"inventarizaciya"} => off = 0
    /\ Document[d].type \in Incoming /\ ~ Document[d].given => -Halves(d) <= off /\ off <= Halves(d)

\* FIFO and LIFO neither make nor lose value: as long as nothing was revalued
\* or recosted, a batch is worth the amounts of its movements, but for half a
\* hundredth a movement whose quantity at the cost of the batch is not in
\* whole hundredths.
ValueConserved ==
  ~ recosted =>
    \A i \in DOMAIN batches :
      LET row(r) == moves[r[1]][r[2]]
          off == batches[i].qty * batches[i].cost
                 - 1000 * SumOver(RowsOf(i), LAMBDA r : row(r).amount)
          slack == SumOver(RowsOf(i), LAMBDA r : IF (row(r).qty * batches[i].cost) % 100000 = 0
                                                 THEN 0 ELSE 50000)
      IN -slack <= off /\ off <= slack

\* "восстанавливает партии" (unpost_document): the posting of any document
\* that can be posted now, cancelled at once, leaves every batch as it is
\* and deletes the ones it created.  Only a document that has taken from a
\* batch it had created itself, in an earlier line, cannot be cancelled; and
\* of the revaluations this holds of those that name a warehouse once.
TakesItsOwn(m) ==
  \E j, k \in DOMAIN m : m[j].batch = m[k].batch /\ m[j].qty > 0 /\ m[k].qty < 0

NamesOnce(d) ==
  \A i, j \in DOMAIN Document[d].lines :
    Document[d].lines[i].sklad = Document[d].lines[j].sklad => i = j

UnpostRestoresBatches ==
  \A d \in Docs \ posted :
    /\ Document[d].type # "pereocenka" =>
         \A W \in {ApplyLines(batches, d)} :
           W.ok => \A U \in {Rollback(W.b, d, W.m)} :
                     /\ U.ok <=> ~ TakesItsOwn(W.m)
                     /\ U.ok => /\ \A i \in DOMAIN batches : U.b[i] = batches[i]
                                /\ \A i \in DOMAIN U.b \ DOMAIN batches : U.b[i] = Gone
    /\ Document[d].type = "pereocenka" /\ NamesOnce(d) =>
         LET R == Revalue(batches, d) IN RestoreCosts(R.b, R.log) = batches

\* "Исходные цены сохраняются в extra для корректной отмены проведения"
\* (_apply_revaluation): with no revaluation posted, a batch that a document
\* brought in costs what a line of the document says.
CostsRestored ==
  (\A d \in posted : Document[d].type # "pereocenka") =>
    \A i \in DOMAIN batches :
      batches[i] # Gone /\ Document[batches[i].src].type \in Incoming =>
        \E line \in ToSet(Document[batches[i].src].lines) :
          line.sklad = batches[i].sklad /\ line.price = batches[i].cost

=============================================================================
