------------------------------ MODULE Reports ------------------------------
(***************************************************************************)
(* The reports over the books (app/services/report_service.py), each as    *)
(* what it computes from the registers.  Names and layout are left out; a  *)
(* list is the set of its rows, or the sequence where its order is told    *)
(* from another.  There is one good.                                       *)
(***************************************************************************)
EXTENDS Books

CONSTANT LastDay   \* bound of the model: days are 0 .. LastDay

Days == 0 .. LastDay

ASSUME ReportsAssumption ==
  /\ LastDay \in Nat
  /\ \A d \in AllDocs : Header[d].date \in Days
  /\ NoOne \notin AllDocs

Periods == {p \in Days \X Days : p[1] <= p[2]}
Within(day, p) == p[1] <= day /\ day <= p[2]

\* The period of the dashboard, its ends in any order, and the one it is
\* compared with.
ResolvePeriod(start, end) ==
  LET p == <<Min({start, end}), Max({start, end})>>
  IN <<p, <<p[1] - (p[2] - p[1] + 1), p[1] - 1>>>>

-----------------------------------------------------------------------------
\* Stock.

Rows(p) == {r \in RowsIn(moves) : Within(Header[r[1]].date, p)}
Moved(rows, Test(_)) ==
  SumOver({r \in rows : Test(moves[r[1]][r[2]].qty)}, LAMBDA r : moves[r[1]][r[2]].qty)
SkladOf(r) == moves[r[1]][r[2]].sklad
InSklad(rows, s) == {r \in rows : SkladOf(r) = s}

Held(s, whose) == {i \in DOMAIN batches : batches[i].sklad = s /\ Ownership(batches[i].src) = whose}

StockBalances ==
  LET qty(s, whose) == SumOver(Held(s, whose), LAMBDA i : batches[i].qty)
      cost(s, whose) == SumOver(Held(s, whose), LAMBDA i : batches[i].qty * batches[i].cost)
      reserved(s, whose) == IF whose = "own" THEN Reserved[s] ELSE 0
  IN {[sklad |-> k[1], ownership |-> k[2], quantity |-> qty(k[1], k[2]),
       available |-> qty(k[1], k[2]) - reserved(k[1], k[2]), cost |-> QuantizeCents(cost(k[1], k[2]))]
      : k \in {k \in Sklady \X {"own", "received"} : qty(k[1], k[2]) # 0}}

StockMovements(p) ==
  {[row |-> r, sklad |-> SkladOf(r), quantity |-> moves[r[1]][r[2]].qty,
    amount |-> moves[r[1]][r[2]].amount] : r \in Rows(p)}

ItemCard ==
  {[row |-> r, sklad |-> SkladOf(r), quantity |-> moves[r[1]][r[2]].qty,
    amount |-> moves[r[1]][r[2]].amount] : r \in RowsIn(moves)}

BatchReport ==
  {[batch |-> i, sklad |-> batches[i].sklad, quantity |-> batches[i].qty,
    cost |-> QuantizeCents(batches[i].qty * batches[i].cost),
    ownership |-> Ownership(batches[i].src)] : i \in {i \in DOMAIN batches : batches[i].qty > 0}}

\* Mutant of TurnoverStatement: the first day is counted as opening too.
TurnoverTwice(p) ==
  LET opening(s) == Moved(InSklad(Rows(<<0, p[1]>>), s), LAMBDA q : TRUE)
      incoming(s) == Moved(InSklad(Rows(p), s), LAMBDA q : q > 0)
      outgoing(s) == Moved(InSklad(Rows(p), s), LAMBDA q : q < 0)
  IN {[sklad |-> s, opening |-> opening(s), incoming |-> incoming(s), outgoing |-> outgoing(s),
       closing |-> opening(s) + incoming(s) + outgoing(s)]
      : s \in {s \in Sklady : ~ (opening(s) = 0 /\ incoming(s) = 0 /\ outgoing(s) = 0)}}

TurnoverStatement(p) ==
  LET opening(s) == Moved({r \in InSklad(RowsIn(moves), s) : Header[r[1]].date < p[1]}, LAMBDA q : TRUE)
      incoming(s) == Moved(InSklad(Rows(p), s), LAMBDA q : q > 0)
      outgoing(s) == Moved(InSklad(Rows(p), s), LAMBDA q : q < 0)
  IN {[sklad |-> s, opening |-> opening(s), incoming |-> incoming(s), outgoing |-> outgoing(s),
       closing |-> opening(s) + incoming(s) + outgoing(s)]
      : s \in {s \in Sklady : ~ (opening(s) = 0 /\ incoming(s) = 0 /\ outgoing(s) = 0)}}

CommissionReceived ==
  LET qty(s) == SumOver({i \in Held(s, "received") : batches[i].qty > 0}, LAMBDA i : batches[i].qty)
  IN {[sklad |-> s, quantity |-> qty(s)] : s \in {s \in Sklady : qty(s) # 0}}

LowStock(threshold) ==
  LET qty == SumOver(DOMAIN batches, LAMBDA i : batches[i].qty)
  IN IF qty <= threshold THEN {qty} ELSE {}

-----------------------------------------------------------------------------
\* Sales: posted invoices, by the date of the invoice.

Invoices(type, p) == {d \in posted : TypeOf(d) = type /\ Within(Header[d].date, p)}
Sales(p) == Invoices("rashod", p)

SalesReport(p) ==
  {[doc |-> d, date |-> Header[d].date, total |-> TotalOf(d), cost |-> OutgoingCost(moves[d]),
    profit |-> TotalOf(d) - OutgoingCost(moves[d])] : d \in Sales(p)}

\* The page of the report, with its totals.
ReportSales(p) ==
  LET rows == SalesReport(p)
  IN [total |-> SumOver(rows, LAMBDA r : r.total), total_cost |-> SumOver(rows, LAMBDA r : r.cost),
      total_profit |-> SumOver(rows, LAMBDA r : r.profit)]

\* The rows of the last limit sales, by date and id; the ids are not known.
RecentSales(limit) ==
  {R \in SUBSET posted :
     /\ R \subseteq Sales(<<0, LastDay>>)
     /\ Cardinality(R) = Min({limit, Cardinality(Sales(<<0, LastDay>>))})
     /\ \A d \in R, e \in Sales(<<0, LastDay>>) \ R : Header[d].date >= Header[e].date}

\* Mutant of SalesSummary: drafts are sales too.
SalesSummaryOfDrafts(p) ==
  LET drafts == {d \in Docs : TypeOf(d) = "rashod" /\ Within(Header[d].date, p)}
      cost == SumOver(drafts, LAMBDA d : OutgoingCost(moves[d]))
  IN [revenue |-> SumOver(drafts, TotalOf), cost |-> cost, profit |-> SumOver(drafts, TotalOf) - cost,
      orders |-> Cardinality(drafts), avg_check |-> 0, purchases |-> SumOver(Invoices("prihod", p), TotalOf)]

SalesSummary(p) ==
  LET revenue == SumOver(Sales(p), TotalOf)
      count == Cardinality(Sales(p))
      cost == -SumOver({r \in RowsIn(moves) : r[1] \in Sales(p) /\ moves[r[1]][r[2]].qty < 0},
                       LAMBDA r : moves[r[1]][r[2]].amount)
  IN [revenue |-> revenue, cost |-> cost, profit |-> revenue - cost, orders |-> count,
      avg_check |-> IF count = 0 THEN 0 ELSE 100 * Quantize(revenue, 100 * count),
      purchases |-> SumOver(Invoices("prihod", p), TotalOf)]

\* Revenue by the date of the sale, cost by the date of the movement.
DailySales(p) ==
  [day \in p[1] .. p[2] |->
     LET revenue == SumOver(Sales(<<day, day>>), TotalOf)
         cost == -SumOver({r \in Rows(<<day, day>>) : TypeOf(r[1]) = "rashod" /\ moves[r[1]][r[2]].qty < 0},
                          LAMBDA r : moves[r[1]][r[2]].amount)
     IN [revenue |-> revenue, profit |-> revenue - cost, orders |-> Cardinality(Sales(<<day, day>>))]]

TopItems(p) ==
  LET lines == UNION {{<<d, i>> : i \in DOMAIN Document[d].lines} : d \in Sales(p)}
      line(l) == Document[l[1]].lines[l[2]]
  IN [quantity |-> SumOver(lines, LAMBDA l : line(l).qty),
      amount |-> SumOver(lines, LAMBDA l : LineAmount(l[1], l[2]))]

TopCounterparties(p) ==
  {[name |-> k, amount |-> SumOver({d \in Sales(p) : Header[d].kontragent = k}, TotalOf)]
     : k \in {Header[d].kontragent : d \in Sales(p)} \ {NoOne}}

PurchaseSalesBook(p) ==
  {[doc |-> d, kind |-> IF TypeOf(d) = "rashod" THEN "sale" ELSE "purchase",
    total |-> TotalOf(d), nds |-> Header[d].nds] : d \in Sales(p) \cup Invoices("prihod", p)}

\* Mutant of AbcAnalysis: the share of a good counts the good itself.
AbcOfThrough(amounts) ==
  LET total == SumOver(DOMAIN amounts, LAMBDA i : amounts[i])
      through(i) == SumOver(1 .. i, LAMBDA j : amounts[j])
      share(i) == IF total = 0 THEN 0 ELSE Quantize(through(i) * 10000, total)
  IN [i \in DOMAIN amounts |->
       IF share(i) < 8000 THEN "A" ELSE IF share(i) < 9500 THEN "B" ELSE "C"]

\* abc_analysis of the amounts of goods, greatest first: the class of a good
\* by the share, rounded, of those before it.
AbcAnalysis(amounts) ==
  LET total == SumOver(DOMAIN amounts, LAMBDA i : amounts[i])
      before(i) == SumOver(1 .. i - 1, LAMBDA j : amounts[j])
      share(i) == IF total = 0 THEN 0 ELSE Quantize(before(i) * 10000, total)
  IN [i \in DOMAIN amounts |->
       IF share(i) < 8000 THEN "A" ELSE IF share(i) < 9500 THEN "B" ELSE "C"]

\* replenishment_recommendations, from what is on hand and what was sold in
\* the last lookback days: whole units are ordered, quantities count thousandths.
Ceiling(n, d) == (n + d - 1) \div d
SoldSince(day) == TopItems(<<day, LastDay>>).quantity
Replenishment(stock, sold, lookback, lead, safety) ==
  LET reorder == IF sold > 0 THEN 1000 * Ceiling(sold * lead, 1000 * lookback) ELSE 0
      target == IF sold > 0 THEN 1000 * Ceiling(sold * (lead + safety), 1000 * lookback) ELSE 0
  IN [to_order |-> Max({0, target - stock}), reorder |-> reorder, target |-> target,
      status |-> IF sold = 0 THEN "no_sales" ELSE IF stock <= reorder THEN "order" ELSE "ok"]

-----------------------------------------------------------------------------
\* Debts and money.

AmountIn(register, p, Test(_)) == SumIn(register, LAMBDA m : Within(m.date, p) /\ Test(m))
Kontragenty == {Header[d].kontragent : d \in AllDocs} \ {NoOne}

Debt(k) == SumIn(settlements, LAMBDA s : s.kontragent = k)
SettlementBalances == {[kontragent |-> k, debt |-> Debt(k)] : k \in {k \in Kontragenty : Debt(k) # 0}}

SettlementMovements(p) ==
  {[row |-> r, amount |-> settlements[r[1]][r[2]].amount] :
     r \in {r \in RowsIn(settlements) : Within(settlements[r[1]][r[2]].date, p)}}

\* Mutant of OpenInvoices: of posted invoices only.
OpenPostedInvoices ==
  LET open(b) == SumIn(settlements, LAMBDA s : s.base = b)
  IN {[doc |-> b, kontragent |-> Header[b].kontragent, open |-> open(b)] :
        b \in {b \in posted : open(b) # 0}}

\* What is open on the documents that settlements name, posted or not.
OpenInvoices ==
  LET open(b) == SumIn(settlements, LAMBDA s : s.base = b)
  IN {[doc |-> b, kontragent |-> Header[b].kontragent, open |-> open(b)] :
        b \in {b \in AllDocs : open(b) # 0}}

CommissionDebt ==
  -SumIn(settlements, LAMBDA s : s.base \in Docs /\ Ownership(s.base) = "received")

MoneyBalance == SumIn(money, LAMBDA m : TRUE)

MoneyMovements(p) ==
  {[row |-> r, amount |-> money[r[1]][r[2]].amount] :
     r \in {r \in RowsIn(money) : Within(money[r[1]][r[2]].date, p)}}

DailyMoneyFlow(p) ==
  [day \in p[1] .. p[2] |->
     [income |-> AmountIn(money, <<day, day>>, LAMBDA m : m.amount > 0),
      expense |-> AmountIn(money, <<day, day>>, LAMBDA m : m.amount < 0)]]

\* The balance after each day of the period that has movements.
CashBook(p) ==
  LET days == {day \in p[1] .. p[2] : \E r \in RowsIn(money) : money[r[1]][r[2]].date = day}
      opening == SumIn(money, LAMBDA m : m.date < p[1])
      flow(day) == AmountIn(money, <<day, day>>, LAMBDA m : TRUE)
  IN [day \in days |-> opening + SumOver({e \in days : e <= day}, flow)]

AccountingEntries(p) ==
  {[row |-> r, entry |-> entries[r[1]][r[2]]] :
     r \in {r \in RowsIn(entries) : Within(entries[r[1]][r[2]].date, p)}}

-----------------------------------------------------------------------------
Sum(rows, f(_)) == SumOver(rows, f)

\* The dashboard: what was sold in a period and in the one before, and what
\* there is now.
Dashboard(start, end) ==
  LET p == ResolvePeriod(start, end)
      debts == SettlementBalances
  IN [cur |-> SalesSummary(p[1]), prev |-> SalesSummary(p[2]),
      stock_value |-> Sum(StockBalances, LAMBDA b : b.cost),
      receivable |-> Sum({s \in debts : s.debt > 0}, LAMBDA s : s.debt),
      payable |-> -Sum({s \in debts : s.debt < 0}, LAMBDA s : s.debt)]

Closing(p, s) == Sum({t \in TurnoverStatement(p) : t.sklad = s}, LAMBDA t : t.closing)
Opening(p, s) == Sum({t \in TurnoverStatement(p) : t.sklad = s}, LAMBDA t : t.opening)

\* What was moved of no batch: a line of zero or below that was to take out.
Unbatched(sklady) ==
  Moved({r \in RowsIn(moves) : moves[r[1]][r[2]].batch = NoBatch /\ SkladOf(r) \in sklady}, LAMBDA q : TRUE)

\* The reports on stock are made from two registers, batches and movements,
\* and agree: a statement of turnover closes at what the next one opens with
\* and in the end at the balances, but for what was moved of no batch; the
\* balances are the batches on hand, less the ones below zero; goods on
\* commission are what is there of them; and once what the replenishment
\* advises has come, it advises nothing more.
StockReportsAgree ==
  /\ \A s \in Sklady :
       /\ \A p, q \in Periods : q[1] = p[2] + 1 => Closing(p, s) = Opening(q, s)
       /\ Closing(<<0, LastDay>>, s) =
            Sum({b \in StockBalances : b.sklad = s}, LAMBDA b : b.quantity) + Unbatched({s})
       /\ Sum({b \in StockBalances : b.sklad = s}, LAMBDA b : b.quantity)
            = Sum({b \in BatchReport : b.sklad = s}, LAMBDA b : b.quantity)
            + SumOver({i \in DOMAIN batches : batches[i].sklad = s /\ batches[i].qty < 0},
                      LAMBDA i : batches[i].qty)
       /\ Sum({b \in BatchReport : b.sklad = s /\ b.ownership = "received"}, LAMBDA b : b.quantity)
            = Sum({c \in CommissionReceived : c.sklad = s}, LAMBDA c : c.quantity)
  /\ StockMovements(<<0, LastDay>>) = ItemCard
  /\ LET stock == SumOver(DOMAIN batches, LAMBDA i : batches[i].qty)
         sold == SoldSince(0)
         advice == Replenishment(stock, sold, 30, 7, 3)
         later == Replenishment(stock + advice.to_order, sold, 30, 7, 3)
     IN later.to_order = 0 /\ (later.status = "order" => later.reorder = later.target)
  /\ \A qty \in LowStock(0) : Sum(ItemCard, LAMBDA r : r.quantity) = qty + Unbatched(Sklady)

\* "A — до 80% накопленного объёма, B — следующие 15%" (abc_analysis): of the
\* good and two others, those of class A are the fewest that make 80% of the
\* sales, those of A and B the fewest that make 95%.  This is said of amounts,
\* in hundredths, whose shares are not within the rounding of a boundary: the
\* share is rounded to a hundredth of a per cent.
Amounts3(mine) ==
  {a \in [1 .. 3 -> {mine, 50, 200, 1000}] :
     a[1] > 0 /\ (\E i \in 1 .. 3 : a[i] = mine) /\ \A i, j \in 1 .. 3 : i < j => a[i] >= a[j]}

AbcCoversSales ==
  \A amounts \in Amounts3(TopItems(<<0, LastDay>>).amount \div 100) :
    LET class == AbcAnalysis(amounts)
        total == SumOver(DOMAIN amounts, LAMBDA i : amounts[i])
        first(classes) == {i \in DOMAIN amounts : class[i] \in classes}
        covers(S, percent) == 100 * SumOver(S, LAMBDA i : amounts[i]) >= percent * total
  IN \A c \in {<<{"A"}, 80>>, <<{"A", "B"}, 95>>} :
         /\ covers(first(c[1]), c[2])
         /\ first(c[1]) = 1 .. Cardinality(first(c[1]))
         /\ ~ covers(first(c[1]) \ {Max(first(c[1]))}, c[2])

\* The reports on sales sum the documents, their lines, or the movements, and
\* agree for every period, although a cost is dated by its movement in one of
\* them and by its document in the others.  Only the lines come to something
\* else, where a sale was given a total.
SalesReportsAgree ==
  /\ {r.doc : r \in SalesReport(<<0, LastDay>>)} \in RecentSales(Cardinality(Docs))
  /\ \A p \in Periods :
    LET report == SalesReport(p)
        page == ReportSales(p)
        dashboard == Dashboard(p[2], p[1])
        summary == dashboard.cur
        daily == DailySales(p)
        sold == {r \in PurchaseSalesBook(p) : r.kind = "sale"} IN
    /\ summary.revenue = page.total /\ summary.profit = page.total_profit /\ summary.cost = page.total_cost
    /\ summary.revenue + dashboard.prev.revenue =
         ReportSales(<<2 * p[1] - p[2] - 1, p[2]>>).total
    /\ summary.revenue = Sum(DOMAIN daily, LAMBDA day : daily[day].revenue)
    /\ summary.profit = Sum(DOMAIN daily, LAMBDA day : daily[day].profit)
    /\ summary.orders = Sum(DOMAIN daily, LAMBDA day : daily[day].orders)
    /\ (\A d \in Sales(p) : ~ Document[d].given) => summary.revenue = TopItems(p).amount
    /\ summary.revenue = Sum(sold, LAMBDA r : r.total)
    /\ summary.purchases = Sum(PurchaseSalesBook(p) \ sold, LAMBDA r : r.total)
    /\ Sum(TopCounterparties(p), LAMBDA r : r.amount) =
         summary.revenue - Sum({r \in report : Header[r.doc].kontragent = NoOne}, LAMBDA r : r.total)
    /\ Sum(AccountingEntries(p), LAMBDA e : IF e.entry.credit = "90.1" THEN e.entry.amount ELSE 0)
         = summary.revenue
    /\ Sum(AccountingEntries(p), LAMBDA e : IF e.entry.debit = "90.2" THEN e.entry.amount ELSE 0)
         = summary.cost

\* The reports on money agree with the register, the cash book of every period
\* takes over from the one before; the debts of kontragenty are what is open
\* on documents and what was paid without one, whatever has been cancelled,
\* and the debt for goods on commission is what is open on them.
MoneyReportsAgree ==
  /\ \A p \in Periods :
       LET book == CashBook(p)
           flow == DailyMoneyFlow(p) IN
       /\ Sum(DOMAIN flow, LAMBDA day : flow[day].income + flow[day].expense)
            = Sum(MoneyMovements(p), LAMBDA r : r.amount)
       /\ DOMAIN book # {} =>
            book[Max(DOMAIN book)] = Sum(MoneyMovements(<<0, p[2]>>), LAMBDA r : r.amount)
  /\ MoneyBalance = Sum(MoneyMovements(<<0, LastDay>>), LAMBDA r : r.amount)
  /\ Sum(SettlementBalances, LAMBDA r : r.debt)
       = Sum(SettlementMovements(<<0, LastDay>>), LAMBDA r : r.amount)
  /\ Dashboard(0, LastDay).receivable - Dashboard(0, LastDay).payable
       = Sum(OpenInvoices, LAMBDA r : r.open) + SumIn(settlements, LAMBDA s : s.base = NoOne)
  /\ CommissionDebt =
       -Sum({r \in OpenInvoices : r.doc \in Docs /\ Ownership(r.doc) = "received"}, LAMBDA r : r.open)

=============================================================================
