--------------------------- MODULE Reports_proofs --------------------------
(***************************************************************************)
(* The reports agree with the registers and with each other, after every   *)
(* history of the books (BooksHold of Ledger_proofs).                      *)
(*                                                                         *)
(* What a report sums is a set of rows of a register, grouped in its own   *)
(* way.  What two of them say of the same thing, on money, on stock and on *)
(* sales, is brought to one sum over rows, batches or documents: each side *)
(* gets the form SumFunctionOnSet(v, S), v being the amounts of all rows,  *)
(* and the sets are compared.                                              *)
(***************************************************************************)
EXTENDS Ledger_proofs, Reports

\* The rows of a register and what they come to.
Come(reg, S) == SumFunctionOnSet([r \in S |-> reg[r[1]][r[2]].amount], S)
AmountsOf(reg) == [r \in RowsIn(reg) |-> reg[r[1]][r[2]].amount]
Dated(reg, p) == {r \in RowsIn(reg) : Within(reg[r[1]][r[2]].date, p)}
Income(reg, p) == {r \in RowsIn(reg) : Within(reg[r[1]][r[2]].date, p) /\ reg[r[1]][r[2]].amount > 0}
Expense(reg, p) == {r \in RowsIn(reg) : Within(reg[r[1]][r[2]].date, p) /\ reg[r[1]][r[2]].amount < 0}

\* Some rows of a register, by the amounts of all.
LEMMA ComeIs ==
  ASSUME NEW reg, TwoRows(reg), NEW v, v = AmountsOf(reg)
  PROVE  /\ IsFiniteSet(RowsIn(reg)) /\ \A r \in RowsIn(reg) : v[r] \in Int /\ v[r] = reg[r[1]][r[2]].amount
         /\ \A S \in SUBSET RowsIn(reg) : IsFiniteSet(S) /\ Come(reg, S) = SumFunctionOnSet(v, S)
<1>1. IsFiniteSet(RowsIn(reg))
  BY RegisterIsFinite
<1>2. \A r \in RowsIn(reg) : v[r] \in Int /\ v[r] = reg[r[1]][r[2]].amount
  <2> SUFFICES ASSUME NEW r \in RowsIn(reg) PROVE v[r] \in Int /\ v[r] = reg[r[1]][r[2]].amount
    OBVIOUS
  <2>1. v[r] = reg[r[1]][r[2]].amount
    BY DEF AmountsOf
  <2>2. PICK d \in AllDocs : r[1] = d /\ r[2] \in DOMAIN reg[d]
    BY RegisterIsFinite
  <2> QED BY <2>1, <2>2 DEF TwoRows
<1>3. ASSUME NEW S \in SUBSET RowsIn(reg)
      PROVE  IsFiniteSet(S) /\ Come(reg, S) = SumFunctionOnSet(v, S)
  <2>1. IsFiniteSet(S)
    BY <1>1, FS_Subset
  <2>2. PICK f : f = [r \in S |-> reg[r[1]][r[2]].amount]
    OBVIOUS
  <2>3. \A r \in S : f[r] = v[r]
    BY <1>2, <2>2
  <2>4. SumFunctionOnSet(f, S) = SumFunctionOnSet(v, S)
    BY <2>1, <2>3, SumSame
  <2> QED BY <2>1, <2>2, <2>4 DEF Come
<1> QED BY <1>1, <1>2, <1>3

\* The days of a period are finitely many.
LEMMA DaysAreFinite == \A a, b \in Int : IsFiniteSet(a .. b)
BY FS_Interval

\* The rows of a period, by day.
LEMMA ComeByDay ==
  ASSUME NEW reg, TwoRows(reg), \A r \in RowsIn(reg) : reg[r[1]][r[2]].date \in Int,
         NEW a \in Int, NEW b \in Int, NEW g, \A day \in a .. b : g[day] = Come(reg, Dated(reg, <<day, day>>))
  PROVE  Come(reg, Dated(reg, <<a, b>>)) = SumFunctionOnSet(g, a .. b)
<1>1. PICK v : v = AmountsOf(reg)
  OBVIOUS
<1>2. PICK S : S = Dated(reg, <<a, b>>)
  OBVIOUS
<1>3. PICK k : k = [r \in S |-> reg[r[1]][r[2]].date]
  OBVIOUS
<1>4. S \in SUBSET RowsIn(reg) /\ \A r \in S : k[r] \in a .. b /\ k[r] = reg[r[1]][r[2]].date
  <2>1. S \in SUBSET RowsIn(reg)
    BY <1>2 DEF Dated
  <2>2. ASSUME NEW r \in S PROVE k[r] \in a .. b /\ k[r] = reg[r[1]][r[2]].date
    <3>1. PICK day : day = reg[r[1]][r[2]].date
      OBVIOUS
    <3>2. k[r] = day
      BY <1>3, <3>1
    <3>3. r \in RowsIn(reg) /\ Within(day, <<a, b>>)
      BY <1>2, <3>1 DEF Dated
    <3>4. day \in Int
      BY <3>1, <3>3
    <3>5. a <= day /\ day <= b
      BY <3>3 DEF Within
    <3> QED BY <3>1, <3>2, <3>4, <3>5
  <2> QED BY <2>1, <2>2
<1>5. IsFiniteSet(S) /\ Come(reg, S) = SumFunctionOnSet(v, S) /\ \A r \in S : v[r] \in Int
  BY <1>1, <1>4, ComeIs
<1>6. ASSUME NEW day \in a .. b PROVE g[day] = SumFunctionOnSet(v, {r \in S : k[r] = day})
  <2>1. PICK X : X = {r \in S : k[r] = day}
    OBVIOUS
  <2>2. X = Dated(reg, <<day, day>>)
    <3>1. \A r \in X : r \in Dated(reg, <<day, day>>)
      BY <1>4, <2>1 DEF Dated, Within
    <3>2. ASSUME NEW r \in Dated(reg, <<day, day>>) PROVE r \in X
      <4>1. r \in RowsIn(reg) /\ reg[r[1]][r[2]].date = day
        BY DEF Dated, Within
      <4>2. r \in S
        BY <1>2, <4>1 DEF Dated, Within
      <4> QED BY <1>4, <2>1, <4>1, <4>2
    <3> QED BY <3>1, <3>2
  <2>3. X \in SUBSET RowsIn(reg)
    BY <1>4, <2>1
  <2>4. g[day] = Come(reg, X)
    BY <2>2
  <2> QED BY <1>1, <2>1, <2>3, <2>4, ComeIs
<1>7. IsFiniteSet(a .. b)
  BY DaysAreFinite
<1>8. SumFunctionOnSet(v, S) = SumFunctionOnSet(g, a .. b)
  <2>1. PICK T : T = a .. b
    OBVIOUS
  <2>2. IsFiniteSet(T) /\ \A r \in S : k[r] \in T
    BY <1>4, <1>7, <2>1
  <2>3. \A t \in T : g[t] = SumFunctionOnSet(v, {r \in S : k[r] = t})
    BY <1>6, <2>1
  <2>4. IsFiniteSet(S) /\ \A r \in S : v[r] \in Int
    BY <1>5
  <2>5. Grouped(v, S, k, g, T)
    BY <2>2, <2>3, <2>4 DEF Grouped
  <2>6. SumFunctionOnSet(v, S) = SumFunctionOnSet(g, T)
    BY <2>2, <2>4, <2>5, SumByGroup
  <2> QED BY <2>1, <2>6
<1> QED BY <1>2, <1>5, <1>8

\* What came in and what went out.
LEMMA ComeBySign ==
  ASSUME NEW reg, TwoRows(reg), NEW p
  PROVE  Come(reg, Dated(reg, p)) = Come(reg, Income(reg, p)) + Come(reg, Expense(reg, p))
<1>1. PICK v : v = AmountsOf(reg)
  OBVIOUS
<1>2. PICK S : S = Dated(reg, p)
  OBVIOUS
<1>3. S \in SUBSET RowsIn(reg)
  BY <1>2 DEF Dated
<1>4. IsFiniteSet(S) /\ \A r \in S : v[r] \in Int /\ v[r] = reg[r[1]][r[2]].amount
  BY <1>1, <1>3, ComeIs
<1>5. PICK P : P = {r \in S : v[r] > 0}
  OBVIOUS
<1>6. PICK N : N = {r \in S : v[r] < 0}
  OBVIOUS
<1>7. SumFunctionOnSet(v, S) = SumFunctionOnSet(v, P) + SumFunctionOnSet(v, N)
  BY <1>4, <1>5, <1>6, SumOfSigns
<1>8. P = Income(reg, p) /\ N = Expense(reg, p)
  BY <1>2, <1>4, <1>5, <1>6 DEF Income, Expense, Dated
<1>9. P \in SUBSET RowsIn(reg) /\ N \in SUBSET RowsIn(reg)
  BY <1>3, <1>5, <1>6
<1> QED BY <1>1, <1>2, <1>3, <1>7, <1>8, <1>9, ComeIs

-----------------------------------------------------------------------------
\* What the rows of money and of settlement are.
LEMMA RowsOfBooks ==
  ASSUME BooksInv
  PROVE  /\ TwoRows(money) /\ TwoRows(settlements) /\ TwoRows(entries)
         /\ \A r \in RowsIn(money) : money[r[1]][r[2]].date \in 0 .. LastDay
         /\ \A r \in RowsIn(settlements) :
              \E d \in AllDocs :
                /\ r[1] = d /\ DebtOf(d) # 0
                /\ settlements[r[1]][r[2]].date \in 0 .. LastDay
                /\ settlements[r[1]][r[2]].kontragent = Header[d].kontragent
                /\ settlements[r[1]][r[2]].base = IF d \in Docs THEN d ELSE Header[d].base
<1>1. DOMAIN money = AllDocs /\ DOMAIN settlements = AllDocs /\ DOMAIN entries = AllDocs
  BY DEF BooksInv, BooksAre
<1>2. TwoRows(money) /\ TwoRows(settlements) /\ TwoRows(entries)
  BY <1>1, EachAgrees DEF TwoRows, FewRows
<1>3. DOMAIN <<>> = {} /\ \A e : DOMAIN <<e>> = {1} /\ <<e>>[1] = e
  OBVIOUS
<1>4. ASSUME NEW r \in RowsIn(money)
      PROVE  money[r[1]][r[2]].date \in 0 .. LastDay
  <2>1. PICK d \in AllDocs : r[1] = d /\ r[2] \in DOMAIN money[d]
    BY <1>2, RegisterIsFinite
  <2>2. money[d] # <<>>
    BY <1>3, <2>1
  <2>3. money[d] = MoneyRows(d)
    BY <2>2 DEF BooksInv, BooksAre
  <2>4. PICK e : e = [date |-> Header[d].date, kassa |-> Header[d].kassa, amount |-> MoneyOf(d) * TotalOf(d)]
    OBVIOUS
  <2>5. money[d] = <<e>>
    BY <2>2, <2>3, <2>4 DEF MoneyRows
  <2>6. money[r[1]][r[2]] = e
    BY <1>3, <2>1, <2>5
  <2> QED BY <2>4, <2>6, ReportsAssumption DEF Days
<1>5. ASSUME NEW r \in RowsIn(settlements)
      PROVE  \E d \in AllDocs :
                /\ r[1] = d /\ DebtOf(d) # 0
                /\ settlements[r[1]][r[2]].date \in 0 .. LastDay
                /\ settlements[r[1]][r[2]].kontragent = Header[d].kontragent
                /\ settlements[r[1]][r[2]].base = IF d \in Docs THEN d ELSE Header[d].base
  <2>1. PICK d \in AllDocs : r[1] = d /\ r[2] \in DOMAIN settlements[d]
    BY <1>2, RegisterIsFinite
  <2>2. settlements[d] # <<>>
    BY <1>3, <2>1
  <2>3. settlements[d] = SettlementRows(d)
    BY <2>2 DEF BooksInv, BooksAre
  <2>4. PICK e : e = [date |-> Header[d].date, kontragent |-> Header[d].kontragent,
                      base |-> IF d \in Docs THEN d ELSE Header[d].base, amount |-> DebtOf(d) * TotalOf(d)]
    OBVIOUS
  <2>5. settlements[d] = <<e>> /\ DebtOf(d) # 0
    BY <2>2, <2>3, <2>4 DEF SettlementRows
  <2>6. settlements[r[1]][r[2]] = e
    BY <1>3, <2>1, <2>5
  <2>7. e.date = Header[d].date /\ e.kontragent = Header[d].kontragent
        /\ e.base = IF d \in Docs THEN d ELSE Header[d].base
    BY <2>4
  <2> QED BY <2>1, <2>5, <2>6, <2>7, ReportsAssumption DEF Days
<1> QED BY <1>2, <1>4, <1>5

\* A list of the rows of a period comes to the rows.
LEMMA ListComes ==
  ASSUME NEW reg, TwoRows(reg), NEW p
  PROVE  Sum({[row |-> r, amount |-> reg[r[1]][r[2]].amount] :
                r \in {r \in RowsIn(reg) : Within(reg[r[1]][r[2]].date, p)}}, LAMBDA r : r.amount)
           = Come(reg, Dated(reg, p))
<1>1. PICK v : v = AmountsOf(reg)
  OBVIOUS
<1>2. PICK S : S = {r \in RowsIn(reg) : Within(reg[r[1]][r[2]].date, p)}
  OBVIOUS
<1>3. S = Dated(reg, p) /\ S \in SUBSET RowsIn(reg)
  BY <1>2 DEF Dated
<1>4. IsFiniteSet(S) /\ \A r \in S : v[r] \in Int /\ v[r] = reg[r[1]][r[2]].amount
  BY <1>1, <1>3, ComeIs
<1>5. PICK h : h = [r \in S |-> [row |-> r, amount |-> reg[r[1]][r[2]].amount]]
  OBVIOUS
<1>6. PICK L : L = {h[r] : r \in S}
  OBVIOUS
<1>7. L = {[row |-> r, amount |-> reg[r[1]][r[2]].amount] : r \in S}
  BY <1>5, <1>6
<1>8. PICK g : g = [l \in L |-> l.amount]
  OBVIOUS
<1>9. \A r \in S : h[r].row = r /\ h[r].amount = v[r] /\ h[r] \in L /\ g[h[r]] = v[r]
  BY <1>4, <1>5, <1>6, <1>8
<1>10. \A x, y \in S : h[x] = h[y] => x = y
  BY <1>9
<1>11. SumFunctionOnSet(v, S) = SumFunctionOnSet(g, {h[x] : x \in S})
  BY <1>4, <1>9, <1>10, SumReindex
<1>12. Sum(L, LAMBDA r : r.amount) = SumFunctionOnSet(g, L)
  BY <1>8 DEF Sum, SumOver
<1>13. Come(reg, S) = SumFunctionOnSet(v, S)
  BY <1>1, <1>3, ComeIs
<1> QED BY <1>2, <1>3, <1>6, <1>7, <1>11, <1>12, <1>13

-----------------------------------------------------------------------------
\* Some days of a period, not none, have a last.
LEMMA MaxIs ==
  ASSUME NEW a \in Int, NEW b \in Int, NEW S \in SUBSET (a .. b), S # {}
  PROVE  Max(S) \in S /\ \A x \in S : x <= Max(S)
<1>1. PICK N : N = {n \in Nat : b - n \in S}
  OBVIOUS
<1>2. N # {} /\ N \subseteq Nat
  <2>1. PICK x \in S : TRUE
    OBVIOUS
  <2>2. b - x \in Nat /\ b - (b - x) = x
    OBVIOUS
  <2> QED BY <1>1, <2>1, <2>2
<1>3. PICK n \in N : \A m \in N : ~ (<<m, n>> \in OpToRel(<, Nat))
  BY <1>2, NatLessThanWellFounded, WFMin
<1>4. b - n \in S /\ \A x \in S : x <= b - n
  <2>1. b - n \in S /\ n \in Nat
    BY <1>1
  <2>2. ASSUME NEW x \in S PROVE x <= b - n
    <3>1. b - x \in Nat /\ b - (b - x) = x
      OBVIOUS
    <3>2. b - x \in N
      BY <1>1, <3>1
    <3>3. ~ (b - x < n)
      BY <1>3, <2>1, <3>1, <3>2 DEF OpToRel
    <3> QED BY <2>1, <3>1, <3>3
  <2> QED BY <2>1, <2>2
<1>5. \E x \in S : \A y \in S : x >= y
  <2>1. \A y \in S : b - n >= y
    BY <1>4
  <2> QED BY <1>4, <2>1
<1>6. Max(S) \in S /\ \A y \in S : Max(S) >= y
  BY <1>5 DEF Max
<1> QED BY <1>6

\* A period is of two days.
LEMMA PeriodIs ==
  ASSUME NEW p \in Periods
  PROVE  p[1] \in Nat /\ p[2] \in Nat /\ p[1] <= p[2] /\ p[2] <= LastDay /\ p = <<p[1], p[2]>>
BY ReportsAssumption DEF Periods, Days

FlowSum(flow) == Sum(DOMAIN flow, LAMBDA day : flow[day].income + flow[day].expense)
MoneySum(p) == Sum(MoneyMovements(p), LAMBDA r : r.amount)

\* The flow of the days of a period comes to its movements of money.
LEMMA FlowAgrees ==
  ASSUME BooksInv, NEW p \in Periods, NEW flow, flow = DailyMoneyFlow(p)
  PROVE  FlowSum(flow) = MoneySum(p)
<1>1. TwoRows(money) /\ \A r \in RowsIn(money) : money[r[1]][r[2]].date \in Int
  BY RowsOfBooks, ReportsAssumption
<1>2. p[1] \in Int /\ p[2] \in Int /\ p = <<p[1], p[2]>>
  BY PeriodIs
<1>3. DOMAIN flow = p[1] .. p[2]
  BY DEF DailyMoneyFlow
<1>4. ASSUME NEW day \in DOMAIN flow
      PROVE  flow[day].income + flow[day].expense = Come(money, Dated(money, <<day, day>>))
  <2>1. PICK in : in = Come(money, Income(money, <<day, day>>))
    OBVIOUS
  <2>2. PICK out : out = Come(money, Expense(money, <<day, day>>))
    OBVIOUS
  <2>3. in = AmountIn(money, <<day, day>>, LAMBDA m : m.amount > 0)
    BY <2>1 DEF AmountIn, SumIn, SumOver, Come, Income
  <2>4. out = AmountIn(money, <<day, day>>, LAMBDA m : m.amount < 0)
    BY <2>2 DEF AmountIn, SumIn, SumOver, Come, Expense
  <2>5. flow[day] = [income |-> in, expense |-> out]
    BY <1>3, <2>3, <2>4 DEF DailyMoneyFlow
  <2>6. flow[day].income = in /\ flow[day].expense = out
    BY <2>5
  <2> QED BY <1>1, <2>1, <2>2, <2>6, ComeBySign
<1>5. PICK g : g = [day \in DOMAIN flow |-> flow[day].income + flow[day].expense]
  OBVIOUS
<1>6. \A day \in p[1] .. p[2] : g[day] = Come(money, Dated(money, <<day, day>>))
  BY <1>3, <1>4, <1>5
<1>7. Come(money, Dated(money, <<p[1], p[2]>>)) = SumFunctionOnSet(g, p[1] .. p[2])
  BY <1>1, <1>2, <1>6, ComeByDay
<1>8. FlowSum(flow) = SumFunctionOnSet(g, DOMAIN flow)
  BY <1>5 DEF FlowSum, Sum, SumOver
<1>9. MoneySum(p) = Come(money, Dated(money, p))
  BY <1>1, ListComes DEF MoneySum, MoneyMovements
<1>10. Come(money, Dated(money, p)) = Come(money, Dated(money, <<p[1], p[2]>>))
  BY <1>2
<1> QED BY <1>3, <1>7, <1>8, <1>9, <1>10

-----------------------------------------------------------------------------
\* The rows before a day, and those of some days of which the others have none.
Before(reg, day) == {r \in RowsIn(reg) : reg[r[1]][r[2]].date < day}

\* Rows of two sets that have none in common.
LEMMA ComeTogether ==
  ASSUME NEW reg, TwoRows(reg), NEW S \in SUBSET RowsIn(reg), NEW T \in SUBSET RowsIn(reg), S \cap T = {}
  PROVE  Come(reg, S \cup T) = Come(reg, S) + Come(reg, T)
<1>1. PICK v : v = AmountsOf(reg)
  OBVIOUS
<1>2. PICK U : U = S \cup T
  OBVIOUS
<1>3. U \in SUBSET RowsIn(reg) /\ S \in SUBSET U /\ U \ S = T
  BY <1>2
<1>4. IsFiniteSet(U) /\ \A x \in U : v[x] \in Int
  BY <1>1, <1>3, ComeIs
<1>5. SumFunctionOnSet(v, U) = SumFunctionOnSet(v, S) + SumFunctionOnSet(v, U \ S)
  BY <1>3, <1>4, SumSplit
<1> QED BY <1>1, <1>2, <1>3, <1>5, ComeIs, ZenonT(40)

\* The last balance of a cash book is that of all movements until then.
LEMMA BookAgrees ==
  ASSUME BooksInv, NEW p \in Periods, NEW book, book = CashBook(p), DOMAIN book # {}
  PROVE  book[Max(DOMAIN book)] = MoneySum(<<0, p[2]>>)
<1>1. TwoRows(money) /\ \A r \in RowsIn(money) : money[r[1]][r[2]].date \in Nat
  BY RowsOfBooks, ReportsAssumption
<1>2. p[1] \in Int /\ p[2] \in Int /\ p = <<p[1], p[2]>> /\ p[1] >= 0 /\ p[1] <= p[2]
  BY PeriodIs
<1>3. PICK days : days = {day \in p[1] .. p[2] : \E r \in RowsIn(money) : money[r[1]][r[2]].date = day}
  OBVIOUS
<1>4. PICK m : m = Max(days)
  OBVIOUS
<1>5. PICK opening : opening = Come(money, Before(money, p[1]))
  OBVIOUS
<1>6. PICK g : g = [day \in p[1] .. p[2] |-> Come(money, Dated(money, <<day, day>>))]
  OBVIOUS
<1>7. DOMAIN book = days /\ days \in SUBSET (p[1] .. p[2])
  BY <1>3 DEF CashBook
<1>8. m \in days /\ \A x \in days : x <= m
  BY <1>2, <1>4, <1>7, MaxIs
<1>9. opening = SumIn(money, LAMBDA r : r.date < p[1])
  BY <1>5 DEF SumIn, SumOver, Come, Before
<1>10. ASSUME NEW day \in p[1] .. p[2]
       PROVE  AmountIn(money, <<day, day>>, LAMBDA r : TRUE) = g[day] /\ g[day] \in Int
  <2>1. PICK S : S = {r \in RowsIn(money) : Within(money[r[1]][r[2]].date, <<day, day>>) /\ TRUE}
    OBVIOUS
  <2>2. S = Dated(money, <<day, day>>) /\ S \in SUBSET RowsIn(money)
    BY <2>1 DEF Dated
  <2>3. AmountIn(money, <<day, day>>, LAMBDA r : TRUE) = Come(money, S)
    BY <2>1 DEF AmountIn, SumIn, SumOver, Come
  <2>4. PICK v : v = AmountsOf(money)
    OBVIOUS
  <2>5. Come(money, S) = SumFunctionOnSet(v, S) /\ IsFiniteSet(S) /\ \A r \in S : v[r] \in Int
    BY <1>1, <2>2, <2>4, ComeIs
  <2>6. g[day] = Come(money, S)
    BY <1>6, <2>2
  <2> QED BY <2>3, <2>5, <2>6, SumIsInt
<1>11. book[m] = opening + SumFunctionOnSet(g, days)
  <2>1. {e \in days : e <= m} = days
    BY <1>8
  <2>2. PICK f : f = [day \in days |-> AmountIn(money, <<day, day>>, LAMBDA r : TRUE)]
    OBVIOUS
  <2>3. book[m] = opening + SumFunctionOnSet(f, days)
    BY <1>3, <1>8, <1>9, <2>1, <2>2 DEF CashBook, SumOver
  <2>4. \A day \in days : f[day] = g[day]
    BY <1>7, <1>10, <2>2
  <2>5. IsFiniteSet(days)
    BY <1>2, <1>7, DaysAreFinite, FS_Subset
  <2>6. SumFunctionOnSet(f, days) = SumFunctionOnSet(g, days)
    BY <2>4, <2>5, SumSame
  <2> QED BY <2>3, <2>6
<1>12. SumFunctionOnSet(g, p[1] .. p[2]) = SumFunctionOnSet(g, days)
  <2>1. PICK T : T = p[1] .. p[2]
    OBVIOUS
  <2>2. IsFiniteSet(T) /\ days \in SUBSET T /\ \A day \in T : g[day] \in Int
    BY <1>2, <1>7, <1>10, <2>1, DaysAreFinite
  <2>3. ASSUME NEW day \in T \ days PROVE g[day] = 0
    <3>1. \A r \in RowsIn(money) : money[r[1]][r[2]].date # day
      BY <1>3, <2>1
    <3>2. Dated(money, <<day, day>>) = {}
      BY <1>1, <1>2, <2>1, <3>1 DEF Dated, Within
    <3>3. g[day] = Come(money, {})
      BY <1>6, <2>1, <3>2
    <3> QED BY <3>3, SumOfNone DEF Come
  <2>4. SumFunctionOnSet(g, T) = SumFunctionOnSet(g, days)
    BY <2>2, <2>3, SumOfSupport
  <2> QED BY <2>1, <2>4
<1>13. Come(money, Dated(money, <<p[1], p[2]>>)) = SumFunctionOnSet(g, p[1] .. p[2])
  <2>1. \A day \in p[1] .. p[2] : g[day] = Come(money, Dated(money, <<day, day>>))
    BY <1>6
  <2> QED BY <1>1, <1>2, <2>1, ComeByDay
<1>14. PICK S : S = Before(money, p[1])
  OBVIOUS
<1>15. PICK T : T = Dated(money, <<p[1], p[2]>>)
  OBVIOUS
<1>16. S \in SUBSET RowsIn(money) /\ T \in SUBSET RowsIn(money) /\ S \cap T = {}
  BY <1>1, <1>2, <1>14, <1>15 DEF Before, Dated, Within
<1>17. S \cup T = Dated(money, <<0, p[2]>>)
  BY <1>1, <1>2, <1>14, <1>15 DEF Before, Dated, Within
<1>18. Come(money, Dated(money, <<0, p[2]>>)) = opening + Come(money, T)
  BY <1>1, <1>5, <1>14, <1>16, <1>17, ComeTogether
<1>19. MoneySum(<<0, p[2]>>) = Come(money, Dated(money, <<0, p[2]>>))
  BY <1>1, ListComes DEF MoneySum, MoneyMovements
<1> QED BY <1>4, <1>7, <1>11, <1>12, <1>13, <1>15, <1>18, <1>19

\* The balance, and the debts of everybody, are all rows there are.
LEMMA AllComes ==
  ASSUME BooksInv
  PROVE  /\ MoneyBalance = MoneySum(<<0, LastDay>>)
         /\ Sum(SettlementMovements(<<0, LastDay>>), LAMBDA r : r.amount)
              = Come(settlements, RowsIn(settlements))
<1>1. TwoRows(money) /\ TwoRows(settlements)
  BY RowsOfBooks
<1>2. Dated(money, <<0, LastDay>>) = RowsIn(money)
  BY RowsOfBooks, ReportsAssumption DEF Dated, Within
<1>3. Dated(settlements, <<0, LastDay>>) = RowsIn(settlements)
  BY RowsOfBooks, ReportsAssumption DEF Dated, Within
<1>4. MoneyBalance = Come(money, RowsIn(money))
  <2>1. PICK S : S = {r \in RowsIn(money) : TRUE}
    OBVIOUS
  <2>2. S = RowsIn(money)
    BY <2>1
  <2>3. MoneyBalance = Come(money, S)
    BY <2>1 DEF MoneyBalance, SumIn, SumOver, Come
  <2> QED BY <2>2, <2>3
<1>5. MoneySum(<<0, LastDay>>) = Come(money, Dated(money, <<0, LastDay>>))
  BY <1>1, ListComes DEF MoneySum, MoneyMovements
<1>6. Sum(SettlementMovements(<<0, LastDay>>), LAMBDA r : r.amount)
        = Come(settlements, Dated(settlements, <<0, LastDay>>))
  BY <1>1, ListComes DEF SettlementMovements
<1> QED BY <1>2, <1>3, <1>4, <1>5, <1>6

-----------------------------------------------------------------------------
\* The settlements of a kontragent, and those on a document.
OfKontragent(k) == {r \in RowsIn(settlements) : settlements[r[1]][r[2]].kontragent = k}
OnDocument(b) == {r \in RowsIn(settlements) : settlements[r[1]][r[2]].base = b}
OnDocuments(X) == {r \in RowsIn(settlements) : settlements[r[1]][r[2]].base \in X}
Owed(b) == SumIn(settlements, LAMBDA s : s.base = b)

\* They come to numbers.
LEMMA DebtsCome ==
  ASSUME BooksInv
  PROVE  /\ \A k : Debt(k) = Come(settlements, OfKontragent(k)) /\ Debt(k) \in Int
         /\ \A b : Owed(b) = Come(settlements, OnDocument(b)) /\ Owed(b) \in Int
<1>1. TwoRows(settlements)
  BY RowsOfBooks
<1>2. PICK v : v = AmountsOf(settlements)
  OBVIOUS
<1>3. ASSUME NEW S \in SUBSET RowsIn(settlements) PROVE Come(settlements, S) \in Int
  <2>1. IsFiniteSet(S) /\ Come(settlements, S) = SumFunctionOnSet(v, S) /\ \A r \in S : v[r] \in Int
    BY <1>1, <1>2, ComeIs
  <2> QED BY <2>1, SumIsInt
<1>4. ASSUME NEW k PROVE Debt(k) = Come(settlements, OfKontragent(k)) /\ Debt(k) \in Int
  <2>1. Debt(k) = Come(settlements, OfKontragent(k))
    BY DEF Debt, SumIn, SumOver, Come, OfKontragent
  <2>2. OfKontragent(k) \in SUBSET RowsIn(settlements)
    BY DEF OfKontragent
  <2> QED BY <1>3, <2>1, <2>2
<1>5. ASSUME NEW b PROVE Owed(b) = Come(settlements, OnDocument(b)) /\ Owed(b) \in Int
  <2>1. Owed(b) = Come(settlements, OnDocument(b))
    BY DEF Owed, SumIn, SumOver, Come, OnDocument
  <2>2. OnDocument(b) \in SUBSET RowsIn(settlements)
    BY DEF OnDocument
  <2> QED BY <1>3, <2>1, <2>2
<1> QED BY <1>4, <1>5

\* The kontragenty with a name are finitely many.
LEMMA KontragentyAreFinite == IsFiniteSet(Kontragenty)
<1>1. PICK h : h = [d \in AllDocs |-> Header[d].kontragent]
  OBVIOUS
<1>2. PICK T : T = {Header[d].kontragent : d \in AllDocs}
  OBVIOUS
<1>3. h \in Surjection(AllDocs, T)
  BY <1>1, <1>2 DEF Surjection
<1>4. IsFiniteSet(T)
  BY <1>3, DocsAreFinite, FS_Surjection
<1>5. Kontragenty \subseteq T
  BY <1>2 DEF Kontragenty
<1> QED BY <1>4, <1>5, FS_Subset

\* The balances of kontragenty come to all settlements: each names one.
LEMMA BalancesCome ==
  ASSUME BooksInv
  PROVE  /\ IsFiniteSet(SettlementBalances) /\ \A l \in SettlementBalances : l.debt \in Int
         /\ Sum(SettlementBalances, LAMBDA r : r.debt) = Come(settlements, RowsIn(settlements))
<1>1. TwoRows(settlements)
  BY RowsOfBooks
<1>2. PICK v : v = AmountsOf(settlements)
  OBVIOUS
<1>3. PICK S : S = RowsIn(settlements)
  OBVIOUS
<1>4. IsFiniteSet(S) /\ (\A r \in S : v[r] \in Int) /\ Come(settlements, S) = SumFunctionOnSet(v, S)
  BY <1>1, <1>2, <1>3, ComeIs
<1>5. PICK K : K = Kontragenty
  OBVIOUS
<1>6. PICK f : f = [k \in K |-> Debt(k)]
  OBVIOUS
<1>7. PICK key : key = [r \in S |-> settlements[r[1]][r[2]].kontragent]
  OBVIOUS
<1>8. \A r \in S : key[r] \in K
  <2> SUFFICES ASSUME NEW r \in S PROVE key[r] \in K
    OBVIOUS
  <2>1. PICK d \in AllDocs : DebtOf(d) # 0 /\ settlements[r[1]][r[2]].kontragent = Header[d].kontragent
    BY <1>3, RowsOfBooks
  <2>2. Header[d].kontragent # NoOne
    BY <2>1 DEF DebtOf
  <2> QED BY <1>5, <1>7, <2>1, <2>2 DEF Kontragenty
<1>9. ASSUME NEW k \in K PROVE f[k] = SumFunctionOnSet(v, {r \in S : key[r] = k}) /\ f[k] \in Int
  <2>1. PICK X : X = {r \in S : key[r] = k}
    OBVIOUS
  <2>2. X = OfKontragent(k) /\ X \in SUBSET RowsIn(settlements)
    BY <1>3, <1>7, <2>1 DEF OfKontragent
  <2>3. Debt(k) = Come(settlements, X) /\ Debt(k) \in Int
    BY <2>2, DebtsCome
  <2>4. Come(settlements, X) = SumFunctionOnSet(v, X)
    BY <1>1, <1>2, <2>2, ComeIs
  <2> QED BY <1>6, <2>1, <2>3, <2>4
<1>10. IsFiniteSet(K)
  BY <1>5, KontragentyAreFinite
<1>11. SumFunctionOnSet(v, S) = SumFunctionOnSet(f, K)
  <2>1. Grouped(v, S, key, f, K)
    BY <1>4, <1>8, <1>9 DEF Grouped
  <2> QED BY <1>4, <1>10, <2>1, SumByGroup
<1>12. PICK P : P = {k \in K : Debt(k) # 0}
  OBVIOUS
<1>13. PICK h : h = [k \in P |-> [kontragent |-> k, debt |-> Debt(k)]]
  OBVIOUS
<1>14. PICK L : L = SettlementBalances
  OBVIOUS
<1>15. L = {h[k] : k \in P}
  BY <1>5, <1>12, <1>13, <1>14 DEF SettlementBalances
<1>16. PICK g : g = [l \in L |-> l.debt]
  OBVIOUS
<1>17. P \in SUBSET K /\ \A k \in K \ P : f[k] = 0
  BY <1>6, <1>12
<1>18. \A k \in P : h[k].kontragent = k /\ h[k].debt = f[k] /\ h[k] \in L /\ g[h[k]] = f[k]
  BY <1>6, <1>13, <1>15, <1>16, <1>17
<1>19. \A x, y \in P : h[x] = h[y] => x = y
  BY <1>18
<1>20. SumFunctionOnSet(g, L) = SumFunctionOnSet(f, K)
  <2>1. (\A k \in K : f[k] \in Int) /\ \A k \in P : g[h[k]] = f[k]
    BY <1>9, <1>18
  <2> QED BY <1>10, <1>15, <1>17, <1>19, <2>1, SumOfList
<1>21. IsFiniteSet(L) /\ \A l \in L : l.debt \in Int
  <2>1. h \in Surjection(P, L)
    BY <1>13, <1>15 DEF Surjection
  <2>2. IsFiniteSet(P)
    BY <1>10, <1>17, FS_Subset
  <2>3. IsFiniteSet(L)
    BY <2>1, <2>2, FS_Surjection
  <2>4. ASSUME NEW l \in L PROVE l.debt \in Int
    <3>1. PICK k \in P : l = h[k]
      BY <1>15
    <3> QED BY <1>9, <1>17, <1>18, <3>1
  <2> QED BY <2>3, <2>4
<1>22. Sum(L, LAMBDA r : r.debt) = SumFunctionOnSet(g, L)
  BY <1>16 DEF Sum, SumOver
<1> QED BY <1>3, <1>4, <1>11, <1>14, <1>20, <1>21, <1>22

\* What the dashboard says is owed to us, less what we owe.
LEMMA DashboardComes ==
  ASSUME BooksInv, NEW a, NEW b
  PROVE  Dashboard(a, b).receivable - Dashboard(a, b).payable = Come(settlements, RowsIn(settlements))
<1>1. PICK L : L = SettlementBalances
  OBVIOUS
<1>2. PICK f : f = [l \in L |-> l.debt]
  OBVIOUS
<1>3. IsFiniteSet(L) /\ \A l \in L : f[l] \in Int /\ f[l] = l.debt
  BY <1>1, <1>2, BalancesCome
<1>4. PICK P : P = {s \in L : s.debt > 0}
  OBVIOUS
<1>5. PICK N : N = {s \in L : s.debt < 0}
  OBVIOUS
<1>6. P = {l \in L : f[l] > 0} /\ N = {l \in L : f[l] < 0}
  BY <1>3, <1>4, <1>5
<1>7. SumFunctionOnSet(f, L) = SumFunctionOnSet(f, P) + SumFunctionOnSet(f, N)
  BY <1>3, <1>6, SumOfSigns
<1>8. ASSUME NEW T \in SUBSET L
      PROVE  Sum(T, LAMBDA s : s.debt) = SumFunctionOnSet(f, T) /\ SumFunctionOnSet(f, T) \in Int
  <2>1. PICK t : t = [l \in T |-> l.debt]
    OBVIOUS
  <2>2. IsFiniteSet(T) /\ (\A l \in T : t[l] = f[l]) /\ \A l \in T : f[l] \in Int
    BY <1>3, <2>1, FS_Subset
  <2>3. SumFunctionOnSet(t, T) = SumFunctionOnSet(f, T)
    BY <2>2, SumSame
  <2>4. Sum(T, LAMBDA s : s.debt) = SumFunctionOnSet(t, T)
    BY <2>1 DEF Sum, SumOver
  <2> QED BY <2>2, <2>3, <2>4, SumIsInt
<1>9. PICK x : x = Sum(P, LAMBDA s : s.debt)
  OBVIOUS
<1>10. PICK y : y = Sum(N, LAMBDA s : s.debt)
  OBVIOUS
<1>11. Dashboard(a, b).receivable = x /\ Dashboard(a, b).payable = -y
  BY <1>1, <1>4, <1>5, <1>9, <1>10 DEF Dashboard
<1>12. x = SumFunctionOnSet(f, P) /\ y = SumFunctionOnSet(f, N) /\ x \in Int /\ y \in Int
  BY <1>4, <1>5, <1>8, <1>9, <1>10
<1>13. Sum(L, LAMBDA s : s.debt) = SumFunctionOnSet(f, L)
  BY <1>8
<1> QED BY <1>1, <1>7, <1>11, <1>12, <1>13, BalancesCome

-----------------------------------------------------------------------------
\* What is open on some documents is all settlements on them.
LEMMA OpenComes ==
  ASSUME BooksInv, NEW X \in SUBSET AllDocs
  PROVE  Sum({r \in OpenInvoices : r.doc \in X}, LAMBDA r : r.open) = Come(settlements, OnDocuments(X))
<1>1. TwoRows(settlements)
  BY RowsOfBooks
<1>2. PICK v : v = AmountsOf(settlements)
  OBVIOUS
<1>3. PICK S : S = OnDocuments(X)
  OBVIOUS
<1>4. S \in SUBSET RowsIn(settlements)
  BY <1>3 DEF OnDocuments
<1>5. IsFiniteSet(S) /\ (\A r \in S : v[r] \in Int) /\ Come(settlements, S) = SumFunctionOnSet(v, S)
  BY <1>1, <1>2, <1>4, ComeIs
<1>6. PICK f : f = [b \in X |-> Owed(b)]
  OBVIOUS
<1>7. PICK key : key = [r \in S |-> settlements[r[1]][r[2]].base]
  OBVIOUS
<1>8. \A r \in S : key[r] \in X
  BY <1>3, <1>7 DEF OnDocuments
<1>9. ASSUME NEW b \in X PROVE f[b] = SumFunctionOnSet(v, {r \in S : key[r] = b}) /\ f[b] \in Int
  <2>1. PICK T : T = {r \in S : key[r] = b}
    OBVIOUS
  <2>2. T = OnDocument(b) /\ T \in SUBSET RowsIn(settlements)
    BY <1>3, <1>7, <2>1 DEF OnDocument, OnDocuments
  <2>3. Owed(b) = Come(settlements, T) /\ Owed(b) \in Int
    BY <2>2, DebtsCome
  <2>4. Come(settlements, T) = SumFunctionOnSet(v, T)
    BY <1>1, <1>2, <2>2, ComeIs
  <2> QED BY <1>6, <2>1, <2>3, <2>4
<1>10. IsFiniteSet(X)
  BY DocsAreFinite, FS_Subset
<1>11. SumFunctionOnSet(v, S) = SumFunctionOnSet(f, X)
  <2>1. Grouped(v, S, key, f, X)
    BY <1>5, <1>8, <1>9 DEF Grouped
  <2> QED BY <1>5, <1>10, <2>1, SumByGroup
<1>12. PICK P : P = {b \in X : Owed(b) # 0}
  OBVIOUS
<1>13. PICK h : h = [b \in P |-> [doc |-> b, kontragent |-> Header[b].kontragent, open |-> Owed(b)]]
  OBVIOUS
<1>14. PICK L : L = {r \in OpenInvoices : r.doc \in X}
  OBVIOUS
<1>15. OpenInvoices = {[doc |-> b, kontragent |-> Header[b].kontragent, open |-> Owed(b)] :
                         b \in {b \in AllDocs : Owed(b) # 0}}
  BY DEF OpenInvoices, Owed
<1>16. \A b \in P : h[b].doc = b /\ h[b].open = Owed(b)
  BY <1>13
<1>17. L = {h[b] : b \in P}
  <2>1. ASSUME NEW l \in L PROVE l \in {h[b] : b \in P}
    <3>1. PICK b \in AllDocs : Owed(b) # 0 /\ l = [doc |-> b, kontragent |-> Header[b].kontragent, open |-> Owed(b)]
      BY <1>14, <1>15
    <3>2. l.doc = b /\ l.doc \in X
      BY <1>14, <3>1
    <3>3. b \in P /\ l = h[b]
      BY <1>12, <1>13, <3>1, <3>2
    <3> QED BY <3>3
  <2>2. ASSUME NEW b \in P PROVE h[b] \in L
    <3>1. b \in X /\ b \in AllDocs /\ Owed(b) # 0
      BY <1>12
    <3>2. h[b] \in OpenInvoices
      BY <1>13, <1>15, <3>1
    <3> QED BY <1>14, <1>16, <3>1, <3>2
  <2> QED BY <2>1, <2>2
<1>18. PICK g : g = [l \in L |-> l.open]
  OBVIOUS
<1>19. P \in SUBSET X /\ (\A b \in X \ P : f[b] = 0) /\ \A b \in X : f[b] \in Int
  BY <1>6, <1>9, <1>12
<1>20. \A b \in P : g[h[b]] = f[b]
  BY <1>6, <1>16, <1>17, <1>18, <1>19
<1>21. \A x, y \in P : h[x] = h[y] => x = y
  BY <1>16
<1>22. SumFunctionOnSet(g, L) = SumFunctionOnSet(f, X)
  BY <1>10, <1>17, <1>19, <1>20, <1>21, SumOfList, SMTT(30)
<1>23. Sum(L, LAMBDA r : r.open) = SumFunctionOnSet(g, L)
  BY <1>18 DEF Sum, SumOver
<1> QED BY <1>3, <1>5, <1>11, <1>14, <1>22, <1>23

\* Settlements are on a document or on none.
LEMMA OnesOwn ==
  ASSUME BooksInv
  PROVE  Come(settlements, RowsIn(settlements))
           = Sum(OpenInvoices, LAMBDA r : r.open) + SumIn(settlements, LAMBDA s : s.base = NoOne)
<1>1. TwoRows(settlements)
  BY RowsOfBooks
<1>2. PICK S : S = OnDocuments(AllDocs)
  OBVIOUS
<1>3. PICK T : T = OnDocument(NoOne)
  OBVIOUS
<1>4. S \in SUBSET RowsIn(settlements) /\ T \in SUBSET RowsIn(settlements)
  BY <1>2, <1>3 DEF OnDocuments, OnDocument
<1>5. S \cap T = {}
  BY <1>2, <1>3, ReportsAssumption DEF OnDocuments, OnDocument
<1>6. S \cup T = RowsIn(settlements)
  <2>1. ASSUME NEW r \in RowsIn(settlements) PROVE r \in S \cup T
    <3>1. PICK d \in AllDocs : settlements[r[1]][r[2]].base = IF d \in Docs THEN d ELSE Header[d].base
      BY RowsOfBooks
    <3>2. settlements[r[1]][r[2]].base \in AllDocs \cup {NoOne}
      BY <3>1, BooksAssumption
    <3> QED BY <1>2, <1>3, <3>2 DEF OnDocuments, OnDocument
  <2> QED BY <1>4, <2>1
<1>7. Come(settlements, RowsIn(settlements)) = Come(settlements, S) + Come(settlements, T)
  BY <1>1, <1>4, <1>5, <1>6, ComeTogether
<1>8. SumIn(settlements, LAMBDA s : s.base = NoOne) = Come(settlements, T)
  <2>1. Owed(NoOne) = Come(settlements, OnDocument(NoOne))
    BY DebtsCome
  <2>2. Owed(NoOne) = SumIn(settlements, LAMBDA s : s.base = NoOne)
    BY DEF Owed
  <2> QED BY <1>3, <2>1, <2>2
<1>9. {r \in OpenInvoices : r.doc \in AllDocs} = OpenInvoices
  <2>1. OpenInvoices = {[doc |-> b, kontragent |-> Header[b].kontragent, open |-> Owed(b)] :
                          b \in {b \in AllDocs : Owed(b) # 0}}
    BY DEF OpenInvoices, Owed
  <2>2. \A l \in OpenInvoices : l.doc \in AllDocs
    BY <2>1
  <2> QED BY <2>2
<1>10. Sum({r \in OpenInvoices : r.doc \in AllDocs}, LAMBDA r : r.open) = Come(settlements, S)
  BY <1>2, OpenComes
<1> QED BY <1>7, <1>8, <1>9, <1>10

\* The debt for goods on commission is what is open on what brought them.
LEMMA CommissionComes ==
  ASSUME BooksInv
  PROVE  CommissionDebt
           = -Sum({r \in OpenInvoices : r.doc \in Docs /\ Ownership(r.doc) = "received"}, LAMBDA r : r.open)
<1>1. PICK X : X = {b \in Docs : Ownership(b) = "received"}
  OBVIOUS
<1>2. X \in SUBSET AllDocs
  BY <1>1, DocsAreFinite
<1>3. PICK S : S = {r \in RowsIn(settlements) : settlements[r[1]][r[2]].base \in Docs
                                                 /\ Ownership(settlements[r[1]][r[2]].base) = "received"}
  OBVIOUS
<1>4. S = OnDocuments(X)
  BY <1>1, <1>3 DEF OnDocuments
<1>5. CommissionDebt = -Come(settlements, S)
  BY <1>3 DEF CommissionDebt, SumIn, SumOver, Come
<1>6. {r \in OpenInvoices : r.doc \in X}
        = {r \in OpenInvoices : r.doc \in Docs /\ Ownership(r.doc) = "received"}
  BY <1>1
<1> QED BY <1>2, <1>4, <1>5, <1>6, OpenComes

\* What the reports on money say.
LEMMA InvariantGivesMoney ==
  BooksInv => MoneyReportsAgree
<1> SUFFICES ASSUME BooksInv PROVE MoneyReportsAgree
  OBVIOUS
<1>2. MoneyBalance = Sum(MoneyMovements(<<0, LastDay>>), LAMBDA r : r.amount)
  BY AllComes DEF MoneySum
<1>3. Sum(SettlementBalances, LAMBDA r : r.debt)
        = Sum(SettlementMovements(<<0, LastDay>>), LAMBDA r : r.amount)
  BY AllComes, BalancesCome
<1>4. Dashboard(0, LastDay).receivable - Dashboard(0, LastDay).payable
        = Sum(OpenInvoices, LAMBDA r : r.open) + SumIn(settlements, LAMBDA s : s.base = NoOne)
  BY DashboardComes, OnesOwn
<1>5. CommissionDebt =
        -Sum({r \in OpenInvoices : r.doc \in Docs /\ Ownership(r.doc) = "received"}, LAMBDA r : r.open)
  BY CommissionComes
<1>6. ASSUME NEW p \in Periods
      PROVE  LET book == CashBook(p)
                 flow == DailyMoneyFlow(p)
             IN /\ Sum(DOMAIN flow, LAMBDA day : flow[day].income + flow[day].expense)
                     = Sum(MoneyMovements(p), LAMBDA r : r.amount)
                /\ DOMAIN book # {} =>
                     book[Max(DOMAIN book)] = Sum(MoneyMovements(<<0, p[2]>>), LAMBDA r : r.amount)
  <2>1. FlowSum(DailyMoneyFlow(p)) = MoneySum(p)
    BY FlowAgrees
  <2>2. PICK book : book = CashBook(p)
    OBVIOUS
  <2>3. DOMAIN book # {} => book[Max(DOMAIN book)] = MoneySum(<<0, p[2]>>)
    BY <2>2, BookAgrees
  <2>4. FlowSum(DailyMoneyFlow(p))
          = Sum(DOMAIN DailyMoneyFlow(p), LAMBDA day : DailyMoneyFlow(p)[day].income + DailyMoneyFlow(p)[day].expense)
    BY DEF FlowSum
  <2>5. MoneySum(p) = Sum(MoneyMovements(p), LAMBDA r : r.amount)
        /\ MoneySum(<<0, p[2]>>) = Sum(MoneyMovements(<<0, p[2]>>), LAMBDA r : r.amount)
    BY DEF MoneySum
  <2> QED BY <2>1, <2>2, <2>3, <2>4, <2>5
<1> QED BY <1>2, <1>3, <1>4, <1>5, <1>6 DEF MoneyReportsAgree

\* The reports on money agree with the registers and with each other.
THEOREM MoneyReportsHold == TillSpec => []MoneyReportsAgree
BY BooksHold, InvariantGivesMoney, PTL

-----------------------------------------------------------------------------
(***************************************************************************)
(* The reports on stock, in the same way: q are the quantities of all      *)
(* movements.                                                              *)
(***************************************************************************)
Qty(S) == SumFunctionOnSet([r \in S |-> moves[r[1]][r[2]].qty], S)
QuantitiesOf == [r \in RowsIn(moves) |-> moves[r[1]][r[2]].qty]

BatchOf(r) == moves[r[1]][r[2]].batch

\* Some movements, by the quantities of all.
LEMMA QtyIs ==
  ASSUME LedgerInv, NEW q, q = QuantitiesOf
  PROVE  /\ IsFiniteSet(RowsIn(moves))
         /\ \A r \in RowsIn(moves) :
              /\ q[r] \in Int /\ q[r] = moves[r[1]][r[2]].qty
              /\ r[1] \in Docs /\ r[2] \in DOMAIN moves[r[1]]
              /\ SkladOf(r) \in Sklady
              /\ BatchOf(r) # NoBatch => BatchOf(r) \in DOMAIN batches /\ batches[BatchOf(r)].sklad = SkladOf(r)
         /\ NoBatch \notin DOMAIN batches
         /\ \A S \in SUBSET RowsIn(moves) :
              IsFiniteSet(S) /\ Qty(S) = SumFunctionOnSet(q, S) /\ Qty(S) \in Int
<1>1. Register(moves) /\ Consistent(batches, moves, posted)
  BY ConsistentIs DEF LedgerInv, LedgerIs
<1>2. IsFiniteSet(RowsIn(moves)) /\ RowsIn(moves) = {r \in Docs \X Nat : r[2] \in DOMAIN moves[r[1]]}
  BY <1>1, MovementsAreFinite DEF Register
<1>3. ASSUME NEW r \in RowsIn(moves)
      PROVE  /\ q[r] \in Int /\ q[r] = moves[r[1]][r[2]].qty
             /\ r[1] \in Docs /\ r[2] \in DOMAIN moves[r[1]]
             /\ SkladOf(r) \in Sklady
             /\ BatchOf(r) # NoBatch => BatchOf(r) \in DOMAIN batches /\ batches[BatchOf(r)].sklad = SkladOf(r)
  <2>1. r[1] \in Docs /\ r[2] \in DOMAIN moves[r[1]]
    BY <1>2
  <2>2. PICK d, k : d = r[1] /\ k = r[2]
    OBVIOUS
  <2>3. d \in Docs /\ k \in DOMAIN moves[d]
    BY <2>1, <2>2
  <2>4. moves[d][k].qty \in Int /\ moves[d][k].sklad \in Sklady
    <3>1. PICK x : x = moves[d][k]
      OBVIOUS
    <3>2. x \in AnyRow
      BY <1>1, <2>3, <3>1, RegisterIs
    <3> QED BY <3>1, <3>2 DEF AnyRow
  <2>5. q[r] = moves[d][k].qty
    BY <2>2 DEF QuantitiesOf
  <2>6. PICK i : i = moves[d][k].batch
    OBVIOUS
  <2>7. i # NoBatch => i \in DOMAIN batches /\ moves[d][k].sklad = batches[i].sklad
    BY <1>1, <2>3, <2>6, RowsConsistent
  <2> QED BY <2>1, <2>2, <2>4, <2>5, <2>6, <2>7 DEF SkladOf, BatchOf
<1>5. NoBatch \notin DOMAIN batches
  <2>1. batches \in Seq(AnyBatch)
    BY <1>1, ConsistentIs
  <2> QED BY <2>1, SequenceIs DEF NoBatch
<1>4. ASSUME NEW S \in SUBSET RowsIn(moves)
      PROVE  IsFiniteSet(S) /\ Qty(S) = SumFunctionOnSet(q, S) /\ Qty(S) \in Int
  <2>1. IsFiniteSet(S) /\ \A r \in S : q[r] \in Int
    BY <1>2, <1>3, FS_Subset
  <2>2. PICK f : f = [r \in S |-> moves[r[1]][r[2]].qty]
    OBVIOUS
  <2>3. \A r \in S : f[r] = q[r]
    BY <1>3, <2>2
  <2>4. SumFunctionOnSet(f, S) = SumFunctionOnSet(q, S)
    BY <2>1, <2>3, SumSame
  <2>5. SumFunctionOnSet(q, S) \in Int
    BY <2>1, SumIsInt
  <2> QED BY <2>1, <2>2, <2>4, <2>5 DEF Qty
<1> QED BY <1>2, <1>3, <1>4, <1>5

\* Movements of two sets that have none in common.
LEMMA QtyTogether ==
  ASSUME LedgerInv, NEW S \in SUBSET RowsIn(moves), NEW T \in SUBSET RowsIn(moves), S \cap T = {}
  PROVE  Qty(S \cup T) = Qty(S) + Qty(T)
<1>1. PICK q : q = QuantitiesOf
  OBVIOUS
<1>2. PICK U : U = S \cup T
  OBVIOUS
<1>3. U \in SUBSET RowsIn(moves) /\ S \in SUBSET U /\ U \ S = T
  BY <1>2
<1>4. IsFiniteSet(U) /\ \A x \in U : q[x] \in Int
  BY <1>1, <1>3, QtyIs
<1>5. SumFunctionOnSet(q, U) = SumFunctionOnSet(q, S) + SumFunctionOnSet(q, U \ S)
  BY <1>3, <1>4, SumSplit
<1>6. Qty(U) = SumFunctionOnSet(q, U) /\ Qty(S) = SumFunctionOnSet(q, S) /\ Qty(T) = SumFunctionOnSet(q, T)
  BY <1>1, <1>3, QtyIs, SMTT(30)
<1> QED BY <1>2, <1>3, <1>5, <1>6

\* What came in and what went out.
LEMMA QtyBySign ==
  ASSUME LedgerInv, NEW S \in SUBSET RowsIn(moves)
  PROVE  Qty(S) = Qty({r \in S : moves[r[1]][r[2]].qty > 0}) + Qty({r \in S : moves[r[1]][r[2]].qty < 0})
<1>1. PICK q : q = QuantitiesOf
  OBVIOUS
<1>2. IsFiniteSet(S) /\ \A r \in S : q[r] \in Int /\ q[r] = moves[r[1]][r[2]].qty
  BY <1>1, QtyIs
<1>3. PICK P : P = {r \in S : q[r] > 0}
  OBVIOUS
<1>4. PICK N : N = {r \in S : q[r] < 0}
  OBVIOUS
<1>5. SumFunctionOnSet(q, S) = SumFunctionOnSet(q, P) + SumFunctionOnSet(q, N)
  BY <1>2, <1>3, <1>4, SumOfSigns
<1>6. P = {r \in S : moves[r[1]][r[2]].qty > 0} /\ N = {r \in S : moves[r[1]][r[2]].qty < 0}
  BY <1>2, <1>3, <1>4
<1>7. P \in SUBSET RowsIn(moves) /\ N \in SUBSET RowsIn(moves)
  BY <1>3, <1>4
<1>8. Qty(S) = SumFunctionOnSet(q, S) /\ Qty(P) = SumFunctionOnSet(q, P) /\ Qty(N) = SumFunctionOnSet(q, N)
  BY <1>1, <1>7, QtyIs
<1> QED BY <1>5, <1>6, <1>8

\* A sum of one.
LEMMA SumOfOne ==
  ASSUME NEW f, NEW x, f[x] \in Int
  PROVE  SumFunctionOnSet(f, {x}) = f[x]
<1>1. PICK S : S = {x}
  OBVIOUS
<1>2. IsFiniteSet(S) /\ x \in S /\ S \ {x} = {} /\ \A y \in S : f[y] \in Int
  BY <1>1, FS_Singleton
<1>3. SumFunctionOnSet(f, S) = f[x] + SumFunctionOnSet(f, S \ {x})
  BY <1>2, SumRemove
<1> QED BY <1>1, <1>2, <1>3, SumOfNone

-----------------------------------------------------------------------------
\* The movements of a warehouse before a day, and what a statement says of it.
Prior(s, day) == {r \in RowsIn(moves) : SkladOf(r) = s /\ Header[r[1]].date < day}
OpeningQ(p, s) == Moved({r \in InSklad(RowsIn(moves), s) : Header[r[1]].date < p[1]}, LAMBDA q : TRUE)
IncomingQ(p, s) == Moved(InSklad(Rows(p), s), LAMBDA q : q > 0)
OutgoingQ(p, s) == Moved(InSklad(Rows(p), s), LAMBDA q : q < 0)
TurnoverRow(p, s) ==
  [sklad |-> s, opening |-> OpeningQ(p, s), incoming |-> IncomingQ(p, s), outgoing |-> OutgoingQ(p, s),
   closing |-> OpeningQ(p, s) + IncomingQ(p, s) + OutgoingQ(p, s)]
Turned(p, s) == ~ (OpeningQ(p, s) = 0 /\ IncomingQ(p, s) = 0 /\ OutgoingQ(p, s) = 0)

\* A movement is of a document of goods, on a day of the model.
LEMMA MovementDay ==
  ASSUME LedgerInv, NEW r \in RowsIn(moves)
  PROVE  Header[r[1]].date \in Nat /\ Header[r[1]].date <= LastDay
<1>1. r[1] \in AllDocs
  BY QtyIs, DocsAreFinite
<1> QED BY <1>1, ReportsAssumption DEF Days

\* What a statement says, by the movements.
LEMMA TurnoverComes ==
  ASSUME LedgerInv, NEW p \in Periods, NEW s
  PROVE  /\ OpeningQ(p, s) = Qty(Prior(s, p[1])) /\ OpeningQ(p, s) \in Int
         /\ IncomingQ(p, s) \in Int /\ OutgoingQ(p, s) \in Int
         /\ OpeningQ(p, s) + IncomingQ(p, s) + OutgoingQ(p, s) = Qty(Prior(s, p[2] + 1))
<1>1. p[1] \in Nat /\ p[2] \in Nat /\ p[1] <= p[2]
  BY PeriodIs
<1>2. PICK S : S = Prior(s, p[1])
  OBVIOUS
<1>3. PICK D : D = InSklad(Rows(p), s)
  OBVIOUS
<1>4. D = {r \in RowsIn(moves) : SkladOf(r) = s /\ Within(Header[r[1]].date, p)}
  BY <1>3 DEF InSklad, Rows
<1>5. S \in SUBSET RowsIn(moves) /\ D \in SUBSET RowsIn(moves)
  BY <1>2, <1>4 DEF Prior
<1>6. OpeningQ(p, s) = Qty(S)
  <2>1. {r \in InSklad(RowsIn(moves), s) : Header[r[1]].date < p[1]} = S
    BY <1>2 DEF InSklad, Prior
  <2>2. {r \in S : TRUE} = S
    OBVIOUS
  <2>3. OpeningQ(p, s) = Moved(S, LAMBDA q : TRUE)
    BY <2>1 DEF OpeningQ
  <2> QED BY <2>2, <2>3 DEF Moved, SumOver, Qty
<1>7. PICK P : P = {r \in D : moves[r[1]][r[2]].qty > 0}
  OBVIOUS
<1>8. PICK N : N = {r \in D : moves[r[1]][r[2]].qty < 0}
  OBVIOUS
<1>9. IncomingQ(p, s) = Qty(P) /\ OutgoingQ(p, s) = Qty(N)
  BY <1>3, <1>7, <1>8 DEF IncomingQ, OutgoingQ, Moved, SumOver, Qty
<1>10. P \in SUBSET RowsIn(moves) /\ N \in SUBSET RowsIn(moves)
  BY <1>5, <1>7, <1>8
<1>11. Qty(S) \in Int /\ Qty(P) \in Int /\ Qty(N) \in Int
  BY <1>5, <1>10, QtyIs
<1>12. Qty(D) = Qty(P) + Qty(N)
  BY <1>5, <1>7, <1>8, QtyBySign
<1>13. \A r \in RowsIn(moves) : Header[r[1]].date \in Nat
  BY MovementDay
<1>14. S \cap D = {}
  BY <1>1, <1>2, <1>4, <1>13 DEF Prior, Within
<1>15. S \cup D = Prior(s, p[2] + 1)
  BY <1>1, <1>2, <1>4, <1>13 DEF Prior, Within
<1>16. Qty(S \cup D) = Qty(S) + Qty(D)
  BY <1>5, <1>14, QtyTogether
<1>17. Qty(Prior(s, p[2] + 1)) = Qty(S) + (Qty(P) + Qty(N))
  BY <1>12, <1>15, <1>16
<1>18. Qty(S) + Qty(P) + Qty(N) = Qty(S) + (Qty(P) + Qty(N))
  BY <1>11
<1> QED BY <1>2, <1>6, <1>9, <1>11, <1>17, <1>18

\* What a list of one row at most comes to.
LEMMA TurnoverIs ==
  ASSUME LedgerInv, NEW p \in Periods, NEW s \in Sklady
  PROVE  Opening(p, s) = Qty(Prior(s, p[1])) /\ Closing(p, s) = Qty(Prior(s, p[2] + 1))
<1>1. PICK row : row = TurnoverRow(p, s)
  OBVIOUS
<1>2. PICK L : L = {t \in TurnoverStatement(p) : t.sklad = s}
  OBVIOUS
<1>3. TurnoverStatement(p) = {TurnoverRow(p, w) : w \in {w \in Sklady : Turned(p, w)}}
  BY DEF TurnoverStatement, TurnoverRow, Turned, OpeningQ, IncomingQ, OutgoingQ
<1>4. \A w : TurnoverRow(p, w).sklad = w
  BY DEF TurnoverRow
<1>5. row.opening = OpeningQ(p, s) /\ row.closing = OpeningQ(p, s) + IncomingQ(p, s) + OutgoingQ(p, s)
  BY <1>1 DEF TurnoverRow
<1>6. row.opening = Qty(Prior(s, p[1])) /\ row.closing = Qty(Prior(s, p[2] + 1))
      /\ row.opening \in Int /\ row.closing \in Int
  BY <1>5, TurnoverComes
<1>7. Opening(p, s) = Sum(L, LAMBDA t : t.opening) /\ Closing(p, s) = Sum(L, LAMBDA t : t.closing)
  BY <1>2 DEF Opening, Closing
<1>8. CASE Turned(p, s)
  <2>1. L = {row}
    BY <1>1, <1>2, <1>3, <1>4, <1>8
  <2>2. PICK f : f = [t \in L |-> t.opening]
    OBVIOUS
  <2>3. PICK g : g = [t \in L |-> t.closing]
    OBVIOUS
  <2>4. f[row] = row.opening /\ g[row] = row.closing
    BY <2>1, <2>2, <2>3
  <2>5. SumFunctionOnSet(f, {row}) = row.opening /\ SumFunctionOnSet(g, {row}) = row.closing
    BY <1>6, <2>4, SumOfOne
  <2>6. Opening(p, s) = SumFunctionOnSet(f, L) /\ Closing(p, s) = SumFunctionOnSet(g, L)
    BY <1>7, <2>2, <2>3 DEF Sum, SumOver
  <2> QED BY <1>6, <2>1, <2>5, <2>6
<1>9. CASE ~ Turned(p, s)
  <2>1. L = {}
    BY <1>2, <1>3, <1>4, <1>9
  <2>2. Opening(p, s) = 0 /\ Closing(p, s) = 0
    BY <1>7, <2>1, SumOfNone DEF Sum, SumOver
  <2>3. row.opening = 0 /\ row.closing = 0
    BY <1>5, <1>9 DEF Turned
  <2> QED BY <1>6, <2>2, <2>3
<1> QED BY <1>8, <1>9

-----------------------------------------------------------------------------
\* What some batches hold.
InBatches(S) == SumFunctionOnSet([i \in S |-> batches[i].qty], S)
QuantitiesHeld == [i \in DOMAIN batches |-> batches[i].qty]
BatchesOf(s) == {i \in DOMAIN batches : batches[i].sklad = s}

\* Some batches, by the quantities of all.
LEMMA InBatchesIs ==
  ASSUME LedgerInv, NEW q, q = QuantitiesHeld
  PROVE  /\ \A i \in DOMAIN batches : q[i] \in Int /\ q[i] = batches[i].qty
         /\ \A S \in SUBSET DOMAIN batches :
              IsFiniteSet(S) /\ InBatches(S) = SumFunctionOnSet(q, S) /\ InBatches(S) \in Int
<1>1. batches \in Seq(AnyBatch) /\ \A i \in DOMAIN batches : batches[i].qty \in Int
  BY ConsistentIs DEF LedgerInv, LedgerIs
<1>2. IsFiniteSet(DOMAIN batches)
  <2>1. Len(batches) \in Nat /\ DOMAIN batches = 1 .. Len(batches)
    BY <1>1, SequenceIs
  <2> QED BY <2>1, FS_Interval
<1>3. \A i \in DOMAIN batches : q[i] \in Int /\ q[i] = batches[i].qty
  BY <1>1 DEF QuantitiesHeld
<1>4. ASSUME NEW S \in SUBSET DOMAIN batches
      PROVE  IsFiniteSet(S) /\ InBatches(S) = SumFunctionOnSet(q, S) /\ InBatches(S) \in Int
  <2>1. IsFiniteSet(S) /\ \A i \in S : q[i] \in Int
    BY <1>2, <1>3, FS_Subset
  <2>2. PICK f : f = [i \in S |-> batches[i].qty]
    OBVIOUS
  <2>3. \A i \in S : f[i] = q[i]
    BY <1>3, <2>2
  <2>4. SumFunctionOnSet(f, S) = SumFunctionOnSet(q, S)
    BY <2>1, <2>3, SumSame
  <2>5. SumFunctionOnSet(q, S) \in Int
    BY <2>1, SumIsInt
  <2> QED BY <2>1, <2>2, <2>4, <2>5 DEF InBatches
<1> QED BY <1>3, <1>4

\* Some batches hold what their movements come to.
LEMMA BatchesCome ==
  ASSUME LedgerInv, NEW T \in SUBSET DOMAIN batches
  PROVE  Qty({r \in RowsIn(moves) : moves[r[1]][r[2]].batch \in T}) = InBatches(T)
<1>1. PICK q : q = QuantitiesOf
  OBVIOUS
<1>2. PICK g : g = QuantitiesHeld
  OBVIOUS
<1>3. PICK S : S = {r \in RowsIn(moves) : moves[r[1]][r[2]].batch \in T}
  OBVIOUS
<1>4. PICK k : k = [r \in S |-> moves[r[1]][r[2]].batch]
  OBVIOUS
<1>5. IsFiniteSet(S) /\ (\A r \in S : q[r] \in Int) /\ Qty(S) = SumFunctionOnSet(q, S)
  BY <1>1, <1>3, QtyIs
<1>6. IsFiniteSet(T) /\ InBatches(T) = SumFunctionOnSet(g, T)
  BY <1>2, InBatchesIs
<1>7. \A r \in S : k[r] \in T
  BY <1>3, <1>4
<1>8. ASSUME NEW t \in T PROVE g[t] = SumFunctionOnSet(q, {r \in S : k[r] = t})
  <2>1. PICK X : X = {r \in S : k[r] = t}
    OBVIOUS
  <2>2. X = BatchRows(moves, t) /\ X \in SUBSET RowsIn(moves)
    BY <1>3, <1>4, <2>1 DEF BatchRows
  <2>3. batches[t].qty = HeldIn(moves, t)
    BY ConsistentIs DEF LedgerInv, LedgerIs
  <2>4. HeldIn(moves, t) = Qty(X)
    BY <2>2 DEF HeldIn, Qty
  <2>5. Qty(X) = SumFunctionOnSet(q, X)
    BY <1>1, <2>2, QtyIs
  <2>6. g[t] = batches[t].qty
    BY <1>2, InBatchesIs
  <2> QED BY <2>1, <2>3, <2>4, <2>5, <2>6
<1>9. PICK V : V = T
  OBVIOUS
<1>10. IsFiniteSet(V) /\ (\A r \in S : k[r] \in V)
  BY <1>6, <1>7, <1>9
<1>11. \A t \in V : g[t] = SumFunctionOnSet(q, {r \in S : k[r] = t})
  BY <1>8, <1>9
<1>12. SumFunctionOnSet(q, S) = SumFunctionOnSet(g, V)
  <2>1. Grouped(q, S, k, g, V)
    BY <1>5, <1>10, <1>11 DEF Grouped
  <2> QED BY <1>5, <1>10, <2>1, SumByGroup
<1> QED BY <1>3, <1>5, <1>6, <1>9, <1>12

\* What was moved of no batch.
LoneRows(T) == {r \in RowsIn(moves) : BatchOf(r) = NoBatch /\ SkladOf(r) \in T}

LEMMA UnbatchedIs ==
  ASSUME LedgerInv, NEW T
  PROVE  Unbatched(T) = Qty(LoneRows(T)) /\ Unbatched(T) \in Int
<1>1. PICK S : S = LoneRows(T)
  OBVIOUS
<1>2. S = {r \in RowsIn(moves) : moves[r[1]][r[2]].batch = NoBatch /\ SkladOf(r) \in T}
  BY <1>1 DEF LoneRows, BatchOf
<1>3. {r \in S : TRUE} = S
  OBVIOUS
<1>4. Unbatched(T) = Qty(S)
  BY <1>2, <1>3 DEF Unbatched, Moved, SumOver, Qty
<1>5. S \in SUBSET RowsIn(moves)
  BY <1>2
<1>6. Qty(S) \in Int
  BY <1>5, QtyIs
<1> QED BY <1>1, <1>4, <1>6

\* The last statement closes at what the batches of the warehouse hold.
LEMMA ClosingIs ==
  ASSUME LedgerInv, NEW s \in Sklady
  PROVE  Closing(<<0, LastDay>>, s) = InBatches(BatchesOf(s)) + Unbatched({s})
<1>1. PICK p : p = <<0, LastDay>>
  OBVIOUS
<1>2. p \in Periods /\ p[2] = LastDay /\ LastDay \in Nat
  BY <1>1, ReportsAssumption DEF Periods, Days
<1>3. Closing(p, s) = Qty(Prior(s, LastDay + 1))
  BY <1>2, TurnoverIs
<1>4. \A r \in RowsIn(moves) : Header[r[1]].date < LastDay + 1
  BY <1>2, MovementDay
<1>5. PICK S, T : S = {r \in RowsIn(moves) : moves[r[1]][r[2]].batch \in BatchesOf(s)} /\ T = LoneRows({s})
  OBVIOUS
<1>6. \A r \in S : BatchOf(r) \in DOMAIN batches /\ batches[BatchOf(r)].sklad = s
  BY <1>5 DEF BatchesOf, BatchOf
<1>7. NoBatch \notin DOMAIN batches /\ S \in SUBSET RowsIn(moves) /\ T \in SUBSET RowsIn(moves)
  BY <1>5, QtyIs DEF LoneRows
<1>8. S \cap T = {}
  BY <1>5, <1>6, <1>7 DEF LoneRows
<1>9. Prior(s, LastDay + 1) = S \cup T
  <2>1. ASSUME NEW r \in RowsIn(moves) PROVE SkladOf(r) = s <=> r \in S \cup T
    <3>1. CASE BatchOf(r) = NoBatch
      <4>1. r \notin S
        BY <1>6, <1>7, <3>1
      <4> QED BY <1>5, <3>1, <4>1 DEF LoneRows
    <3>2. CASE BatchOf(r) # NoBatch
      <4>1. BatchOf(r) \in DOMAIN batches /\ batches[BatchOf(r)].sklad = SkladOf(r)
        BY <3>2, QtyIs
      <4>2. r \notin T
        BY <1>5, <3>2 DEF LoneRows
      <4>3. r \in S <=> SkladOf(r) = s
        BY <1>5, <4>1 DEF BatchesOf, BatchOf
      <4> QED BY <4>2, <4>3
    <3> QED BY <3>1, <3>2
  <2> QED BY <1>4, <1>7, <2>1 DEF Prior
<1>10. BatchesOf(s) \in SUBSET DOMAIN batches
  BY DEF BatchesOf
<1>11. Qty(S) = InBatches(BatchesOf(s))
  BY <1>5, <1>10, BatchesCome
<1>12. Qty(T) = Unbatched({s})
  BY <1>5, UnbatchedIs
<1>13. Qty(S \cup T) = Qty(S) + Qty(T)
  BY <1>7, <1>8, QtyTogether
<1> QED BY <1>1, <1>3, <1>9, <1>11, <1>12, <1>13

\* What is ours and what is there to be sold for others, in a warehouse.
HeldQty(s, whose) == SumOver(Held(s, whose), LAMBDA i : batches[i].qty)
HeldCost(s, whose) == SumOver(Held(s, whose), LAMBDA i : batches[i].qty * batches[i].cost)
ReservedOf(s, whose) == IF whose = "own" THEN Reserved[s] ELSE 0
BalanceRow(k) ==
  [sklad |-> k[1], ownership |-> k[2], quantity |-> HeldQty(k[1], k[2]),
   available |-> HeldQty(k[1], k[2]) - ReservedOf(k[1], k[2]), cost |-> QuantizeCents(HeldCost(k[1], k[2]))]

\* The balances of a warehouse are what its batches hold.
LEMMA BalancesAre ==
  ASSUME LedgerInv, NEW s \in Sklady
  PROVE  Sum({b \in StockBalances : b.sklad = s}, LAMBDA b : b.quantity) = InBatches(BatchesOf(s))
<1>1. PICK q : q = QuantitiesHeld
  OBVIOUS
<1>2. PICK S : S = BatchesOf(s)
  OBVIOUS
<1>3. S \in SUBSET DOMAIN batches
  BY <1>2 DEF BatchesOf
<1>4. IsFiniteSet(S) /\ (\A i \in S : q[i] \in Int) /\ InBatches(S) = SumFunctionOnSet(q, S)
  BY <1>1, <1>3, InBatchesIs
<1>5. PICK W : W = {"own", "received"}
  OBVIOUS
<1>6. IsFiniteSet(W)
  <2>1. IsFiniteSet({"own"}) /\ {"own", "received"} = {"own"} \cup {"received"}
    BY FS_Singleton
  <2> QED BY <1>5, <2>1, FS_AddElement
<1>7. PICK f : f = [w \in W |-> HeldQty(s, w)]
  OBVIOUS
<1>8. PICK k : k = [i \in S |-> Ownership(batches[i].src)]
  OBVIOUS
<1>9. \A i \in S : k[i] \in W
  BY <1>5, <1>8 DEF Ownership
<1>10. ASSUME NEW w \in W PROVE f[w] = SumFunctionOnSet(q, {i \in S : k[i] = w}) /\ f[w] \in Int
  <2>1. PICK X : X = {i \in S : k[i] = w}
    OBVIOUS
  <2>2. X = Held(s, w) /\ X \in SUBSET DOMAIN batches
    BY <1>2, <1>8, <2>1 DEF Held, BatchesOf
  <2>3. HeldQty(s, w) = InBatches(X)
    BY <2>2 DEF HeldQty, SumOver, InBatches
  <2>4. InBatches(X) = SumFunctionOnSet(q, X) /\ InBatches(X) \in Int
    BY <1>1, <2>2, InBatchesIs
  <2> QED BY <1>7, <2>1, <2>3, <2>4
<1>11. SumFunctionOnSet(q, S) = SumFunctionOnSet(f, W)
  <2>1. Grouped(q, S, k, f, W)
    BY <1>4, <1>9, <1>10 DEF Grouped
  <2> QED BY <1>4, <1>6, <2>1, SumByGroup
<1>12. PICK P : P = {w \in W : HeldQty(s, w) # 0}
  OBVIOUS
<1>13. PICK h : h = [w \in P |-> BalanceRow(<<s, w>>)]
  OBVIOUS
<1>14. PICK L : L = {b \in StockBalances : b.sklad = s}
  OBVIOUS
<1>15. \A k2 : BalanceRow(k2).sklad = k2[1] /\ BalanceRow(k2).ownership = k2[2]
               /\ BalanceRow(k2).quantity = HeldQty(k2[1], k2[2])
  BY DEF BalanceRow
<1>16. L = {h[w] : w \in P}
  <2>1. StockBalances = {BalanceRow(x) : x \in {x \in Sklady \X W : HeldQty(x[1], x[2]) # 0}}
    BY <1>5 DEF StockBalances, BalanceRow, HeldQty, HeldCost, ReservedOf
  <2>2. ASSUME NEW b \in L PROVE b \in {h[w] : w \in P}
    <3>1. PICK x \in Sklady \X W : HeldQty(x[1], x[2]) # 0 /\ b = BalanceRow(x)
      BY <1>14, <2>1
    <3>2. x[1] = s /\ x[2] \in W /\ x = <<x[1], x[2]>>
      BY <1>14, <1>15, <3>1
    <3>3. x[2] \in P /\ b = h[x[2]]
      BY <1>12, <1>13, <3>1, <3>2
    <3> QED BY <3>3
  <2>3. ASSUME NEW w \in P PROVE h[w] \in L
    <3>1. PICK x : x = <<s, w>>
      OBVIOUS
    <3>2. x \in Sklady \X W /\ x[1] = s /\ x[2] = w /\ HeldQty(s, w) # 0
      BY <1>12, <3>1
    <3>3. BalanceRow(x) \in StockBalances
      BY <2>1, <3>2
    <3>4. h[w] = BalanceRow(x)
      BY <1>13, <3>1
    <3> QED BY <1>14, <1>15, <3>2, <3>3, <3>4
  <2> QED BY <2>2, <2>3
<1>17. PICK g : g = [b \in L |-> b.quantity]
  OBVIOUS
<1>18. P \in SUBSET W /\ \A w \in W \ P : f[w] = 0
  BY <1>7, <1>12
<1>19. \A w \in P : h[w].ownership = w /\ h[w].quantity = f[w]
  <2> SUFFICES ASSUME NEW w \in P PROVE h[w].ownership = w /\ h[w].quantity = f[w]
    OBVIOUS
  <2>1. PICK x : x = <<s, w>>
    OBVIOUS
  <2>2. x[1] = s /\ x[2] = w /\ h[w] = BalanceRow(x)
    BY <1>13, <2>1
  <2> QED BY <1>7, <1>15, <1>18, <2>2
<1>20. \A w \in P : g[h[w]] = f[w]
  BY <1>16, <1>17, <1>19
<1>21. \A x, y \in P : h[x] = h[y] => x = y
  BY <1>19
<1>22. \A w \in W : f[w] \in Int
  BY <1>10
<1>23. SumFunctionOnSet(g, L) = SumFunctionOnSet(f, W)
  BY <1>6, <1>16, <1>18, <1>20, <1>21, <1>22, SumOfList
<1>24. Sum(L, LAMBDA b : b.quantity) = SumFunctionOnSet(g, L)
  BY <1>17 DEF Sum, SumOver
<1> QED BY <1>2, <1>4, <1>11, <1>14, <1>23, <1>24

-----------------------------------------------------------------------------
\* A batch on hand, as it is listed.
BatchRow(i) ==
  [batch |-> i, sklad |-> batches[i].sklad, quantity |-> batches[i].qty,
   cost |-> QuantizeCents(batches[i].qty * batches[i].cost), ownership |-> Ownership(batches[i].src)]

\* The batches listed hold what they hold.
LEMMA BatchListIs ==
  ASSUME LedgerInv, NEW X \in SUBSET DOMAIN batches
  PROVE  Sum({BatchRow(i) : i \in X}, LAMBDA b : b.quantity) = InBatches(X)
<1>1. PICK q : q = QuantitiesHeld
  OBVIOUS
<1>2. IsFiniteSet(X) /\ (\A i \in X : q[i] \in Int /\ q[i] = batches[i].qty) /\ InBatches(X) = SumFunctionOnSet(q, X)
  BY <1>1, InBatchesIs
<1>3. PICK h : h = [i \in X |-> BatchRow(i)]
  OBVIOUS
<1>4. PICK L : L = {h[i] : i \in X}
  OBVIOUS
<1>5. L = {BatchRow(i) : i \in X}
  BY <1>3, <1>4
<1>6. PICK g : g = [b \in L |-> b.quantity]
  OBVIOUS
<1>7. \A i : BatchRow(i).batch = i /\ BatchRow(i).quantity = batches[i].qty
  BY DEF BatchRow
<1>8. \A i \in X : h[i].batch = i /\ g[h[i]] = q[i]
  BY <1>2, <1>3, <1>4, <1>6, <1>7
<1>9. \A i, j \in X : h[i] = h[j] => i = j
  BY <1>8
<1>10. IsFiniteSet(X) /\ \A i \in X : q[i] \in Int
  BY <1>2
<1>11. \A i \in X : g[h[i]] = q[i]
  BY <1>8
<1>12. SumFunctionOnSet(q, X) = SumFunctionOnSet(g, {h[i] : i \in X})
  BY <1>9, <1>10, <1>11, SumReindex
<1>13. Sum(L, LAMBDA b : b.quantity) = SumFunctionOnSet(g, L)
  BY <1>6 DEF Sum, SumOver
<1> QED BY <1>2, <1>4, <1>5, <1>12, <1>13

\* Of a warehouse they are those with something left.
LEMMA BatchReportIs ==
  ASSUME LedgerInv, NEW s
  PROVE  /\ InBatches(BatchesOf(s)) = Sum({b \in BatchReport : b.sklad = s}, LAMBDA b : b.quantity)
              + SumOver({i \in DOMAIN batches : batches[i].sklad = s /\ batches[i].qty < 0},
                        LAMBDA i : batches[i].qty)
         /\ Sum({b \in BatchReport : b.sklad = s /\ b.ownership = "received"}, LAMBDA b : b.quantity)
              = InBatches({i \in Held(s, "received") : batches[i].qty > 0})
<1>1. PICK q : q = QuantitiesHeld
  OBVIOUS
<1>2. PICK S : S = BatchesOf(s)
  OBVIOUS
<1>3. S \in SUBSET DOMAIN batches
  BY <1>2 DEF BatchesOf
<1>4. IsFiniteSet(S) /\ \A i \in S : q[i] \in Int /\ q[i] = batches[i].qty
  BY <1>1, <1>3, InBatchesIs
<1>5. PICK P : P = {i \in S : q[i] > 0}
  OBVIOUS
<1>6. PICK N : N = {i \in S : q[i] < 0}
  OBVIOUS
<1>7. SumFunctionOnSet(q, S) = SumFunctionOnSet(q, P) + SumFunctionOnSet(q, N)
  BY <1>4, <1>5, <1>6, SumOfSigns
<1>8. P \in SUBSET DOMAIN batches /\ N \in SUBSET DOMAIN batches
  BY <1>3, <1>5, <1>6
<1>9. InBatches(S) = InBatches(P) + InBatches(N)
  BY <1>1, <1>3, <1>7, <1>8, InBatchesIs
<1>10. BatchReport = {BatchRow(i) : i \in {i \in DOMAIN batches : batches[i].qty > 0}}
  BY DEF BatchReport, BatchRow
<1>11. \A i : BatchRow(i).sklad = batches[i].sklad /\ BatchRow(i).ownership = Ownership(batches[i].src)
  BY DEF BatchRow
<1>12. {b \in BatchReport : b.sklad = s} = {BatchRow(i) : i \in P}
  <2>1. P = {i \in DOMAIN batches : batches[i].qty > 0 /\ batches[i].sklad = s}
    BY <1>2, <1>4, <1>5 DEF BatchesOf
  <2> QED BY <1>10, <1>11, <2>1
<1>13. N = {i \in DOMAIN batches : batches[i].sklad = s /\ batches[i].qty < 0}
  BY <1>2, <1>4, <1>6 DEF BatchesOf
<1>14. InBatches(N) = SumOver({i \in DOMAIN batches : batches[i].sklad = s /\ batches[i].qty < 0},
                              LAMBDA i : batches[i].qty)
  BY <1>13 DEF InBatches, SumOver
<1>15. Sum({b \in BatchReport : b.sklad = s}, LAMBDA b : b.quantity) = InBatches(P)
  BY <1>8, <1>12, BatchListIs
<1>16. PICK X : X = {i \in Held(s, "received") : batches[i].qty > 0}
  OBVIOUS
<1>17. X \in SUBSET DOMAIN batches
  BY <1>16 DEF Held
<1>18. {b \in BatchReport : b.sklad = s /\ b.ownership = "received"} = {BatchRow(i) : i \in X}
  BY <1>10, <1>11, <1>16 DEF Held
<1>19. Sum({b \in BatchReport : b.sklad = s /\ b.ownership = "received"}, LAMBDA b : b.quantity) = InBatches(X)
  BY <1>17, <1>18, BatchListIs
<1> QED BY <1>2, <1>9, <1>14, <1>15, <1>16, <1>19

\* What is there to be sold for others.
ReceivedQty(s) == SumOver({i \in Held(s, "received") : batches[i].qty > 0}, LAMBDA i : batches[i].qty)

\* It is listed in one row, or none.
LEMMA CommissionReceivedIs ==
  ASSUME LedgerInv, NEW s \in Sklady
  PROVE  Sum({c \in CommissionReceived : c.sklad = s}, LAMBDA c : c.quantity)
           = InBatches({i \in Held(s, "received") : batches[i].qty > 0})
<1>1. PICK X : X = {i \in Held(s, "received") : batches[i].qty > 0}
  OBVIOUS
<1>2. ReceivedQty(s) = InBatches(X) /\ X \in SUBSET DOMAIN batches
  BY <1>1 DEF ReceivedQty, SumOver, InBatches, Held
<1>3. InBatches(X) \in Int
  BY <1>2, InBatchesIs
<1>4. CommissionReceived = {[sklad |-> w, quantity |-> ReceivedQty(w)] : w \in {w \in Sklady : ReceivedQty(w) # 0}}
  BY DEF CommissionReceived, ReceivedQty
<1>5. PICK row : row = [sklad |-> s, quantity |-> ReceivedQty(s)]
  OBVIOUS
<1>6. PICK L : L = {c \in CommissionReceived : c.sklad = s}
  OBVIOUS
<1>7. CASE ReceivedQty(s) # 0
  <2>1. L = {row}
    BY <1>4, <1>5, <1>6, <1>7
  <2>2. PICK f : f = [c \in L |-> c.quantity]
    OBVIOUS
  <2>3. f[row] = InBatches(X)
    BY <1>2, <1>5, <2>1, <2>2
  <2>4. SumFunctionOnSet(f, {row}) = InBatches(X)
    BY <1>3, <2>3, SumOfOne
  <2>5. Sum(L, LAMBDA c : c.quantity) = SumFunctionOnSet(f, L)
    BY <2>2 DEF Sum, SumOver
  <2> QED BY <1>1, <1>6, <2>1, <2>4, <2>5
<1>8. CASE ReceivedQty(s) = 0
  <2>1. L = {}
    BY <1>4, <1>6, <1>8
  <2>2. Sum(L, LAMBDA c : c.quantity) = 0
    BY <2>1, SumOfNone DEF Sum, SumOver
  <2> QED BY <1>1, <1>2, <1>6, <1>8, <2>2
<1> QED BY <1>7, <1>8

\* What a card of the good lists of a movement.
CardRow(r) ==
  [row |-> r, sklad |-> SkladOf(r), quantity |-> moves[r[1]][r[2]].qty, amount |-> moves[r[1]][r[2]].amount]

\* The card lists all movements, and comes to what all batches hold and what
\* was moved of none.
LEMMA CardIs ==
  ASSUME LedgerInv
  PROVE  /\ StockMovements(<<0, LastDay>>) = ItemCard
         /\ Sum(ItemCard, LAMBDA r : r.quantity) = InBatches(DOMAIN batches) + Unbatched(Sklady)
<1>1. PICK S : S = RowsIn(moves)
  OBVIOUS
<1>2. PICK q : q = QuantitiesOf
  OBVIOUS
<1>3. (\A r \in S : q[r] \in Int /\ q[r] = moves[r[1]][r[2]].qty)
      /\ IsFiniteSet(S) /\ Qty(S) = SumFunctionOnSet(q, S) /\ Qty(S) \in Int
  BY <1>1, <1>2, QtyIs
<1>4. Rows(<<0, LastDay>>) = S
  <2>1. \A r \in S : Within(Header[r[1]].date, <<0, LastDay>>)
    BY <1>1, MovementDay DEF Within
  <2> QED BY <1>1, <2>1 DEF Rows
<1>5. StockMovements(<<0, LastDay>>) = ItemCard
  BY <1>1, <1>4 DEF StockMovements, ItemCard
<1>6. PICK h : h = [r \in S |-> CardRow(r)]
  OBVIOUS
<1>7. PICK L : L = {h[r] : r \in S}
  OBVIOUS
<1>8. L = ItemCard
  BY <1>1, <1>6, <1>7 DEF ItemCard, CardRow
<1>9. PICK g : g = [l \in L |-> l.quantity]
  OBVIOUS
<1>10. \A r : CardRow(r).row = r /\ CardRow(r).quantity = moves[r[1]][r[2]].qty
  BY DEF CardRow
<1>11. \A r \in S : h[r].row = r /\ g[h[r]] = q[r]
  BY <1>3, <1>6, <1>7, <1>9, <1>10
<1>12. \A x, y \in S : h[x] = h[y] => x = y
  BY <1>11
<1>13. IsFiniteSet(S) /\ \A r \in S : q[r] \in Int
  BY <1>3
<1>14. \A r \in S : g[h[r]] = q[r]
  BY <1>11
<1>15. SumFunctionOnSet(q, S) = SumFunctionOnSet(g, {h[r] : r \in S})
  BY <1>12, <1>13, <1>14, SumReindex
<1>16. Sum(L, LAMBDA r : r.quantity) = SumFunctionOnSet(g, L)
  BY <1>9 DEF Sum, SumOver
<1>17. Qty(S) = InBatches(DOMAIN batches) + Unbatched(Sklady)
  <2>1. PICK X, Y : X = {r \in RowsIn(moves) : moves[r[1]][r[2]].batch \in DOMAIN batches} /\ Y = LoneRows(Sklady)
    OBVIOUS
  <2>2. X \in SUBSET S /\ Y \in SUBSET S
    BY <1>1, <2>1 DEF LoneRows
  <2>3. NoBatch \notin DOMAIN batches
    BY QtyIs
  <2>4. \A r \in X : BatchOf(r) \in DOMAIN batches
    BY <2>1 DEF BatchOf
  <2>5. \A r \in Y : BatchOf(r) = NoBatch
    BY <2>1 DEF LoneRows
  <2>6. X \cap Y = {}
    BY <2>3, <2>4, <2>5
  <2>7. ASSUME NEW r \in S PROVE r \in X \cup Y
    <3>1. BatchOf(r) # NoBatch => BatchOf(r) \in DOMAIN batches
      BY <1>1, QtyIs
    <3>2. SkladOf(r) \in Sklady
      BY <1>1, QtyIs
    <3> QED BY <1>1, <2>1, <3>1, <3>2 DEF LoneRows, BatchOf
  <2>8. S = X \cup Y
    BY <2>2, <2>7
  <2>9. Qty(X \cup Y) = Qty(X) + Qty(Y)
    BY <1>1, <2>2, <2>6, QtyTogether
  <2>10. Qty(X) = InBatches(DOMAIN batches)
    <3>1. PICK T : T = DOMAIN batches
      OBVIOUS
    <3> QED BY <2>1, <3>1, BatchesCome
  <2>11. Qty(Y) = Unbatched(Sklady)
    BY <2>1, UnbatchedIs
  <2> QED BY <2>8, <2>9, <2>10, <2>11
<1> QED BY <1>3, <1>5, <1>7, <1>8, <1>15, <1>16, <1>17

-----------------------------------------------------------------------------
LinesOf(D) == UNION {{<<d, i>> : i \in DOMAIN Document[d].lines} : d \in D}

\* The lines of some documents are finitely many.
LEMMA LinesAreFinite ==
  ASSUME NEW D \in SUBSET Docs
  PROVE  /\ IsFiniteSet(LinesOf(D))
         /\ \A l \in LinesOf(D) : l[1] \in D /\ l[2] \in DOMAIN Document[l[1]].lines
<1>1. PICK of : of = [d \in D |-> {<<d, i>> : i \in DOMAIN Document[d].lines}]
  OBVIOUS
<1>2. PICK T : T = {of[d] : d \in D}
  OBVIOUS
<1>3. ASSUME NEW d \in D PROVE IsFiniteSet(of[d])
  <2>1. Len(Document[d].lines) \in Nat /\ DOMAIN Document[d].lines = 1 .. Len(Document[d].lines)
    BY LineFields
  <2>2. IsFiniteSet(DOMAIN Document[d].lines)
    BY <2>1, FS_Interval
  <2>3. PICK h : h = [i \in DOMAIN Document[d].lines |-> <<d, i>>]
    OBVIOUS
  <2>4. h \in Surjection(DOMAIN Document[d].lines, of[d])
    BY <1>1, <2>3 DEF Surjection
  <2> QED BY <2>2, <2>4, FS_Surjection
<1>4. IsFiniteSet(T)
  <2>1. of \in Surjection(D, T)
    BY <1>1, <1>2 DEF Surjection
  <2>2. IsFiniteSet(D)
    BY DocsAreFinite, FS_Subset
  <2> QED BY <2>1, <2>2, FS_Surjection
<1>5. \A t \in T : IsFiniteSet(t)
  BY <1>2, <1>3
<1>6. LinesOf(D) = UNION T
  BY <1>1, <1>2 DEF LinesOf
<1>7. \A l \in LinesOf(D) : l[1] \in D /\ l[2] \in DOMAIN Document[l[1]].lines
  BY DEF LinesOf
<1> QED BY <1>4, <1>5, <1>6, <1>7, FS_UNION

\* What was sold is a number.
LEMMA SoldIs ==
  ASSUME LedgerInv, NEW p
  PROVE  TopItems(p).quantity \in Int
<1>1. PICK L : L = LinesOf(Sales(p))
  OBVIOUS
<1>2. Sales(p) \in SUBSET Docs
  BY ConsistentIs, DocsAreFinite DEF Sales, Invoices, LedgerInv, LedgerIs
<1>3. PICK f : f = [l \in L |-> Document[l[1]].lines[l[2]].qty]
  OBVIOUS
<1>4. IsFiniteSet(L) /\ \A l \in L : l[1] \in Docs /\ l[2] \in DOMAIN Document[l[1]].lines
  BY <1>1, <1>2, LinesAreFinite
<1>5. \A l \in L : f[l] \in Int
  <2> SUFFICES ASSUME NEW l \in L PROVE f[l] \in Int
    OBVIOUS
  <2>1. Document[l[1]].lines[l[2]].qty \in Int
    BY <1>4, LineFields
  <2> QED BY <1>3, <2>1
<1>6. SumFunctionOnSet(f, L) \in Int
  BY <1>4, <1>5, SumIsInt
<1>7. TopItems(p).quantity = SumFunctionOnSet(f, L)
  BY <1>1, <1>3 DEF TopItems, SumOver, LinesOf
<1> QED BY <1>6, <1>7

\* The greater of two.
LEMMA MaxOfTwo ==
  ASSUME NEW x \in Int
  PROVE  Max({0, x}) = IF x > 0 THEN x ELSE 0
<1>1. PICK m : m = IF x > 0 THEN x ELSE 0
  OBVIOUS
<1>2. m \in {0, x} /\ \A y \in {0, x} : m >= y
  BY <1>1
<1>3. Max({0, x}) \in {0, x} /\ \A y \in {0, x} : Max({0, x}) >= y
  BY <1>2 DEF Max
<1> QED BY <1>1, <1>3

\* Once what is advised has come, nothing more is.
LEMMA AdviceIsEnough ==
  ASSUME NEW stock \in Int, NEW sold \in Int, NEW advice, advice = Replenishment(stock, sold, 30, 7, 3),
         NEW later, later = Replenishment(stock + advice.to_order, sold, 30, 7, 3)
  PROVE  later.to_order = 0 /\ (later.status = "order" => later.reorder = later.target)
<1>1. PICK reorder : reorder = IF sold > 0 THEN 1000 * Ceiling(sold * 7, 30000) ELSE 0
  OBVIOUS
<1>2. PICK target : target = IF sold > 0 THEN 1000 * Ceiling(sold * 10, 30000) ELSE 0
  OBVIOUS
<1>3. reorder \in Int /\ target \in Int /\ reorder <= target
  BY <1>1, <1>2 DEF Ceiling
<1>4. \A n \in Int : LET a == Replenishment(n, sold, 30, 7, 3) IN
        /\ a.to_order = Max({0, target - n}) /\ a.reorder = reorder /\ a.target = target
        /\ a.status = IF sold = 0 THEN "no_sales" ELSE IF n <= reorder THEN "order" ELSE "ok"
  <2>1. 7 + 3 = 10 /\ 1000 * 30 = 30000
    OBVIOUS
  <2> QED BY <1>1, <1>2, <2>1 DEF Replenishment
<1>5. advice.to_order = IF target - stock > 0 THEN target - stock ELSE 0
  <2>1. advice.to_order = Max({0, target - stock})
    BY <1>4
  <2>2. target - stock \in Int
    BY <1>3
  <2>3. PICK x : x = target - stock
    OBVIOUS
  <2> QED BY <2>1, <2>2, <2>3, MaxOfTwo
<1>6. PICK n : n = stock + advice.to_order
  OBVIOUS
<1>7. n \in Int /\ n >= target
  BY <1>3, <1>5, <1>6
<1>8. later.to_order = Max({0, target - n}) /\ later.reorder = reorder /\ later.target = target
      /\ later.status = IF sold = 0 THEN "no_sales" ELSE IF n <= reorder THEN "order" ELSE "ok"
  BY <1>4, <1>6, <1>7
<1>9. later.to_order = 0
  <2>1. target - n \in Int /\ ~ (target - n > 0)
    BY <1>3, <1>7
  <2> QED BY <1>8, <2>1, MaxOfTwo
<1>10. ASSUME later.status = "order" PROVE later.reorder = later.target
  <2>1. n <= reorder
    BY <1>8, <1>10
  <2> QED BY <1>3, <1>7, <1>8, <2>1
<1> QED BY <1>9, <1>10

\* What the reports on stock say.
LEMMA InvariantGivesStock ==
  LedgerInv => StockReportsAgree
<1> SUFFICES ASSUME LedgerInv PROVE StockReportsAgree
  OBVIOUS
<1>1. ASSUME NEW s \in Sklady
      PROVE  \A p, q \in Periods : q[1] = p[2] + 1 => Closing(p, s) = Opening(q, s)
  BY TurnoverIs
<1>2. ASSUME NEW s \in Sklady
      PROVE  /\ Closing(<<0, LastDay>>, s)
                  = Sum({b \in StockBalances : b.sklad = s}, LAMBDA b : b.quantity) + Unbatched({s})
             /\ Sum({b \in StockBalances : b.sklad = s}, LAMBDA b : b.quantity)
                  = Sum({b \in BatchReport : b.sklad = s}, LAMBDA b : b.quantity)
                  + SumOver({i \in DOMAIN batches : batches[i].sklad = s /\ batches[i].qty < 0},
                            LAMBDA i : batches[i].qty)
             /\ Sum({b \in BatchReport : b.sklad = s /\ b.ownership = "received"}, LAMBDA b : b.quantity)
                  = Sum({c \in CommissionReceived : c.sklad = s}, LAMBDA c : c.quantity)
  BY ClosingIs, BalancesAre, BatchReportIs, CommissionReceivedIs
<1>3. PICK stock : stock = SumOver(DOMAIN batches, LAMBDA i : batches[i].qty)
  OBVIOUS
<1>4. PICK sold : sold = SoldSince(0)
  OBVIOUS
<1>5. stock \in Int /\ sold \in Int /\ stock = InBatches(DOMAIN batches)
  <2>1. stock = InBatches(DOMAIN batches)
    BY <1>3 DEF SumOver, InBatches
  <2>2. PICK T : T = DOMAIN batches
    OBVIOUS
  <2>3. InBatches(T) \in Int
    BY <2>2, InBatchesIs
  <2> QED BY <1>4, <2>1, <2>2, <2>3, SoldIs DEF SoldSince
<1>6. LET advice == Replenishment(stock, sold, 30, 7, 3)
          later == Replenishment(stock + advice.to_order, sold, 30, 7, 3)
      IN later.to_order = 0 /\ (later.status = "order" => later.reorder = later.target)
  BY <1>5, AdviceIsEnough
<1>7. ASSUME NEW qty \in LowStock(0) PROVE Sum(ItemCard, LAMBDA r : r.quantity) = qty + Unbatched(Sklady)
  <2>1. qty = SumOver(DOMAIN batches, LAMBDA i : batches[i].qty)
    BY DEF LowStock
  <2> QED BY <1>3, <1>5, <2>1, CardIs
<1>8. StockMovements(<<0, LastDay>>) = ItemCard
  BY CardIs
<1> QED BY <1>1, <1>2, <1>3, <1>4, <1>6, <1>7, <1>8 DEF StockReportsAgree

\* The reports on stock, made from the batches and from the movements, agree, but
\* for what lines of zero and below moved of no batch.
THEOREM StockReportsHold == TillSpec => []StockReportsAgree
<1>1. BooksInv => StockReportsAgree
  BY InvariantGivesStock DEF BooksInv
<1> QED BY <1>1, BooksHold, PTL

-----------------------------------------------------------------------------
(***************************************************************************)
(* The reports on sales, in the same way: each is brought to what the      *)
(* documents of a set come to, one by one.                                 *)
(***************************************************************************)
Totals == [d \in Docs |-> TotalOf(d)]
Costs == [d \in Docs |-> OutgoingCost(moves[d])]
Profits == [d \in Docs |-> TotalOf(d) - OutgoingCost(moves[d])]
OfDocs(v, D) == SumFunctionOnSet(v, D)

\* What a document comes to is an integer.
LEMMA DocSums ==
  ASSUME LedgerInv
  PROVE  /\ posted \subseteq Docs /\ IsFiniteSet(Docs)
         /\ \A d \in Docs : /\ Totals[d] = TotalOf(d) /\ Totals[d] \in Int
                            /\ Costs[d] = OutgoingCost(moves[d]) /\ Costs[d] \in Int
                            /\ Profits[d] = Totals[d] - Costs[d] /\ Profits[d] \in Int
         /\ \A D \in SUBSET Docs : /\ IsFiniteSet(D)
                                   /\ OfDocs(Totals, D) \in Int /\ OfDocs(Costs, D) \in Int
                                   /\ OfDocs(Profits, D) = OfDocs(Totals, D) - OfDocs(Costs, D)
                                   /\ SumOver(D, TotalOf) = OfDocs(Totals, D)
<1>1. posted \subseteq Docs /\ IsFiniteSet(Docs) /\ Register(moves)
  BY ConsistentIs, DocsAreFinite DEF LedgerInv, LedgerIs
<1>2. ASSUME NEW d \in Docs
      PROVE  /\ Totals[d] = TotalOf(d) /\ Totals[d] \in Int
             /\ Costs[d] = OutgoingCost(moves[d]) /\ Costs[d] \in Int
             /\ Profits[d] = Totals[d] - Costs[d] /\ Profits[d] \in Int
  <2>1. TotalOf(d) \in Int
    BY DocsAreFinite, TotalsAreInt
  <2>2. OutgoingCost(moves[d]) \in Int
    BY <1>1, CostsAreInt
  <2> QED BY <2>1, <2>2 DEF Totals, Costs, Profits
<1>3. ASSUME NEW D \in SUBSET Docs
      PROVE  /\ IsFiniteSet(D)
             /\ OfDocs(Totals, D) \in Int /\ OfDocs(Costs, D) \in Int
             /\ OfDocs(Profits, D) = OfDocs(Totals, D) - OfDocs(Costs, D)
             /\ SumOver(D, TotalOf) = OfDocs(Totals, D)
  <2>1. IsFiniteSet(D)
    BY <1>1, FS_Subset
  <2>2. PICK t : t = Totals
    OBVIOUS
  <2>3. PICK c : c = Costs
    OBVIOUS
  <2>4. PICK u : u = Profits
    OBVIOUS
  <2>5. \A d \in D : t[d] \in Int /\ c[d] \in Int /\ u[d] \in Int /\ t[d] = TotalOf(d)
    BY <1>2, <2>2, <2>3, <2>4
  <2>6. \A d \in D : u[d] \in Int /\ c[d] \in Int /\ t[d] = u[d] + c[d]
    BY <1>2, <2>2, <2>3, <2>4
  <2>7. SumFunctionOnSet(t, D) = SumFunctionOnSet(u, D) + SumFunctionOnSet(c, D)
    BY <2>1, <2>6, SumAdd
  <2>8. SumFunctionOnSet(t, D) \in Int
    BY <2>1, <2>5, SumIsInt
  <2>9. SumFunctionOnSet(c, D) \in Int
    BY <2>1, <2>5, SumIsInt
  <2>10. SumFunctionOnSet(u, D) \in Int
    BY <2>1, <2>5, SumIsInt
  <2>11. PICK f : f = [d \in D |-> TotalOf(d)]
    OBVIOUS
  <2>12. \A d \in D : f[d] = t[d]
    BY <2>5, <2>11
  <2>13. SumFunctionOnSet(f, D) = SumFunctionOnSet(t, D)
    BY <2>1, <2>12, SumSame
  <2>14. SumOver(D, TotalOf) = SumFunctionOnSet(f, D)
    BY <2>11 DEF SumOver
  <2> QED BY <2>1, <2>2, <2>3, <2>4, <2>7, <2>8, <2>9, <2>10, <2>13, <2>14 DEF OfDocs
<1> QED BY <1>1, <1>2, <1>3

\* The sales of any days.
LEMMA SalesAre ==
  ASSUME LedgerInv, NEW p
  PROVE  /\ Sales(p) \in SUBSET Docs /\ Sales(p) \in SUBSET posted
         /\ Invoices("prihod", p) \in SUBSET Docs
         /\ \A d \in Sales(p) : TypeOf(d) = "rashod"
         /\ \A d \in Docs : Header[d].date \in Nat /\ Header[d].date <= LastDay
         /\ Sales(p) = {d \in posted : TypeOf(d) = "rashod" /\ Within(Header[d].date, p)}
BY DocSums, DocsAreFinite, ReportsAssumption DEF Sales, Invoices, Days

OutgoingRows(D) == {r \in RowsIn(moves) : r[1] \in D /\ moves[r[1]][r[2]].qty < 0}

\* The amounts of the outgoing movements of some documents are their costs.
LEMMA OutgoingByDocument ==
  ASSUME LedgerInv, NEW D \in SUBSET Docs
  PROVE  SumOver(OutgoingRows(D), LAMBDA r : moves[r[1]][r[2]].amount) = -OfDocs(Costs, D)
<1>1. Register(moves)
  BY ConsistentIs DEF LedgerInv, LedgerIs
<1>2. IsFiniteSet(RowsIn(moves)) /\ RowsIn(moves) = {r \in Docs \X Nat : r[2] \in DOMAIN moves[r[1]]}
  BY <1>1, MovementsAreFinite DEF Register
<1>3. PICK S : S = OutgoingRows(D)
  OBVIOUS
<1>4. PICK f : f = [r \in S |-> moves[r[1]][r[2]].amount]
  OBVIOUS
<1>5. IsFiniteSet(S)
  BY <1>2, <1>3, FS_Subset DEF OutgoingRows
<1>6. \A d \in Docs : DOMAIN moves[d] = 1 .. Len(moves[d]) /\ Len(moves[d]) \in Nat
                      /\ \A k \in DOMAIN moves[d] : moves[d][k].amount \in Int /\ moves[d][k].qty \in Int
  BY <1>1, RegisterIs, RowFields
<1>7. \A r \in S : f[r] \in Int /\ r[1] \in D
  BY <1>2, <1>3, <1>4, <1>6 DEF OutgoingRows
<1>8. PICK key : key = [r \in S |-> r[1]]
  OBVIOUS
<1>9. PICK g : g = [d \in D |-> -OutgoingCost(moves[d])]
  OBVIOUS
<1>10. ASSUME NEW d \in D PROVE g[d] = SumFunctionOnSet(f, {r \in S : key[r] = d})
  <2>1. PICK K : K = {k \in DOMAIN moves[d] : moves[d][k].qty < 0}
    OBVIOUS
  <2>2. PICK a : a = [k \in K |-> moves[d][k].amount]
    OBVIOUS
  <2>3. OutgoingCost(moves[d]) = -SumFunctionOnSet(a, K)
    BY <2>1, <2>2 DEF OutgoingCost, SumOver
  <2>4. IsFiniteSet(K)
    <3>1. IsFiniteSet(1 .. Len(moves[d]))
      BY <1>6, FS_Interval
    <3> QED BY <1>6, <2>1, <3>1, FS_Subset
  <2>5. \A k \in K : a[k] \in Int
    BY <1>6, <2>1, <2>2
  <2>6. PICK h : h = [k \in K |-> <<d, k>>]
    OBVIOUS
  <2>7. \A x, y \in K : h[x] = h[y] => x = y
    BY <2>6
  <2>8. PICK X : X = {r \in S : key[r] = d}
    OBVIOUS
  <2>9. {h[k] : k \in K} = X
    <3>1. ASSUME NEW k \in K PROVE h[k] \in X
      <4>1. PICK r : r = <<d, k>>
        OBVIOUS
      <4>2. r[1] = d /\ r[2] = k /\ k \in DOMAIN moves[d] /\ k \in Nat /\ moves[d][k].qty < 0
        BY <1>6, <2>1, <4>1
      <4>3. r \in RowsIn(moves)
        BY <1>2, <4>1, <4>2
      <4>4. r \in S
        BY <1>3, <4>2, <4>3 DEF OutgoingRows
      <4> QED BY <1>8, <2>6, <2>8, <4>1, <4>2, <4>4
    <3>2. ASSUME NEW r \in X PROVE r \in {h[k] : k \in K}
      <4>1. r[1] = d /\ r \in S
        BY <1>8, <2>8
      <4>2. r = <<r[1], r[2]>> /\ r[2] \in DOMAIN moves[d] /\ moves[d][r[2]].qty < 0
        BY <1>2, <1>3, <4>1 DEF OutgoingRows
      <4>3. r[2] \in K /\ h[r[2]] = r
        BY <2>1, <2>6, <4>1, <4>2
      <4> QED BY <4>3
    <3> QED BY <3>1, <3>2
  <2>10. \A k \in K : f[h[k]] = a[k]
    <3> SUFFICES ASSUME NEW k \in K PROVE f[h[k]] = a[k]
      OBVIOUS
    <3>1. PICK r : r = h[k]
      OBVIOUS
    <3>2. r \in S
      BY <2>8, <2>9, <3>1
    <3>3. r[1] = d /\ r[2] = k
      BY <2>6, <3>1
    <3> QED BY <1>4, <2>2, <3>1, <3>2, <3>3
  <2>11. SumFunctionOnSet(a, K) = SumFunctionOnSet(f, {h[k] : k \in K})
    BY <2>4, <2>5, <2>7, <2>10, SumReindex
  <2>12. SumFunctionOnSet(a, K) \in Int
    BY <2>4, <2>5, SumIsInt
  <2>13. g[d] = SumFunctionOnSet(a, K)
    BY <1>9, <2>3, <2>12
  <2> QED BY <2>8, <2>9, <2>11, <2>13
<1>11. IsFiniteSet(D)
  BY DocSums
<1>12. PICK T : T = D
  OBVIOUS
<1>13. IsFiniteSet(T) /\ (\A r \in S : f[r] \in Int) /\ \A r \in S : key[r] \in T
  BY <1>7, <1>8, <1>11, <1>12
<1>14. \A d \in T : g[d] = SumFunctionOnSet(f, {r \in S : key[r] = d})
  BY <1>10, <1>12
<1>15. SumFunctionOnSet(f, S) = SumFunctionOnSet(g, T)
  <2>1. Grouped(f, S, key, g, T)
    BY <1>13, <1>14 DEF Grouped
  <2> QED BY <1>5, <1>13, <2>1, SumByGroup
<1>16. PICK c : c = Costs
  OBVIOUS
<1>17. PICK z : z = [d \in D |-> 0]
  OBVIOUS
<1>18. \A d \in T : c[d] \in Int /\ g[d] \in Int /\ z[d] = c[d] + g[d]
  <2> SUFFICES ASSUME NEW d \in T PROVE c[d] \in Int /\ g[d] \in Int /\ z[d] = c[d] + g[d]
    OBVIOUS
  <2>1. d \in Docs /\ g[d] = -OutgoingCost(moves[d]) /\ z[d] = 0
    BY <1>9, <1>12, <1>17
  <2>2. c[d] = OutgoingCost(moves[d]) /\ c[d] \in Int
    BY <1>16, <2>1, DocSums
  <2> QED BY <2>1, <2>2
<1>19. SumFunctionOnSet(z, T) = SumFunctionOnSet(c, T) + SumFunctionOnSet(g, T)
  BY <1>13, <1>18, SumAdd
<1>20. SumFunctionOnSet(z, T) = 0
  BY <1>12, <1>13, <1>17, SumOfZeros
<1>21. SumFunctionOnSet(c, T) \in Int /\ SumFunctionOnSet(g, T) \in Int
  BY <1>13, <1>18, SumIsInt
<1>22. SumOver(S, LAMBDA r : moves[r[1]][r[2]].amount) = SumFunctionOnSet(f, S)
  BY <1>4 DEF SumOver
<1> QED BY <1>3, <1>12, <1>15, <1>16, <1>19, <1>20, <1>21, <1>22 DEF OfDocs

-----------------------------------------------------------------------------
\* A list of documents comes to the documents.
LEMMA DocListIs ==
  ASSUME NEW D, IsFiniteSet(D), NEW v, \A d \in D : v[d] \in Int,
         NEW h, \A d \in D : h[d].doc = d, NEW g, \A d \in D : g[h[d]] = v[d]
  PROVE  SumFunctionOnSet(g, {h[d] : d \in D}) = SumFunctionOnSet(v, D)
<1>1. \A x, y \in D : h[x] = h[y] => x = y
  OBVIOUS
<1>2. SumFunctionOnSet(v, D) = SumFunctionOnSet(g, {h[d] : d \in D})
  BY <1>1, SumReindex
<1> QED BY <1>2

\* A sale, as the report lists it.
SaleRow(d) ==
  [doc |-> d, date |-> Header[d].date, total |-> TotalOf(d), cost |-> OutgoingCost(moves[d]),
   profit |-> TotalOf(d) - OutgoingCost(moves[d])]

\* The report on sales comes to the sales.
LEMMA PageIs ==
  ASSUME LedgerInv, NEW p
  PROVE  LET page == ReportSales(p) IN
         /\ page.total = OfDocs(Totals, Sales(p)) /\ page.total_cost = OfDocs(Costs, Sales(p))
         /\ page.total_profit = OfDocs(Profits, Sales(p))
<1>1. PICK D : D = Sales(p)
  OBVIOUS
<1>2. D \in SUBSET Docs /\ IsFiniteSet(D)
  BY <1>1, SalesAre, DocSums
<1>3. PICK h : h = [d \in D |-> SaleRow(d)]
  OBVIOUS
<1>4. PICK L : L = {h[d] : d \in D}
  OBVIOUS
<1>5. L = SalesReport(p)
  BY <1>1, <1>3, <1>4 DEF SalesReport, SaleRow
<1>6. PICK t : t = [l \in L |-> l.total]
  OBVIOUS
<1>7. PICK c : c = [l \in L |-> l.cost]
  OBVIOUS
<1>8. PICK u : u = [l \in L |-> l.profit]
  OBVIOUS
<1>9. \A d : /\ SaleRow(d).doc = d /\ SaleRow(d).total = TotalOf(d) /\ SaleRow(d).cost = OutgoingCost(moves[d])
             /\ SaleRow(d).profit = TotalOf(d) - OutgoingCost(moves[d])
  BY DEF SaleRow
<1>10. PICK vt : vt = Totals
  OBVIOUS
<1>11. PICK vc : vc = Costs
  OBVIOUS
<1>12. PICK vu : vu = Profits
  OBVIOUS
<1>13. ASSUME NEW d \in D
       PROVE  /\ h[d].doc = d /\ vt[d] \in Int /\ vc[d] \in Int /\ vu[d] \in Int
              /\ t[h[d]] = vt[d] /\ c[h[d]] = vc[d] /\ u[h[d]] = vu[d]
  <2>1. h[d] = SaleRow(d) /\ h[d] \in L
    BY <1>3, <1>4
  <2>2. t[h[d]] = TotalOf(d) /\ c[h[d]] = OutgoingCost(moves[d]) /\ u[h[d]] = TotalOf(d) - OutgoingCost(moves[d])
    BY <1>6, <1>7, <1>8, <1>9, <2>1
  <2>3. d \in Docs
    BY <1>2
  <2> QED BY <1>9, <1>10, <1>11, <1>12, <2>1, <2>2, <2>3, DocSums
<1>14. SumFunctionOnSet(t, L) = SumFunctionOnSet(vt, D)
  BY <1>2, <1>4, <1>13, DocListIs
<1>15. SumFunctionOnSet(c, L) = SumFunctionOnSet(vc, D)
  BY <1>2, <1>4, <1>13, DocListIs
<1>16. SumFunctionOnSet(u, L) = SumFunctionOnSet(vu, D)
  BY <1>2, <1>4, <1>13, DocListIs
<1>17. ReportSales(p) = [total |-> SumFunctionOnSet(t, L), total_cost |-> SumFunctionOnSet(c, L),
                         total_profit |-> SumFunctionOnSet(u, L)]
  BY <1>5, <1>6, <1>7, <1>8 DEF ReportSales, SumOver
<1> QED BY <1>1, <1>10, <1>11, <1>12, <1>14, <1>15, <1>16, <1>17 DEF OfDocs

\* The summary comes to the sales and the purchases.
LEMMA SummaryIs ==
  ASSUME LedgerInv, NEW p
  PROVE  LET s == SalesSummary(p) IN
         /\ s.revenue = OfDocs(Totals, Sales(p)) /\ s.cost = OfDocs(Costs, Sales(p))
         /\ s.profit = OfDocs(Profits, Sales(p)) /\ s.orders = Cardinality(Sales(p))
         /\ s.purchases = OfDocs(Totals, Invoices("prihod", p))
<1>1. PICK D : D = Sales(p)
  OBVIOUS
<1>2. D \in SUBSET Docs
  BY <1>1, SalesAre
<1>3. PICK cost : cost = -SumOver(OutgoingRows(D), LAMBDA r : moves[r[1]][r[2]].amount)
  OBVIOUS
<1>4. cost = OfDocs(Costs, D)
  <2>1. OfDocs(Costs, D) \in Int
    BY <1>2, DocSums
  <2>2. SumOver(OutgoingRows(D), LAMBDA r : moves[r[1]][r[2]].amount) = -OfDocs(Costs, D)
    BY <1>2, OutgoingByDocument
  <2> QED BY <1>3, <2>1, <2>2
<1>5. PICK revenue : revenue = SumOver(D, TotalOf)
  OBVIOUS
<1>6. revenue = OfDocs(Totals, D) /\ OfDocs(Profits, D) = OfDocs(Totals, D) - OfDocs(Costs, D)
  BY <1>2, <1>5, DocSums
<1>7. /\ SalesSummary(p).revenue = revenue /\ SalesSummary(p).cost = cost
      /\ SalesSummary(p).profit = revenue - cost /\ SalesSummary(p).orders = Cardinality(D)
      /\ SalesSummary(p).purchases = SumOver(Invoices("prihod", p), TotalOf)
  BY <1>1, <1>3, <1>5 DEF SalesSummary, OutgoingRows
<1>8. SumOver(Invoices("prihod", p), TotalOf) = OfDocs(Totals, Invoices("prihod", p))
  BY SalesAre, DocSums
<1> QED BY <1>1, <1>4, <1>6, <1>7, <1>8

\* The sales of the days of a period are those of the period.
LEMMA SalesByDay ==
  ASSUME LedgerInv, NEW p \in Periods, NEW v, \A d \in Docs : v[d] \in Int,
         NEW g, \A day \in p[1] .. p[2] : g[day] = SumFunctionOnSet(v, Sales(<<day, day>>))
  PROVE  SumFunctionOnSet(g, p[1] .. p[2]) = SumFunctionOnSet(v, Sales(p))
<1>1. PICK D : D = Sales(p)
  OBVIOUS
<1>2. PICK T : T = p[1] .. p[2]
  OBVIOUS
<1>3. p[1] \in Int /\ p[2] \in Int
  BY PeriodIs
<1>4. IsFiniteSet(D) /\ D \in SUBSET Docs /\ IsFiniteSet(T)
  BY <1>1, <1>2, <1>3, SalesAre, DocSums, DaysAreFinite
<1>5. PICK k : k = [d \in D |-> Header[d].date]
  OBVIOUS
<1>6. \A d \in D : k[d] = Header[d].date /\ k[d] \in Int /\ Within(Header[d].date, p)
  BY <1>1, <1>5, SalesAre
<1>7. \A d \in D : v[d] \in Int /\ k[d] \in T
  BY <1>2, <1>3, <1>4, <1>6 DEF Within
<1>8. ASSUME NEW day \in T PROVE g[day] = SumFunctionOnSet(v, {d \in D : k[d] = day})
  <2>1. day \in Int /\ p[1] <= day /\ day <= p[2]
    BY <1>2, <1>3
  <2>2. Sales(<<day, day>>) = {d \in D : k[d] = day}
    <3>1. \A d \in Docs : Within(Header[d].date, <<day, day>>) <=> Header[d].date = day
      BY <2>1, SalesAre DEF Within
    <3>2. \A d \in Docs : Header[d].date = day => Within(Header[d].date, p)
      BY <2>1 DEF Within
    <3>3. \A d \in Sales(<<day, day>>) : d \in D /\ k[d] = day
      BY <1>1, <1>5, <3>1, <3>2, SalesAre
    <3>4. \A d \in D : k[d] = day => d \in Sales(<<day, day>>)
      BY <1>1, <1>6, <3>1, SalesAre
    <3> QED BY <3>3, <3>4
  <2> QED BY <1>2, <2>2
<1>9. Grouped(v, D, k, g, T)
  BY <1>7, <1>8 DEF Grouped
<1>10. SumFunctionOnSet(v, D) = SumFunctionOnSet(g, T)
  BY <1>4, <1>9, SumByGroup
<1> QED BY <1>1, <1>2, <1>10

\* What is said of a day are the sales of the day; the outgoing movements of
\* that date are theirs.
LEMMA DailyIs ==
  ASSUME LedgerInv, NEW p, NEW day \in p[1] .. p[2]
  PROVE  /\ DailySales(p)[day].revenue = OfDocs(Totals, Sales(<<day, day>>))
         /\ DailySales(p)[day].profit = OfDocs(Profits, Sales(<<day, day>>))
         /\ DailySales(p)[day].orders = Cardinality(Sales(<<day, day>>))
<1>1. PICK D : D = Sales(<<day, day>>)
  OBVIOUS
<1>2. D \in SUBSET Docs
  BY <1>1, SalesAre
<1>3. {r \in Rows(<<day, day>>) : TypeOf(r[1]) = "rashod" /\ moves[r[1]][r[2]].qty < 0} = OutgoingRows(D)
  <2>1. \A r \in RowsIn(moves) : r[1] \in posted
    <3> SUFFICES ASSUME NEW r \in RowsIn(moves), r[1] \notin posted PROVE FALSE
      OBVIOUS
    <3>1. r[1] \in Docs /\ r[2] \in DOMAIN moves[r[1]]
      BY QtyIs
    <3>2. moves[r[1]] = <<>>
      BY <3>1, ConsistentIs DEF LedgerInv, LedgerIs
    <3> QED BY <3>1, <3>2
  <2>2. \A r \in RowsIn(moves) :
          r[1] \in D <=> TypeOf(r[1]) = "rashod" /\ Within(Header[r[1]].date, <<day, day>>)
    BY <1>1, <2>1, SalesAre
  <2> QED BY <2>2 DEF Rows, OutgoingRows
<1>4. PICK cost : cost = -SumOver(OutgoingRows(D), LAMBDA r : moves[r[1]][r[2]].amount)
  OBVIOUS
<1>5. cost = OfDocs(Costs, D)
  <2>1. OfDocs(Costs, D) \in Int
    BY <1>2, DocSums
  <2>2. SumOver(OutgoingRows(D), LAMBDA r : moves[r[1]][r[2]].amount) = -OfDocs(Costs, D)
    BY <1>2, OutgoingByDocument
  <2> QED BY <1>4, <2>1, <2>2
<1>6. PICK revenue : revenue = SumOver(D, TotalOf)
  OBVIOUS
<1>7. revenue = OfDocs(Totals, D) /\ OfDocs(Profits, D) = OfDocs(Totals, D) - OfDocs(Costs, D)
  BY <1>2, <1>6, DocSums
<1>8. DailySales(p)[day] = [revenue |-> revenue, profit |-> revenue - cost, orders |-> Cardinality(D)]
  BY <1>1, <1>3, <1>4, <1>6 DEF DailySales
<1> QED BY <1>1, <1>5, <1>7, <1>8

-----------------------------------------------------------------------------
RevenueOf(daily) == Sum(DOMAIN daily, LAMBDA day : daily[day].revenue)
ProfitOf(daily) == Sum(DOMAIN daily, LAMBDA day : daily[day].profit)
OrdersOf(daily) == Sum(DOMAIN daily, LAMBDA day : daily[day].orders)

\* The days of a period come to the period.
LEMMA DaysAgree ==
  ASSUME LedgerInv, NEW p \in Periods, NEW daily, daily = DailySales(p)
  PROVE  /\ RevenueOf(daily) = OfDocs(Totals, Sales(p))
         /\ ProfitOf(daily) = OfDocs(Profits, Sales(p))
         /\ OrdersOf(daily) = Cardinality(Sales(p))
<1>1. PICK T : T = p[1] .. p[2]
  OBVIOUS
<1>2. DOMAIN daily = T
  BY <1>1 DEF DailySales
<1>3. PICK a : a = [day \in T |-> daily[day].revenue]
  OBVIOUS
<1>4. PICK b : b = [day \in T |-> daily[day].profit]
  OBVIOUS
<1>5. PICK c : c = [day \in T |-> daily[day].orders]
  OBVIOUS
<1>6. PICK t : t = Totals
  OBVIOUS
<1>7. PICK u : u = Profits
  OBVIOUS
<1>8. PICK one : one = [d \in Docs |-> 1]
  OBVIOUS
<1>9. \A d \in Docs : t[d] \in Int /\ u[d] \in Int /\ one[d] \in Int
  <2> SUFFICES ASSUME NEW d \in Docs PROVE t[d] \in Int /\ u[d] \in Int /\ one[d] \in Int
    OBVIOUS
  <2>1. t[d] \in Int /\ u[d] \in Int
    BY <1>6, <1>7, DocSums
  <2> QED BY <1>8, <2>1
<1>10. \A q : SumFunctionOnSet(one, Sales(q)) = Cardinality(Sales(q))
  <2> SUFFICES ASSUME NEW q PROVE SumFunctionOnSet(one, Sales(q)) = Cardinality(Sales(q))
    OBVIOUS
  <2>1. PICK D : D = Sales(q)
    OBVIOUS
  <2>2. D \in SUBSET Docs /\ IsFiniteSet(D)
    BY <2>1, SalesAre, DocSums
  <2>3. \A d \in D : one[d] = 1
    BY <1>8, <2>2
  <2>4. SumFunctionOnSet(one, D) = Cardinality(D)
    BY <2>2, <2>3, SumOfOnes
  <2> QED BY <2>1, <2>4
<1>11. ASSUME NEW day \in p[1] .. p[2]
       PROVE  /\ a[day] = SumFunctionOnSet(t, Sales(<<day, day>>))
              /\ b[day] = SumFunctionOnSet(u, Sales(<<day, day>>))
              /\ c[day] = SumFunctionOnSet(one, Sales(<<day, day>>))
  <2>1. a[day] = daily[day].revenue /\ b[day] = daily[day].profit /\ c[day] = daily[day].orders
    BY <1>1, <1>3, <1>4, <1>5
  <2>2. /\ daily[day].revenue = OfDocs(Totals, Sales(<<day, day>>))
        /\ daily[day].profit = OfDocs(Profits, Sales(<<day, day>>))
        /\ daily[day].orders = Cardinality(Sales(<<day, day>>))
    BY DailyIs
  <2> QED BY <1>6, <1>7, <1>10, <2>1, <2>2 DEF OfDocs
<1>12. SumFunctionOnSet(a, p[1] .. p[2]) = SumFunctionOnSet(t, Sales(p))
  BY <1>9, <1>11, SalesByDay
<1>13. SumFunctionOnSet(b, p[1] .. p[2]) = SumFunctionOnSet(u, Sales(p))
  BY <1>9, <1>11, SalesByDay
<1>14. SumFunctionOnSet(c, p[1] .. p[2]) = SumFunctionOnSet(one, Sales(p))
  BY <1>9, <1>11, SalesByDay
<1>15. /\ RevenueOf(daily) = SumFunctionOnSet(a, T) /\ ProfitOf(daily) = SumFunctionOnSet(b, T)
       /\ OrdersOf(daily) = SumFunctionOnSet(c, T)
  BY <1>2, <1>3, <1>4, <1>5 DEF Sum, SumOver, RevenueOf, ProfitOf, OrdersOf
<1> QED BY <1>1, <1>6, <1>7, <1>10, <1>12, <1>13, <1>14, <1>15 DEF OfDocs

\* The lines of the sales come to the sales, where none was given a total.
LEMMA ItemsAre ==
  ASSUME LedgerInv, NEW p, \A d \in Sales(p) : ~ Document[d].given
  PROVE  TopItems(p).amount = OfDocs(Totals, Sales(p))
<1>1. PICK D : D = Sales(p)
  OBVIOUS
<1>2. PICK L : L = LinesOf(D)
  OBVIOUS
<1>3. D \in SUBSET Docs /\ IsFiniteSet(D)
  BY <1>1, SalesAre, DocSums
<1>4. IsFiniteSet(L) /\ \A l \in L : l[1] \in D /\ l[2] \in DOMAIN Document[l[1]].lines
  BY <1>2, <1>3, LinesAreFinite
<1>5. PICK f : f = [l \in L |-> LineAmount(l[1], l[2])]
  OBVIOUS
<1>6. \A d \in D : \A i \in DOMAIN Document[d].lines :
        /\ LineAmount(d, i) \in Int /\ IsFiniteSet(DOMAIN Document[d].lines)
        /\ <<d, i>> \in L
  <2> SUFFICES ASSUME NEW d \in D, NEW i \in DOMAIN Document[d].lines
               PROVE  /\ LineAmount(d, i) \in Int
                      /\ IsFiniteSet(DOMAIN Document[d].lines) /\ <<d, i>> \in L
    OBVIOUS
  <2>1. LineAmount(d, i) \in Int
    <3>1. PICK x : x = Document[d].lines[i].qty * Document[d].lines[i].price
      OBVIOUS
    <3>2. x \in Int
      BY <1>3, <3>1, HalvesAre
    <3>3. LineAmount(d, i) = QuantizeCents(x)
      BY <3>1 DEF LineAmount
    <3> QED BY <3>2, <3>3, CentsNearby
  <2>2. IsFiniteSet(DOMAIN Document[d].lines)
    BY <1>3, HalvesAre
  <2>3. <<d, i>> \in L
    BY <1>2 DEF LinesOf
  <2> QED BY <2>1, <2>2, <2>3
<1>7. PICK k : k = [l \in L |-> l[1]]
  OBVIOUS
<1>8. PICK t : t = Totals
  OBVIOUS
<1>9. \A l \in L : f[l] \in Int /\ k[l] \in D
  BY <1>4, <1>5, <1>6, <1>7
<1>10. ASSUME NEW d \in D PROVE t[d] = SumFunctionOnSet(f, {l \in L : k[l] = d})
  <2>1. PICK S : S = DOMAIN Document[d].lines
    OBVIOUS
  <2>2. IsFiniteSet(S)
    BY <1>3, <2>1, HalvesAre
  <2>3. PICK a : a = [i \in S |-> LineAmount(d, i)]
    OBVIOUS
  <2>4. \A i \in S : a[i] \in Int
    BY <1>6, <2>1, <2>3
  <2>5. t[d] = SumFunctionOnSet(a, S)
    <3>1. t[d] = Total(d)
      BY <1>3, <1>8, DocSums DEF TotalOf
    <3>2. d \in Docs /\ ~ Document[d].given
      BY <1>1, <1>3
    <3> QED BY <2>1, <2>3, <3>1, <3>2, TotalIs
  <2>6. PICK h : h = [i \in S |-> <<d, i>>]
    OBVIOUS
  <2>7. \A x, y \in S : h[x] = h[y] => x = y
    BY <2>6
  <2>8. PICK X : X = {l \in L : k[l] = d}
    OBVIOUS
  <2>9. {h[i] : i \in S} = X
    <3>1. ASSUME NEW i \in S PROVE h[i] \in X
      <4>1. PICK l : l = <<d, i>>
        OBVIOUS
      <4>2. l \in L /\ l[1] = d
        BY <1>6, <2>1, <4>1
      <4> QED BY <1>7, <2>6, <2>8, <4>1, <4>2
    <3>2. ASSUME NEW l \in X PROVE l \in {h[i] : i \in S}
      <4>1. l \in L /\ l[1] = d
        BY <1>7, <2>8
      <4>2. l = <<l[1], l[2]>>
        BY <1>2, <4>1 DEF LinesOf
      <4>3. l[2] \in S /\ h[l[2]] = l
        BY <1>4, <2>1, <2>6, <4>1, <4>2
      <4> QED BY <4>3
    <3> QED BY <3>1, <3>2
  <2>10. \A i \in S : f[h[i]] = a[i]
    <3> SUFFICES ASSUME NEW i \in S PROVE f[h[i]] = a[i]
      OBVIOUS
    <3>1. PICK l : l = h[i]
      OBVIOUS
    <3>2. l \in L
      BY <2>8, <2>9, <3>1
    <3>3. l[1] = d /\ l[2] = i
      BY <2>6, <3>1
    <3> QED BY <1>5, <2>3, <3>1, <3>2, <3>3
  <2>11. SumFunctionOnSet(a, S) = SumFunctionOnSet(f, {h[i] : i \in S})
    BY <2>2, <2>4, <2>7, <2>10, SumReindex
  <2> QED BY <2>5, <2>8, <2>9, <2>11
<1>11. Grouped(f, L, k, t, D)
  BY <1>9, <1>10 DEF Grouped
<1>12. SumFunctionOnSet(f, L) = SumFunctionOnSet(t, D)
  BY <1>3, <1>4, <1>11, SumByGroup
<1>13. TopItems(p).amount = SumFunctionOnSet(f, L)
  BY <1>1, <1>2, <1>5 DEF TopItems, SumOver, LinesOf
<1> QED BY <1>1, <1>8, <1>12, <1>13 DEF OfDocs

\* An invoice, as the book of purchases and sales lists it.
BookRow(d) ==
  [doc |-> d, kind |-> IF TypeOf(d) = "rashod" THEN "sale" ELSE "purchase", total |-> TotalOf(d),
   nds |-> Header[d].nds]

\* Some invoices listed come to the invoices.
LEMMA BookRowsAre ==
  ASSUME LedgerInv, NEW D \in SUBSET Docs
  PROVE  Sum({BookRow(d) : d \in D}, LAMBDA r : r.total) = OfDocs(Totals, D)
<1>1. PICK h : h = [d \in D |-> BookRow(d)]
  OBVIOUS
<1>2. PICK L : L = {h[d] : d \in D}
  OBVIOUS
<1>3. L = {BookRow(d) : d \in D}
  BY <1>1, <1>2
<1>4. PICK g : g = [l \in L |-> l.total]
  OBVIOUS
<1>5. PICK t : t = Totals
  OBVIOUS
<1>6. \A d : BookRow(d).doc = d /\ BookRow(d).total = TotalOf(d)
  BY DEF BookRow
<1>7. \A d \in D : t[d] \in Int /\ t[d] = TotalOf(d)
  BY <1>5, DocSums
<1>8. \A d \in D : h[d].doc = d /\ g[h[d]] = t[d]
  BY <1>1, <1>2, <1>4, <1>6, <1>7
<1>9. IsFiniteSet(D)
  BY DocSums
<1>10. SumFunctionOnSet(g, L) = SumFunctionOnSet(t, D)
  BY <1>2, <1>7, <1>8, <1>9, DocListIs
<1>11. Sum(L, LAMBDA r : r.total) = SumFunctionOnSet(g, L)
  BY <1>4 DEF Sum, SumOver
<1> QED BY <1>3, <1>5, <1>10, <1>11 DEF OfDocs

\* The book's sales are the sales, and the rest of it the purchases.
LEMMA BookIs ==
  ASSUME LedgerInv, NEW p, NEW sold, sold = {r \in PurchaseSalesBook(p) : r.kind = "sale"}
  PROVE  /\ Sum(sold, LAMBDA r : r.total) = OfDocs(Totals, Sales(p))
         /\ Sum(PurchaseSalesBook(p) \ sold, LAMBDA r : r.total) = OfDocs(Totals, Invoices("prihod", p))
<1>1. PICK D : D = Sales(p)
  OBVIOUS
<1>2. PICK E : E = Invoices("prihod", p)
  OBVIOUS
<1>3. D \in SUBSET Docs /\ E \in SUBSET Docs
  BY <1>1, <1>2, SalesAre
<1>4. (\A d \in D : TypeOf(d) = "rashod") /\ \A d \in E : TypeOf(d) = "prihod"
  BY <1>1, <1>2 DEF Sales, Invoices
<1>5. PurchaseSalesBook(p) = {BookRow(d) : d \in D \cup E}
  BY <1>1, <1>2 DEF PurchaseSalesBook, BookRow
<1>6. (\A d \in D : BookRow(d).kind = "sale") /\ \A d \in E : BookRow(d).kind # "sale"
  BY <1>4 DEF BookRow
<1>7. sold = {BookRow(d) : d \in D}
  BY <1>5, <1>6
<1>8. PurchaseSalesBook(p) \ sold = {BookRow(d) : d \in E}
  BY <1>5, <1>6
<1> QED BY <1>1, <1>2, <1>3, <1>7, <1>8, BookRowsAre

-----------------------------------------------------------------------------
\* The sales to one kontragent.
SalesTo(p, k) == {d \in Sales(p) : Header[d].kontragent = k}
CounterpartyRow(p, k) == [name |-> k, amount |-> SumOver(SalesTo(p, k), TotalOf)]

\* The sales to kontragenty are the sales, less those to none.
LEMMA CounterpartiesAre ==
  ASSUME LedgerInv, NEW p
  PROVE  Sum(TopCounterparties(p), LAMBDA r : r.amount)
           = OfDocs(Totals, Sales(p))
             - Sum({r \in SalesReport(p) : Header[r.doc].kontragent = NoOne}, LAMBDA r : r.total)
<1>1. PICK D : D = Sales(p)
  OBVIOUS
<1>2. PICK N : N = {d \in D : Header[d].kontragent = NoOne}
  OBVIOUS
<1>3. PICK S : S = D \ N
  OBVIOUS
<1>4. /\ D \in SUBSET Docs /\ N \in SUBSET D /\ S \in SUBSET Docs /\ N \in SUBSET Docs
      /\ IsFiniteSet(D) /\ IsFiniteSet(S) /\ IsFiniteSet(N)
  BY <1>1, <1>2, <1>3, SalesAre, DocSums, FS_Subset
<1>5. PICK t : t = Totals
  OBVIOUS
<1>6. \A d \in D : t[d] \in Int /\ t[d] = TotalOf(d)
  BY <1>4, <1>5, DocSums
<1>7. SumFunctionOnSet(t, D) = SumFunctionOnSet(t, N) + SumFunctionOnSet(t, S)
  BY <1>3, <1>4, <1>6, SumSplit
<1>8. PICK K : K = {Header[d].kontragent : d \in D} \ {NoOne}
  OBVIOUS
<1>9. IsFiniteSet(K)
  <2>1. PICK h : h = [d \in D |-> Header[d].kontragent]
    OBVIOUS
  <2>2. PICK T : T = {Header[d].kontragent : d \in D}
    OBVIOUS
  <2>3. h \in Surjection(D, T)
    BY <2>1, <2>2 DEF Surjection
  <2>4. IsFiniteSet(T)
    BY <1>4, <2>3, FS_Surjection
  <2> QED BY <1>8, <2>2, <2>4, FS_Subset
<1>10. PICK key : key = [d \in S |-> Header[d].kontragent]
  OBVIOUS
<1>11. PICK f : f = [k \in K |-> SumOver(SalesTo(p, k), TotalOf)]
  OBVIOUS
<1>12. \A d \in S : t[d] \in Int /\ key[d] \in K
  BY <1>2, <1>3, <1>6, <1>8, <1>10
<1>13. ASSUME NEW k \in K PROVE f[k] = SumFunctionOnSet(t, {d \in S : key[d] = k}) /\ f[k] \in Int
  <2>1. PICK X : X = SalesTo(p, k)
    OBVIOUS
  <2>2. k # NoOne
    BY <1>8
  <2>3. X = {d \in S : key[d] = k}
    BY <1>1, <1>2, <1>3, <1>10, <2>1, <2>2 DEF SalesTo
  <2>4. X \in SUBSET Docs
    BY <1>1, <1>4, <2>1 DEF SalesTo
  <2>5. SumOver(X, TotalOf) = OfDocs(Totals, X) /\ OfDocs(Totals, X) \in Int
    BY <2>4, DocSums
  <2>6. f[k] = SumOver(X, TotalOf)
    BY <1>11, <2>1
  <2> QED BY <1>5, <2>3, <2>5, <2>6 DEF OfDocs
<1>14. Grouped(t, S, key, f, K)
  BY <1>12, <1>13 DEF Grouped
<1>15. SumFunctionOnSet(t, S) = SumFunctionOnSet(f, K)
  BY <1>4, <1>9, <1>14, SumByGroup
<1>16. PICK h : h = [k \in K |-> CounterpartyRow(p, k)]
  OBVIOUS
<1>17. PICK L : L = {h[k] : k \in K}
  OBVIOUS
<1>18. L = TopCounterparties(p)
  <2>1. L = {CounterpartyRow(p, k) : k \in K}
    BY <1>16, <1>17
  <2>2. TopCounterparties(p) = {CounterpartyRow(p, k) : k \in {Header[d].kontragent : d \in Sales(p)} \ {NoOne}}
    BY DEF TopCounterparties, CounterpartyRow, SalesTo
  <2> QED BY <1>1, <1>8, <2>1, <2>2
<1>19. PICK g : g = [l \in L |-> l.amount]
  OBVIOUS
<1>20. \A k : CounterpartyRow(p, k).name = k /\ CounterpartyRow(p, k).amount = SumOver(SalesTo(p, k), TotalOf)
  BY DEF CounterpartyRow
<1>21. \A k \in K : h[k].name = k /\ g[h[k]] = f[k]
  BY <1>11, <1>16, <1>17, <1>19, <1>20
<1>22. \A x, y \in K : h[x] = h[y] => x = y
  BY <1>21
<1>23. (\A k \in K : f[k] \in Int) /\ \A k \in K : g[h[k]] = f[k]
  BY <1>13, <1>21
<1>24. SumFunctionOnSet(f, K) = SumFunctionOnSet(g, {h[k] : k \in K})
  BY <1>9, <1>22, <1>23, SumReindex
<1>25. Sum(L, LAMBDA r : r.amount) = SumFunctionOnSet(g, L)
  BY <1>19 DEF Sum, SumOver
<1>26. Sum({r \in SalesReport(p) : Header[r.doc].kontragent = NoOne}, LAMBDA r : r.total) = SumFunctionOnSet(t, N)
  <2>1. PICK row : row = [d \in N |-> SaleRow(d)]
    OBVIOUS
  <2>2. PICK M : M = {row[d] : d \in N}
    OBVIOUS
  <2>3. \A d : SaleRow(d).doc = d /\ SaleRow(d).total = TotalOf(d)
    BY DEF SaleRow
  <2>4. SalesReport(p) = {SaleRow(d) : d \in D}
    BY <1>1 DEF SalesReport, SaleRow
  <2>5. {r \in SalesReport(p) : Header[r.doc].kontragent = NoOne} = {SaleRow(d) : d \in N}
    BY <1>2, <2>3, <2>4
  <2>6. {SaleRow(d) : d \in N} = M
    BY <2>1, <2>2
  <2>7. PICK c : c = [l \in M |-> l.total]
    OBVIOUS
  <2>8. \A d \in N : row[d].doc = d /\ c[row[d]] = t[d] /\ t[d] \in Int
    BY <1>2, <1>6, <2>1, <2>2, <2>3, <2>7
  <2>9. SumFunctionOnSet(c, M) = SumFunctionOnSet(t, N)
    BY <1>4, <2>2, <2>8, DocListIs
  <2>10. Sum(M, LAMBDA r : r.total) = SumFunctionOnSet(c, M)
    BY <2>7 DEF Sum, SumOver
  <2> QED BY <2>5, <2>6, <2>9, <2>10
<1>27. SumFunctionOnSet(t, N) \in Int
  <2>1. \A d \in N : t[d] \in Int
    BY <1>2, <1>6
  <2> QED BY <1>4, <2>1, SumIsInt
<1>28. SumFunctionOnSet(t, S) \in Int
  BY <1>4, <1>12, SumIsInt
<1>29. Sum(TopCounterparties(p), LAMBDA r : r.amount) = SumFunctionOnSet(t, S)
  BY <1>15, <1>17, <1>18, <1>24, <1>25
<1>30. OfDocs(Totals, Sales(p)) = SumFunctionOnSet(t, D)
  BY <1>1, <1>5 DEF OfDocs
<1>31. SumFunctionOnSet(t, S) = SumFunctionOnSet(t, D) - SumFunctionOnSet(t, N)
  BY <1>7, <1>27, <1>28
<1> QED BY <1>26, <1>29, <1>30, <1>31

\* The least and the greatest of two.
LEMMA EndsAre ==
  ASSUME NEW a \in Int, NEW b \in Int, a <= b
  PROVE  Min({b, a}) = a /\ Max({b, a}) = b
<1>1. a \in {b, a} /\ \A y \in {b, a} : a <= y
  OBVIOUS
<1>2. b \in {b, a} /\ \A y \in {b, a} : b >= y
  OBVIOUS
<1>3. Min({b, a}) \in {b, a} /\ \A y \in {b, a} : Min({b, a}) <= y
  BY <1>1 DEF Min
<1>4. Max({b, a}) \in {b, a} /\ \A y \in {b, a} : Max({b, a}) >= y
  BY <1>2 DEF Max
<1> QED BY <1>1, <1>2, <1>3, <1>4

\* The dashboard is of the period, and of the one of as many days before it.
LEMMA DashboardIs ==
  ASSUME NEW p \in Periods
  PROVE  /\ Dashboard(p[2], p[1]).cur = SalesSummary(p)
         /\ Dashboard(p[2], p[1]).prev = SalesSummary(<<2 * p[1] - p[2] - 1, p[1] - 1>>)
<1>1. p[1] \in Int /\ p[2] \in Int /\ p[1] <= p[2] /\ p = <<p[1], p[2]>>
  BY PeriodIs
<1>2. PICK a, b : a = p[1] /\ b = p[2]
  OBVIOUS
<1>3. Min({b, a}) = a /\ Max({b, a}) = b
  BY <1>1, <1>2, EndsAre
<1>4. a - (b - a + 1) = 2 * a - b - 1
  BY <1>1, <1>2
<1>5. PICK q : q = <<<<a, b>>, <<2 * a - b - 1, a - 1>>>>
  OBVIOUS
<1>6. ResolvePeriod(b, a) = q
  BY <1>3, <1>4, <1>5 DEF ResolvePeriod
<1>7. q[1] = <<a, b>> /\ q[2] = <<2 * a - b - 1, a - 1>>
  BY <1>5
<1>8. Dashboard(b, a).cur = SalesSummary(q[1]) /\ Dashboard(b, a).prev = SalesSummary(q[2])
  BY <1>6 DEF Dashboard
<1> QED BY <1>1, <1>2, <1>7, <1>8

\* Two periods, one after the other.
LEMMA PeriodsTogether ==
  ASSUME LedgerInv, NEW p \in Periods, NEW a \in Int, a <= p[1]
  PROVE  OfDocs(Totals, Sales(<<a, p[2]>>)) = OfDocs(Totals, Sales(p)) + OfDocs(Totals, Sales(<<a, p[1] - 1>>))
<1>1. p[1] \in Int /\ p[2] \in Int /\ p[1] <= p[2]
  BY PeriodIs
<1>2. PICK U : U = Sales(<<a, p[2]>>)
  OBVIOUS
<1>3. PICK S : S = Sales(p)
  OBVIOUS
<1>4. PICK T : T = Sales(<<a, p[1] - 1>>)
  OBVIOUS
<1>5. \A d \in Docs : /\ Within(Header[d].date, p) => Within(Header[d].date, <<a, p[2]>>)
                      /\ Within(Header[d].date, <<a, p[2]>>) /\ ~ Within(Header[d].date, p)
                           <=> Within(Header[d].date, <<a, p[1] - 1>>)
  <2> SUFFICES ASSUME NEW d \in Docs
               PROVE  /\ Within(Header[d].date, p) => Within(Header[d].date, <<a, p[2]>>)
                      /\ Within(Header[d].date, <<a, p[2]>>) /\ ~ Within(Header[d].date, p)
                           <=> Within(Header[d].date, <<a, p[1] - 1>>)
    OBVIOUS
  <2>1. PICK n : n = Header[d].date
    OBVIOUS
  <2>2. n \in Int
    BY <2>1, SalesAre
  <2> QED BY <1>1, <2>1, <2>2 DEF Within
<1>6. S \in SUBSET U /\ U \ S = T
  BY <1>2, <1>3, <1>4, <1>5, SalesAre, DocSums
<1>7. IsFiniteSet(U) /\ U \in SUBSET Docs
  BY <1>2, SalesAre, DocSums
<1>8. PICK t : t = Totals
  OBVIOUS
<1>9. \A d \in U : t[d] \in Int
  BY <1>7, <1>8, DocSums
<1>10. SumFunctionOnSet(t, U) = SumFunctionOnSet(t, S) + SumFunctionOnSet(t, U \ S)
  BY <1>6, <1>7, <1>9, SumSplit
<1> QED BY <1>2, <1>3, <1>4, <1>6, <1>8, <1>10 DEF OfDocs

\* All sales are among the recent ones, when as many are asked for.
LEMMA RecentAre ==
  ASSUME LedgerInv
  PROVE  {r.doc : r \in SalesReport(<<0, LastDay>>)} \in RecentSales(Cardinality(Docs))
<1>1. PICK D : D = Sales(<<0, LastDay>>)
  OBVIOUS
<1>2. D \in SUBSET Docs /\ D \in SUBSET posted /\ IsFiniteSet(D) /\ IsFiniteSet(Docs)
  BY <1>1, SalesAre, DocSums
<1>3. {r.doc : r \in SalesReport(<<0, LastDay>>)} = D
  <2>1. \A d : SaleRow(d).doc = d
    BY DEF SaleRow
  <2>2. SalesReport(<<0, LastDay>>) = {SaleRow(d) : d \in D}
    BY <1>1 DEF SalesReport, SaleRow
  <2> QED BY <2>1, <2>2
<1>4. Cardinality(D) \in Int /\ Cardinality(Docs) \in Int /\ Cardinality(D) <= Cardinality(Docs)
  BY <1>2, FS_Subset, FS_CardinalityType
<1>5. Min({Cardinality(Docs), Cardinality(D)}) = Cardinality(D)
  BY <1>4, EndsAre
<1> QED BY <1>1, <1>2, <1>3, <1>5 DEF RecentSales

-----------------------------------------------------------------------------
\* The entries of a document have its date; only a sale has any on account
\* 90.1 or 90.2, and those are credited and debited.
Plain(d, rows) ==
  \A k \in DOMAIN rows :
    /\ rows[k].date = Header[d].date /\ rows[k].debit # "90.1" /\ rows[k].credit # "90.2"
    /\ TypeOf(d) # "rashod" => rows[k].credit # "90.1" /\ rows[k].debit # "90.2"

\* One entry.
LEMMA EntryIsPlain ==
  ASSUME NEW d, NEW x, NEW y, NEW v, x # "90.1", y # "90.2",
         TypeOf(d) # "rashod" => y # "90.1" /\ x # "90.2"
  PROVE  Plain(d, Entry(d, x, y, v))
<1>1. PICK e : e = [date |-> Header[d].date, debit |-> x, credit |-> y, amount |-> v]
  OBVIOUS
<1>2. e.date = Header[d].date /\ e.debit = x /\ e.credit = y
  BY <1>1
<1>3. Entry(d, x, y, v) \in {<<>>, <<e>>}
  BY <1>1 DEF Entry
<1>4. DOMAIN <<>> = {} /\ DOMAIN <<e>> = {1} /\ <<e>>[1] = e
  OBVIOUS
<1>5. Plain(d, <<>>)
  BY <1>4 DEF Plain
<1>6. Plain(d, <<e>>)
  <2>1. PICK rows : rows = <<e>>
    OBVIOUS
  <2>2. DOMAIN rows = {1} /\ rows[1] = e
    BY <1>4, <2>1
  <2>3. Plain(d, rows)
    BY <1>2, <2>2 DEF Plain
  <2> QED BY <2>1, <2>3
<1> QED BY <1>3, <1>5, <1>6

\* No entry, and those of two.
LEMMA TwoArePlain ==
  ASSUME NEW d, NEW x, NEW y, NEW v, Plain(d, Entry(d, x, y, v)),
         NEW z, NEW w, NEW u, Plain(d, Entry(d, z, w, u))
  PROVE  Plain(d, Entry(d, x, y, v) \o Entry(d, z, w, u)) /\ Plain(d, <<>>)
<1>1. PICK e : e = [date |-> Header[d].date, debit |-> x, credit |-> y, amount |-> v]
  OBVIOUS
<1>2. PICK f : f = [date |-> Header[d].date, debit |-> z, credit |-> w, amount |-> u]
  OBVIOUS
<1>3. PICK s, t : s = Entry(d, x, y, v) /\ t = Entry(d, z, w, u)
  OBVIOUS
<1>4. s \in {<<>>, <<e>>} /\ t \in {<<>>, <<f>>}
  BY <1>1, <1>2, <1>3 DEF Entry
<1>5. s \in Seq({e, f}) /\ t \in Seq({e, f})
  <2>1. <<>> \in Seq({e, f}) /\ <<e>> \in Seq({e, f}) /\ <<f>> \in Seq({e, f})
    OBVIOUS
  <2> QED BY <1>4, <2>1
<1>6. PICK rows : rows = s \o t
  OBVIOUS
<1>7. /\ rows \in Seq({e, f}) /\ Len(rows) = Len(s) + Len(t)
      /\ \A i \in 1 .. Len(s) + Len(t) : rows[i] = IF i <= Len(s) THEN s[i] ELSE t[i - Len(s)]
  BY <1>5, <1>6, ConcatProperties
<1>8. Len(s) \in Nat /\ Len(t) \in Nat /\ DOMAIN s = 1 .. Len(s) /\ DOMAIN t = 1 .. Len(t)
      /\ DOMAIN rows = 1 .. Len(rows)
  BY <1>5, <1>7
<1>9. ASSUME NEW i \in DOMAIN rows
      PROVE  (\E k \in DOMAIN s : rows[i] = s[k]) \/ (\E k \in DOMAIN t : rows[i] = t[k])
  <2>1. i \in 1 .. Len(s) + Len(t)
    BY <1>7, <1>8
  <2>2. CASE i <= Len(s)
    <3>1. i \in DOMAIN s /\ rows[i] = s[i]
      BY <1>7, <1>8, <2>1, <2>2
    <3> QED BY <3>1
  <2>3. CASE ~ (i <= Len(s))
    <3>1. i - Len(s) \in DOMAIN t /\ rows[i] = t[i - Len(s)]
      BY <1>7, <1>8, <2>1, <2>3
    <3> QED BY <3>1
  <2> QED BY <2>2, <2>3
<1>10. Plain(d, rows)
  BY <1>3, <1>9 DEF Plain
<1>11. Plain(d, <<>>)
  <2>1. DOMAIN <<>> = {}
    OBVIOUS
  <2> QED BY <2>1 DEF Plain
<1> QED BY <1>3, <1>6, <1>10, <1>11

\* The entries of any document.
LEMMA EntryRowsArePlain ==
  ASSUME NEW d, NEW m, NEW v
  PROVE  Plain(d, EntryRows(d, m, v))
<1>1. CASE TypeOf(d) = "prihod"
  <2>1. EntryRows(d, m, v) = Entry(d, "41", "60", TotalOf(d))
    BY <1>1 DEF EntryRows
  <2> QED BY <1>1, <2>1, EntryIsPlain
<1>2. CASE TypeOf(d) = "vozvrat"
  <2>1. EntryRows(d, m, v) = Entry(d, "41", "62", TotalOf(d))
    BY <1>2 DEF EntryRows
  <2> QED BY <1>2, <2>1, EntryIsPlain
<1>3. CASE TypeOf(d) = "spisanie"
  <2>1. EntryRows(d, m, v) = Entry(d, "91.2", "41", OutgoingCost(m))
    BY <1>3 DEF EntryRows
  <2> QED BY <1>3, <2>1, EntryIsPlain
<1>4. CASE TypeOf(d) = "oprihodovanie"
  <2>1. EntryRows(d, m, v) = Entry(d, "41", "91.1", TotalOf(d))
    BY <1>4 DEF EntryRows
  <2> QED BY <1>4, <2>1, EntryIsPlain
<1>5. CASE TypeOf(d) = "vvod_ostatkov"
  <2>1. EntryRows(d, m, v) = Entry(d, "41", "00", TotalOf(d))
    BY <1>5 DEF EntryRows
  <2> QED BY <1>5, <2>1, EntryIsPlain
<1>6. CASE TypeOf(d) = "vvod_ostatkov_deneg"
  <2>1. EntryRows(d, m, v) = Entry(d, "50", "00", TotalOf(d))
    BY <1>6 DEF EntryRows
  <2> QED BY <1>6, <2>1, EntryIsPlain
<1>7. CASE TypeOf(d) = "prihodny_kassovy_order"
  <2>1. EntryRows(d, m, v) = Entry(d, "50", "62", TotalOf(d))
    BY <1>7 DEF EntryRows
  <2> QED BY <1>7, <2>1, EntryIsPlain
<1>8. CASE TypeOf(d) = "rashodny_kassovy_order"
  <2>1. EntryRows(d, m, v) = Entry(d, "62", "50", TotalOf(d))
    BY <1>8 DEF EntryRows
  <2> QED BY <1>8, <2>1, EntryIsPlain
<1>9. CASE TypeOf(d) = "platezhnoe_poruchenie"
  <2>1. EntryRows(d, m, v) = Entry(d, "60", "51", TotalOf(d))
    BY <1>9 DEF EntryRows
  <2> QED BY <1>9, <2>1, EntryIsPlain
<1>10. CASE TypeOf(d) = "rashod"
  <2>1. EntryRows(d, m, v) = Entry(d, "62", "90.1", TotalOf(d)) \o Entry(d, "90.2", "41", OutgoingCost(m))
    BY <1>10 DEF EntryRows
  <2>2. Plain(d, Entry(d, "62", "90.1", TotalOf(d))) /\ Plain(d, Entry(d, "90.2", "41", OutgoingCost(m)))
    BY <1>10, EntryIsPlain
  <2> QED BY <2>1, <2>2, TwoArePlain
<1>11. CASE TypeOf(d) = "inventarizaciya"
  <2>1. EntryRows(d, m, v) = Entry(d, "41", "91.1", IncomingCost(m)) \o Entry(d, "94", "41", OutgoingCost(m))
    BY <1>11 DEF EntryRows
  <2>2. Plain(d, Entry(d, "41", "91.1", IncomingCost(m))) /\ Plain(d, Entry(d, "94", "41", OutgoingCost(m)))
    BY <1>11, EntryIsPlain
  <2> QED BY <2>1, <2>2, TwoArePlain
<1>12. CASE TypeOf(d) = "pereocenka"
  <2>1. EntryRows(d, m, v) = IF v > 0 THEN Entry(d, "41", "91.1", v) ELSE Entry(d, "91.2", "41", -v)
    BY <1>12 DEF EntryRows
  <2>2. Plain(d, Entry(d, "41", "91.1", v)) /\ Plain(d, Entry(d, "91.2", "41", -v))
    BY <1>12, EntryIsPlain
  <2> QED BY <2>1, <2>2
<1>13. CASE TypeOf(d) \notin {"prihod", "vozvrat", "spisanie", "oprihodovanie", "vvod_ostatkov",
                             "vvod_ostatkov_deneg", "prihodny_kassovy_order", "rashodny_kassovy_order",
                             "platezhnoe_poruchenie", "rashod", "inventarizaciya", "pereocenka"}
  <2>1. EntryRows(d, m, v) = <<>>
    BY <1>13 DEF EntryRows
  <2>2. Plain(d, <<>>)
    <3>1. DOMAIN <<>> = {}
      OBVIOUS
    <3> QED BY <3>1 DEF Plain
  <2> QED BY <2>1, <2>2
<1> QED BY <1>1, <1>2, <1>3, <1>4, <1>5, <1>6, <1>7, <1>8, <1>9, <1>10, <1>11, <1>12, <1>13

\* What a document puts on the accounts of sales.
LEMMA OnSalesAre ==
  ASSUME BooksInv, NEW d \in AllDocs
  PROVE  /\ Plain(d, entries[d])
         /\ OnCredit(entries[d], "90.1") = IF d \in posted /\ TypeOf(d) = "rashod" THEN TotalOf(d) ELSE 0
         /\ OnDebit(entries[d], "90.2") = IF d \in posted /\ TypeOf(d) = "rashod" THEN OutgoingCost(moves[d]) ELSE 0
<1>1. /\ BooksAre(moves, acc41, posted, paid, money, settlements, entries)
      /\ posted \subseteq Docs /\ Register(moves) /\ acc41 \in [Docs -> Int]
  BY ConsistentIs DEF BooksInv, LedgerInv, LedgerIs
<1>2. Docs \cap Payments = {} /\ paid \subseteq Payments
  BY <1>1, BooksAssumption DEF BooksAre
<1>3. ASSUME NEW rows, Plain(d, rows), TypeOf(d) # "rashod"
      PROVE  OnCredit(rows, "90.1") = 0 /\ OnDebit(rows, "90.2") = 0
  BY <1>3 DEF Plain, OnCredit, OnDebit
<1>4. Plain(d, <<>>) /\ OnCredit(<<>>, "90.1") = 0 /\ OnDebit(<<>>, "90.2") = 0
  <2>1. DOMAIN <<>> = {}
    OBVIOUS
  <2> QED BY <2>1 DEF Plain, OnCredit, OnDebit
<1>5. CASE d \in posted
  <2>1. PICK m, v : m = moves[d] /\ v = acc41[d]
    OBVIOUS
  <2>2. PICK R : R = EntryRows(d, m, v)
    OBVIOUS
  <2>3. entries[d] = R
    BY <1>1, <1>5, <2>1, <2>2 DEF BooksAre
  <2>4. Plain(d, R)
    BY <2>2, EntryRowsArePlain
  <2>5. CASE TypeOf(d) # "rashod"
    BY <1>3, <2>3, <2>4, <2>5
  <2>6. CASE TypeOf(d) = "rashod"
    <3>1. v \in Int /\ OutgoingCost(m) \in Int /\ IncomingCost(m) \in Int
      BY <1>1, <1>5, <2>1, CostsAreInt
    <3>2. Double(d, m, v, "rashod", "62", "90.1", TotalOf(d), "90.2", "41", OutgoingCost(m))
      BY <3>1, EntriesByType
    <3>3. \A a : Net(R, a) = (Side("62", a, TotalOf(d)) - Side("90.1", a, TotalOf(d)))
                             + (Side("90.2", a, OutgoingCost(m)) - Side("41", a, OutgoingCost(m)))
      BY <2>2, <2>6, <3>2 DEF Double
    <3>4. TotalOf(d) \in Int
      BY TotalsAreInt
    <3>5. Net(R, "90.1") = -TotalOf(d)
      <4>1. /\ Side("62", "90.1", TotalOf(d)) = 0 /\ Side("90.1", "90.1", TotalOf(d)) = TotalOf(d)
            /\ Side("90.2", "90.1", OutgoingCost(m)) = 0 /\ Side("41", "90.1", OutgoingCost(m)) = 0
        BY DEF Side
      <4> QED BY <3>3, <3>4, <4>1
    <3>6. Net(R, "90.2") = OutgoingCost(m)
      <4>1. /\ Side("62", "90.2", TotalOf(d)) = 0 /\ Side("90.1", "90.2", TotalOf(d)) = 0
            /\ Side("90.2", "90.2", OutgoingCost(m)) = OutgoingCost(m) /\ Side("41", "90.2", OutgoingCost(m)) = 0
        BY DEF Side
      <4> QED BY <3>1, <3>3, <4>1
    <3>7. OnDebit(R, "90.1") = 0 /\ OnCredit(R, "90.2") = 0
      BY <2>4 DEF Plain, OnCredit, OnDebit
    <3>8. \A k \in DOMAIN R : R[k].amount \in Int
      BY <2>2, <2>6, <3>2 DEF Double, FewRows
    <3>9. OnCredit(R, "90.1") \in Int /\ OnDebit(R, "90.2") \in Int
      BY <3>8 DEF OnCredit, OnDebit
    <3>10. OnCredit(R, "90.1") = TotalOf(d)
      BY <3>4, <3>5, <3>7, <3>9 DEF Net
    <3>11. OnDebit(R, "90.2") = OutgoingCost(m)
      BY <3>1, <3>6, <3>7, <3>9 DEF Net
    <3> QED BY <1>5, <2>1, <2>3, <2>4, <2>6, <3>10, <3>11
  <2> QED BY <2>5, <2>6
<1>6. CASE d \in paid
  <2>1. PICK R : R = EntryRows(d, <<>>, 0)
    OBVIOUS
  <2>2. entries[d] = R /\ Plain(d, R)
    BY <1>1, <1>6, <2>1, EntryRowsArePlain DEF BooksAre
  <2>3. TypeOf(d) # "rashod" /\ d \notin posted
    BY <1>1, <1>2, <1>6, TotalsAreInt DEF PaymentType
  <2> QED BY <1>3, <2>2, <2>3
<1>7. CASE d \notin posted /\ d \notin paid
  <2>1. entries[d] = <<>>
    BY <1>1, <1>7 DEF BooksAre
  <2> QED BY <1>4, <1>7, <2>1
<1> QED BY <1>5, <1>6, <1>7

-----------------------------------------------------------------------------
\* An entry, as the report lists it.
EntryRow(r) == [row |-> r, entry |-> entries[r[1]][r[2]]]

\* The entries of a period that are marked come to those of its documents.
LEMMA MarkedCome ==
  ASSUME BooksInv, NEW p, NEW M \in SUBSET RowsIn(entries),
         NEW g, \A r \in Dated(entries, p) :
                  g[EntryRow(r)] = IF r \in M THEN entries[r[1]][r[2]].amount ELSE 0,
         NEW q, \A d \in AllDocs : q[d] = IF Within(Header[d].date, p) THEN Marked(entries, M, d) ELSE 0
  PROVE  SumFunctionOnSet(g, AccountingEntries(p)) = SumFunctionOnSet(q, AllDocs)
<1>1. TwoRows(entries)
  BY RowsOfBooks
<1>2. PICK S : S = Dated(entries, p)
  OBVIOUS
<1>3. PICK v : v = AmountsOf(entries)
  OBVIOUS
<1>4. S \in SUBSET RowsIn(entries) /\ IsFiniteSet(S)
  BY <1>1, <1>2, <1>3, ComeIs DEF Dated
<1>5. \A r \in RowsIn(entries) : v[r] \in Int /\ v[r] = entries[r[1]][r[2]].amount
  BY <1>1, <1>3, ComeIs
<1>6. PICK f : f = [r \in S |-> IF r \in M THEN v[r] ELSE 0]
  OBVIOUS
<1>7. PICK h : h = [r \in S |-> EntryRow(r)]
  OBVIOUS
<1>8. AccountingEntries(p) = {h[r] : r \in S}
  <2>1. AccountingEntries(p) = {EntryRow(r) : r \in S}
    BY <1>2 DEF AccountingEntries, EntryRow, Dated
  <2> QED BY <1>7, <2>1
<1>9. \A r \in S : h[r].row = r
  BY <1>7 DEF EntryRow
<1>10. \A x, y \in S : h[x] = h[y] => x = y
  BY <1>9
<1>11. \A r \in S : f[r] \in Int /\ g[h[r]] = f[r]
  <2> SUFFICES ASSUME NEW r \in S PROVE f[r] \in Int /\ g[h[r]] = f[r]
    OBVIOUS
  <2>1. v[r] \in Int /\ v[r] = entries[r[1]][r[2]].amount
    BY <1>4, <1>5
  <2>2. g[EntryRow(r)] = IF r \in M THEN entries[r[1]][r[2]].amount ELSE 0
    BY <1>2
  <2> QED BY <1>6, <1>7, <2>1, <2>2
<1>12. SumFunctionOnSet(f, S) = SumFunctionOnSet(g, {h[r] : r \in S})
  BY <1>4, <1>10, <1>11, SumReindex
<1>13. PICK T : T = S \cap M
  OBVIOUS
<1>14. T \in SUBSET S /\ T \in SUBSET RowsIn(entries) /\ \A r \in S \ T : f[r] = 0
  BY <1>4, <1>6, <1>13
<1>15. SumFunctionOnSet(f, S) = SumFunctionOnSet(f, T)
  BY <1>4, <1>11, <1>14, SumOfSupport
<1>16. \A r \in T : f[r] = entries[r[1]][r[2]].amount
  BY <1>5, <1>6, <1>13, <1>14
<1>17. ASSUME NEW d \in AllDocs, NEW k \in {1, 2}
       PROVE  Part(entries, d, k, T) = IF Within(Header[d].date, p) THEN Part(entries, d, k, M) ELSE 0
  <2>1. PICK r : r = <<d, k>>
    OBVIOUS
  <2>2. r[1] = d /\ r[2] = k
    BY <2>1
  <2>3. r \in M => (r \in S <=> Within(Header[d].date, p))
    <3> SUFFICES ASSUME r \in M PROVE r \in S <=> Within(Header[d].date, p)
      OBVIOUS
    <3>1. r \in RowsIn(entries)
      OBVIOUS
    <3>2. k \in DOMAIN entries[d]
      BY <1>1, <2>2, <3>1, RegisterIsFinite
    <3>3. entries[d][k].date = Header[d].date
      BY <3>2, OnSalesAre DEF Plain
    <3> QED BY <1>2, <2>2, <3>1, <3>3 DEF Dated
  <2>4. r \in T <=> r \in M /\ Within(Header[d].date, p)
    BY <1>13, <2>3
  <2> QED BY <2>1, <2>4 DEF Part
<1>18. \A d \in AllDocs : q[d] = Part(entries, d, 1, T) + Part(entries, d, 2, T)
  <2> SUFFICES ASSUME NEW d \in AllDocs PROVE q[d] = Part(entries, d, 1, T) + Part(entries, d, 2, T)
    OBVIOUS
  <2>1. \A k \in {1, 2} : Part(entries, d, k, T) = IF Within(Header[d].date, p) THEN Part(entries, d, k, M) ELSE 0
    BY <1>17
  <2>2. q[d] = IF Within(Header[d].date, p) THEN Part(entries, d, 1, M) + Part(entries, d, 2, M) ELSE 0
    BY DEF Marked
  <2> QED BY <2>1, <2>2
<1>19. SumFunctionOnSet(f, T) = SumFunctionOnSet(q, AllDocs)
  BY <1>1, <1>14, <1>16, <1>18, SumOfRegister
<1> QED BY <1>8, <1>12, <1>15, <1>19

\* What is on the accounts of sales of a period is what was sold.
LEMMA EntriesOfSales ==
  ASSUME BooksInv, NEW p
  PROVE  /\ Sum(AccountingEntries(p), LAMBDA e : IF e.entry.credit = "90.1" THEN e.entry.amount ELSE 0)
              = OfDocs(Totals, Sales(p))
         /\ Sum(AccountingEntries(p), LAMBDA e : IF e.entry.debit = "90.2" THEN e.entry.amount ELSE 0)
              = OfDocs(Costs, Sales(p))
<1>1. LedgerInv /\ TwoRows(entries) /\ IsFiniteSet(AllDocs) /\ Docs \subseteq AllDocs
  BY RowsOfBooks, DocsAreFinite DEF BooksInv
<1>2. PICK L : L = AccountingEntries(p)
  OBVIOUS
<1>3. \A r \in Dated(entries, p) :
        EntryRow(r) \in L /\ EntryRow(r).entry = entries[r[1]][r[2]] /\ r \in RowsIn(entries)
  BY <1>2 DEF AccountingEntries, EntryRow, Dated
<1>4. PICK D : D = Sales(p)
  OBVIOUS
<1>5. D \in SUBSET Docs /\ D \in SUBSET AllDocs
  BY <1>1, <1>4, SalesAre
<1>6. \A d \in AllDocs : d \in D <=> d \in posted /\ TypeOf(d) = "rashod" /\ Within(Header[d].date, p)
  BY <1>1, <1>4, SalesAre
<1>7. Sum(L, LAMBDA e : IF e.entry.credit = "90.1" THEN e.entry.amount ELSE 0) = OfDocs(Totals, D)
  <2>1. PICK M : M = CreditRows(entries, "90.1")
    OBVIOUS
  <2>2. PICK g : g = [e \in L |-> IF e.entry.credit = "90.1" THEN e.entry.amount ELSE 0]
    OBVIOUS
  <2>3. \A r \in Dated(entries, p) : g[EntryRow(r)] = IF r \in M THEN entries[r[1]][r[2]].amount ELSE 0
    BY <1>3, <2>1, <2>2 DEF CreditRows
  <2>4. PICK q : q = [d \in AllDocs |-> IF Within(Header[d].date, p) THEN Marked(entries, M, d) ELSE 0]
    OBVIOUS
  <2>5. M \in SUBSET RowsIn(entries)
    BY <2>1 DEF CreditRows
  <2>6. \A d \in AllDocs : q[d] = IF Within(Header[d].date, p) THEN Marked(entries, M, d) ELSE 0
    BY <2>4
  <2>7. SumFunctionOnSet(g, L) = SumFunctionOnSet(q, AllDocs)
    BY <1>2, <2>3, <2>5, <2>6, MarkedCome, ZenonT(40)
  <2>8. PICK t : t = Totals
    OBVIOUS
  <2>9. \A d \in AllDocs : q[d] = IF d \in D THEN TotalOf(d) ELSE 0
    BY <1>1, <1>6, <2>1, <2>6, MarkedAre, OnSalesAre
  <2>10. \A d \in D : t[d] \in Int /\ q[d] = t[d]
    BY <1>1, <1>5, <2>8, <2>9, DocSums
  <2>11. \A d \in AllDocs \ D : q[d] = 0
    BY <2>9
  <2>12. SumFunctionOnSet(t, D) = SumFunctionOnSet(q, AllDocs)
    BY <1>1, <1>5, <2>10, <2>11, SumFiltered
  <2>13. Sum(L, LAMBDA e : IF e.entry.credit = "90.1" THEN e.entry.amount ELSE 0) = SumFunctionOnSet(g, L)
    BY <2>2 DEF Sum, SumOver
  <2> QED BY <2>7, <2>8, <2>12, <2>13 DEF OfDocs
<1>8. Sum(L, LAMBDA e : IF e.entry.debit = "90.2" THEN e.entry.amount ELSE 0) = OfDocs(Costs, D)
  <2>1. PICK M : M = DebitRows(entries, "90.2")
    OBVIOUS
  <2>2. PICK g : g = [e \in L |-> IF e.entry.debit = "90.2" THEN e.entry.amount ELSE 0]
    OBVIOUS
  <2>3. \A r \in Dated(entries, p) : g[EntryRow(r)] = IF r \in M THEN entries[r[1]][r[2]].amount ELSE 0
    BY <1>3, <2>1, <2>2 DEF DebitRows
  <2>4. PICK q : q = [d \in AllDocs |-> IF Within(Header[d].date, p) THEN Marked(entries, M, d) ELSE 0]
    OBVIOUS
  <2>5. M \in SUBSET RowsIn(entries)
    BY <2>1 DEF DebitRows
  <2>6. \A d \in AllDocs : q[d] = IF Within(Header[d].date, p) THEN Marked(entries, M, d) ELSE 0
    BY <2>4
  <2>7. SumFunctionOnSet(g, L) = SumFunctionOnSet(q, AllDocs)
    BY <1>2, <2>3, <2>5, <2>6, MarkedCome, ZenonT(40)
  <2>8. PICK c : c = Costs
    OBVIOUS
  <2>9. \A d \in AllDocs : q[d] = IF d \in D THEN OutgoingCost(moves[d]) ELSE 0
    BY <1>1, <1>6, <2>1, <2>6, MarkedAre, OnSalesAre
  <2>10. \A d \in D : c[d] \in Int /\ q[d] = c[d]
    BY <1>1, <1>5, <2>8, <2>9, DocSums
  <2>11. \A d \in AllDocs \ D : q[d] = 0
    BY <2>9
  <2>12. SumFunctionOnSet(c, D) = SumFunctionOnSet(q, AllDocs)
    BY <1>1, <1>5, <2>10, <2>11, SumFiltered
  <2>13. Sum(L, LAMBDA e : IF e.entry.debit = "90.2" THEN e.entry.amount ELSE 0) = SumFunctionOnSet(g, L)
    BY <2>2 DEF Sum, SumOver
  <2> QED BY <2>7, <2>8, <2>12, <2>13 DEF OfDocs
<1> QED BY <1>2, <1>4, <1>7, <1>8

-----------------------------------------------------------------------------
\* What the reports on the sales of a period say of each other.
SalesAgreeIn(p, report, page, dashboard, summary, daily, sold) ==
  /\ summary.revenue = page.total /\ summary.profit = page.total_profit /\ summary.cost = page.total_cost
  /\ summary.revenue + dashboard.prev.revenue = ReportSales(<<2 * p[1] - p[2] - 1, p[2]>>).total
  /\ summary.revenue = RevenueOf(daily)
  /\ summary.profit = ProfitOf(daily)
  /\ summary.orders = OrdersOf(daily)
  /\ (\A d \in Sales(p) : ~ Document[d].given) => summary.revenue = TopItems(p).amount
  /\ summary.revenue = Sum(sold, LAMBDA r : r.total)
  /\ summary.purchases = Sum(PurchaseSalesBook(p) \ sold, LAMBDA r : r.total)
  /\ Sum(TopCounterparties(p), LAMBDA r : r.amount) =
       summary.revenue - Sum({r \in report : Header[r.doc].kontragent = NoOne}, LAMBDA r : r.total)
  /\ Sum(AccountingEntries(p), LAMBDA e : IF e.entry.credit = "90.1" THEN e.entry.amount ELSE 0)
       = summary.revenue
  /\ Sum(AccountingEntries(p), LAMBDA e : IF e.entry.debit = "90.2" THEN e.entry.amount ELSE 0)
       = summary.cost

\* They agree.
LEMMA PeriodAgrees ==
  ASSUME BooksInv, NEW p \in Periods,
         NEW report, report = SalesReport(p), NEW page, page = ReportSales(p),
         NEW dashboard, dashboard = Dashboard(p[2], p[1]), NEW summary, summary = dashboard.cur,
         NEW daily, daily = DailySales(p),
         NEW sold, sold = {r \in PurchaseSalesBook(p) : r.kind = "sale"}
  PROVE  SalesAgreeIn(p, report, page, dashboard, summary, daily, sold)
<1>1. LedgerInv
  BY DEF BooksInv
<1>2. p[1] \in Int /\ p[2] \in Int /\ p[1] <= p[2]
  BY PeriodIs
<1>3. PICK a : a = 2 * p[1] - p[2] - 1
  OBVIOUS
<1>4. a \in Int /\ a <= p[1]
  BY <1>2, <1>3
<1>5. summary = SalesSummary(p) /\ dashboard.prev = SalesSummary(<<a, p[1] - 1>>)
  BY <1>3, DashboardIs
<1>6. /\ summary.revenue = OfDocs(Totals, Sales(p)) /\ summary.cost = OfDocs(Costs, Sales(p))
      /\ summary.profit = OfDocs(Profits, Sales(p)) /\ summary.orders = Cardinality(Sales(p))
      /\ summary.purchases = OfDocs(Totals, Invoices("prihod", p))
  BY <1>1, <1>5, SummaryIs
<1>7. dashboard.prev.revenue = OfDocs(Totals, Sales(<<a, p[1] - 1>>))
  BY <1>1, <1>5, SummaryIs
<1>8. /\ page.total = OfDocs(Totals, Sales(p)) /\ page.total_cost = OfDocs(Costs, Sales(p))
      /\ page.total_profit = OfDocs(Profits, Sales(p))
  BY <1>1, PageIs
<1>9. ReportSales(<<a, p[2]>>).total = OfDocs(Totals, Sales(<<a, p[2]>>))
  BY <1>1, PageIs
<1>10. OfDocs(Totals, Sales(<<a, p[2]>>)) = OfDocs(Totals, Sales(p)) + OfDocs(Totals, Sales(<<a, p[1] - 1>>))
  BY <1>1, <1>4, PeriodsTogether
<1>11. summary.revenue + dashboard.prev.revenue = ReportSales(<<2 * p[1] - p[2] - 1, p[2]>>).total
  BY <1>3, <1>6, <1>7, <1>9, <1>10
<1>12. /\ RevenueOf(daily) = OfDocs(Totals, Sales(p)) /\ ProfitOf(daily) = OfDocs(Profits, Sales(p))
       /\ OrdersOf(daily) = Cardinality(Sales(p))
  BY <1>1, DaysAgree
<1>13. (\A d \in Sales(p) : ~ Document[d].given) => TopItems(p).amount = OfDocs(Totals, Sales(p))
  BY <1>1, ItemsAre
<1>14. /\ Sum(sold, LAMBDA r : r.total) = OfDocs(Totals, Sales(p))
       /\ Sum(PurchaseSalesBook(p) \ sold, LAMBDA r : r.total) = OfDocs(Totals, Invoices("prihod", p))
  BY <1>1, BookIs
<1>15. Sum(TopCounterparties(p), LAMBDA r : r.amount)
         = OfDocs(Totals, Sales(p))
           - Sum({r \in report : Header[r.doc].kontragent = NoOne}, LAMBDA r : r.total)
  BY <1>1, CounterpartiesAre
<1>16. /\ Sum(AccountingEntries(p), LAMBDA e : IF e.entry.credit = "90.1" THEN e.entry.amount ELSE 0)
            = OfDocs(Totals, Sales(p))
       /\ Sum(AccountingEntries(p), LAMBDA e : IF e.entry.debit = "90.2" THEN e.entry.amount ELSE 0)
            = OfDocs(Costs, Sales(p))
  BY EntriesOfSales
<1> QED BY <1>6, <1>8, <1>11, <1>12, <1>13, <1>14, <1>15, <1>16 DEF SalesAgreeIn

\* What the reports on sales say.
LEMMA InvariantGivesSales ==
  BooksInv => SalesReportsAgree
<1> SUFFICES ASSUME BooksInv PROVE SalesReportsAgree
  OBVIOUS
<1>1. {r.doc : r \in SalesReport(<<0, LastDay>>)} \in RecentSales(Cardinality(Docs))
  BY RecentAre DEF BooksInv
<1>2. ASSUME NEW p \in Periods
      PROVE  LET report == SalesReport(p)
                 page == ReportSales(p)
                 dashboard == Dashboard(p[2], p[1])
                 summary == dashboard.cur
                 daily == DailySales(p)
                 sold == {r \in PurchaseSalesBook(p) : r.kind = "sale"}
             IN SalesAgreeIn(p, report, page, dashboard, summary, daily, sold)
  BY PeriodAgrees
<1> QED BY <1>1, <1>2 DEF SalesReportsAgree, SalesAgreeIn, RevenueOf, ProfitOf, OrdersOf

\* The reports on sales, made from documents, movements and entries, agree, and
\* those made from lines too where no sale was given a total.
THEOREM SalesReportsHold == TillSpec => []SalesReportsAgree
BY BooksHold, InvariantGivesSales, PTL

=============================================================================
