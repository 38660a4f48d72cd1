------------------------------- MODULE Books -------------------------------
(***************************************************************************)
(* The books beside the stock: what posting a document writes into the     *)
(* registers of money and of settlements and into the accounts, and what   *)
(* cancelling it deletes (app/services/document_service.py).  Goods        *)
(* documents are those of StockLedger; payments move money only.           *)
(*                                                                         *)
(* A posting is one transaction, and is one step here.                     *)
(***************************************************************************)
EXTENDS StockLedger

CONSTANTS
  Payment,   \* the payments: [type, total]
  Header,    \* of every document: [date, subtype, kontragent, kassa, base, nds]
  NoOne

Payments == DOMAIN Payment
AllDocs == Docs \cup Payments
PaymentType == {"prihodny_kassovy_order", "rashodny_kassovy_order", "platezhnoe_poruchenie",
                "vvod_ostatkov_deneg"}
DocSubtype == {"cash", "credit", "realization"}
Dates == Nat

ASSUME BooksAssumption ==
  /\ IsFiniteSet(Payments)
  /\ Docs \cap Payments = {}
  /\ \A d \in Payments : Payment[d].type \in PaymentType /\ Payment[d].total \in Nat
  /\ \A d \in AllDocs :
       /\ Header[d].date \in Dates
       /\ Header[d].subtype \in DocSubtype \cup {NoOne}
       /\ Header[d].base \in AllDocs \cup {NoOne}
       /\ Header[d].nds \in Nat

VARIABLES
  paid,        \* the posted payments
  money,       \* money_movements of each document
  settlements, \* settlement_movements of each document
  entries      \* accounting_entries of each document

registers == <<paid, money, settlements, entries>>

TypeOf(d) == IF d \in Docs THEN Document[d].type ELSE Payment[d].type
TotalOf(d) == IF d \in Docs THEN Total(d) ELSE Payment[d].total
Posted == posted \cup paid

\* What is bought, or taken over to be sold, belongs to its owner until paid.
Ownership(d) ==
  IF TypeOf(d) = "prihod" /\ Header[d].subtype = "realization" THEN "received" ELSE "own"

-----------------------------------------------------------------------------
\* _apply_money_and_settlement: the sign of the debt and of the money a
\* document makes, 0 for none.  A debt is positive when it is owed to us.
DebtOf(d) ==
  LET type == TypeOf(d) IN
  IF Header[d].kontragent = NoOne THEN 0
  ELSE IF type = "rashod" /\ Header[d].subtype \in {"credit", "realization"} THEN 1
  ELSE IF type = "prihod" /\ Header[d].subtype \in {"credit", "realization"} THEN -1
  ELSE IF type = "prihodny_kassovy_order" THEN -1
  ELSE IF type \in {"rashodny_kassovy_order", "platezhnoe_poruchenie"} THEN 1
  ELSE 0

MoneyOf(d) ==
  LET type == TypeOf(d) IN
  IF type \in {"rashod", "prihod"} /\ Header[d].subtype = "cash"
  THEN IF type = "rashod" THEN 1 ELSE -1
  ELSE IF type \in {"prihodny_kassovy_order", "vvod_ostatkov_deneg"} THEN 1
  ELSE IF type \in {"rashodny_kassovy_order", "platezhnoe_poruchenie"} THEN -1
  ELSE 0

\* An invoice is its own base, a payment has the one it was given.
SettlementRows(d) ==
  IF DebtOf(d) = 0 THEN <<>>
  ELSE <<[date |-> Header[d].date, kontragent |-> Header[d].kontragent,
          base |-> IF d \in Docs THEN d ELSE Header[d].base, amount |-> DebtOf(d) * TotalOf(d)]>>

MoneyRows(d) ==
  IF MoneyOf(d) = 0 THEN <<>>
  ELSE <<[date |-> Header[d].date, kassa |-> Header[d].kassa, amount |-> MoneyOf(d) * TotalOf(d)]>>

\* entry, within _apply_accounting: an amount of zero makes no row.
Entry(d, debit, credit, amount) ==
  IF amount = 0 THEN <<>>
  ELSE <<[date |-> Header[d].date, debit |-> debit, credit |-> credit, amount |-> amount]>>

\* _apply_accounting, and the entry of _apply_revaluation.  m are the movements
\* of the document, revalued what its revaluation came to; the row of a
\* revaluation that rounds to zero is left out, since it comes to nothing.
EntryRows(d, m, revalued) ==
  LET type == TypeOf(d) IN
  CASE type = "prihod" -> Entry(d, "41", "60", TotalOf(d))
    [] type = "vozvrat" -> Entry(d, "41", "62", TotalOf(d))
    [] type = "rashod" -> Entry(d, "62", "90.1", TotalOf(d)) \o Entry(d, "90.2", "41", OutgoingCost(m))
    [] type = "spisanie" -> Entry(d, "91.2", "41", OutgoingCost(m))
    [] type = "oprihodovanie" -> Entry(d, "41", "91.1", TotalOf(d))
    [] type = "inventarizaciya" -> Entry(d, "41", "91.1", IncomingCost(m)) \o Entry(d, "94", "41", OutgoingCost(m))
    [] type = "vvod_ostatkov" -> Entry(d, "41", "00", TotalOf(d))
    [] type = "vvod_ostatkov_deneg" -> Entry(d, "50", "00", TotalOf(d))
    [] type = "prihodny_kassovy_order" -> Entry(d, "50", "62", TotalOf(d))
    [] type = "rashodny_kassovy_order" -> Entry(d, "62", "50", TotalOf(d))
    [] type = "platezhnoe_poruchenie" -> Entry(d, "60", "51", TotalOf(d))
    [] type = "pereocenka" -> IF revalued > 0 THEN Entry(d, "41", "91.1", revalued)
                              ELSE Entry(d, "91.2", "41", -revalued)
    [] OTHER -> <<>>

-----------------------------------------------------------------------------
BooksInit ==
  /\ Init
  /\ paid = {}
  /\ money = [d \in AllDocs |-> <<>>]
  /\ settlements = [d \in AllDocs |-> <<>>]
  /\ entries = [d \in AllDocs |-> <<>>]

Enter(d, m, revalued) ==
  /\ money' = [money EXCEPT ![d] = MoneyRows(d)]
  /\ settlements' = [settlements EXCEPT ![d] = SettlementRows(d)]
  /\ entries' = [entries EXCEPT ![d] = EntryRows(d, m, revalued)]

\* Mutant of DeleteMovements: settlements stay.
DeleteMoneyOnly(d) ==
  /\ money' = [money EXCEPT ![d] = <<>>]
  /\ entries' = [entries EXCEPT ![d] = <<>>]
  /\ UNCHANGED settlements

\* _delete_movements.
DeleteMovements(d) ==
  /\ money' = [money EXCEPT ![d] = <<>>]
  /\ settlements' = [settlements EXCEPT ![d] = <<>>]
  /\ entries' = [entries EXCEPT ![d] = <<>>]

PostGoods(d) ==
  /\ PostDocument(d) \/ PostRevaluation(d)
  /\ Enter(d, moves'[d], acc41'[d])
  /\ UNCHANGED paid

UnpostGoods(d) ==
  /\ UnpostDocument(d) \/ UnpostRevaluation(d)
  /\ DeleteMovements(d)
  /\ UNCHANGED paid

PostPayment(d) ==
  /\ d \notin paid /\ paid' = paid \cup {d}
  /\ Enter(d, <<>>, 0)
  /\ UNCHANGED vars

UnpostPayment(d) ==
  /\ d \in paid /\ paid' = paid \ {d}
  /\ DeleteMovements(d)
  /\ UNCHANGED vars

BooksNext ==
  \/ \E d \in Docs : PostGoods(d) \/ UnpostGoods(d)
  \/ \E d \in Payments : PostPayment(d) \/ UnpostPayment(d)

-----------------------------------------------------------------------------
\* What the rows of a register come to.
SumIn(register, Test(_)) ==
  SumOver({r \in RowsIn(register) : Test(register[r[1]][r[2]])}, LAMBDA r : register[r[1]][r[2]].amount)

\* The balance of an account: what was debited less what was credited.
BalanceOf(account) ==
  SumIn(entries, LAMBDA e : e.debit = account) - SumIn(entries, LAMBDA e : e.credit = account)

TotalPosted(Test(_)) == SumOver({d \in Posted : Test(d)}, TotalOf)

Is(d, type, subtype) == TypeOf(d) = type /\ Header[d].subtype = subtype

\* The accounts and the registers, each written by its own code, tell of the
\* same money and the same debts, but for what one of them leaves out: an
\* invoice in cash is entered as a debt and never as money (_apply_accounting
\* does not look at the subtype), and a return or a document of nobody makes
\* no settlement.
AccountsMatchRegisters ==
  LET cashSales == TotalPosted(LAMBDA d : Is(d, "rashod", "cash"))
      cashPurchases == TotalPosted(LAMBDA d : Is(d, "prihod", "cash"))
      returns == TotalPosted(LAMBDA d : TypeOf(d) = "vozvrat")
      unsettled == TotalPosted(LAMBDA d : DebtOf(d) = 0 /\ MoneyOf(d) = 0 /\ TypeOf(d) = "rashod")
                 - TotalPosted(LAMBDA d : DebtOf(d) = 0 /\ MoneyOf(d) = 0 /\ TypeOf(d) = "prihod")
                 + SumOver({d \in paid : DebtOf(d) = 0 /\ TypeOf(d) # "vvod_ostatkov_deneg"},
                           LAMBDA d : -MoneyOf(d) * TotalOf(d))
  IN /\ BalanceOf("50") + BalanceOf("51")
          = SumIn(money, LAMBDA m : TRUE) - cashSales + cashPurchases
     /\ BalanceOf("60") + BalanceOf("62")
          = SumIn(settlements, LAMBDA s : TRUE) + cashSales - cashPurchases - returns + unsettled
     /\ BalanceOf("41") = SumOver(Docs, LAMBDA d : acc41[d])

=============================================================================
