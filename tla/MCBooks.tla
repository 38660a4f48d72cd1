------------------------------ MODULE MCBooks ------------------------------
(***************************************************************************)
(* The books, their reports and the shifts of the cash desks for TLC: a    *)
(* purchase of goods to be sold for their owner, at a given total, and the *)
(* payment of it, a sale at the till that comes to half a hundredth,       *)
(* one on credit with a line below zero and the money for it, a return.    *)
(***************************************************************************)
EXTENDS Reports, CashShifts, TLC

Alike == Permutations(Requests)

MCSklady == {"A"}

Line(qty, price) == [sklad |-> "A", qty |-> qty, price |-> price]

Doc(type, lines) == [type |-> type, to |-> "A", lines |-> lines, given |-> FALSE, total |-> 0]

At(total, d) == [d EXCEPT !.given = TRUE, !.total = total]

MCDocument ==
  [bought  |-> At(15000, Doc("prihod", <<Line(2000, 10000)>>)),
   till    |-> Doc("rashod", <<Line(500, 30100)>>),
   credit  |-> Doc("rashod", <<Line(2500, 25000), Line(-500, 25000)>>),
   returned |-> Doc("vozvrat", <<Line(1000, 30000)>>)]

MCPayment ==
  [received |-> [type |-> "prihodny_kassovy_order", total |-> 40000],
   handed   |-> [type |-> "rashodny_kassovy_order", total |-> 20000]]

HeaderOf(date, subtype, kontragent, kassa, base) ==
  [date |-> date, subtype |-> subtype, kontragent |-> kontragent, kassa |-> kassa, base |-> base, nds |-> 0]

MCHeader ==
  [bought   |-> HeaderOf(0, "realization", "owner", NoOne, NoOne),
   till     |-> HeaderOf(0, "cash", NoOne, NoOne, NoOne),
   credit   |-> HeaderOf(1, "credit", "buyer", NoOne, NoOne),
   returned |-> HeaderOf(1, NoOne, "buyer", NoOne, NoOne),
   received |-> HeaderOf(1, NoOne, "buyer", "k1", "credit"),
   handed   |-> HeaderOf(0, NoOne, "owner", "k1", "bought")]

MCReserved == [s \in MCSklady |-> 0]
MCSettings == {<<"none", "fifo">>}

\* A bound of the model: the books of goods and the shifts take turns, since
\* a shift depends on what money there is and not on when it came.
OnlyPayments == posted = {} /\ batches = <<>>
NoShifts == shifts = <<>> /\ \A r \in Requests : req[r] = Idle

InitBooks == BooksInit /\ ShiftsInit

TakeTurns == IF till' = till THEN NoShifts \/ paid' # paid ELSE OnlyPayments

SpecBooks == InitBooks /\ [][TillNext /\ TakeTurns]_<<vars, registers, till>>

=============================================================================
