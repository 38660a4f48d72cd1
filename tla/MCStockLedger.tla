--------------------------- MODULE MCStockLedger ---------------------------
(***************************************************************************)
(* StockLedger for TLC: two warehouses and a document of each kind of      *)
(* movement.  A quantity of 1000 is one, and so is a price of 10000.       *)
(***************************************************************************)
EXTENDS StockLedger

MCSklady == {"A", "B"}

Line(sklad, qty, price) == [sklad |-> sklad, qty |-> qty, price |-> price]

Doc(type, to, lines) == [type |-> type, to |-> to, lines |-> lines, given |-> FALSE, total |-> 0]

\* A purchase that brings in two batches at different prices, of which one comes
\* to half a hundredth, a sale whose two lines name the good twice, a sale of
\* the other warehouse with a line below zero, a transfer of a quantity that
\* spans two batches and of one below zero, an inventory, one that counts a
\* warehouse twice, and a revaluation of both warehouses.
MCDocument ==
  [prihod   |-> Doc("prihod", "A", <<Line("A", 2000, 10000), Line("A", 3500, 20100)>>),
   rashodA  |-> Doc("rashod", "A", <<Line("A", 2000, 30000), Line("A", 4000, 30000)>>),
   rashodB  |-> Doc("rashod", "A", <<Line("B", 3000, 30000), Line("B", -1000, 30000)>>),
   transfer |-> Doc("peremeshenie", "B", <<Line("A", 3000, 0), Line("A", -1000, 0)>>),
   count    |-> Doc("inventarizaciya", "A", <<Line("A", 6000, 10000)>>),
   recount  |-> Doc("inventarizaciya", "A", <<Line("B", 4000, 10000), Line("B", 3000, 10000)>>),
   revalue  |-> Doc("pereocenka", "A", <<Line("A", 1000, 15000), Line("B", 1000, 12000)>>),
   minus    |-> Doc("vozvrat", "A", <<Line("B", -1000, 10000)>>)]

\* A purchase, a revaluation whose two lines name one warehouse, and another one.
MCRevalued ==
  [prihod  |-> Doc("prihod", "A", <<Line("A", 2000, 10000)>>),
   revalue |-> Doc("pereocenka", "A", <<Line("A", 1000, 15000), Line("A", 1000, 17000)>>),
   again   |-> Doc("pereocenka", "A", <<Line("A", 1000, 12000)>>)]

MCReserved == [s \in MCSklady |-> 1000]

MCSettings == {<<"by_warehouse", "fifo">>, <<"by_firm", "lifo">>, <<"none", "average">>}

=============================================================================
