------------------------ MODULE MCStockConcurrency -------------------------
(***************************************************************************)
(* StockConcurrency for TLC.                                               *)
(***************************************************************************)
EXTENDS StockConcurrency, TLC

CONSTANTS s1, s2, in1, in2, sale, writeOff, order1, order2, r1, r2, r3

MCQuantity == [d \in Docs |-> IF d \in {in1, sale, order1} THEN 2 ELSE 1]

Alike == Permutations(Sessions) \cup Permutations(Ids)

=============================================================================
