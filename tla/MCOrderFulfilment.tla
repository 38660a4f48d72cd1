------------------------- MODULE MCOrderFulfilment -------------------------
(***************************************************************************)
(* OrderFulfilment for TLC: two orders that compete for one good, so that  *)
(* goods, orders, sales and sessions may each be permuted.                 *)
(***************************************************************************)
EXTENDS OrderFulfilment, TLC

CONSTANTS s1, s2, order1, order2, k1, k2, tea

MCLines == [o \in Orders |-> <<[good |-> tea, qty |-> 1]>>]

Alike == Permutations(Sessions) \cup Permutations(Sales) \cup Permutations(Orders)

\* Bounds of the model: no state is looked beyond in which one order may be
\* sold again and someone took the good without regard to reservations.
MCNotAll == again = {} \/ cut = {}

=============================================================================
