------------------------- MODULE DocumentNumbering --------------------------
(***************************************************************************)
(* The number of a new document: one more than the greatest number of its  *)
(* type, which PostgreSQL compares as text                                 *)
(* (next_document_number in app/services/document_service.py).             *)
(*                                                                         *)
(* A number is a prefix and a count, "UT" "ZAKAZ-" "00042".  One given by  *)
(* hand may be any string: one that looks like those counted, or one with  *)
(* a prefix of its own and the count that parsing makes of it, 0 if none.  *)
(***************************************************************************)
EXTENDS Integers, FiniteSets

CONSTANTS
  PrefixIB,  \* values of the constant prefix_ib, and whatever stands before
             \* the count of a number given by hand
  Rank       \* their order as text

ASSUME NumberingAssumption ==
  /\ IsFiniteSet(PrefixIB)
  /\ Rank \in [PrefixIB -> Nat]
  /\ \A p, q \in PrefixIB : Rank[p] = Rank[q] => p = q

\* Counts are padded to five digits: {last + 1:05d}.
Padded == 100000

DocNumber == [prefix : PrefixIB, count : Nat]

\* Where a count stands among the others as text: a sixth digit counts only
\* among counts that share the first five.
TextKey(k) == IF k < Padded THEN 20 * k ELSE 2 * k + 1

TextLess(a, b) ==
  \/ Rank[a.prefix] < Rank[b.prefix]
  \/ a.prefix = b.prefix /\ TextKey(a.count) < TextKey(b.count)

\* max(Document.number) and the count parsed from it.
LastCount(numbers) ==
  IF numbers = {} THEN 0
  ELSE (CHOOSE a \in numbers : \A b \in numbers : ~ TextLess(a, b)).count

NextNumber(prefix, numbers) == [prefix |-> prefix, count |-> LastCount(numbers) + 1]

=============================================================================
