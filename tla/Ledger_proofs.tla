--------------------------- MODULE Ledger_proofs ---------------------------
(***************************************************************************)
(* The batches, the movements and account 41 agree, whatever was posted    *)
(* and cancelled in whatever order.                                        *)
(*                                                                         *)
(* The loops of the code are recursive functions in StockLedger; each is   *)
(* unfolded into a function `after' with a state for every turn, and what  *)
(* holds at every turn is shown by UpTo, which looks for the first turn    *)
(* where it does not.  WorkFits says what a posting may have done so far   *)
(* to the batches it found and to those it made; LedgerInv is what every   *)
(* step keeps.  The shifts of the cash desks, which count the money of the *)
(* same documents, and the books, whose entries are compared with the      *)
(* registers document by document, come next.                              *)
(***************************************************************************)
EXTENDS CashShifts, FiniteSums, SequenceTheorems, TLAPS

-----------------------------------------------------------------------------
\* What is true of 0, and of every number up to n that follows one of which it
\* is true, is true up to n.
LEMMA UpTo ==
  ASSUME NEW n \in Nat, NEW S, 0 \in S, \A k \in 1 .. n : k - 1 \in S => k \in S
  PROVE  \A k \in 0 .. n : k \in S
<1> DEFINE B == {k \in 0 .. n : k \notin S}
<1> SUFFICES ASSUME B # {} PROVE FALSE
  OBVIOUS
<1>1. B \subseteq Nat
  OBVIOUS
<1>2. PICK m \in B : \A k \in B : ~ (<<k, m>> \in OpToRel(<, Nat))
  <2> HIDE DEF B
  <2> QED BY <1>1, NatLessThanWellFounded, WFMin
<1>3. m \in 1 .. n /\ m - 1 \in 0 .. n
  OBVIOUS
<1>4. m - 1 \notin B
  <2>1. <<m - 1, m>> \in OpToRel(<, Nat)
    BY <1>3 DEF OpToRel
  <2> QED BY <1>2, <2>1
<1> QED BY <1>3, <1>4

\* The recursions of the model have a solution, each of them: made for n from
\* one for n - 1.
Taking(after, W, sklad, qty, how) ==
  /\ after[0] = [W |-> W, left |-> qty, amount |-> 0]
  /\ \A k \in 1 .. Len(W.b) : after[k] = TakeStep(W, sklad, how, after[k - 1], k)
  /\ TakeBatches(W, sklad, qty, how) = after[Len(W.b)]

\* consume_batches has a run: one state of the loop for each batch it reaches.
LEMMA TakingUnfolds ==
  ASSUME NEW W, NEW sklad, NEW qty, NEW how, Len(W.b) \in Nat
  PROVE  \E after : Taking(after, W, sklad, qty, how)
<1> DEFINE n == Len(W.b)
           First == [W |-> W, left |-> qty, amount |-> 0]
           Step(C, k) == TakeStep(W, sklad, how, C, k)
           Solves(f, j) == f = [k \in 0 .. j |-> IF k = 0 THEN First ELSE Step(f[k - 1], k)]
           S == {j \in 0 .. n : \E f : Solves(f, j)}
<1>1. 0 \in S
  <2> DEFINE g == [k \in 0 .. 0 |-> First]
  <2> HIDE DEF First, Step
  <2>1. Solves(g, 0)
    OBVIOUS
  <2> HIDE DEF g, Solves
  <2> QED BY <2>1
<1>2. ASSUME NEW j \in 1 .. n, j - 1 \in S PROVE j \in S
  <2> HIDE DEF First, Step, n
  <2>1. PICK f : Solves(f, j - 1)
    BY <1>2
  <2> DEFINE g == [k \in 0 .. j |-> IF k = j THEN Step(f[j - 1], j) ELSE f[k]]
  <2>2. ASSUME NEW k \in 0 .. j PROVE g[k] = IF k = 0 THEN First ELSE Step(g[k - 1], k)
    <3>1. CASE k = j
      BY <3>1
    <3>2. CASE k # j
      <4>1. k \in 0 .. j - 1 /\ (k # 0 => k - 1 \in 0 .. j - 1)
        BY <3>2
      <4>2. g[k] = f[k] /\ (k # 0 => g[k - 1] = f[k - 1])
        BY <3>2, <4>1
      <4>3. f[k] = IF k = 0 THEN First ELSE Step(f[k - 1], k)
        <5> HIDE DEF g
        <5> QED BY <2>1, <4>1
      <4> QED BY <4>2, <4>3
    <3> QED BY <3>1, <3>2
  <2>3. Solves(g, j)
    <3>1. g = [k \in 0 .. j |-> g[k]]
      OBVIOUS
    <3> HIDE DEF g
    <3> QED BY <2>2, <3>1
  <2>4. j \in 0 .. n
    BY DEF n
  <2> HIDE DEF g, Solves
  <2> QED BY <2>3, <2>4
<1>3. \E f : Solves(f, n)
  <2>1. \A j \in 1 .. n : j - 1 \in S => j \in S
    BY <1>2
  <2> HIDE DEF S
  <2>2. \A j \in 0 .. n : j \in S
    BY ONLY n \in Nat, <1>1, <2>1, UpTo
  <2>3. n \in S
    BY <2>2
  <2> QED BY <2>3 DEF S
<1> DEFINE after == CHOOSE f : Solves(f, n)
<1>4. Solves(after, n)
  <2> HIDE DEF Solves
  <2> QED BY <1>3
<1>5. TakeBatches(W, sklad, qty, how) = after[n]
  BY DEF TakeBatches
<1>6. after[0] = First /\ \A k \in 1 .. n : after[k] = Step(after[k - 1], k)
  <2> HIDE DEF after, First, Step
  <2>1. after[0] = First
    BY <1>4
  <2>2. ASSUME NEW k \in 1 .. n PROVE after[k] = Step(after[k - 1], k)
    <3>1. k \in 0 .. n /\ k # 0
      OBVIOUS
    <3> QED BY <1>4, <3>1
  <2> QED BY <2>1, <2>2
<1> HIDE DEF after
<1>7. Taking(after, W, sklad, qty, how)
  BY <1>5, <1>6 DEF Taking
<1> QED BY <1>7

Posting(after, b, d) ==
  /\ after[0] = CheckStock(Begin(b), d)
  /\ \A k \in 1 .. Len(Document[d].lines) : after[k] = LineStep(after[k - 1], d, Document[d].lines[k])
  /\ ApplyLines(b, d) = after[Len(Document[d].lines)]

\* The movements of a document have one too, with a state for each line.
LEMMA PostingUnfolds ==
  ASSUME NEW b, NEW d, Len(Document[d].lines) \in Nat
  PROVE  \E after : Posting(after, b, d)
<1> DEFINE n == Len(Document[d].lines)
           First == CheckStock(Begin(b), d)
           Step(C, k) == LineStep(C, d, Document[d].lines[k])
           Solves(f, j) == f = [k \in 0 .. j |-> IF k = 0 THEN First ELSE Step(f[k - 1], k)]
           S == {j \in 0 .. n : \E f : Solves(f, j)}
<1>1. 0 \in S
  <2> DEFINE g == [k \in 0 .. 0 |-> First]
  <2> HIDE DEF First, Step
  <2>1. Solves(g, 0)
    OBVIOUS
  <2> HIDE DEF g, Solves
  <2> QED BY <2>1
<1>2. ASSUME NEW j \in 1 .. n, j - 1 \in S PROVE j \in S
  <2> HIDE DEF First, Step, n
  <2>1. PICK f : Solves(f, j - 1)
    BY <1>2
  <2> DEFINE g == [k \in 0 .. j |-> IF k = j THEN Step(f[j - 1], j) ELSE f[k]]
  <2>2. ASSUME NEW k \in 0 .. j PROVE g[k] = IF k = 0 THEN First ELSE Step(g[k - 1], k)
    <3>1. CASE k = j
      BY <3>1
    <3>2. CASE k # j
      <4>1. k \in 0 .. j - 1 /\ (k # 0 => k - 1 \in 0 .. j - 1)
        BY <3>2
      <4>2. g[k] = f[k] /\ (k # 0 => g[k - 1] = f[k - 1])
        BY <3>2, <4>1
      <4>3. f[k] = IF k = 0 THEN First ELSE Step(f[k - 1], k)
        <5> HIDE DEF g
        <5> QED BY <2>1, <4>1
      <4> QED BY <4>2, <4>3
    <3> QED BY <3>1, <3>2
  <2>3. Solves(g, j)
    <3>1. g = [k \in 0 .. j |-> g[k]]
      OBVIOUS
    <3> HIDE DEF g
    <3> QED BY <2>2, <3>1
  <2>4. j \in 0 .. n
    BY DEF n
  <2> HIDE DEF g, Solves
  <2> QED BY <2>3, <2>4
<1>3. \E f : Solves(f, n)
  <2>1. \A j \in 1 .. n : j - 1 \in S => j \in S
    BY <1>2
  <2> HIDE DEF S
  <2>2. \A j \in 0 .. n : j \in S
    BY ONLY n \in Nat, <1>1, <2>1, UpTo
  <2>3. n \in S
    BY <2>2
  <2> QED BY <2>3 DEF S
<1> DEFINE after == CHOOSE f : Solves(f, n)
<1>4. Solves(after, n)
  <2> HIDE DEF Solves
  <2> QED BY <1>3
<1>5. ApplyLines(b, d) = after[n]
  BY DEF ApplyLines
<1>6. after[0] = First /\ \A k \in 1 .. n : after[k] = Step(after[k - 1], k)
  <2> HIDE DEF after, First, Step
  <2>1. after[0] = First
    BY <1>4
  <2>2. ASSUME NEW k \in 1 .. n PROVE after[k] = Step(after[k - 1], k)
    <3>1. k \in 0 .. n /\ k # 0
      OBVIOUS
    <3> QED BY <1>4, <3>1
  <2> QED BY <2>1, <2>2
<1> HIDE DEF after
<1>7. Posting(after, b, d)
  BY <1>5, <1>6 DEF Posting
<1> QED BY <1>7

Revaluing(after, b, d) ==
  /\ after[0] = [b |-> b, log |-> <<>>, diff |-> 0]
  /\ \A k \in 1 .. Len(Document[d].lines) : after[k] = RevalueStep(after[k - 1], Document[d].lines[k])
  /\ Revalue(b, d) = after[Len(Document[d].lines)]

\* So has a revaluation.
LEMMA RevaluingUnfolds ==
  ASSUME NEW b, NEW d, Len(Document[d].lines) \in Nat
  PROVE  \E after : Revaluing(after, b, d)
<1> DEFINE n == Len(Document[d].lines)
           First == [b |-> b, log |-> <<>>, diff |-> 0]
           Step(C, k) == RevalueStep(C, Document[d].lines[k])
           Solves(f, j) == f = [k \in 0 .. j |-> IF k = 0 THEN First ELSE Step(f[k - 1], k)]
           S == {j \in 0 .. n : \E f : Solves(f, j)}
<1>1. 0 \in S
  <2> DEFINE g == [k \in 0 .. 0 |-> First]
  <2> HIDE DEF First, Step
  <2>1. Solves(g, 0)
    OBVIOUS
  <2> HIDE DEF g, Solves
  <2> QED BY <2>1
<1>2. ASSUME NEW j \in 1 .. n, j - 1 \in S PROVE j \in S
  <2> HIDE DEF First, Step, n
  <2>1. PICK f : Solves(f, j - 1)
    BY <1>2
  <2> DEFINE g == [k \in 0 .. j |-> IF k = j THEN Step(f[j - 1], j) ELSE f[k]]
  <2>2. ASSUME NEW k \in 0 .. j PROVE g[k] = IF k = 0 THEN First ELSE Step(g[k - 1], k)
    <3>1. CASE k = j
      BY <3>1
    <3>2. CASE k # j
      <4>1. k \in 0 .. j - 1 /\ (k # 0 => k - 1 \in 0 .. j - 1)
        BY <3>2
      <4>2. g[k] = f[k] /\ (k # 0 => g[k - 1] = f[k - 1])
        BY <3>2, <4>1
      <4>3. f[k] = IF k = 0 THEN First ELSE Step(f[k - 1], k)
        <5> HIDE DEF g
        <5> QED BY <2>1, <4>1
      <4> QED BY <4>2, <4>3
    <3> QED BY <3>1, <3>2
  <2>3. Solves(g, j)
    <3>1. g = [k \in 0 .. j |-> g[k]]
      OBVIOUS
    <3> HIDE DEF g
    <3> QED BY <2>2, <3>1
  <2>4. j \in 0 .. n
    BY DEF n
  <2> HIDE DEF g, Solves
  <2> QED BY <2>3, <2>4
<1>3. \E f : Solves(f, n)
  <2>1. \A j \in 1 .. n : j - 1 \in S => j \in S
    BY <1>2
  <2> HIDE DEF S
  <2>2. \A j \in 0 .. n : j \in S
    BY ONLY n \in Nat, <1>1, <2>1, UpTo
  <2>3. n \in S
    BY <2>2
  <2> QED BY <2>3 DEF S
<1> DEFINE after == CHOOSE f : Solves(f, n)
<1>4. Solves(after, n)
  <2> HIDE DEF Solves
  <2> QED BY <1>3
<1>5. Revalue(b, d) = after[n]
  BY DEF Revalue
<1>6. after[0] = First /\ \A k \in 1 .. n : after[k] = Step(after[k - 1], k)
  <2> HIDE DEF after, First, Step
  <2>1. after[0] = First
    BY <1>4
  <2>2. ASSUME NEW k \in 1 .. n PROVE after[k] = Step(after[k - 1], k)
    <3>1. k \in 0 .. n /\ k # 0
      OBVIOUS
    <3> QED BY <1>4, <3>1
  <2> QED BY <2>1, <2>2
<1> HIDE DEF after
<1>7. Revaluing(after, b, d)
  BY <1>5, <1>6 DEF Revaluing
<1> QED BY <1>7

Restoring(after, b, log) ==
  /\ after[0] = b
  /\ \A k \in 1 .. Len(log) : after[k] = RestoreStep(after[k - 1], log[k])
  /\ RestoreCosts(b, log) = after[Len(log)]

\* So has the cancelling of a revaluation.
LEMMA RestoringUnfolds ==
  ASSUME NEW b, NEW log, Len(log) \in Nat
  PROVE  \E after : Restoring(after, b, log)
<1> DEFINE n == Len(log)
           First == b
           Step(C, k) == RestoreStep(C, log[k])
           Solves(f, j) == f = [k \in 0 .. j |-> IF k = 0 THEN First ELSE Step(f[k - 1], k)]
           S == {j \in 0 .. n : \E f : Solves(f, j)}
<1>1. 0 \in S
  <2> DEFINE g == [k \in 0 .. 0 |-> First]
  <2> HIDE DEF First, Step
  <2>1. Solves(g, 0)
    OBVIOUS
  <2> HIDE DEF g, Solves
  <2> QED BY <2>1
<1>2. ASSUME NEW j \in 1 .. n, j - 1 \in S PROVE j \in S
  <2> HIDE DEF First, Step, n
  <2>1. PICK f : Solves(f, j - 1)
    BY <1>2
  <2> DEFINE g == [k \in 0 .. j |-> IF k = j THEN Step(f[j - 1], j) ELSE f[k]]
  <2>2. ASSUME NEW k \in 0 .. j PROVE g[k] = IF k = 0 THEN First ELSE Step(g[k - 1], k)
    <3>1. CASE k = j
      BY <3>1
    <3>2. CASE k # j
      <4>1. k \in 0 .. j - 1 /\ (k # 0 => k - 1 \in 0 .. j - 1)
        BY <3>2
      <4>2. g[k] = f[k] /\ (k # 0 => g[k - 1] = f[k - 1])
        BY <3>2, <4>1
      <4>3. f[k] = IF k = 0 THEN First ELSE Step(f[k - 1], k)
        <5> HIDE DEF g
        <5> QED BY <2>1, <4>1
      <4> QED BY <4>2, <4>3
    <3> QED BY <3>1, <3>2
  <2>3. Solves(g, j)
    <3>1. g = [k \in 0 .. j |-> g[k]]
      OBVIOUS
    <3> HIDE DEF g
    <3> QED BY <2>2, <3>1
  <2>4. j \in 0 .. n
    BY DEF n
  <2> HIDE DEF g, Solves
  <2> QED BY <2>3, <2>4
<1>3. \E f : Solves(f, n)
  <2>1. \A j \in 1 .. n : j - 1 \in S => j \in S
    BY <1>2
  <2> HIDE DEF S
  <2>2. \A j \in 0 .. n : j \in S
    BY ONLY n \in Nat, <1>1, <2>1, UpTo
  <2>3. n \in S
    BY <2>2
  <2> QED BY <2>3 DEF S
<1> DEFINE after == CHOOSE f : Solves(f, n)
<1>4. Solves(after, n)
  <2> HIDE DEF Solves
  <2> QED BY <1>3
<1>5. RestoreCosts(b, log) = after[n]
  BY DEF RestoreCosts
<1>6. after[0] = First /\ \A k \in 1 .. n : after[k] = Step(after[k - 1], k)
  <2> HIDE DEF after, First, Step
  <2>1. after[0] = First
    BY <1>4
  <2>2. ASSUME NEW k \in 1 .. n PROVE after[k] = Step(after[k - 1], k)
    <3>1. k \in 0 .. n /\ k # 0
      OBVIOUS
    <3> QED BY <1>4, <3>1
  <2> QED BY <2>1, <2>2
<1> HIDE DEF after
<1>7. Restoring(after, b, log)
  BY <1>5, <1>6 DEF Restoring
<1> QED BY <1>7

Undoing(after, b, d, m) ==
  /\ after[0] = [b |-> b, ok |-> TRUE, empty |-> {}]
  /\ \A k \in 1 .. Len(m) : after[k] = UndoStep(after[k - 1], d, m[k])
  /\ Rollback(b, d, m) = [ok |-> after[Len(m)].ok,
                                  b |-> [i \in DOMAIN after[Len(m)].b |->
                                           IF i \in after[Len(m)].empty THEN Gone ELSE after[Len(m)].b[i]]]

\* So has _rollback_stock, with a state for each movement.
LEMMA UndoingUnfolds ==
  ASSUME NEW b, NEW d, NEW m, Len(m) \in Nat
  PROVE  \E after : Undoing(after, b, d, m)
<1> DEFINE n == Len(m)
           First == [b |-> b, ok |-> TRUE, empty |-> {}]
           Step(C, k) == UndoStep(C, d, m[k])
           Solves(f, j) == f = [k \in 0 .. j |-> IF k = 0 THEN First ELSE Step(f[k - 1], k)]
           S == {j \in 0 .. n : \E f : Solves(f, j)}
<1>1. 0 \in S
  <2> DEFINE g == [k \in 0 .. 0 |-> First]
  <2> HIDE DEF First, Step
  <2>1. Solves(g, 0)
    OBVIOUS
  <2> HIDE DEF g, Solves
  <2> QED BY <2>1
<1>2. ASSUME NEW j \in 1 .. n, j - 1 \in S PROVE j \in S
  <2> HIDE DEF First, Step, n
  <2>1. PICK f : Solves(f, j - 1)
    BY <1>2
  <2> DEFINE g == [k \in 0 .. j |-> IF k = j THEN Step(f[j - 1], j) ELSE f[k]]
  <2>2. ASSUME NEW k \in 0 .. j PROVE g[k] = IF k = 0 THEN First ELSE Step(g[k - 1], k)
    <3>1. CASE k = j
      BY <3>1
    <3>2. CASE k # j
      <4>1. k \in 0 .. j - 1 /\ (k # 0 => k - 1 \in 0 .. j - 1)
        BY <3>2
      <4>2. g[k] = f[k] /\ (k # 0 => g[k - 1] = f[k - 1])
        BY <3>2, <4>1
      <4>3. f[k] = IF k = 0 THEN First ELSE Step(f[k - 1], k)
        <5> HIDE DEF g
        <5> QED BY <2>1, <4>1
      <4> QED BY <4>2, <4>3
    <3> QED BY <3>1, <3>2
  <2>3. Solves(g, j)
    <3>1. g = [k \in 0 .. j |-> g[k]]
      OBVIOUS
    <3> HIDE DEF g
    <3> QED BY <2>2, <3>1
  <2>4. j \in 0 .. n
    BY DEF n
  <2> HIDE DEF g, Solves
  <2> QED BY <2>3, <2>4
<1>3. \E f : Solves(f, n)
  <2>1. \A j \in 1 .. n : j - 1 \in S => j \in S
    BY <1>2
  <2> HIDE DEF S
  <2>2. \A j \in 0 .. n : j \in S
    BY ONLY n \in Nat, <1>1, <2>1, UpTo
  <2>3. n \in S
    BY <2>2
  <2> QED BY <2>3 DEF S
<1> DEFINE after == CHOOSE f : Solves(f, n)
<1>4. Solves(after, n)
  <2> HIDE DEF Solves
  <2> QED BY <1>3
<1>5. Rollback(b, d, m) = [ok |-> after[n].ok,
                         b |-> [i \in DOMAIN after[n].b |->
                                  IF i \in after[n].empty THEN Gone ELSE after[n].b[i]]]
  BY DEF Rollback
<1>6. after[0] = First /\ \A k \in 1 .. n : after[k] = Step(after[k - 1], k)
  <2> HIDE DEF after, First, Step
  <2>1. after[0] = First
    BY <1>4
  <2>2. ASSUME NEW k \in 1 .. n PROVE after[k] = Step(after[k - 1], k)
    <3>1. k \in 0 .. n /\ k # 0
      OBVIOUS
    <3> QED BY <1>4, <3>1
  <2> QED BY <2>1, <2>2
<1> HIDE DEF after
<1>7. Undoing(after, b, d, m)
  BY <1>5, <1>6 DEF Undoing
<1> QED BY <1>7

-----------------------------------------------------------------------------
(***************************************************************************)
(* Sums.                                                                   *)
(***************************************************************************)

\* A sum of what is at most zero is at most zero, and zero only if all is.
LEMMA SumNotPositive ==
  ASSUME NEW f, NEW S, IsFiniteSet(S), \A x \in S : f[x] \in Int /\ f[x] <= 0
  PROVE  /\ SumFunctionOnSet(f, S) \in Int
         /\ SumFunctionOnSet(f, S) <= 0
         /\ SumFunctionOnSet(f, S) = 0 => \A x \in S : f[x] = 0
<1>1. ASSUME NEW T \in SUBSET S PROVE SumFunctionOnSet(f, T) \in Int /\ SumFunctionOnSet(f, T) <= 0
  <2> DEFINE B == {V \in SUBSET T : ~ SumFunctionOnSet(f, V) <= 0}
  <2>1. IsFiniteSet(T)
    BY FS_Subset
  <2>2. \A V \in SUBSET T : SumFunctionOnSet(f, V) \in Int
    BY <2>1, FS_Subset, SumIsInt
  <2> SUFFICES ASSUME B # {} PROVE FALSE
    BY <2>2
  <2>3. PICK V \in B : \A X \in B : X \subseteq V => X = V
    <3> HIDE DEF B
    <3>1. B \in SUBSET (SUBSET T)
      BY DEF B
    <3> QED BY <2>1, <3>1, LeastSubset
  <2>4. V # {}
    <3>1. SumFunctionOnSet(f, {}) <= 0
      BY SumOfNone
    <3> QED BY <2>3, <3>1
  <2>5. PICK y \in V : TRUE
    BY <2>4
  <2>6. SumFunctionOnSet(f, V) = f[y] + SumFunctionOnSet(f, V \ {y})
    BY <2>1, <2>3, <2>5, FS_Subset, SumRemove
  <2>7. V \ {y} \notin B
    BY <2>3, <2>5
  <2> QED BY <2>2, <2>3, <2>5, <2>6, <2>7
<1>2. ASSUME SumFunctionOnSet(f, S) = 0, NEW x \in S PROVE f[x] = 0
  <2>1. SumFunctionOnSet(f, S) = f[x] + SumFunctionOnSet(f, S \ {x})
    BY SumRemove
  <2>2. SumFunctionOnSet(f, S \ {x}) \in Int /\ SumFunctionOnSet(f, S \ {x}) <= 0
    BY <1>1
  <2> QED BY <1>2, <2>1, <2>2
<1> QED BY <1>1, <1>2

\* One positive share among shares that are at most zero.
LEMMA SumWithOne ==
  ASSUME NEW f, NEW S, IsFiniteSet(S), \A x \in S : f[x] \in Int,
         NEW y \in S, \A x \in S \ {y} : f[x] <= 0
  PROVE  /\ SumFunctionOnSet(f, S) <= f[y]
         /\ SumFunctionOnSet(f, S) >= f[y] => \A x \in S \ {y} : f[x] = 0
         /\ (\A x \in S \ {y} : f[x] = 0) => SumFunctionOnSet(f, S) = f[y]
<1>1. SumFunctionOnSet(f, S) = f[y] + SumFunctionOnSet(f, S \ {y})
  BY SumRemove
<1>2. IsFiniteSet(S \ {y})
  BY FS_Subset
<1>3. /\ SumFunctionOnSet(f, S \ {y}) \in Int
      /\ SumFunctionOnSet(f, S \ {y}) <= 0
      /\ SumFunctionOnSet(f, S \ {y}) = 0 => \A x \in S \ {y} : f[x] = 0
  <2>1. \A x \in S \ {y} : f[x] \in Int /\ f[x] <= 0
    OBVIOUS
  <2> QED BY <1>2, <2>1, SumNotPositive
<1>4. (\A x \in S \ {y} : f[x] = 0) => SumFunctionOnSet(f, S \ {y}) = 0
  BY <1>2, SumOfZeros
<1> QED BY <1>1, <1>3, <1>4

\* a times q is c times f, but for at most h in either direction, at every
\* place: then so are the sums.
LEMMA SumNearby ==
  ASSUME NEW f, NEW q, NEW h, NEW S, IsFiniteSet(S), NEW a \in Int, NEW c \in Int,
         \A x \in S : /\ f[x] \in Int /\ q[x] \in Int /\ h[x] \in Int
                      /\ -h[x] <= q[x] * a - f[x] * c /\ q[x] * a - f[x] * c <= h[x]
  PROVE  LET off == SumFunctionOnSet(q, S) * a - SumFunctionOnSet(f, S) * c
         IN -SumFunctionOnSet(h, S) <= off /\ off <= SumFunctionOnSet(h, S)
<1> DEFINE Off(T) == SumFunctionOnSet(q, T) * a - SumFunctionOnSet(f, T) * c
           Near(T) == -SumFunctionOnSet(h, T) <= Off(T) /\ Off(T) <= SumFunctionOnSet(h, T)
           B == {T \in SUBSET S : ~ Near(T)}
<1> SUFFICES ASSUME B # {} PROVE FALSE
  OBVIOUS
<1>1. PICK T \in B : \A V \in B : V \subseteq T => V = T
  <2> HIDE DEF B
  <2>1. B \in SUBSET (SUBSET S)
    BY DEF B
  <2> QED BY <2>1, LeastSubset
<1>2. T # {}
  <2>1. SumFunctionOnSet(h, {}) = 0 /\ SumFunctionOnSet(f, {}) = 0 /\ SumFunctionOnSet(q, {}) = 0
    BY SumOfNone
  <2>2. Near({})
    BY <2>1
  <2> QED BY <1>1, <2>2
<1>3. PICK y \in T : TRUE
  BY <1>2
<1> DEFINE R == T \ {y}
<1>4. Near(R)
  BY <1>1, <1>3
<1>5. /\ SumFunctionOnSet(f, T) = f[y] + SumFunctionOnSet(f, R)
      /\ SumFunctionOnSet(q, T) = q[y] + SumFunctionOnSet(q, R)
      /\ SumFunctionOnSet(h, T) = h[y] + SumFunctionOnSet(h, R)
  <2>1. IsFiniteSet(T) /\ \A x \in T : f[x] \in Int /\ q[x] \in Int /\ h[x] \in Int
    BY <1>1, FS_Subset
  <2> QED BY <1>3, <2>1, SumRemove
<1>6. SumFunctionOnSet(f, R) \in Int /\ SumFunctionOnSet(q, R) \in Int /\ SumFunctionOnSet(h, R) \in Int
  <2>1. IsFiniteSet(R) /\ \A x \in R : f[x] \in Int /\ q[x] \in Int /\ h[x] \in Int
    BY <1>1, FS_Subset
  <2> QED BY <2>1, SumIsInt
<1>7. q[y] \in Int /\ f[y] \in Int /\ h[y] \in Int /\ -h[y] <= q[y] * a - f[y] * c /\ q[y] * a - f[y] * c <= h[y]
  BY <1>1, <1>3
<1>8. Near(T)
  <2> DEFINE Q == SumFunctionOnSet(q, R)
             F == SumFunctionOnSet(f, R)
             H == SumFunctionOnSet(h, R)
  <2>1. Off(T) = (q[y] + Q) * a - (f[y] + F) * c /\ SumFunctionOnSet(h, T) = h[y] + H
    BY <1>5
  <2>2. -H <= Q * a - F * c /\ Q * a - F * c <= H
    BY <1>4
  <2>3. Q \in Int /\ F \in Int /\ H \in Int
    BY <1>6
  <2>4. (q[y] + Q) * a = q[y] * a + Q * a /\ (f[y] + F) * c = f[y] * c + F * c
    BY <1>7, <2>3
  <2>5. Q * a \in Int /\ q[y] * a \in Int /\ F * c \in Int /\ f[y] * c \in Int
    BY <1>7, <2>3
  <2> HIDE DEF Q, F, H, Off
  <2> QED BY <1>7, <2>1, <2>2, <2>3, <2>4, <2>5
<1> QED BY <1>1, <1>8

\* A sum over T, which h maps S onto one to one.
LEMMA SumOfImage ==
  ASSUME NEW f, NEW g, NEW S, NEW T, IsFiniteSet(S), NEW h,
         \A x \in S : f[x] \in Int, \A x \in S : g[h[x]] = f[x],
         \A x, y \in S : h[x] = h[y] => x = y,
         \A x \in S : h[x] \in T, \A y \in T : \E x \in S : h[x] = y
  PROVE  SumFunctionOnSet(f, S) = SumFunctionOnSet(g, T)
<1>1. T = {h[x] : x \in S}
  OBVIOUS
<1>2. SumFunctionOnSet(f, S) = SumFunctionOnSet(g, {h[x] : x \in S})
  BY SumReindex
<1> QED BY <1>1, <1>2

\* The rows of the tables.
AnyBatch == [sklad : Sklady, qty : Int, cost : Int, src : Docs] \cup {Gone}
AnyRow == [batch : Nat, sklad : Sklady, qty : Int, amount : Int]

\* What the first k movements of one document come to for batch i.
Share(m, i) == [j \in DOMAIN m |-> IF m[j].batch = i THEN m[j].qty ELSE 0]
MovedBy(m, k, i) == SumFunctionOnSet(Share(m, i), 1 .. k)

\* The document took from batch i; it brought something into it.
Reduced(m, i) == \E k \in DOMAIN m : m[k].batch = i /\ m[k].qty < 0
Increased(m, i) == \E k \in DOMAIN m : m[k].batch = i /\ m[k].qty > 0

\* The movement that made batch i is the first of its document; nothing else
\* enters the batch, and nothing leaves one that began at zero or below.
Creates(m, k, i) ==
  /\ m[k].batch = i
  /\ \A j \in DOMAIN m : m[j].batch = i /\ j # k => j > k /\ m[j].qty <= 0 /\ m[k].qty > 0

-----------------------------------------------------------------------------
\* A transaction of document d that began with the batches b0.
WorkType(W) ==
  /\ W \in [b : Seq(AnyBatch), db : Seq(Int), m : Seq(AnyRow), ok : BOOLEAN]
  /\ Len(W.db) = Len(W.b)

OldBatch(W, b0, i) ==
  /\ W.b[i] = [b0[i] EXCEPT !.qty = W.b[i].qty]
  /\ W.b[i].qty = b0[i].qty + MovedBy(W.m, Len(W.m), i)
  /\ W.b[i].qty <= b0[i].qty
  /\ W.b[i].qty < 0 => W.b[i].qty = b0[i].qty
  /\ W.db[i] > 0 => b0[i].qty > 0
  /\ \A k \in DOMAIN W.m : W.m[k].batch = i => b0[i].qty > 0 /\ W.m[k].qty <= 0 /\ Reduced(W.m, i)

NewBatch(W, d, i) ==
  /\ W.b[i] # Gone /\ W.b[i].src = d
  /\ W.b[i].qty = MovedBy(W.m, Len(W.m), i)
  /\ W.b[i].qty < 0 => AllowNegative(Document[d].type) \/ BringsNegative(d, W.b[i].qty)
  /\ W.db[i] > 0 \/ W.b[i].qty > 0 => Increased(W.m, i)
  /\ \E k \in DOMAIN W.m : Creates(W.m, k, i)

\* What a SELECT sees is no less than what is in memory, and no batch it finds
\* is below zero.
SeenBatch(W, i) ==
  /\ W.b[i].qty <= W.db[i]
  /\ W.db[i] > 0 => 0 <= W.b[i].qty
  /\ W.db[i] > 0 /\ W.b[i].qty = 0 => Reduced(W.m, i)

\* A movement of a batch; one of no batch.
OfBatch(W, k) ==
  /\ W.m[k].batch \in DOMAIN W.b
  /\ W.m[k].sklad = W.b[W.m[k].batch].sklad
  /\ method # "average" => W.m[k].amount = Cents(W.m[k].qty * W.b[W.m[k].batch].cost)

OfNoBatch(W, k) == W.m[k].batch = NoBatch /\ W.m[k].qty >= 0 /\ W.m[k].amount = 0

RowFits(W, d, k) ==
  /\ OfBatch(W, k) \/ OfNoBatch(W, k)
  /\ W.m[k].qty = 0 => W.m[k].amount = 0
  /\ Document[d].type \in Outgoing => W.m[k].qty <= 0 \/ W.m[k].amount = 0

InOrder(W, b0) ==
  \A i, j \in DOMAIN b0 :
    b0[i].sklad = b0[j].sklad /\ Precedes(i, j) /\ W.b[j].qty < b0[j].qty => W.b[i].qty <= 0

WorkFits(W, b0, d) ==
  /\ b0 \in Seq(AnyBatch) /\ d \in Docs
  /\ WorkType(W)
  /\ Len(b0) <= Len(W.b)
  /\ \A i \in DOMAIN b0 : OldBatch(W, b0, i)
  /\ \A i \in DOMAIN W.b \ DOMAIN b0 : NewBatch(W, d, i)
  /\ \A i \in DOMAIN W.b : SeenBatch(W, i)
  /\ \A k \in DOMAIN W.m : RowFits(W, d, k)
  /\ InOrder(W, b0)

-----------------------------------------------------------------------------
\* The rows of a register of movements that name batch i, and what they come to.
BatchRows(mv, i) == {r \in RowsIn(mv) : mv[r[1]][r[2]].batch = i}
HeldIn(mv, i) == SumFunctionOnSet([r \in BatchRows(mv, i) |-> mv[r[1]][r[2]].qty], BatchRows(mv, i))

\* Row k of document e made batch i.
Founds(mv, e, k, i) ==
  /\ mv[e][k].batch = i
  /\ \A f \in Docs : \A j \in DOMAIN mv[f] :
       mv[f][j].batch = i /\ <<f, j>> # <<e, k>> =>
         /\ mv[f][j].qty <= 0 /\ mv[e][k].qty > 0
         /\ f = e => j > k

\* The batches b are what the movements mv of the posted documents p made.
Tables(b, mv, p) ==
  /\ b \in Seq(AnyBatch) /\ mv \in [Docs -> Seq(AnyRow)] /\ p \subseteq Docs
  /\ \A d \in Docs \ p : mv[d] = <<>>

Consistent(b, mv, p) ==
  /\ Tables(b, mv, p)
  /\ \A i \in DOMAIN b : b[i].qty = HeldIn(mv, i)
  /\ \A i \in DOMAIN b : b[i] # Gone => \E k \in DOMAIN mv[b[i].src] : Founds(mv, b[i].src, k, i)
  /\ \A d \in Docs : \A k \in DOMAIN mv[d] :
       LET i == mv[d][k].batch IN
       \/ i = NoBatch /\ mv[d][k].qty >= 0
       \/ i \in DOMAIN b /\ b[i] # Gone /\ mv[d][k].sklad = b[i].sklad /\ (b[i].src # d => Reduced(mv[d], i))

\* As long as nothing was recosted, an amount is that of its movement at the
\* cost of its batch.
AmountsFit(b, mv) ==
  \A d \in Docs : \A k \in DOMAIN mv[d] :
    mv[d][k].batch # NoBatch => mv[d][k].amount = Cents(mv[d][k].qty * b[mv[d][k].batch].cost)

\* The log of a revaluation holds a cost of each batch found, for each line.
LogFits(log) ==
  /\ Len(log) \in Nat
  /\ \A k \in 1 .. Len(log) : \A i \in DOMAIN log[k] : log[k][i] \in Int

-----------------------------------------------------------------------------
(***************************************************************************)
(* What movements come to.                                                 *)
(***************************************************************************)

\* What a sequence is, for the provers.
LEMMA SequenceIs ==
  ASSUME NEW X, NEW s \in Seq(X)
  PROVE  /\ Len(s) \in Nat /\ DOMAIN s = 1 .. Len(s) /\ IsFiniteSet(DOMAIN s)
         /\ \A k \in DOMAIN s : s[k] \in X
<1>1. Len(s) \in Nat /\ DOMAIN s = 1 .. Len(s)
  OBVIOUS
<1>2. IsFiniteSet(1 .. Len(s))
  BY <1>1, FS_Interval
<1> QED BY <1>1, <1>2

\* The image of a finite set is finite.
LEMMA ImageIsFinite ==
  ASSUME NEW S, IsFiniteSet(S), NEW h
  PROVE  IsFiniteSet({h[x] : x \in S})
<1> DEFINE T == {h[x] : x \in S}
           g == [x \in S |-> h[x]]
<1>1. g \in Surjection(S, T)
  BY DEF Surjection
<1> QED BY <1>1, FS_Surjection

\* The places of the movements of batch i, and their rows in the register.
Own(m, i) == {k \in DOMAIN m : m[k].batch = i}
OwnRows(d, m, i) == {<<d, k>> : k \in Own(m, i)}

\* The movements of one document sum to the same in the register.
LEMMA SumOfOwnRows ==
  ASSUME NEW d, NEW m, NEW i, NEW g, IsFiniteSet(Own(m, i)),
         \A k \in Own(m, i) : Share(m, i)[k] \in Int,
         \A k \in Own(m, i) : g[<<d, k>>] = Share(m, i)[k]
  PROVE  SumFunctionOnSet(Share(m, i), Own(m, i)) = SumFunctionOnSet(g, OwnRows(d, m, i))
<1> DEFINE h == [k \in Own(m, i) |-> <<d, k>>]
<1>1. /\ \A x \in Own(m, i) : h[x] \in OwnRows(d, m, i) /\ g[h[x]] = Share(m, i)[x]
      /\ \A x, y \in Own(m, i) : h[x] = h[y] => x = y
      /\ \A y \in OwnRows(d, m, i) : \E x \in Own(m, i) : h[x] = y
  BY DEF OwnRows
<1> HIDE DEF h
<1> QED BY <1>1, SumOfImage

\* The columns of a movement.
LEMMA RowFields ==
  \A row \in AnyRow : row.batch \in Nat /\ row.sklad \in Sklady /\ row.qty \in Int /\ row.amount \in Int
BY DEF AnyRow

\* What the first k movements come to, one movement after the other.
LEMMA MovedFacts ==
  ASSUME NEW m \in Seq(AnyRow), NEW i
  PROVE  /\ MovedBy(m, 0, i) = 0
         /\ \A k \in 0 .. Len(m) : MovedBy(m, k, i) \in Int
         /\ \A k \in 1 .. Len(m) : MovedBy(m, k, i) = MovedBy(m, k - 1, i) + Share(m, i)[k]
         /\ \A k \in DOMAIN m : Share(m, i)[k] \in Int
<1>1. Len(m) \in Nat /\ DOMAIN m = 1 .. Len(m)
  OBVIOUS
<1>2. \A k \in DOMAIN m : Share(m, i)[k] \in Int
  <2>1. \A k \in DOMAIN m : m[k] \in AnyRow
    BY <1>1
  <2> QED BY <2>1, RowFields DEF Share
<1>3. MovedBy(m, 0, i) = 0
  <2>1. 1 .. 0 = {}
    OBVIOUS
  <2> QED BY <2>1, SumOfNone DEF MovedBy
<1>4. ASSUME NEW k \in 0 .. Len(m) PROVE IsFiniteSet(1 .. k) /\ \A j \in 1 .. k : Share(m, i)[j] \in Int
  <2>1. IsFiniteSet(1 .. k)
    BY <1>1, FS_Interval
  <2> QED BY <1>1, <1>2, <2>1
<1>5. ASSUME NEW k \in 0 .. Len(m) PROVE MovedBy(m, k, i) \in Int
  BY <1>4, SumIsInt DEF MovedBy
<1>6. ASSUME NEW k \in 1 .. Len(m) PROVE MovedBy(m, k, i) = MovedBy(m, k - 1, i) + Share(m, i)[k]
  <2>1. (1 .. k) \ {k} = 1 .. k - 1 /\ k \in 1 .. k /\ k \in 0 .. Len(m)
    BY <1>1
  <2>2. SumFunctionOnSet(Share(m, i), 1 .. k)
        = Share(m, i)[k] + SumFunctionOnSet(Share(m, i), (1 .. k) \ {k})
    BY <1>4, <2>1, SumRemove, SMTT(30)
  <2>3. k - 1 \in 0 .. Len(m) /\ k \in DOMAIN m
    BY <1>1
  <2>4. MovedBy(m, k - 1, i) \in Int /\ Share(m, i)[k] \in Int
    BY <1>2, <1>5, <2>3
  <2>5. MovedBy(m, k, i) = Share(m, i)[k] + MovedBy(m, k - 1, i)
    BY <2>1, <2>2 DEF MovedBy
  <2> QED BY <2>4, <2>5
<1> QED BY <1>2, <1>3, <1>5, <1>6

\* What one more movement adds.
LEMMA MovedAppend ==
  ASSUME NEW m \in Seq(AnyRow), NEW row \in AnyRow, NEW i
  PROVE  /\ Append(m, row) \in Seq(AnyRow) /\ Len(Append(m, row)) = Len(m) + 1
         /\ \A k \in DOMAIN m : Append(m, row)[k] = m[k]
         /\ Append(m, row)[Len(m) + 1] = row
         /\ MovedBy(Append(m, row), Len(m) + 1, i)
              = MovedBy(m, Len(m), i) + (IF row.batch = i THEN row.qty ELSE 0)
<1> DEFINE m2 == Append(m, row)
<1>1. /\ m2 \in Seq(AnyRow) /\ Len(m2) = Len(m) + 1 /\ Len(m) \in Nat /\ DOMAIN m = 1 .. Len(m)
      /\ \A k \in DOMAIN m : m2[k] = m[k]
      /\ m2[Len(m) + 1] = row
  OBVIOUS
<1> HIDE DEF m2
<1>2. DOMAIN m2 = 1 .. Len(m) + 1
  BY <1>1
<1>3. MovedBy(m2, Len(m) + 1, i) = MovedBy(m2, Len(m), i) + Share(m2, i)[Len(m) + 1]
  BY <1>1, MovedFacts
<1>4. Share(m2, i)[Len(m) + 1] = IF row.batch = i THEN row.qty ELSE 0
  BY <1>1, <1>2 DEF Share
<1>5. \A k \in 1 .. Len(m) : Share(m2, i)[k] = Share(m, i)[k]
  BY <1>1, <1>2 DEF Share
<1>6. MovedBy(m2, Len(m), i) = MovedBy(m, Len(m), i)
  <2>1. IsFiniteSet(1 .. Len(m))
    BY <1>1, FS_Interval
  <2> QED BY <1>5, <2>1, SumSame DEF MovedBy
<1> QED BY <1>1, <1>3, <1>4, <1>6 DEF m2

\* The rows of a batch are finitely many rows of the register.
LEMMA MovementsAreFinite ==
  ASSUME NEW mv \in [Docs -> Seq(AnyRow)]
  PROVE  IsFiniteSet(RowsIn(mv)) /\ RowsIn(mv) = {r \in Docs \X Nat : r[2] \in DOMAIN mv[r[1]]}
<1> DEFINE Of(d) == {<<d, k>> : k \in DOMAIN mv[d]}
           of == [d \in Docs |-> Of(d)]
<1>1. \A d \in Docs : DOMAIN mv[d] = 1 .. Len(mv[d]) /\ Len(mv[d]) \in Nat
  OBVIOUS
<1>2. ASSUME NEW d \in Docs PROVE IsFiniteSet(Of(d))
  <2>1. IsFiniteSet(DOMAIN mv[d])
    BY <1>1, FS_Interval
  <2> DEFINE h == [k \in DOMAIN mv[d] |-> <<d, k>>]
  <2>2. Of(d) = {h[k] : k \in DOMAIN mv[d]}
    OBVIOUS
  <2> HIDE DEF h, Of
  <2> QED BY <2>1, <2>2, ImageIsFinite
<1>3. IsFiniteSet({Of(d) : d \in Docs})
  <2>1. {Of(d) : d \in Docs} = {of[d] : d \in Docs}
    OBVIOUS
  <2>2. IsFiniteSet(Docs)
    BY LedgerAssumption
  <2> HIDE DEF Of, of
  <2> DEFINE D == Docs
  <2>3. IsFiniteSet(D)
    BY <2>2
  <2>4. {Of(d) : d \in Docs} = {of[d] : d \in D}
    BY <2>1
  <2> HIDE DEF D
  <2>5. IsFiniteSet({of[d] : d \in D})
    BY <2>3, ImageIsFinite
  <2> QED BY <2>4, <2>5
<1>4. IsFiniteSet(UNION {Of(d) : d \in Docs})
  <2>1. \A T \in {Of(d) : d \in Docs} : IsFiniteSet(T)
    BY <1>2
  <2> HIDE DEF Of
  <2> QED BY <1>3, <2>1, FS_UNION
<1>5. RowsIn(mv) = UNION {Of(d) : d \in Docs}
  BY DEF RowsIn
<1>6. RowsIn(mv) = {r \in Docs \X Nat : r[2] \in DOMAIN mv[r[1]]}
  <2>1. ASSUME NEW r \in RowsIn(mv) PROVE r \in Docs \X Nat /\ r[2] \in DOMAIN mv[r[1]]
    <3>1. PICK d \in Docs : r \in Of(d)
      BY <1>5
    <3>2. PICK k \in DOMAIN mv[d] : r = <<d, k>>
      BY <3>1
    <3>3. k \in Nat
      BY <1>1
    <3> QED BY <3>2, <3>3
  <2>2. ASSUME NEW r \in Docs \X Nat, r[2] \in DOMAIN mv[r[1]] PROVE r \in RowsIn(mv)
    <3>1. r[1] \in Docs /\ r = <<r[1], r[2]>>
      OBVIOUS
    <3>2. r \in Of(r[1])
      BY <2>2, <3>1
    <3> HIDE DEF Of
    <3> QED BY <1>5, <3>1, <3>2
  <2> QED BY <2>1, <2>2
<1> QED BY <1>4, <1>5, <1>6

\* Those of one batch.
LEMMA RowsAreFinite ==
  ASSUME NEW mv \in [Docs -> Seq(AnyRow)], NEW i
  PROVE  /\ IsFiniteSet(BatchRows(mv, i))
         /\ BatchRows(mv, i) = {r \in Docs \X Nat : r[2] \in DOMAIN mv[r[1]] /\ mv[r[1]][r[2]].batch = i}
         /\ \A r \in BatchRows(mv, i) : mv[r[1]][r[2]] \in AnyRow
<1>1. IsFiniteSet(BatchRows(mv, i))
  BY MovementsAreFinite, FS_Subset DEF BatchRows
<1>2. BatchRows(mv, i) = {r \in Docs \X Nat : r[2] \in DOMAIN mv[r[1]] /\ mv[r[1]][r[2]].batch = i}
  BY MovementsAreFinite DEF BatchRows
<1>3. ASSUME NEW r \in BatchRows(mv, i) PROVE mv[r[1]][r[2]] \in AnyRow
  <2>1. r[1] \in Docs /\ r[2] \in DOMAIN mv[r[1]]
    BY <1>2
  <2> QED BY <2>1
<1> QED BY <1>1, <1>2, <1>3

\* What a batch holds is an integer.
LEMMA HeldIsInt ==
  ASSUME NEW mv \in [Docs -> Seq(AnyRow)], NEW i
  PROVE  HeldIn(mv, i) \in Int
<1>1. \A r \in BatchRows(mv, i) : [s \in BatchRows(mv, i) |-> mv[s[1]][s[2]].qty][r] \in Int
  BY RowsAreFinite DEF AnyRow
<1> QED BY <1>1, RowsAreFinite, SumIsInt, SMTT(30) DEF HeldIn

\* The movements of a document that had none are added.
LEMMA HeldAfter ==
  ASSUME NEW mv \in [Docs -> Seq(AnyRow)], NEW d \in Docs, mv[d] = <<>>,
         NEW m \in Seq(AnyRow), NEW i
  PROVE  HeldIn([mv EXCEPT ![d] = m], i) = HeldIn(mv, i) + MovedBy(m, Len(m), i)
<1> DEFINE mv2 == [mv EXCEPT ![d] = m]
           K == {k \in DOMAIN m : m[k].batch = i}
           f == [r \in BatchRows(mv, i) |-> mv[r[1]][r[2]].qty]
           f2 == [r \in BatchRows(mv2, i) |-> mv2[r[1]][r[2]].qty]
           h == [k \in K |-> <<d, k>>]
<1>1. mv2 \in [Docs -> Seq(AnyRow)] /\ mv2[d] = m /\ \A e \in Docs \ {d} : mv2[e] = mv[e]
  OBVIOUS
<1> HIDE DEF mv2
<1>2. Len(m) \in Nat /\ DOMAIN m = 1 .. Len(m) /\ DOMAIN mv[d] = {}
  OBVIOUS
<1>3. /\ BatchRows(mv, i) = {r \in Docs \X Nat : r[2] \in DOMAIN mv[r[1]] /\ mv[r[1]][r[2]].batch = i}
      /\ BatchRows(mv2, i) = {r \in Docs \X Nat : r[2] \in DOMAIN mv2[r[1]] /\ mv2[r[1]][r[2]].batch = i}
      /\ \A r \in BatchRows(mv, i) : r[1] # d /\ r \in BatchRows(mv2, i)
  <2>1. BatchRows(mv, i) = {r \in Docs \X Nat : r[2] \in DOMAIN mv[r[1]] /\ mv[r[1]][r[2]].batch = i}
    BY RowsAreFinite
  <2>2. BatchRows(mv2, i) = {r \in Docs \X Nat : r[2] \in DOMAIN mv2[r[1]] /\ mv2[r[1]][r[2]].batch = i}
    BY <1>1, RowsAreFinite, ZenonT(40)
  <2>3. ASSUME NEW r \in BatchRows(mv, i) PROVE r[1] # d /\ r \in BatchRows(mv2, i)
    <3>1. r \in Docs \X Nat /\ r[2] \in DOMAIN mv[r[1]] /\ mv[r[1]][r[2]].batch = i
      BY <2>1
    <3>2. r[1] # d
      BY <1>2, <3>1
    <3>3. mv2[r[1]] = mv[r[1]]
      BY <1>1, <3>1, <3>2
    <3> QED BY <2>2, <3>1, <3>2, <3>3
  <2> QED BY <2>1, <2>2, <2>3
<1>4. BatchRows(mv2, i) \ BatchRows(mv, i) = {h[k] : k \in K}
  <2>1. ASSUME NEW r \in BatchRows(mv2, i), r \notin BatchRows(mv, i) PROVE r \in {h[k] : k \in K}
    <3>1. /\ r \in Docs \X Nat /\ r[2] \in DOMAIN mv2[r[1]] /\ mv2[r[1]][r[2]].batch = i
          /\ ~ (r[2] \in DOMAIN mv[r[1]] /\ mv[r[1]][r[2]].batch = i)
      BY <1>3, <2>1
    <3>2. r[1] = d
      BY <1>1, <3>1
    <3>3. r[2] \in K /\ r = <<d, r[2]>>
      BY <1>1, <3>1, <3>2, SMTT(30)
    <3> QED BY <3>3
  <2>2. ASSUME NEW k \in K PROVE h[k] \in BatchRows(mv2, i) /\ h[k] \notin BatchRows(mv, i)
    <3>1. h[k] = <<d, k>> /\ k \in Nat
      BY <1>2
    <3>2. h[k] \in BatchRows(mv2, i)
      BY <1>1, <1>3, <3>1
    <3> QED BY <1>3, <3>1, <3>2
  <2> QED BY <2>1, <2>2
<1>5. IsFiniteSet(BatchRows(mv2, i)) /\ BatchRows(mv, i) \in SUBSET BatchRows(mv2, i)
  BY <1>1, <1>3, RowsAreFinite
<1>6. \A r \in BatchRows(mv2, i) : f2[r] \in Int
  BY <1>1, RowsAreFinite DEF AnyRow
<1>7. SumFunctionOnSet(f2, BatchRows(mv2, i))
      = SumFunctionOnSet(f2, BatchRows(mv, i)) + SumFunctionOnSet(f2, {h[k] : k \in K})
  <2> HIDE DEF f2, h, K
  <2> QED BY <1>4, <1>5, <1>6, SumSplit
<1>8. SumFunctionOnSet(f2, BatchRows(mv, i)) = SumFunctionOnSet(f, BatchRows(mv, i))
  <2>1. \A r \in BatchRows(mv, i) : f2[r] = f[r]
    <3>1. ASSUME NEW r \in BatchRows(mv, i) PROVE mv2[r[1]] = mv[r[1]]
      BY <1>1, <1>3, RowsAreFinite
    <3> QED BY <1>3, <3>1
  <2>2. IsFiniteSet(BatchRows(mv, i))
    BY RowsAreFinite
  <2> HIDE DEF f, f2
  <2> QED BY <2>1, <2>2, SumSame
<1>9. SumFunctionOnSet(Share(m, i), K) = SumFunctionOnSet(f2, {h[k] : k \in K})
  <2>1. IsFiniteSet(K)
    <3>1. IsFiniteSet(DOMAIN m) /\ K \in SUBSET (DOMAIN m)
      BY <1>2, FS_Interval
    <3> HIDE DEF K
    <3> QED BY <3>1, FS_Subset
  <2>2. \A k \in K : Share(m, i)[k] \in Int
    BY MovedFacts
  <2>3. \A k, j \in K : h[k] = h[j] => k = j
    OBVIOUS
  <2>4. ASSUME NEW k \in K PROVE f2[h[k]] = Share(m, i)[k]
    <3>1. h[k] = <<d, k>> /\ h[k] \in BatchRows(mv2, i)
      BY <1>4
    <3> QED BY <1>1, <3>1 DEF Share
  <2>5. K = Own(m, i) /\ {h[k] : k \in K} = OwnRows(d, m, i)
    BY <1>4 DEF Own, OwnRows
  <2> HIDE DEF f, f2, h, K
  <2>6. IsFiniteSet(Own(m, i))
    BY <2>1, <2>5
  <2>7. \A k \in Own(m, i) : Share(m, i)[k] \in Int
    BY <2>2, <2>5
  <2>8. \A k \in Own(m, i) : f2[<<d, k>>] = Share(m, i)[k]
    BY <2>4, <2>5 DEF h
  <2>9. SumFunctionOnSet(Share(m, i), Own(m, i)) = SumFunctionOnSet(f2, OwnRows(d, m, i))
    BY <2>6, <2>7, <2>8, SumOfOwnRows
  <2> QED BY <2>5, <2>9
<1>10. SumFunctionOnSet(Share(m, i), 1 .. Len(m)) = SumFunctionOnSet(Share(m, i), K)
  <2>1. IsFiniteSet(1 .. Len(m)) /\ K \in SUBSET (1 .. Len(m))
    BY <1>2, FS_Interval
  <2>2. \A k \in 1 .. Len(m) : Share(m, i)[k] \in Int
    BY <1>2, MovedFacts
  <2>3. \A k \in (1 .. Len(m)) \ K : Share(m, i)[k] = 0
    BY <1>2 DEF Share
  <2> HIDE DEF K
  <2> QED BY <2>1, <2>2, <2>3, SumOfSupport
<1> QED BY <1>7, <1>8, <1>9, <1>10 DEF HeldIn, MovedBy, mv2

-----------------------------------------------------------------------------
(***************************************************************************)
(* The steps of a transaction keep the work in order.                      *)
(***************************************************************************)

\* The columns of a batch, and of one whose quantity was written.
LEMMA BatchFields ==
  /\ Gone.qty = 0 /\ Gone.cost = 0 /\ Gone.src = "none" /\ Gone.sklad = "none"
  /\ \A x \in AnyBatch :
       /\ x.qty \in Int /\ x.cost \in Int
       /\ x # Gone => x \in [sklad : Sklady, qty : Int, cost : Int, src : Docs]
       /\ x.sklad \in Sklady => x # Gone
  /\ \A x \in AnyBatch, q \in Int :
       x # Gone => LET y == [x EXCEPT !.qty = q] IN
                   /\ y \in AnyBatch /\ y.qty = q /\ y.sklad = x.sklad /\ y.cost = x.cost
                   /\ y.src = x.src /\ y.sklad \in Sklady
<1>1. "none" \notin Sklady
  BY LedgerAssumption
<1> QED BY <1>1 DEF AnyBatch, Gone

\* Amounts are integers.
LEMMA CentsIsInt ==
  /\ \A x \in Int : Cents(x) \in Int
  /\ Cents(0) = 0
BY DEF Cents

\* So are quantized numbers.
LEMMA QuantizeIsInt ==
  ASSUME NEW n \in Int, NEW q \in Int, q > 0
  PROVE  Quantize(n, q) \in Int
<1>1. n \div q \in Int
  OBVIOUS
<1> QED BY <1>1 DEF Quantize

\* The row is added to the movements m, which become m2.
Adds(row, m, m2) == m2 = Append(m, row)

\* A movement added to those of a document: what stays true of them.
LEMMA RowAdded ==
  ASSUME NEW m \in Seq(AnyRow), NEW row \in AnyRow, NEW i, NEW m2, Adds(row, m, m2)
  PROVE  /\ m2 \in Seq(AnyRow) /\ Len(m) \in Nat /\ Len(m2) = Len(m) + 1
         /\ DOMAIN m = 1 .. Len(m) /\ DOMAIN m2 = 1 .. Len(m) + 1
         /\ \A k \in DOMAIN m : m2[k] = m[k]
         /\ m2[Len(m) + 1] = row
         /\ Reduced(m, i) => Reduced(m2, i)
         /\ row.batch = i /\ row.qty < 0 => Reduced(m2, i)
         /\ Increased(m, i) => Increased(m2, i)
         /\ row.batch = i /\ row.qty > 0 => Increased(m2, i)
         /\ \A k \in DOMAIN m :
              Creates(m, k, i) /\ (row.batch = i => row.qty <= 0 /\ m[k].qty > 0) => Creates(m2, k, i)
         /\ (\A k \in DOMAIN m : m[k].batch # i) /\ row.batch = i => Creates(m2, Len(m) + 1, i)
<1>1. /\ m2 \in Seq(AnyRow) /\ Len(m) \in Nat /\ Len(m2) = Len(m) + 1
      /\ DOMAIN m = 1 .. Len(m) /\ DOMAIN m2 = 1 .. Len(m) + 1
      /\ \A k \in DOMAIN m : m2[k] = m[k]
      /\ m2[Len(m) + 1] = row
  BY DEF Adds
<1>4. /\ Reduced(m, i) => Reduced(m2, i)
      /\ row.batch = i /\ row.qty < 0 => Reduced(m2, i)
  BY <1>1 DEF Reduced
<1>5. /\ Increased(m, i) => Increased(m2, i)
      /\ row.batch = i /\ row.qty > 0 => Increased(m2, i)
  BY <1>1 DEF Increased
<1>6. ASSUME NEW k \in DOMAIN m, Creates(m, k, i), row.batch = i => row.qty <= 0 /\ m[k].qty > 0
      PROVE  Creates(m2, k, i)
  <2>1. ASSUME NEW j \in DOMAIN m2, m2[j].batch = i, j # k
        PROVE  j > k /\ m2[j].qty <= 0 /\ m2[k].qty > 0
    <3>1. CASE j \in DOMAIN m
      BY <1>1, <1>6, <2>1, <3>1 DEF Creates
    <3>2. CASE j = Len(m) + 1
      BY <1>1, <1>6, <2>1, <3>2
    <3> QED BY <1>1, <3>1, <3>2
  <2>2. m2[k].batch = i
    BY <1>1, <1>6 DEF Creates
  <2> QED BY <2>1, <2>2 DEF Creates
<1>7. ASSUME \A k \in DOMAIN m : m[k].batch # i, row.batch = i PROVE Creates(m2, Len(m) + 1, i)
  <2>1. ASSUME NEW j \in DOMAIN m2, m2[j].batch = i PROVE j = Len(m) + 1
    BY <1>1, <1>7, <2>1
  <2> QED BY <1>1, <1>7, <2>1 DEF Creates
<1> QED BY <1>1, <1>4, <1>5, <1>6, <1>7

\* What the document then comes to for each batch.
LEMMA RowMoved ==
  ASSUME NEW m \in Seq(AnyRow), NEW row \in AnyRow, NEW i, NEW m2, Adds(row, m, m2)
  PROVE  /\ MovedBy(m, Len(m), i) \in Int
         /\ row.batch = i => MovedBy(m2, Len(m) + 1, i) = MovedBy(m, Len(m), i) + row.qty
         /\ row.batch # i => MovedBy(m2, Len(m) + 1, i) = MovedBy(m, Len(m), i)
<1>1. Len(m) \in 0 .. Len(m)
  OBVIOUS
<1>2. MovedBy(m, Len(m), i) \in Int
  BY <1>1, MovedFacts
<1>3. MovedBy(m2, Len(m) + 1, i) = MovedBy(m, Len(m), i) + (IF row.batch = i THEN row.qty ELSE 0)
  BY MovedAppend DEF Adds
<1> QED BY <1>2, <1>3

\* One element of a sequence written.
LEMMA Replaced ==
  ASSUME NEW X, NEW s \in Seq(X), NEW i \in DOMAIN s, NEW x \in X, NEW t, t = [s EXCEPT ![i] = x]
  PROVE  /\ t \in Seq(X) /\ Len(t) = Len(s) /\ DOMAIN t = DOMAIN s /\ t[i] = x
         /\ \A j \in DOMAIN s \ {i} : t[j] = s[j]
OBVIOUS

\* One element added.
LEMMA Appended ==
  ASSUME NEW X, NEW s \in Seq(X), NEW x \in X, NEW t, t = Append(s, x)
  PROVE  /\ t \in Seq(X) /\ Len(s) \in Nat /\ Len(t) = Len(s) + 1
         /\ DOMAIN s = 1 .. Len(s) /\ DOMAIN t = 1 .. Len(s) + 1
         /\ \A k \in DOMAIN s : t[k] = s[k]
         /\ t[Len(s) + 1] = x
OBVIOUS

\* The parts of a transaction.
LEMMA WorkParts ==
  ASSUME NEW W, WorkType(W)
  PROVE  /\ W.b \in Seq(AnyBatch) /\ W.db \in Seq(Int) /\ W.m \in Seq(AnyRow) /\ W.ok \in BOOLEAN
         /\ Len(W.b) \in Nat /\ Len(W.db) = Len(W.b) /\ Len(W.m) \in Nat
         /\ DOMAIN W.b = 1 .. Len(W.b) /\ DOMAIN W.db = 1 .. Len(W.b) /\ DOMAIN W.m = 1 .. Len(W.m)
         /\ \A i \in DOMAIN W.b : W.b[i] \in AnyBatch /\ W.b[i].qty \in Int /\ W.b[i].cost \in Int /\ W.db[i] \in Int
         /\ \A k \in DOMAIN W.m : /\ W.m[k] \in AnyRow /\ W.m[k].batch \in Nat
                                  /\ W.m[k].qty \in Int /\ W.m[k].amount \in Int
<1>1. /\ W.b \in Seq(AnyBatch) /\ W.db \in Seq(Int) /\ W.m \in Seq(AnyRow) /\ W.ok \in BOOLEAN
      /\ Len(W.db) = Len(W.b)
  BY DEF WorkType
<1>2. /\ Len(W.b) \in Nat /\ Len(W.m) \in Nat
      /\ DOMAIN W.b = 1 .. Len(W.b) /\ DOMAIN W.db = 1 .. Len(W.b) /\ DOMAIN W.m = 1 .. Len(W.m)
  BY <1>1
<1>3. \A i \in DOMAIN W.b : W.b[i] \in AnyBatch /\ W.b[i].qty \in Int /\ W.b[i].cost \in Int
  BY <1>1, BatchFields
<1>4. \A i \in DOMAIN W.b : W.db[i] \in Int
  BY <1>1, <1>2
<1>5. \A k \in DOMAIN W.m : /\ W.m[k] \in AnyRow /\ W.m[k].batch \in Nat
                            /\ W.m[k].qty \in Int /\ W.m[k].amount \in Int
  BY <1>1, RowFields
<1> QED BY <1>1, <1>2, <1>3, <1>4, <1>5

\* What the loop of consume_batches takes from batch i.
Lowers(b2, b, i, take) == b2 = [b EXCEPT ![i] = [b[i] EXCEPT !.qty = b[i].qty - take]]
Takes(V, W, i, take, cost) ==
  V = [W EXCEPT !.b[i].qty = @ - take,
                !.m = Append(@, [batch |-> i, sklad |-> W.b[i].sklad, qty |-> -take,
                                 amount |-> Cents(-(take * cost))])]

\* Nothing is left in the batches that come before batch i.
FirstLeft(W, b0, i) ==
  \A j \in DOMAIN b0 : W.b[j].sklad = W.b[i].sklad /\ Precedes(j, i) => W.b[j].qty <= 0

\* The loop of consume_batches takes from a batch that the SELECT found.
LEMMA TakeFits ==
  ASSUME NEW b0, NEW d, NEW W, WorkFits(W, b0, d),
         NEW i \in DOMAIN W.b, W.b[i] # Gone, W.db[i] > 0,
         NEW take \in Int, 0 <= take, take <= W.b[i].qty, take = 0 => W.b[i].qty = 0,
         NEW cost \in Int, method # "average" => cost = W.b[i].cost,
         FirstLeft(W, b0, i),
         NEW V, Takes(V, W, i, take, cost)
  PROVE  /\ WorkFits(V, b0, d)
         /\ V.db = W.db /\ V.ok = W.ok /\ DOMAIN V.b = DOMAIN W.b
         /\ Lowers(V.b, W.b, i, take)
<1> DEFINE row == [batch |-> i, sklad |-> W.b[i].sklad, qty |-> -take, amount |-> Cents(-(take * cost))]
           new == [W.b[i] EXCEPT !.qty = W.b[i].qty - take]
<1>1. b0 \in Seq(AnyBatch) /\ d \in Docs /\ WorkType(W) /\ Len(b0) <= Len(W.b) /\ InOrder(W, b0)
  BY DEF WorkFits
<1>2. /\ W.b \in Seq(AnyBatch) /\ W.db \in Seq(Int) /\ W.m \in Seq(AnyRow) /\ W.ok \in BOOLEAN
      /\ Len(W.b) \in Nat /\ Len(W.db) = Len(W.b) /\ Len(W.m) \in Nat
      /\ DOMAIN W.b = 1 .. Len(W.b) /\ DOMAIN W.db = 1 .. Len(W.b) /\ DOMAIN W.m = 1 .. Len(W.m)
      /\ \A j \in DOMAIN W.b : W.b[j] \in AnyBatch /\ W.b[j].qty \in Int /\ W.b[j].cost \in Int /\ W.db[j] \in Int
  BY <1>1, WorkParts
<1>3. DOMAIN b0 = 1 .. Len(b0) /\ Len(b0) \in Nat /\ \A j \in DOMAIN b0 : b0[j] \in AnyBatch /\ b0[j].qty \in Int
  BY <1>1, SequenceIs, BatchFields
<1>4. /\ new \in AnyBatch /\ new.qty = W.b[i].qty - take /\ new.sklad = W.b[i].sklad
      /\ new.cost = W.b[i].cost /\ new.src = W.b[i].src /\ new.sklad \in Sklady
  <2>1. W.b[i] \in AnyBatch /\ W.b[i].qty - take \in Int
    BY <1>2
  <2> QED BY <2>1, BatchFields
<1>5. /\ V.b = [W.b EXCEPT ![i] = new] /\ V.db = W.db /\ V.m = Append(W.m, row) /\ V.ok = W.ok
      /\ V = [b |-> V.b, db |-> V.db, m |-> V.m, ok |-> V.ok]
  BY <1>1 DEF WorkType, Takes
<1>6. /\ row \in AnyRow /\ row.batch = i /\ row.qty = -take /\ row.amount = Cents(-(take * cost))
      /\ row.sklad = W.b[i].sklad
  <2>1. -(take * cost) \in Int
    OBVIOUS
  <2>2. Cents(-(take * cost)) \in Int
    BY <2>1, CentsIsInt
  <2> QED BY <1>2, <1>4, <2>2 DEF AnyRow
<1> HIDE DEF new, row
<1>7. V.b \in Seq(AnyBatch) /\ Len(V.b) = Len(W.b) /\ V.b[i] = new /\ DOMAIN V.b = DOMAIN W.b
      /\ \A j \in DOMAIN W.b \ {i} : V.b[j] = W.b[j]
  <2>1. W.b \in Seq(AnyBatch) /\ new \in AnyBatch /\ i \in DOMAIN W.b
    BY <1>2, <1>4
  <2>2. V.b = [W.b EXCEPT ![i] = new]
    BY <1>5
  <2>3. \A t : t = [W.b EXCEPT ![i] = new] =>
               /\ t \in Seq(AnyBatch) /\ Len(t) = Len(W.b) /\ DOMAIN t = DOMAIN W.b /\ t[i] = new
               /\ \A j \in DOMAIN W.b \ {i} : t[j] = W.b[j]
    BY <2>1, Replaced
  <2> QED BY <2>2, <2>3
<1>8. V.m \in Seq(AnyRow) /\ Len(V.m) = Len(W.m) + 1 /\ DOMAIN V.m = 1 .. Len(W.m) + 1
      /\ (\A k \in DOMAIN W.m : V.m[k] = W.m[k]) /\ V.m[Len(W.m) + 1] = row
  <2>1. W.m \in Seq(AnyRow) /\ row \in AnyRow
    BY <1>2, <1>6
  <2>2. V.m = Append(W.m, row)
    BY <1>5
  <2> QED BY <2>1, <2>2, Appended
<1>16. /\ \A k \in DOMAIN V.m : k \in DOMAIN W.m \/ k = Len(W.m) + 1
       /\ \A j \in DOMAIN b0 : j \in DOMAIN W.b
       /\ \A k \in DOMAIN W.m : k \in DOMAIN V.m
  <2>1. PICK nb, nm, n0 : nb = Len(W.b) /\ nm = Len(W.m) /\ n0 = Len(b0)
    OBVIOUS
  <2>2. nb \in Nat /\ nm \in Nat /\ n0 \in Nat /\ n0 <= nb
    BY <1>1, <1>2, <1>3, <2>1
  <2>3. DOMAIN W.b = 1 .. nb /\ DOMAIN W.m = 1 .. nm /\ DOMAIN b0 = 1 .. n0 /\ DOMAIN V.m = 1 .. nm + 1
    BY <1>2, <1>3, <1>8, <2>1
  <2>4. /\ \A k \in 1 .. nm + 1 : k \in 1 .. nm \/ k = nm + 1
        /\ \A j \in 1 .. n0 : j \in 1 .. nb
        /\ \A k \in 1 .. nm : k \in 1 .. nm + 1
    BY <2>2
  <2> QED BY <2>1, <2>3, <2>4
<1>17. \A j \in DOMAIN W.b :
         /\ V.b[j].qty \in Int /\ W.b[j].qty \in Int /\ V.b[j].qty <= W.b[j].qty
         /\ V.b[j].qty # W.b[j].qty => j = i /\ take > 0
  <2> TAKE j \in DOMAIN W.b
  <2>1. W.b[j].qty \in Int
    BY <1>2
  <2>2. CASE j = i
    <3>1. V.b[j].qty = W.b[j].qty - take
      BY <1>4, <1>7, <2>2
    <3> QED BY <2>1, <2>2, <3>1
  <2>3. CASE j # i
    BY <1>7, <2>1, <2>3
  <2> QED BY <2>2, <2>3
<1>9. WorkType(V)
  <2>1. V \in [b : Seq(AnyBatch), db : Seq(Int), m : Seq(AnyRow), ok : BOOLEAN]
    BY <1>2, <1>5, <1>7, <1>8
  <2> QED BY <1>2, <1>5, <1>7, <2>1 DEF WorkType
<1>10. ASSUME NEW j
       PROVE  /\ MovedBy(W.m, Len(W.m), j) \in Int
              /\ i = j => MovedBy(V.m, Len(V.m), j) = MovedBy(W.m, Len(W.m), j) - take
              /\ i # j => MovedBy(V.m, Len(V.m), j) = MovedBy(W.m, Len(W.m), j)
              /\ Reduced(W.m, j) => Reduced(V.m, j)
              /\ i = j /\ take > 0 => Reduced(V.m, j)
              /\ Increased(W.m, j) => Increased(V.m, j)
              /\ \A k \in DOMAIN W.m :
                   Creates(W.m, k, j) /\ (i = j => W.m[k].qty > 0) => Creates(V.m, k, j)
  <2>1. /\ MovedBy(W.m, Len(W.m), j) \in Int
        /\ row.batch = j => MovedBy(V.m, Len(V.m), j) = MovedBy(W.m, Len(W.m), j) + row.qty
        /\ row.batch # j => MovedBy(V.m, Len(V.m), j) = MovedBy(W.m, Len(W.m), j)
        /\ Reduced(W.m, j) => Reduced(V.m, j)
        /\ row.batch = j /\ row.qty < 0 => Reduced(V.m, j)
        /\ Increased(W.m, j) => Increased(V.m, j)
        /\ \A k \in DOMAIN W.m :
             Creates(W.m, k, j) /\ (row.batch = j => row.qty <= 0 /\ W.m[k].qty > 0) => Creates(V.m, k, j)
    <3>1. W.m \in Seq(AnyRow) /\ row \in AnyRow /\ V.m = Append(W.m, row)
      BY <1>2, <1>5, <1>6
    <3>2. PICK m, m2 : m = W.m /\ m2 = V.m
      OBVIOUS
    <3>3. m \in Seq(AnyRow) /\ Adds(row, m, m2)
      BY <3>1, <3>2 DEF Adds
    <3>4. /\ MovedBy(m, Len(m), j) \in Int
          /\ row.batch = j => MovedBy(m2, Len(m) + 1, j) = MovedBy(m, Len(m), j) + row.qty
          /\ row.batch # j => MovedBy(m2, Len(m) + 1, j) = MovedBy(m, Len(m), j)
      BY <3>1, <3>3, RowMoved
    <3>5. /\ Reduced(m, j) => Reduced(m2, j)
          /\ row.batch = j /\ row.qty < 0 => Reduced(m2, j)
          /\ Increased(m, j) => Increased(m2, j)
      BY <3>1, <3>3, RowAdded
    <3>6. \A k \in DOMAIN m :
            Creates(m, k, j) /\ (row.batch = j => row.qty <= 0 /\ m[k].qty > 0) => Creates(m2, k, j)
      BY <3>1, <3>3, RowAdded
    <3> QED BY <1>8, <3>2, <3>4, <3>5, <3>6
  <2>2. row.qty <= 0 /\ (take > 0 => row.qty < 0)
    BY <1>6
  <2> QED BY <1>6, <2>1, <2>2
<1>11. ASSUME NEW j \in DOMAIN b0 PROVE OldBatch(V, b0, j)
  <2>1. OldBatch(W, b0, j) /\ j \in DOMAIN W.b
    BY <1>1, <1>2, <1>3 DEF WorkFits
  <2>2. CASE j # i
    <3>1. V.b[j] = W.b[j] /\ V.db[j] = W.db[j] /\ MovedBy(V.m, Len(V.m), j) = MovedBy(W.m, Len(W.m), j)
      BY <1>5, <1>7, <1>10, <2>1, <2>2
    <3>2. ASSUME NEW k \in DOMAIN V.m, V.m[k].batch = j
          PROVE  b0[j].qty > 0 /\ V.m[k].qty <= 0 /\ Reduced(V.m, j)
      <4>1. k \in DOMAIN W.m /\ V.m[k] = W.m[k]
        <5>1. k # Len(W.m) + 1
          BY <1>6, <1>8, <2>2, <3>2
        <5> QED BY <1>8, <1>16, <5>1
      <4>2. b0[j].qty > 0 /\ W.m[k].qty <= 0 /\ Reduced(W.m, j)
        BY <2>1, <3>2, <4>1 DEF OldBatch
      <4> QED BY <1>10, <4>1, <4>2
    <3> QED BY <2>1, <3>1, <3>2 DEF OldBatch
  <2>3. CASE j = i
    <3>1. V.b[j] = [W.b[j] EXCEPT !.qty = W.b[j].qty - take] /\ V.b[j].qty = W.b[j].qty - take
      BY <1>4, <1>7, <2>3 DEF new
    <3>2. W.b[j] = [b0[j] EXCEPT !.qty = W.b[j].qty]
      BY <2>1 DEF OldBatch
    <3>3. V.b[j] = [b0[j] EXCEPT !.qty = V.b[j].qty]
      BY <3>1, <3>2
    <3>4. V.b[j].qty = b0[j].qty + MovedBy(V.m, Len(V.m), j)
      BY <1>2, <1>3, <1>10, <2>1, <2>3, <3>1 DEF OldBatch
    <3>5. V.b[j].qty <= b0[j].qty /\ 0 <= V.b[j].qty /\ V.b[j].qty \in Int
      <4>1. V.b[j].qty \in Int /\ W.b[j].qty \in Int /\ V.b[j].qty <= W.b[j].qty /\ b0[j].qty \in Int
        BY <1>3, <1>17, <2>1
      <4>2. W.b[j].qty <= b0[j].qty
        BY <2>1 DEF OldBatch
      <4>3. 0 <= V.b[j].qty
        BY <2>3, <3>1, <4>1
      <4> QED BY <4>1, <4>2, <4>3
    <3>6. b0[j].qty > 0 /\ V.db[j] = W.db[j]
      BY <1>5, <2>1, <2>3 DEF OldBatch
    <3>7. ASSUME NEW k \in DOMAIN V.m, V.m[k].batch = j
          PROVE  V.m[k].qty <= 0 /\ Reduced(V.m, j)
      <4>1. CASE k \in DOMAIN W.m
        BY <1>8, <1>10, <2>1, <3>7, <4>1 DEF OldBatch
      <4>2. CASE k = Len(W.m) + 1
        <5>1. V.m[k].qty <= 0
          BY <1>6, <1>8, <4>2
        <5>2. CASE take > 0
          BY <1>10, <2>3, <5>1, <5>2
        <5>3. CASE take = 0
          <6>1. Reduced(W.m, j)
            BY <2>1, <2>3, <5>3 DEF WorkFits, SeenBatch
          <6> QED BY <1>10, <5>1, <6>1
        <5> QED BY <5>2, <5>3
      <4>3. k \in DOMAIN W.m \/ k = Len(W.m) + 1
        BY <1>16
      <4> QED BY <4>1, <4>2, <4>3
    <3>8. V.b[j].qty < 0 => V.b[j].qty = b0[j].qty
      BY <3>5
    <3> QED BY <3>3, <3>4, <3>5, <3>6, <3>7, <3>8 DEF OldBatch
  <2> QED BY <2>2, <2>3
<1>12. ASSUME NEW j \in DOMAIN V.b \ DOMAIN b0 PROVE NewBatch(V, d, j)
  <2>1. NewBatch(W, d, j) /\ j \in DOMAIN W.b
    BY <1>7, <1>12 DEF WorkFits
  <2>2. PICK k \in DOMAIN W.m : Creates(W.m, k, j)
    BY <2>1 DEF NewBatch
  <2>3. CASE j # i
    <3>1. V.b[j] = W.b[j] /\ V.db[j] = W.db[j] /\ MovedBy(V.m, Len(V.m), j) = MovedBy(W.m, Len(W.m), j)
      BY <1>5, <1>7, <1>10, <2>1, <2>3
    <3>2. k \in DOMAIN V.m /\ Creates(V.m, k, j)
      <4>1. k \in DOMAIN V.m
        BY <1>2, <1>8
      <4> QED BY <1>10, <2>2, <2>3, <4>1
    <3> QED BY <1>10, <2>1, <3>1, <3>2 DEF NewBatch
  <2>4. CASE j = i
    <3>1. Increased(W.m, j)
      BY <2>1, <2>4 DEF NewBatch
    <3>2. W.m[k].qty > 0
      BY <2>2, <3>1 DEF Increased, Creates
    <3>3. k \in DOMAIN V.m /\ Creates(V.m, k, j)
      <4>1. k \in DOMAIN V.m
        BY <1>2, <1>8
      <4> QED BY <1>10, <2>2, <3>2, <4>1
    <3>4. V.b[j].qty = W.b[j].qty - take /\ V.b[j].src = W.b[j].src /\ V.b[j] # Gone
      BY <1>4, <1>7, <2>4, BatchFields, LedgerAssumption
    <3>5. V.b[j].qty = MovedBy(V.m, Len(V.m), j)
      BY <1>2, <1>10, <2>1, <2>4, <3>4 DEF NewBatch
    <3>6. 0 <= V.b[j].qty /\ V.b[j].qty \in Int
      BY <1>2, <2>1, <2>4, <3>4, SMTT(30)
    <3>7. Increased(V.m, j)
      BY <1>10, <3>1
    <3>8. V.b[j].src = d
      BY <2>1, <3>4 DEF NewBatch
    <3>9. ~ V.b[j].qty < 0
      BY <3>6
    <3> QED BY <3>3, <3>4, <3>5, <3>7, <3>8, <3>9 DEF NewBatch
  <2> QED BY <2>3, <2>4
<1>13. ASSUME NEW j \in DOMAIN V.b PROVE SeenBatch(V, j)
  <2>1. SeenBatch(W, j)
    BY <1>7 DEF WorkFits
  <2>2. CASE j # i
    BY <1>5, <1>7, <1>10, <2>1, <2>2 DEF SeenBatch
  <2>3. CASE j = i
    <3>1. V.b[j].qty = W.b[j].qty - take /\ V.db[j] = W.db[j]
      BY <1>4, <1>5, <1>7, <2>3
    <3>2. V.b[j].qty <= V.db[j] /\ 0 <= V.b[j].qty
      BY <1>2, <2>1, <2>3, <3>1 DEF SeenBatch
    <3>3. Reduced(V.m, j)
      <4>1. take > 0 \/ take = 0
        OBVIOUS
      <4> QED BY <1>10, <2>1, <2>3, <4>1 DEF SeenBatch
    <3> QED BY <3>2, <3>3 DEF SeenBatch
  <2> QED BY <2>2, <2>3
<1>14. ASSUME NEW k \in DOMAIN V.m PROVE RowFits(V, d, k)
  <2>1. CASE k \in DOMAIN W.m
    <3>1. RowFits(W, d, k) /\ V.m[k] = W.m[k]
      BY <1>8, <2>1 DEF WorkFits
    <3>2. ASSUME OfBatch(W, k) PROVE OfBatch(V, k)
      <4>1. W.m[k].batch \in DOMAIN W.b
        BY <3>2 DEF OfBatch
      <4>2. /\ V.b[W.m[k].batch].cost = W.b[W.m[k].batch].cost
            /\ V.b[W.m[k].batch].sklad = W.b[W.m[k].batch].sklad
        BY <1>4, <1>7, <4>1
      <4> QED BY <1>7, <3>1, <3>2, <4>1, <4>2 DEF OfBatch
    <3> QED BY <3>1, <3>2 DEF RowFits, OfNoBatch
  <2>2. CASE k = Len(W.m) + 1
    <3>1. V.m[k] = row /\ V.b[i].cost = W.b[i].cost /\ V.b[i].sklad = W.b[i].sklad
      BY <1>4, <1>7, <1>8, <2>2
    <3>2. take = 0 => row.amount = 0
      BY <1>6, CentsIsInt
    <3>3. method # "average" => row.amount = Cents(row.qty * V.b[i].cost)
      <4>1. -(take * cost) = (-take) * cost
        OBVIOUS
      <4> QED BY <1>6, <3>1, <4>1
    <3>4. row.batch = i /\ i \in DOMAIN V.b /\ row.qty <= 0 /\ (row.qty = 0 => row.amount = 0)
      BY <1>6, <1>7, <3>2
    <3>5. OfBatch(V, k)
      BY <1>6, <3>1, <3>3, <3>4 DEF OfBatch
    <3> QED BY <3>1, <3>4, <3>5 DEF RowFits
  <2> QED BY <1>2, <1>8, <2>1, <2>2
<1>15. InOrder(V, b0)
  <2>1. ASSUME NEW p \in DOMAIN b0, NEW q \in DOMAIN b0,
               b0[p].sklad = b0[q].sklad, Precedes(p, q), V.b[q].qty < b0[q].qty
        PROVE  V.b[p].qty <= 0
    <3>1. p \in DOMAIN W.b /\ q \in DOMAIN W.b
      BY <1>16
    <3>2. OldBatch(W, b0, p) /\ OldBatch(W, b0, q)
      BY DEF WorkFits
    <3>6. PICK x, y, u, v : x = V.b[p].qty /\ y = W.b[p].qty /\ u = V.b[q].qty /\ v = W.b[q].qty
      OBVIOUS
    <3>3. x <= y /\ x \in Int /\ y \in Int
      BY <1>17, <3>1, <3>6
    <3>7. u \in Int /\ v \in Int /\ (u # v => q = i /\ take > 0)
      BY <1>17, <3>1, <3>6
    <3>4. CASE W.b[q].qty < b0[q].qty
      <4>1. W.b[p].qty <= 0
        BY <1>1, <2>1, <3>4 DEF InOrder
      <4> QED BY <3>3, <3>6, <4>1
    <3>5. CASE ~ W.b[q].qty < b0[q].qty
      <4>1. q = i /\ take > 0
        <5>1. u # v
          BY <2>1, <3>5, <3>6
        <5> QED BY <3>7, <5>1
      <4>2. W.b[p].sklad = b0[p].sklad /\ W.b[q].sklad = b0[q].sklad
        BY <1>3, <3>2 DEF OldBatch, AnyBatch, Gone
      <4>3. W.b[p].qty <= 0
        BY <2>1, <4>1, <4>2 DEF FirstLeft
      <4> QED BY <3>3, <3>6, <4>3
    <3> QED BY <3>4, <3>5
  <2> QED BY <2>1 DEF InOrder
<1> QED BY <1>1, <1>5, <1>7, <1>9, <1>11, <1>12, <1>13, <1>14, <1>15 DEF WorkFits, Lowers, new

\* Nothing was moved of a batch that no movement names.
LEMMA NotMoved ==
  ASSUME NEW m \in Seq(AnyRow), NEW i, \A k \in DOMAIN m : m[k].batch # i
  PROVE  MovedBy(m, Len(m), i) = 0
<1>1. DOMAIN m = 1 .. Len(m) /\ IsFiniteSet(DOMAIN m)
  BY SequenceIs
<1>2. \A k \in 1 .. Len(m) : Share(m, i)[k] = 0
  BY <1>1 DEF Share
<1> QED BY <1>1, <1>2, SumOfZeros DEF MovedBy

\* The work begins in order, and an error leaves it so.
LEMMA BeginFits ==
  ASSUME NEW b \in Seq(AnyBatch), NEW d \in Docs
  PROVE  /\ WorkFits(Begin(b), b, d)
         /\ Begin(b).b = b /\ Begin(b).db = Quantities(b) /\ Begin(b).m = <<>> /\ Begin(b).ok
<1> DEFINE W == Begin(b)
<1>1. W.b = b /\ W.db = Quantities(b) /\ W.m = <<>> /\ W.ok /\ DOMAIN W.m = {} /\ Len(W.m) = 0
  BY DEF Begin
<1>2. DOMAIN b = 1 .. Len(b) /\ Len(b) \in Nat /\ \A j \in DOMAIN b : b[j] \in AnyBatch /\ b[j].qty \in Int
  BY SequenceIs, BatchFields
<1>3. Quantities(b) = [j \in 1 .. Len(b) |-> b[j].qty] /\ \A j \in DOMAIN b : Quantities(b)[j] = b[j].qty
  BY <1>2 DEF Quantities
<1>4. Quantities(b) \in Seq(Int) /\ Len(Quantities(b)) = Len(b)
  BY <1>2, <1>3
<1>5. WorkType(W)
  <2>1. <<>> \in Seq(AnyRow)
    OBVIOUS
  <2>2. W \in [b : Seq(AnyBatch), db : Seq(Int), m : Seq(AnyRow), ok : BOOLEAN]
    BY <1>4, <2>1 DEF Begin
  <2> QED BY <1>1, <1>4, <2>2 DEF WorkType
<1> HIDE DEF W
<1>6. ASSUME NEW i \in DOMAIN b PROVE OldBatch(W, b, i)
  <2>1. MovedBy(W.m, Len(W.m), i) = 0
    <3>1. <<>> \in Seq(AnyRow) /\ Len(<<>>) = 0
      OBVIOUS
    <3> QED BY <1>1, <3>1, MovedFacts
  <2>2. b[i] = [b[i] EXCEPT !.qty = b[i].qty]
    BY <1>2 DEF AnyBatch, Gone
  <2> QED BY <1>1, <1>2, <1>3, <2>1, <2>2 DEF OldBatch
<1>7. \A i \in DOMAIN W.b : SeenBatch(W, i)
  BY <1>1, <1>2, <1>3 DEF SeenBatch
<1>8. InOrder(W, b)
  BY <1>1, <1>2 DEF InOrder
<1>9. Len(b) <= Len(W.b)
  BY <1>1, <1>2
<1>10. WorkFits(W, b, d)
  BY <1>1, <1>5, <1>6, <1>7, <1>8, <1>9 DEF WorkFits
<1> QED BY <1>1, <1>10 DEF W

\* An error changes nothing but the outcome.
LEMMA FailFits ==
  ASSUME NEW b0, NEW d, NEW W, WorkFits(W, b0, d)
  PROVE  /\ WorkFits(Fail(W), b0, d)
         /\ Fail(W).ok = FALSE /\ Fail(W).b = W.b /\ Fail(W).db = W.db /\ Fail(W).m = W.m
<1>1. WorkType(W)
  BY DEF WorkFits
<1>2. /\ Fail(W).b = W.b /\ Fail(W).db = W.db /\ Fail(W).m = W.m /\ Fail(W).ok = FALSE
      /\ WorkType(Fail(W))
  BY <1>1 DEF WorkType, Fail
<1> QED BY <1>2 DEF WorkFits, OldBatch, NewBatch, SeenBatch, RowFits, OfBatch, OfNoBatch, InOrder

\* A function on 1 .. n is a sequence of length n.
LEMMA SequenceOfLength ==
  ASSUME NEW X, NEW n \in Nat, NEW f \in [1 .. n -> X]
  PROVE  f \in Seq(X) /\ Len(f) = n
OBVIOUS

Enters(V, W, d, sklad, qty, cost, amount) ==
  LET B == Append(W.b, [sklad |-> sklad, qty |-> qty, cost |-> cost, src |-> d]) IN
  V = [W EXCEPT !.b = B, !.db = Quantities(B),
                !.m = Append(W.m, [batch |-> Len(B), sklad |-> sklad, qty |-> qty, amount |-> amount])]

\* create_incoming and the negative batch of consume_batches add a batch, its
\* movement, and flush.
LEMMA EnterFits ==
  ASSUME NEW b0, NEW d, NEW W, WorkFits(W, b0, d),
         NEW sklad \in Sklady, NEW qty \in Int, NEW cost \in Int, NEW amount \in Int,
         qty < 0 => AllowNegative(Document[d].type) \/ BringsNegative(d, qty),
         qty = 0 => amount = 0,
         method # "average" => amount = Cents(qty * cost),
         Document[d].type \in Outgoing => qty <= 0,
         NEW V, Enters(V, W, d, sklad, qty, cost, amount)
  PROVE  /\ WorkFits(V, b0, d) /\ V.ok = W.ok /\ V.db = Quantities(V.b)
         /\ V.b = Append(W.b, [sklad |-> sklad, qty |-> qty, cost |-> cost, src |-> d])
<1> DEFINE B == Append(W.b, [sklad |-> sklad, qty |-> qty, cost |-> cost, src |-> d])
           new == [sklad |-> sklad, qty |-> qty, cost |-> cost, src |-> d]
           n == Len(W.b) + 1
           row == [batch |-> n, sklad |-> sklad, qty |-> qty, amount |-> amount]
<1>1. b0 \in Seq(AnyBatch) /\ d \in Docs /\ WorkType(W) /\ Len(b0) <= Len(W.b) /\ InOrder(W, b0)
  BY DEF WorkFits
<1>2. /\ W.b \in Seq(AnyBatch) /\ W.db \in Seq(Int) /\ W.m \in Seq(AnyRow) /\ W.ok \in BOOLEAN
      /\ Len(W.b) \in Nat /\ Len(W.db) = Len(W.b) /\ Len(W.m) \in Nat
      /\ DOMAIN W.b = 1 .. Len(W.b) /\ DOMAIN W.db = 1 .. Len(W.b) /\ DOMAIN W.m = 1 .. Len(W.m)
      /\ \A j \in DOMAIN W.b : W.b[j] \in AnyBatch /\ W.b[j].qty \in Int /\ W.b[j].cost \in Int /\ W.db[j] \in Int
  BY <1>1, WorkParts
<1>3. DOMAIN b0 = 1 .. Len(b0) /\ Len(b0) \in Nat /\ \A j \in DOMAIN b0 : b0[j] \in AnyBatch /\ b0[j].qty \in Int
  BY <1>1, SequenceIs, BatchFields
<1>4. new \in AnyBatch /\ new # Gone /\ new.qty = qty /\ new.cost = cost /\ new.src = d /\ new.sklad = sklad
  BY <1>1, LedgerAssumption DEF AnyBatch, Gone
<1>5. B = Append(W.b, new)
  OBVIOUS
<1> HIDE DEF new, B
<1>6. /\ B \in Seq(AnyBatch) /\ Len(B) = n /\ DOMAIN B = 1 .. n /\ B[n] = new
      /\ \A j \in DOMAIN W.b : B[j] = W.b[j]
  <2>1. W.b \in Seq(AnyBatch)
    BY <1>2
  <2> QED BY <1>4, <1>5, <2>1, Appended
<1>7. row \in AnyRow /\ row.batch = n /\ row.sklad = sklad /\ row.qty = qty /\ row.amount = amount
  BY <1>2 DEF AnyRow
<1> HIDE DEF row
<1>8. V.b = B /\ V.db = Quantities(B) /\ V.m = Append(W.m, row) /\ V.ok = W.ok
      /\ V = [b |-> V.b, db |-> V.db, m |-> V.m, ok |-> V.ok]
  BY <1>1, <1>6 DEF WorkType, Enters, B, row
<1>9. /\ V.m \in Seq(AnyRow) /\ Len(V.m) = Len(W.m) + 1 /\ DOMAIN V.m = 1 .. Len(W.m) + 1
      /\ \A k \in DOMAIN W.m : V.m[k] = W.m[k]
      /\ V.m[Len(W.m) + 1] = row
  <2>1. W.m \in Seq(AnyRow) /\ V.m = Append(W.m, row)
    BY <1>2, <1>8
  <2> QED BY <1>7, <2>1, Appended
<1>10. /\ \A k \in DOMAIN V.m : k \in DOMAIN W.m \/ k = Len(W.m) + 1
       /\ \A j \in DOMAIN B : j \in DOMAIN W.b \/ j = n
       /\ n \notin DOMAIN W.b /\ n \notin DOMAIN b0
       /\ \A j \in DOMAIN b0 : j \in DOMAIN W.b
       /\ \A k \in DOMAIN W.m : k \in DOMAIN V.m
       /\ \A j \in DOMAIN W.b : j \in DOMAIN B
       /\ n \in DOMAIN B /\ Len(W.m) + 1 \in DOMAIN V.m
  <2>1. Len(W.b) \in Nat /\ Len(W.m) \in Nat /\ Len(b0) \in Nat /\ Len(b0) <= Len(W.b)
    BY <1>1, <1>2, <1>3
  <2>2. /\ DOMAIN W.b = 1 .. Len(W.b) /\ DOMAIN W.m = 1 .. Len(W.m) /\ DOMAIN b0 = 1 .. Len(b0)
        /\ DOMAIN B = 1 .. n /\ DOMAIN V.m = 1 .. Len(W.m) + 1
    BY <1>2, <1>3, <1>6, <1>9
  <2>3. PICK nb, nm, n0 : nb = Len(W.b) /\ nm = Len(W.m) /\ n0 = Len(b0)
    OBVIOUS
  <2>4. nb \in Nat /\ nm \in Nat /\ n0 \in Nat /\ n0 <= nb
    BY <2>1, <2>3
  <2>5. /\ \A k \in 1 .. nm + 1 : k \in 1 .. nm \/ k = nm + 1
        /\ \A j \in 1 .. nb + 1 : j \in 1 .. nb \/ j = nb + 1
        /\ nb + 1 \notin 1 .. nb /\ nb + 1 \notin 1 .. n0 /\ nb + 1 \in 1 .. nb + 1 /\ nm + 1 \in 1 .. nm + 1
        /\ \A j \in 1 .. n0 : j \in 1 .. nb
        /\ \A k \in 1 .. nm : k \in 1 .. nm + 1
        /\ \A j \in 1 .. nb : j \in 1 .. nb + 1
    BY <2>4
  <2> QED BY <2>2, <2>3, <2>5
<1>11. V.db \in Seq(Int) /\ Len(V.db) = n /\ \A j \in DOMAIN B : V.db[j] = B[j].qty
  <2>1. V.db = [j \in 1 .. n |-> B[j].qty]
    BY <1>6, <1>8 DEF Quantities
  <2>2. \A j \in 1 .. n : B[j].qty \in Int
    <3>1. \A j \in 1 .. n : B[j] \in AnyBatch
      BY <1>6
    <3> QED BY <3>1, BatchFields
  <2>3. n \in Nat
    BY <1>2
  <2>4. DOMAIN B = 1 .. n
    BY <1>6
  <2>5. PICK f, size : f = V.db /\ size = n
    OBVIOUS
  <2>6. size \in Nat /\ f = [j \in 1 .. size |-> B[j].qty] /\ \A j \in 1 .. size : B[j].qty \in Int
    BY <2>1, <2>2, <2>3, <2>5
  <2>7. f \in Seq(Int) /\ Len(f) = size
    <3>1. f \in [1 .. size -> Int]
      BY <2>6
    <3> QED BY <2>6, <3>1, SequenceOfLength
  <2>8. \A j \in 1 .. n : V.db[j] = B[j].qty
    BY <2>1
  <2> QED BY <2>4, <2>5, <2>7, <2>8
<1>12. WorkType(V)
  BY <1>2, <1>6, <1>8, <1>9, <1>11 DEF WorkType
<1>13. ASSUME NEW j
       PROVE  /\ MovedBy(W.m, Len(W.m), j) \in Int
              /\ n = j => MovedBy(V.m, Len(V.m), j) = MovedBy(W.m, Len(W.m), j) + qty
              /\ n # j => MovedBy(V.m, Len(V.m), j) = MovedBy(W.m, Len(W.m), j)
              /\ Reduced(W.m, j) => Reduced(V.m, j)
              /\ Increased(W.m, j) => Increased(V.m, j)
              /\ n = j /\ qty > 0 => Increased(V.m, j)
              /\ n # j => \A k \in DOMAIN W.m : Creates(W.m, k, j) => Creates(V.m, k, j)
              /\ (\A k \in DOMAIN W.m : W.m[k].batch # j) /\ n = j => Creates(V.m, Len(W.m) + 1, j)
  <2>1. PICK m, m2 : m = W.m /\ m2 = V.m
    OBVIOUS
  <2>2. m \in Seq(AnyRow) /\ Adds(row, m, m2)
    BY <1>2, <1>8, <2>1 DEF Adds
  <2>3. /\ MovedBy(m, Len(m), j) \in Int
        /\ row.batch = j => MovedBy(m2, Len(m) + 1, j) = MovedBy(m, Len(m), j) + row.qty
        /\ row.batch # j => MovedBy(m2, Len(m) + 1, j) = MovedBy(m, Len(m), j)
    BY <1>7, <2>2, RowMoved
  <2>4. /\ Reduced(m, j) => Reduced(m2, j)
        /\ Increased(m, j) => Increased(m2, j)
        /\ row.batch = j /\ row.qty > 0 => Increased(m2, j)
    BY <1>7, <2>2, RowAdded
  <2>5. \A k \in DOMAIN m :
          Creates(m, k, j) /\ (row.batch = j => row.qty <= 0 /\ m[k].qty > 0) => Creates(m2, k, j)
    BY <1>7, <2>2, RowAdded
  <2>6. (\A k \in DOMAIN m : m[k].batch # j) /\ row.batch = j => Creates(m2, Len(m) + 1, j)
    BY <1>7, <2>2, RowAdded
  <2> QED BY <1>7, <1>9, <2>1, <2>3, <2>4, <2>5, <2>6
<1>14. ASSUME NEW j \in DOMAIN b0 PROVE OldBatch(V, b0, j)
  <2>1. OldBatch(W, b0, j) /\ j \in DOMAIN W.b /\ j # n /\ j \in DOMAIN B
    BY <1>6, <1>10, <1>2 DEF WorkFits
  <2>2. V.b[j] = W.b[j] /\ V.db[j] = W.b[j].qty /\ MovedBy(V.m, Len(V.m), j) = MovedBy(W.m, Len(W.m), j)
    BY <1>6, <1>8, <1>11, <1>13, <2>1
  <2>3. V.db[j] > 0 => b0[j].qty > 0
    <3>1. W.b[j].qty <= b0[j].qty /\ W.b[j].qty \in Int /\ b0[j].qty \in Int
      BY <1>2, <1>3, <2>1 DEF OldBatch
    <3> QED BY <2>2, <3>1
  <2>4. ASSUME NEW k \in DOMAIN V.m, V.m[k].batch = j
        PROVE  b0[j].qty > 0 /\ V.m[k].qty <= 0 /\ Reduced(V.m, j)
    <3>1. k \in DOMAIN W.m /\ V.m[k] = W.m[k]
      BY <1>7, <1>9, <1>10, <2>1, <2>4
    <3>2. b0[j].qty > 0 /\ W.m[k].qty <= 0 /\ Reduced(W.m, j)
      BY <2>1, <2>4, <3>1 DEF OldBatch
    <3> QED BY <1>13, <3>1, <3>2
  <2> QED BY <2>1, <2>2, <2>3, <2>4 DEF OldBatch
<1>15. ASSUME NEW j \in DOMAIN V.b \ DOMAIN b0 PROVE NewBatch(V, d, j)
  <2>1. CASE j \in DOMAIN W.b
    <3>1. NewBatch(W, d, j) /\ j # n
      BY <1>10, <1>15, <2>1 DEF WorkFits
    <3>2. V.b[j] = W.b[j] /\ V.db[j] = W.b[j].qty /\ MovedBy(V.m, Len(V.m), j) = MovedBy(W.m, Len(W.m), j)
      BY <1>6, <1>8, <1>11, <1>13, <1>15, <2>1, <3>1
    <3>3. PICK k \in DOMAIN W.m : Creates(W.m, k, j)
      BY <3>1 DEF NewBatch
    <3>4. k \in DOMAIN V.m /\ Creates(V.m, k, j)
      BY <1>10, <1>13, <3>1, <3>3
    <3> QED BY <1>13, <3>1, <3>2, <3>4 DEF NewBatch
  <2>2. CASE j = n
    <3>1. V.b[j] = new /\ V.db[j] = qty
      <4>1. B[n] = new /\ n \in DOMAIN B
        BY <1>6, <1>10
      <4>2. V.db[n] = B[n].qty
        BY <1>11, <4>1
      <4> QED BY <1>4, <1>8, <2>2, <4>1, <4>2
    <3>2. \A k \in DOMAIN W.m : W.m[k].batch # j
      <4>1. n # NoBatch
        BY <1>2 DEF NoBatch
      <4>2. \A k \in DOMAIN W.m : W.m[k].batch \in DOMAIN W.b \/ W.m[k].batch = NoBatch
        BY DEF WorkFits, RowFits, OfBatch, OfNoBatch
      <4> QED BY <1>10, <2>2, <4>1, <4>2
    <3>3. V.b[j].qty = MovedBy(V.m, Len(V.m), j)
      <4>1. MovedBy(W.m, Len(W.m), j) = 0
        BY <1>2, <3>2, NotMoved
      <4> QED BY <1>4, <1>13, <2>2, <3>1, <4>1
    <3>4. Creates(V.m, Len(W.m) + 1, j) /\ Len(W.m) + 1 \in DOMAIN V.m
      BY <1>10, <1>13, <2>2, <3>2
    <3>5. V.db[j] > 0 \/ V.b[j].qty > 0 => Increased(V.m, j)
      BY <1>4, <1>13, <2>2, <3>1
    <3> QED BY <1>4, <3>1, <3>3, <3>4, <3>5 DEF NewBatch
  <2> QED BY <1>8, <1>10, <1>15, <2>1, <2>2
<1>16. ASSUME NEW j \in DOMAIN V.b PROVE SeenBatch(V, j)
  <2>1. V.db[j] = V.b[j].qty /\ V.b[j].qty \in Int
    <3>1. V.b[j] \in AnyBatch /\ j \in DOMAIN B /\ V.b = B
      BY <1>6, <1>8
    <3> QED BY <1>11, <3>1, BatchFields
  <2> QED BY <2>1 DEF SeenBatch
<1>17. ASSUME NEW k \in DOMAIN V.m PROVE RowFits(V, d, k)
  <2>1. CASE k \in DOMAIN W.m
    <3>1. RowFits(W, d, k) /\ V.m[k] = W.m[k]
      BY <1>9, <2>1 DEF WorkFits
    <3>2. ASSUME OfBatch(W, k) PROVE OfBatch(V, k)
      <4>1. \A j \in DOMAIN W.b : j \in DOMAIN B /\ B[j] = W.b[j]
        BY <1>6, <1>10
      <4>2. V.b[W.m[k].batch] = W.b[W.m[k].batch] /\ W.m[k].batch \in DOMAIN V.b
        BY <1>8, <3>2, <4>1 DEF OfBatch
      <4> QED BY <3>1, <3>2, <4>2 DEF OfBatch
    <3> QED BY <3>1, <3>2 DEF RowFits, OfNoBatch
  <2>2. CASE k = Len(W.m) + 1
    <3>1. V.m[k] = row /\ V.b[n] = new /\ n \in DOMAIN V.b
      BY <1>2, <1>6, <1>8, <1>9, <2>2
    <3>2. OfBatch(V, k)
      BY <1>4, <1>7, <3>1 DEF OfBatch
    <3> QED BY <1>7, <3>1, <3>2 DEF RowFits
  <2> QED BY <1>10, <2>1, <2>2
<1>18. InOrder(V, b0)
  <2>1. \A j \in DOMAIN b0 : V.b[j] = W.b[j]
    BY <1>6, <1>8, <1>10
  <2> QED BY <1>1, <2>1 DEF InOrder
<1>19. Len(b0) <= Len(V.b)
  BY <1>1, <1>2, <1>3, <1>6, <1>8
<1> QED BY <1>8, <1>12, <1>14, <1>15, <1>16, <1>17, <1>18, <1>19 DEF WorkFits, B

-----------------------------------------------------------------------------
(***************************************************************************)
(* What is on hand in a warehouse, and the cost of what leaves it.         *)
(***************************************************************************)
InWarehouse(b, sklad) == {i \in DOMAIN b : b[i].sklad \in {sklad}}

\* What a warehouse holds is a sum over its batches.
LEMMA OnHandIsSum ==
  ASSUME NEW b \in Seq(AnyBatch), NEW sklad
  PROVE  /\ IsFiniteSet(InWarehouse(b, sklad))
         /\ \A i \in InWarehouse(b, sklad) : b[i].qty \in Int
         /\ OnHand(b, {sklad}) = SumFunctionOnSet([i \in InWarehouse(b, sklad) |-> b[i].qty], InWarehouse(b, sklad))
         /\ OnHand(b, {sklad}) \in Int
<1>1. IsFiniteSet(DOMAIN b) /\ \A i \in DOMAIN b : b[i].qty \in Int
  BY SequenceIs, BatchFields
<1>2. IsFiniteSet(InWarehouse(b, sklad))
  BY <1>1, FS_Subset DEF InWarehouse
<1>3. \A i \in InWarehouse(b, sklad) : b[i].qty \in Int
  BY <1>1 DEF InWarehouse
<1>4. OnHand(b, {sklad}) = SumFunctionOnSet([i \in InWarehouse(b, sklad) |-> b[i].qty], InWarehouse(b, sklad))
  BY DEF OnHand, SumOver, InWarehouse
<1>5. SumFunctionOnSet([i \in InWarehouse(b, sklad) |-> b[i].qty], InWarehouse(b, sklad)) \in Int
  <2> DEFINE f == [i \in InWarehouse(b, sklad) |-> b[i].qty]
  <2>1. \A i \in InWarehouse(b, sklad) : f[i] \in Int
    BY <1>3
  <2> HIDE DEF f
  <2>2. SumFunctionOnSet(f, InWarehouse(b, sklad)) \in Int
    BY <1>2, <2>1, SumIsInt
  <2> QED BY <2>2 DEF f
<1> QED BY <1>2, <1>3, <1>4, <1>5

\* What is taken from a batch leaves its warehouse.
LEMMA OnHandTaken ==
  ASSUME NEW b \in Seq(AnyBatch), NEW sklad, NEW i \in DOMAIN b, b[i].sklad = sklad, b[i] # Gone,
         NEW take \in Int,
         NEW b2, Lowers(b2, b, i, take)
  PROVE  OnHand(b2, {sklad}) = OnHand(b, {sklad}) - take
<1> DEFINE x == [b[i] EXCEPT !.qty = b[i].qty - take]
           S == InWarehouse(b, sklad)
           f == [j \in S |-> b[j].qty]
           g == [j \in S |-> b2[j].qty]
<1>1. b[i] \in AnyBatch /\ b[i].qty \in Int /\ b[i].qty - take \in Int
  <2>1. b[i] \in AnyBatch
    BY SequenceIs
  <2> QED BY <2>1, BatchFields
<1>2. x \in AnyBatch /\ x.qty = b[i].qty - take /\ x.sklad = sklad
  BY <1>1, BatchFields
<1> HIDE DEF x
<1>3. /\ b2 \in Seq(AnyBatch) /\ DOMAIN b2 = DOMAIN b /\ b2[i] = x
      /\ \A j \in DOMAIN b \ {i} : b2[j] = b[j]
  <2>1. b2 = [b EXCEPT ![i] = x]
    BY DEF Lowers, x
  <2>2. \A t : t = [b EXCEPT ![i] = x] =>
               /\ t \in Seq(AnyBatch) /\ DOMAIN t = DOMAIN b /\ t[i] = x
               /\ \A j \in DOMAIN b \ {i} : t[j] = b[j]
    BY <1>2, Replaced
  <2> QED BY <2>1, <2>2
<1>4. InWarehouse(b2, sklad) = S /\ i \in S
  BY <1>2, <1>3 DEF InWarehouse
<1>5. IsFiniteSet(S) /\ \A j \in S : b[j].qty \in Int
  BY OnHandIsSum
<1>6. OnHand(b, {sklad}) = SumFunctionOnSet(f, S) /\ OnHand(b2, {sklad}) = SumFunctionOnSet(g, S)
  BY <1>3, <1>4, OnHandIsSum
<1>7. /\ \A j \in S : f[j] \in Int /\ g[j] \in Int
      /\ \A j \in S \ {i} : f[j] = g[j]
      /\ g[i] = f[i] - take
  <2>1. f[i] = b[i].qty /\ g[i] = x.qty
    BY <1>3, <1>4
  <2>2. \A j \in S \ {i} : f[j] = g[j]
    BY <1>3 DEF InWarehouse
  <2>3. \A j \in S : f[j] \in Int
    BY <1>5
  <2> HIDE DEF f, g, S
  <2>6. x.qty = b[i].qty - take /\ b[i].qty - take \in Int
    BY <1>1, <1>2
  <2>4. g[i] = f[i] - take /\ g[i] \in Int
    BY <2>1, <2>6
  <2>5. \A j \in S : g[j] \in Int
    BY <2>2, <2>3, <2>4
  <2> QED BY <2>2, <2>3, <2>4, <2>5
<1> HIDE DEF S, f, g
<1>8. SumFunctionOnSet(g, S) = SumFunctionOnSet(f, S) + g[i] - f[i]
  <2>1. IsFiniteSet(S) /\ i \in S
    BY <1>4, <1>5
  <2>2. \A j \in S : f[j] \in Int /\ g[j] \in Int
    BY <1>7
  <2>3. \A j \in S \ {i} : f[j] = g[j]
    BY <1>7
  <2> QED BY <2>1, <2>2, <2>3, SumChange
<1>9. SumFunctionOnSet(f, S) \in Int /\ f[i] \in Int
  BY <1>4, <1>5, <1>7, SumIsInt
<1> QED BY <1>6, <1>7, <1>8, <1>9

\* What a new batch holds enters its warehouse.
LEMMA OnHandEntered ==
  ASSUME NEW b \in Seq(AnyBatch), NEW x \in AnyBatch, NEW b2, b2 = Append(b, x)
  PROVE  OnHand(b2, {x.sklad}) = OnHand(b, {x.sklad}) + x.qty
<1> DEFINE n == Len(b) + 1
           S == InWarehouse(b, x.sklad)
           T == InWarehouse(b2, x.sklad)
           f == [j \in S |-> b[j].qty]
           g == [j \in T |-> b2[j].qty]
<1>1. /\ b2 \in Seq(AnyBatch) /\ DOMAIN b2 = 1 .. n /\ b2[n] = x /\ DOMAIN b = 1 .. Len(b) /\ Len(b) \in Nat
      /\ \A j \in DOMAIN b : b2[j] = b[j]
  BY Appended
<1>2. \A j \in DOMAIN b2 : (j \in DOMAIN b \/ j = n)
  BY <1>1
<1>3. n \in DOMAIN b2 /\ n \notin DOMAIN b /\ \A j \in DOMAIN b : j \in DOMAIN b2
  BY <1>1
<1>4. T \ {n} = S /\ n \in T
  BY <1>1, <1>2, <1>3 DEF InWarehouse
<1>5. IsFiniteSet(T) /\ \A j \in T : b2[j].qty \in Int
  BY <1>1, OnHandIsSum
<1>6. OnHand(b, {x.sklad}) = SumFunctionOnSet(f, S) /\ OnHand(b2, {x.sklad}) = SumFunctionOnSet(g, T)
      /\ OnHand(b, {x.sklad}) \in Int /\ IsFiniteSet(S)
  BY <1>1, OnHandIsSum
<1>7. (\A j \in T : g[j] \in Int) /\ g[n] = x.qty /\ \A j \in S : g[j] = f[j]
  BY <1>1, <1>4, <1>5 DEF InWarehouse
<1> HIDE DEF S, T, f, g, n
<1>8. SumFunctionOnSet(g, T) = g[n] + SumFunctionOnSet(g, T \ {n})
  BY <1>4, <1>5, <1>7, SumRemove
<1>9. SumFunctionOnSet(g, S) = SumFunctionOnSet(f, S)
  BY <1>6, <1>7, SumSame
<1>10. g[n] \in Int
  BY <1>4, <1>7
<1>11. SumFunctionOnSet(f, S) \in Int
  BY <1>6
<1>12. SumFunctionOnSet(g, T) = g[n] + SumFunctionOnSet(f, S)
  BY <1>4, <1>8, <1>9
<1>13. SumFunctionOnSet(g, T) = SumFunctionOnSet(f, S) + g[n]
  BY <1>10, <1>11, <1>12
<1>14. g[n] = x.qty
  BY <1>7
<1> QED BY <1>6, <1>13, <1>14

\* An average cost is an integer.
LEMMA AverageIsInt ==
  ASSUME NEW W, WorkType(W), NEW found \in SUBSET (DOMAIN W.b)
  PROVE  AverageCost(W, found) \in Int
<1> DEFINE f == [i \in found |-> W.b[i].qty]
           g == [i \in found |-> W.b[i].qty * W.b[i].cost]
<1>1. DOMAIN W.b = 1 .. Len(W.b) /\ Len(W.b) \in Nat
      /\ \A i \in DOMAIN W.b : W.b[i].qty \in Int /\ W.b[i].cost \in Int
  BY WorkParts
<1>2. IsFiniteSet(found)
  <2>1. IsFiniteSet(DOMAIN W.b)
    BY <1>1, FS_Interval
  <2> QED BY <2>1, FS_Subset
<1>3. \A i \in found : f[i] \in Int /\ g[i] \in Int
  BY <1>1
<1>4. SumFunctionOnSet(f, found) \in Int /\ SumFunctionOnSet(g, found) \in Int
  <2> HIDE DEF f, g
  <2> QED BY <1>2, <1>3, SumIsInt
<1>5. SumOver(found, LAMBDA i : W.b[i].qty) = SumFunctionOnSet(f, found)
  BY DEF SumOver
<1>6. SumOver(found, LAMBDA i : W.b[i].qty * W.b[i].cost) = SumFunctionOnSet(g, found)
  BY DEF SumOver
<1> HIDE DEF f, g
<1>7. AverageCost(W, found) = IF SumFunctionOnSet(f, found) > 0
                              THEN Quantize(SumFunctionOnSet(g, found), SumFunctionOnSet(f, found)) ELSE 0
  BY <1>5, <1>6 DEF AverageCost
<1> QED BY <1>4, <1>7, QuantizeIsInt

-----------------------------------------------------------------------------
(***************************************************************************)
(* The loop of consume_batches, after k places of the order.               *)
(***************************************************************************)
SameBut(b, b2) ==
  DOMAIN b2 = DOMAIN b /\ \A i \in DOMAIN b : b2[i] = [b[i] EXCEPT !.qty = b2[i].qty]

Emptied(W, C, k, sklad) ==
  C.left > 0 =>
    \A j \in 1 .. k : LET i == Place(j, Len(W.b), method) IN
                      W.b[i].sklad = sklad => C.W.b[i].qty <= 0

Took(W, C, k, sklad, qty, b0, d) ==
  /\ C = [W |-> C.W, left |-> C.left, amount |-> C.amount]
  /\ WorkFits(C.W, b0, d)
  /\ C.left \in Int /\ C.amount \in Int /\ 0 <= C.left
  /\ C.W.ok = W.ok /\ C.W.db = W.db /\ SameBut(W.b, C.W.b)
  /\ Emptied(W, C, k, sklad)
  /\ OnHand(C.W.b, {sklad}) - C.left = OnHand(W.b, {sklad}) - qty

\* The order of the method goes through every batch.
LEMMA PlaceFacts ==
  ASSUME NEW n \in Nat, NEW how
  PROVE  /\ \A k \in 1 .. n : Place(k, n, how) \in 1 .. n
         /\ \A j \in 1 .. n : \E k \in 1 .. n : Place(k, n, how) = j
<1>1. \A k \in 1 .. n : Place(k, n, how) \in 1 .. n
  BY DEF Place
<1>2. CASE how = "lifo"
  <2>1. \A j \in 1 .. n : n + 1 - j \in 1 .. n /\ Place(n + 1 - j, n, how) = j
    BY <1>2 DEF Place
  <2> QED BY <1>1, <2>1
<1>3. CASE how # "lifo"
  <2>1. \A j \in 1 .. n : Place(j, n, how) = j
    BY <1>3 DEF Place
  <2> QED BY <1>1, <2>1
<1> QED BY <1>2, <1>3

\* It comes to a batch after all that precede it.
LEMMA PlacesBefore ==
  ASSUME NEW n \in Nat, NEW k \in 1 .. n, NEW j \in 1 .. n, Precedes(j, Place(k, n, method))
  PROVE  \E p \in 1 .. k - 1 : Place(p, n, method) = j
<1>1. CASE method = "lifo"
  <2>1. n + 1 - j \in 1 .. k - 1 /\ Place(n + 1 - j, n, method) = j
    BY <1>1 DEF Place, Precedes
  <2> QED BY <2>1
<1>2. CASE method # "lifo"
  <2>1. j \in 1 .. k - 1 /\ Place(j, n, method) = j
    BY <1>2 DEF Place, Precedes
  <2> QED BY <2>1
<1> QED BY <1>1, <1>2

\* Taking from a batch changes its quantity only.
LEMMA SameButTaken ==
  ASSUME NEW b \in Seq(AnyBatch), NEW b2, SameBut(b, b2), NEW i \in DOMAIN b, b[i] # Gone,
         NEW take, NEW b3, Lowers(b3, b2, i, take)
  PROVE  SameBut(b, b3) /\ b3[i].qty = b2[i].qty - take /\ \A j \in DOMAIN b \ {i} : b3[j] = b2[j]
<1> DEFINE q == b2[i].qty - take
<1>1. b[i] \in AnyBatch
  BY SequenceIs
<1>2. b[i] = [sklad |-> b[i].sklad, qty |-> b[i].qty, cost |-> b[i].cost, src |-> b[i].src]
  BY <1>1, BatchFields
<1>3. b3[i] = [b2[i] EXCEPT !.qty = q] /\ DOMAIN b3 = DOMAIN b /\ \A j \in DOMAIN b \ {i} : b3[j] = b2[j]
  BY DEF SameBut, Lowers
<1>4. b2[i] = [b[i] EXCEPT !.qty = b2[i].qty]
  BY DEF SameBut
<1> HIDE DEF q
<1>5. b3[i] = [b[i] EXCEPT !.qty = q] /\ b3[i].qty = q
  BY <1>2, <1>3, <1>4
<1> QED BY <1>3, <1>5 DEF SameBut, q

\* The other columns are those it had.
LEMMA SameButFields ==
  ASSUME NEW b \in Seq(AnyBatch), NEW b2, SameBut(b, b2)
  PROVE  \A i \in DOMAIN b : b2[i].sklad = b[i].sklad /\ b2[i].cost = b[i].cost /\ b2[i].src = b[i].src
BY SequenceIs DEF SameBut, AnyBatch, Gone

\* The loop before its first batch.
LEMMA TookFirst ==
  ASSUME NEW b0, NEW d, NEW W, WorkFits(W, b0, d),
         NEW sklad \in Sklady, NEW qty \in Nat
  PROVE  Took(W, [W |-> W, left |-> qty, amount |-> 0], 0, sklad, qty, b0, d)
<1> DEFINE C == [W |-> W, left |-> qty, amount |-> 0]
<1>1. C.W = W /\ C.left = qty /\ C.amount = 0
  OBVIOUS
<1>6. C = [W |-> C.W, left |-> C.left, amount |-> C.amount]
  OBVIOUS
<1> HIDE DEF C
<1>2. W.b \in Seq(AnyBatch)
  BY WorkParts DEF WorkFits
<1>3. SameBut(W.b, W.b)
  <2>1. \A i \in DOMAIN W.b : W.b[i] \in AnyBatch
    BY <1>2, SequenceIs
  <2> QED BY <2>1 DEF SameBut, AnyBatch, Gone
<1>4. Emptied(W, C, 0, sklad)
  BY DEF Emptied
<1>5. Took(W, C, 0, sklad, qty, b0, d)
  BY <1>1, <1>3, <1>4, <1>6 DEF Took
<1> QED BY <1>5 DEF C

\* One batch later.
LEMMA TookNext ==
  ASSUME NEW b0, NEW d, NEW W, WorkFits(W, b0, d),
         NEW sklad \in Sklady, NEW qty \in Nat,
         NEW k \in 1 .. Len(W.b), NEW C, Took(W, C, k - 1, sklad, qty, b0, d)
  PROVE  Took(W, TakeStep(W, sklad, method, C, k), k, sklad, qty, b0, d)
<1> DEFINE n == Len(W.b)
           i == Place(k, n, method)
           found == Found(W, sklad)
<1>1. WorkType(W) /\ WorkType(C.W)
  BY DEF WorkFits, Took
<1>2. /\ n \in Nat /\ DOMAIN W.b = 1 .. n /\ DOMAIN C.W.b = 1 .. n
      /\ W.b \in Seq(AnyBatch) /\ C.W.b \in Seq(AnyBatch)
      /\ \A j \in 1 .. n : /\ C.W.b[j] \in AnyBatch /\ C.W.b[j].qty \in Int /\ C.W.b[j].cost \in Int
                           /\ C.W.db[j] \in Int /\ W.b[j].cost \in Int
  <2>1. /\ n \in Nat /\ DOMAIN W.b = 1 .. n /\ W.b \in Seq(AnyBatch)
        /\ \A j \in DOMAIN W.b : W.b[j].cost \in Int
    BY <1>1, WorkParts
  <2>2. DOMAIN C.W.b = DOMAIN W.b
    BY DEF Took, SameBut
  <2>3. /\ C.W.b \in Seq(AnyBatch)
        /\ \A j \in DOMAIN C.W.b : /\ C.W.b[j] \in AnyBatch /\ C.W.b[j].qty \in Int /\ C.W.b[j].cost \in Int
                                   /\ C.W.db[j] \in Int
    BY <1>1, WorkParts
  <2> QED BY <2>1, <2>2, <2>3
<1>3. i \in 1 .. n /\ \A j \in 1 .. n : Precedes(j, i) => \E p \in 1 .. k - 1 : Place(p, n, method) = j
  <2>1. PICK size : size = n
    OBVIOUS
  <2>2. size \in Nat /\ k \in 1 .. size
    BY <1>2, <2>1
  <2>3. Place(k, size, method) \in 1 .. size
    BY <2>2, PlaceFacts
  <2>4. ASSUME NEW j \in 1 .. size, Precedes(j, Place(k, size, method))
        PROVE  \E p \in 1 .. k - 1 : Place(p, size, method) = j
    BY <2>2, <2>4, PlacesBefore
  <2> QED BY <2>1, <2>3, <2>4
<1>4. C.left \in Int /\ 0 <= C.left /\ C.amount \in Int /\ C.W.db = W.db /\ SameBut(W.b, C.W.b)
      /\ Emptied(W, C, k - 1, sklad) /\ WorkFits(C.W, b0, d) /\ C.W.ok = W.ok
      /\ OnHand(C.W.b, {sklad}) - C.left = OnHand(W.b, {sklad}) - qty
  BY DEF Took
<1>5. \A j \in 1 .. n : C.W.b[j].sklad = W.b[j].sklad /\ C.W.b[j].cost = W.b[j].cost
  BY <1>2, <1>4, SameButFields
<1>6. SeenBatch(C.W, i)
  BY <1>2, <1>3, <1>4 DEF WorkFits
<1>7. \A p \in 1 .. k : p \in 1 .. k - 1 \/ p = k
  BY <1>2
<1>10. b0 \in Seq(AnyBatch)
  BY <1>4 DEF WorkFits
<1>8. CASE ~ (i \in found /\ C.left > 0)
  <2>1. TakeStep(W, sklad, method, C, k) = C
    BY <1>8 DEF TakeStep
  <2>2. C.left > 0 /\ W.b[i].sklad = sklad => C.W.b[i].qty <= 0
    <3>1. SUFFICES ASSUME C.left > 0, W.b[i].sklad = sklad PROVE C.W.b[i].qty <= 0
      OBVIOUS
    <3>2. ~ W.db[i] > 0
      BY <1>2, <1>3, <1>8, <3>1 DEF Found
    <3> QED BY <1>2, <1>3, <1>4, <1>6, <3>2 DEF SeenBatch
  <2>3. Emptied(W, C, k, sklad)
    BY <1>4, <1>7, <2>2 DEF Emptied
  <2> QED BY <1>4, <2>1, <2>3 DEF Took
<1>9. CASE i \in found /\ C.left > 0
  <2> DEFINE cost == UnitCost(W, found, i, method)
             take == IF C.W.b[i].qty < C.left THEN C.W.b[i].qty ELSE C.left
             D == TakeBatch(C, i, cost)
  <2>1. TakeStep(W, sklad, method, C, k) = D
    BY <1>9 DEF TakeStep
  <2>2. W.b[i].sklad = sklad /\ W.db[i] > 0
    BY <1>9 DEF Found
  <2>3. C.W.b[i] # Gone /\ C.W.b[i].sklad = sklad /\ W.b[i] # Gone
    BY <1>3, <1>5, <2>2, BatchFields, LedgerAssumption
  <2>4. 0 <= C.W.b[i].qty
    BY <1>4, <1>6, <2>2 DEF SeenBatch
  <2>5. /\ take \in Int /\ 0 <= take /\ take <= C.W.b[i].qty /\ take <= C.left
        /\ take = 0 => C.W.b[i].qty = 0
        /\ C.left - take > 0 => take = C.W.b[i].qty
    <3>1. C.W.b[i].qty \in Int
      BY <1>2, <1>3
    <3> QED BY <1>4, <1>9, <2>4, <3>1
  <2>6. cost \in Int /\ (method # "average" => cost = C.W.b[i].cost)
    <3>1. CASE method = "average"
      <4>1. found \in SUBSET (DOMAIN W.b)
        BY DEF Found
      <4>2. AverageCost(W, found) \in Int
        BY <1>1, <4>1, AverageIsInt
      <4> QED BY <3>1, <4>2 DEF UnitCost
    <3>2. CASE method # "average"
      BY <1>2, <1>3, <1>5, <3>2 DEF UnitCost
    <3> QED BY <3>1, <3>2
  <2>7. \A j \in DOMAIN b0 : C.W.b[j].sklad = C.W.b[i].sklad /\ Precedes(j, i) => C.W.b[j].qty <= 0
    <3>1. SUFFICES ASSUME NEW j \in DOMAIN b0, C.W.b[j].sklad = C.W.b[i].sklad, Precedes(j, i)
                   PROVE  C.W.b[j].qty <= 0
      OBVIOUS
    <3>2. j \in 1 .. n
      <4>1. Len(b0) <= Len(C.W.b) /\ DOMAIN b0 = 1 .. Len(b0) /\ Len(b0) \in Nat
        BY <1>4, <1>10, SequenceIs DEF WorkFits
      <4>2. Len(C.W.b) = n
        BY <1>2, SequenceIs
      <4> QED BY <1>2, <4>1, <4>2
    <3>3. PICK p \in 1 .. k - 1 : Place(p, n, method) = j
      BY <1>3, <3>1, <3>2
    <3>4. W.b[j].sklad = sklad
      BY <1>5, <2>3, <3>1, <3>2
    <3> QED BY <1>4, <1>9, <3>3, <3>4 DEF Emptied
  <2> HIDE DEF cost, take
  <2>8. Takes(D.W, C.W, i, take, cost) /\ D.left = C.left - take /\ D.amount = C.amount + take * cost
    BY DEF TakeBatch, Takes, take
  <2>19. D = [W |-> D.W, left |-> D.left, amount |-> D.amount]
    BY DEF TakeBatch
  <2> HIDE DEF D
  <2>9. i \in DOMAIN C.W.b /\ C.W.db[i] > 0
    BY <1>2, <1>3, <1>4, <2>2
  <2>10. /\ WorkFits(D.W, b0, d) /\ D.W.db = C.W.db /\ D.W.ok = C.W.ok
         /\ Lowers(D.W.b, C.W.b, i, take)
    <3>1. PICK V, U : V = D.W /\ U = C.W
      OBVIOUS
    <3>2. /\ WorkFits(U, b0, d) /\ i \in DOMAIN U.b /\ U.b[i] # Gone /\ U.db[i] > 0
          /\ take <= U.b[i].qty /\ (take = 0 => U.b[i].qty = 0)
          /\ (method # "average" => cost = U.b[i].cost)
      BY <1>4, <2>3, <2>5, <2>6, <2>9, <3>1
    <3>3. take \in Int /\ 0 <= take /\ cost \in Int
      BY <2>5, <2>6
    <3>4. FirstLeft(U, b0, i)
      BY <2>7, <3>1 DEF FirstLeft
    <3>5. Takes(V, U, i, take, cost)
      BY <2>8, <3>1
    <3> HIDE DEF i
    <3>6. /\ WorkFits(V, b0, d) /\ V.db = U.db /\ V.ok = U.ok
          /\ Lowers(V.b, U.b, i, take)
      BY <3>2, <3>3, <3>4, <3>5, TakeFits
    <3> QED BY <3>1, <3>6
  <2>11. C.W.b[i].qty - take \in Int /\ take * cost \in Int
    BY <1>2, <1>3, <2>5, <2>6
  <2>12. /\ SameBut(W.b, D.W.b) /\ D.W.b[i].qty = C.W.b[i].qty - take
         /\ \A j \in (1 .. n) \ {i} : D.W.b[j] = C.W.b[j]
    <3>1. PICK b, b2, b3 : b = W.b /\ b2 = C.W.b /\ b3 = D.W.b
      OBVIOUS
    <3>2. b \in Seq(AnyBatch) /\ SameBut(b, b2) /\ i \in DOMAIN b /\ b[i] # Gone
      BY <1>2, <1>3, <1>4, <2>3, <3>1
    <3>3. Lowers(b3, b2, i, take)
      BY <2>10, <3>1
    <3> HIDE DEF i
    <3>4. SameBut(b, b3) /\ b3[i].qty = b2[i].qty - take /\ \A j \in DOMAIN b \ {i} : b3[j] = b2[j]
      BY <3>2, <3>3, SameButTaken
    <3> QED BY <1>2, <3>1, <3>4
  <2>13. Emptied(W, D, k, sklad)
    <3>1. SUFFICES ASSUME D.left > 0, NEW p \in 1 .. k, W.b[Place(p, n, method)].sklad = sklad
                   PROVE  D.W.b[Place(p, n, method)].qty <= 0
      BY DEF Emptied
    <3>2. Place(p, n, method) \in 1 .. n
      <4>1. PICK size : size = n
        OBVIOUS
      <4>2. size \in Nat /\ p \in 1 .. size
        BY <1>2, <4>1
      <4> QED BY <4>1, <4>2, PlaceFacts
    <3>3. CASE Place(p, n, method) = i
      <4>1. take = C.W.b[i].qty /\ C.W.b[i].qty \in Int
        BY <1>2, <1>3, <2>5, <2>8, <3>1
      <4>2. D.W.b[i].qty = 0
        <5>1. D.W.b[i].qty = C.W.b[i].qty - take
          BY <2>12
        <5> HIDE DEF i
        <5> QED BY <4>1, <5>1
      <4> HIDE DEF i
      <4> QED BY <3>3, <4>2
    <3>4. CASE Place(p, n, method) # i
      <4>1. p \in 1 .. k - 1
        BY <1>7, <3>4
      <4>2. C.W.b[Place(p, n, method)].qty <= 0
        BY <1>4, <1>9, <3>1, <4>1 DEF Emptied
      <4> QED BY <2>12, <3>2, <3>4, <4>2
    <3> QED BY <3>3, <3>4
  <2>14. OnHand(D.W.b, {sklad}) = OnHand(C.W.b, {sklad}) - take
    <3>1. PICK b, b2, j, t : b = C.W.b /\ b2 = D.W.b /\ j = i /\ t = take
      OBVIOUS
    <3>2. b \in Seq(AnyBatch) /\ j \in DOMAIN b /\ b[j].sklad = sklad /\ b[j] # Gone /\ t \in Int
      BY <1>2, <2>3, <2>5, <2>9, <3>1
    <3>3. Lowers(b2, b, j, t)
      BY <2>10, <3>1
    <3> HIDE DEF i
    <3>4. OnHand(b2, {sklad}) = OnHand(b, {sklad}) - t
      BY <3>2, <3>3, OnHandTaken, ZenonT(40)
    <3> QED BY <3>1, <3>4
  <2>15. OnHand(C.W.b, {sklad}) \in Int /\ OnHand(W.b, {sklad}) \in Int
    BY <1>2, OnHandIsSum
  <2>16. OnHand(D.W.b, {sklad}) - D.left = OnHand(W.b, {sklad}) - qty
    BY <1>4, <2>5, <2>8, <2>14, <2>15
  <2>17. D.left \in Int /\ 0 <= D.left /\ D.amount \in Int
    BY <1>4, <2>5, <2>8, <2>11
  <2>18. D.W.ok = W.ok /\ D.W.db = W.db
    BY <1>4, <2>10
  <2> QED BY <2>1, <2>10, <2>12, <2>13, <2>16, <2>17, <2>18, <2>19 DEF Took
<1> QED BY <1>8, <1>9

\* After the last batch.
LEMMA TookAll ==
  ASSUME NEW b0, NEW d, NEW W, WorkFits(W, b0, d),
         NEW sklad \in Sklady, NEW qty \in Nat
  PROVE  Took(W, TakeBatches(W, sklad, qty, method), Len(W.b), sklad, qty, b0, d)
<1>1. Len(W.b) \in Nat
  BY WorkParts DEF WorkFits
<1>7. PICK after : Taking(after, W, sklad, qty, method)
  BY <1>1, TakingUnfolds
<1>2. /\ after[0] = [W |-> W, left |-> qty, amount |-> 0]
      /\ \A k \in 1 .. Len(W.b) : after[k] = TakeStep(W, sklad, method, after[k - 1], k)
      /\ TakeBatches(W, sklad, qty, method) = after[Len(W.b)]
  BY <1>7 DEF Taking
<1> DEFINE S == {k \in 0 .. Len(W.b) : Took(W, after[k], k, sklad, qty, b0, d)}
<1>3. 0 \in S
  BY <1>1, <1>2, TookFirst
<1>4. ASSUME NEW k \in 1 .. Len(W.b), k - 1 \in S PROVE k \in S
  <2>1. Took(W, TakeStep(W, sklad, method, after[k - 1], k), k, sklad, qty, b0, d)
    BY <1>4, TookNext
  <2> QED BY <1>1, <1>2, <2>1
<1> HIDE DEF S
<1>5. \A k \in 0 .. Len(W.b) : k \in S
  BY <1>1, <1>3, <1>4, UpTo
<1>6. Len(W.b) \in S
  BY <1>1, <1>5
<1> QED BY <1>2, <1>6 DEF S

-----------------------------------------------------------------------------
(***************************************************************************)
(* The operations on stock, and the posting of a document.                 *)
(***************************************************************************)
\* A batch that is brought in keeps the work.
LEMMA CreateFits ==
  ASSUME NEW b0, NEW d, NEW W, WorkFits(W, b0, d),
         NEW sklad \in Sklady, NEW qty \in Int, NEW price \in Int, Document[d].type \notin Outgoing,
         qty < 0 => BringsNegative(d, qty)
  PROVE  LET V == CreateIncoming(W, d, sklad, qty, price) IN
         /\ WorkFits(V, b0, d) /\ V.ok = W.ok
         /\ V.b = Append(W.b, [sklad |-> sklad, qty |-> qty, cost |-> price, src |-> d])
<1> DEFINE V == CreateIncoming(W, d, sklad, qty, price)
<1>1. Enters(V, W, d, sklad, qty, price, Cents(qty * price))
  BY DEF Enters, CreateIncoming
<1>2. qty * price \in Int /\ (qty = 0 => qty * price = 0)
  OBVIOUS
<1>3. Cents(qty * price) \in Int /\ (qty = 0 => Cents(qty * price) = 0)
  BY <1>2, CentsIsInt
<1> HIDE DEF V
<1>5. /\ WorkFits(V, b0, d) /\ V.ok = W.ok
      /\ V.b = Append(W.b, [sklad |-> sklad, qty |-> qty, cost |-> price, src |-> d])
  BY <1>1, <1>3, EnterFits
<1> QED BY <1>5 DEF V

\* A shortfall that becomes a negative batch keeps the work.
LEMMA OverdrawFits ==
  ASSUME NEW b0, NEW d, NEW W, WorkFits(W, b0, d),
         NEW sklad \in Sklady, NEW left \in Int, left > 0, NEW cost \in Int,
         AllowNegative(Document[d].type)
  PROVE  WorkFits(Overdraw(W, d, sklad, left, cost), b0, d)
<1> DEFINE V == Overdraw(W, d, sklad, left, cost)
           qty == -left
<1>1. qty \in Int /\ qty < 0
  OBVIOUS
<1>2. -(left * cost) = qty * cost /\ -(left * cost) \in Int
  OBVIOUS
<1>3. Enters(V, W, d, sklad, qty, cost, Cents(-(left * cost)))
  BY DEF Enters, Overdraw
<1> HIDE DEF V, qty
<1>4. Cents(-(left * cost)) \in Int /\ Cents(-(left * cost)) = Cents(qty * cost)
  BY <1>2, CentsIsInt
<1>5. PICK U, q, amount : U = V /\ q = qty /\ amount = Cents(-(left * cost))
  OBVIOUS
<1>6. Enters(U, W, d, sklad, q, cost, amount)
  BY <1>3, <1>5
<1>7. q \in Int /\ q < 0 /\ amount \in Int /\ amount = Cents(q * cost)
  BY <1>1, <1>4, <1>5
<1> HIDE DEF V, qty
<1>9. /\ q < 0 => AllowNegative(Document[d].type) \/ BringsNegative(d, q)
      /\ q = 0 => amount = 0
      /\ method # "average" => amount = Cents(q * cost)
      /\ Document[d].type \in Outgoing => q <= 0
  BY <1>7
<1>8. WorkFits(U, b0, d)
  BY <1>6, <1>7, <1>9, EnterFits
<1> QED BY <1>5, <1>8 DEF V

\* A movement of no batch keeps the work.
LEMMA NoBatchFits ==
  ASSUME NEW b0, NEW d, NEW W, WorkFits(W, b0, d),
         NEW sklad \in Sklady, NEW qty \in Int, qty <= 0
  PROVE  LET V == MoveNoBatch(W, sklad, qty) IN
         WorkFits(V, b0, d) /\ V.b = W.b /\ V.ok = W.ok
<1> DEFINE V == MoveNoBatch(W, sklad, qty)
           row == [batch |-> NoBatch, sklad |-> sklad, qty |-> -qty, amount |-> 0]
<1>1. WorkType(W)
  BY DEF WorkFits
<1>2. /\ W.b \in Seq(AnyBatch) /\ W.db \in Seq(Int) /\ W.m \in Seq(AnyRow) /\ W.ok \in BOOLEAN
      /\ DOMAIN W.b = 1 .. Len(W.b) /\ Len(W.b) \in Nat /\ Len(W.db) = Len(W.b)
  BY <1>1, WorkParts
<1>3. row \in AnyRow /\ row.batch = 0 /\ row.sklad = sklad /\ row.qty >= 0 /\ row.amount = 0
  <2>1. PICK q : q = -qty
    OBVIOUS
  <2>2. q \in Int /\ q >= 0
    BY <2>1
  <2>3. [batch |-> 0, sklad |-> sklad, qty |-> q, amount |-> 0] \in AnyRow
    BY <2>2 DEF AnyRow
  <2>4. row = [batch |-> 0, sklad |-> sklad, qty |-> q, amount |-> 0]
    BY <2>1 DEF NoBatch
  <2> QED BY <2>2, <2>3, <2>4
<1>4. V.b = W.b /\ V.db = W.db /\ V.m = Append(W.m, row) /\ V.ok = W.ok
      /\ V = [b |-> V.b, db |-> V.db, m |-> V.m, ok |-> V.ok]
  <2>1. W \in [b : Seq(AnyBatch), db : Seq(Int), m : Seq(AnyRow), ok : BOOLEAN]
    BY <1>1 DEF WorkType
  <2>2. V = [W EXCEPT !.m = Append(W.m, row)]
    BY DEF MoveNoBatch
  <2> HIDE DEF row, V
  <2>3. \A m : [W EXCEPT !.m = m] = [b |-> W.b, db |-> W.db, m |-> m, ok |-> W.ok]
    BY <2>1
  <2>4. V = [b |-> W.b, db |-> W.db, m |-> Append(W.m, row), ok |-> W.ok]
    BY <2>2, <2>3
  <2> QED BY <2>4
<1> HIDE DEF row, V
<1>5. /\ V.m \in Seq(AnyRow) /\ Len(V.m) = Len(W.m) + 1 /\ DOMAIN V.m = 1 .. Len(W.m) + 1
      /\ DOMAIN W.m = 1 .. Len(W.m) /\ Len(W.m) \in Nat
      /\ \A k \in DOMAIN W.m : V.m[k] = W.m[k]
      /\ V.m[Len(W.m) + 1] = row
  BY <1>2, <1>3, <1>4, Appended
<1>6. \A k \in DOMAIN V.m : k \in DOMAIN W.m \/ k = Len(W.m) + 1
  BY <1>5
<1>7. WorkType(V)
  BY <1>2, <1>4, <1>5 DEF WorkType
<1>8. ASSUME NEW j \in DOMAIN W.b
      PROVE  /\ MovedBy(V.m, Len(V.m), j) = MovedBy(W.m, Len(W.m), j)
             /\ Reduced(W.m, j) => Reduced(V.m, j)
             /\ Increased(W.m, j) => Increased(V.m, j)
             /\ \A k \in DOMAIN W.m : Creates(W.m, k, j) => k \in DOMAIN V.m /\ Creates(V.m, k, j)
             /\ \A k \in DOMAIN V.m : V.m[k].batch = j => k \in DOMAIN W.m
  <2>1. j # 0
    BY <1>2
  <2>2. PICK m, m2 : m = W.m /\ m2 = V.m
    OBVIOUS
  <2>3. m \in Seq(AnyRow) /\ Adds(row, m, m2)
    BY <1>2, <1>4, <2>2 DEF Adds
  <2>4. MovedBy(m2, Len(m) + 1, j) = MovedBy(m, Len(m), j)
    BY <1>3, <2>1, <2>3, RowMoved
  <2>5. /\ Reduced(m, j) => Reduced(m2, j)
        /\ Increased(m, j) => Increased(m2, j)
        /\ \A k \in DOMAIN m : Creates(m, k, j) => Creates(m2, k, j)
    BY <1>3, <2>1, <2>3, RowAdded
  <2>6. \A k \in DOMAIN W.m : k \in DOMAIN V.m
    BY <1>5
  <2>7. \A k \in DOMAIN V.m : V.m[k].batch = j => k \in DOMAIN W.m
    BY <1>3, <1>5, <1>6, <2>1
  <2> QED BY <1>5, <2>2, <2>4, <2>5, <2>6, <2>7
<1>9. \A j \in DOMAIN b0 : j \in DOMAIN W.b
  <2>1. DOMAIN b0 = 1 .. Len(b0) /\ Len(b0) \in Nat /\ Len(b0) <= Len(W.b)
    BY SequenceIs DEF WorkFits
  <2> QED BY <1>2, <2>1
<1>10. ASSUME NEW j \in DOMAIN b0 PROVE OldBatch(V, b0, j)
  <2>1. OldBatch(W, b0, j)
    BY DEF WorkFits
  <2>2. ASSUME NEW k \in DOMAIN V.m, V.m[k].batch = j
        PROVE  b0[j].qty > 0 /\ V.m[k].qty <= 0 /\ Reduced(V.m, j)
    <3>1. k \in DOMAIN W.m /\ V.m[k] = W.m[k]
      BY <1>5, <1>8, <1>9, <2>2
    <3> QED BY <1>8, <1>9, <2>1, <2>2, <3>1 DEF OldBatch
  <2> QED BY <1>4, <1>8, <1>9, <2>1, <2>2 DEF OldBatch
<1>11. ASSUME NEW j \in DOMAIN V.b \ DOMAIN b0 PROVE NewBatch(V, d, j)
  <2>1. NewBatch(W, d, j) /\ j \in DOMAIN W.b
    BY <1>4 DEF WorkFits
  <2>2. \E k \in DOMAIN V.m : Creates(V.m, k, j)
    BY <1>8, <2>1 DEF NewBatch
  <2> QED BY <1>4, <1>8, <2>1, <2>2 DEF NewBatch
<1>12. ASSUME NEW j \in DOMAIN V.b PROVE SeenBatch(V, j)
  BY <1>4, <1>8 DEF WorkFits, SeenBatch
<1>13. ASSUME NEW k \in DOMAIN V.m PROVE RowFits(V, d, k)
  <2>1. CASE k \in DOMAIN W.m
    BY <1>4, <1>5, <2>1 DEF WorkFits, RowFits, OfBatch, OfNoBatch
  <2>2. CASE k = Len(W.m) + 1
    BY <1>3, <1>5, <2>2 DEF RowFits, OfNoBatch, NoBatch
  <2> QED BY <1>6, <2>1, <2>2
<1>14. InOrder(V, b0)
  BY <1>4 DEF WorkFits, InOrder
<1>15. WorkFits(V, b0, d)
  BY <1>4, <1>7, <1>10, <1>11, <1>12, <1>13, <1>14 DEF WorkFits
<1> QED BY <1>4, <1>15 DEF V

\* A consumption that succeeds without overdrawing took what it was asked for.
Drawn(V, W, sklad, qty, allow) ==
  ~ allow /\ V.ok => W.ok /\ (qty >= 0 => OnHand(V.b, {sklad}) = OnHand(W.b, {sklad}) - qty)

\* A consumption keeps the work, and takes exactly what it was asked for
\* unless it fails or may overdraw; of zero or below it takes nothing.
LEMMA ConsumeFits ==
  ASSUME NEW b0, NEW d, NEW W, WorkFits(W, b0, d),
         NEW sklad \in Sklady, NEW qty \in Int, NEW allow \in BOOLEAN,
         allow => AllowNegative(Document[d].type)
  PROVE  LET D == Consume(W, d, sklad, qty, method, allow) IN
         /\ WorkFits(D.W, b0, d) /\ D.amount \in Int
         /\ Drawn(D.W, W, sklad, qty, allow)
<1> DEFINE D == Consume(W, d, sklad, qty, method, allow)
           N == MoveNoBatch(W, sklad, qty)
<1>1. CASE qty <= 0
  <2>1. D.W = N /\ D.amount = 0
    BY <1>1 DEF Consume
  <2>2. WorkFits(N, b0, d) /\ N.b = W.b /\ N.ok = W.ok
    BY <1>1, NoBatchFits
  <2>3. OnHand(W.b, {sklad}) \in Int
    BY WorkParts, OnHandIsSum DEF WorkFits
  <2> HIDE DEF D, N
  <2>4. qty >= 0 => OnHand(D.W.b, {sklad}) = OnHand(W.b, {sklad}) - qty
    BY <1>1, <2>1, <2>2, <2>3
  <2>5. WorkFits(D.W, b0, d) /\ D.amount \in Int /\ D.W.ok = W.ok
    BY <2>1, <2>2
  <2>6. /\ WorkFits(D.W, b0, d) /\ D.amount \in Int
        /\ ~ allow /\ D.W.ok => W.ok /\ (qty >= 0 => OnHand(D.W.b, {sklad}) = OnHand(W.b, {sklad}) - qty)
    BY <2>4, <2>5
  <2> QED BY <2>6 DEF D, Drawn
<1>2. CASE qty > 0
  <2> DEFINE C == TakeBatches(W, sklad, qty, method)
             cost == IF method = "average" THEN AverageCost(W, Found(W, sklad)) ELSE 0
  <2>1. Took(W, C, Len(W.b), sklad, qty, b0, d)
    <3>1. qty \in Nat
      BY <1>2
    <3> QED BY <3>1, TookAll
  <2>2. D = IF C.left <= 0 THEN C
            ELSE [C EXCEPT !.W = IF allow THEN Overdraw(@, d, sklad, C.left, cost) ELSE Fail(@)]
    <3>1. ~ qty <= 0
      BY <1>2
    <3> QED BY <3>1 DEF Consume
  <2> HIDE DEF C
  <2>3. /\ WorkFits(C.W, b0, d) /\ C.left \in Int /\ C.amount \in Int /\ 0 <= C.left /\ C.W.ok = W.ok
        /\ C = [W |-> C.W, left |-> C.left, amount |-> C.amount]
        /\ OnHand(C.W.b, {sklad}) - C.left = OnHand(W.b, {sklad}) - qty
    BY <2>1 DEF Took
  <2>4. W.b \in Seq(AnyBatch) /\ C.W.b \in Seq(AnyBatch) /\ WorkType(W)
    BY <2>3, WorkParts DEF WorkFits
  <2>5. OnHand(C.W.b, {sklad}) \in Int /\ OnHand(W.b, {sklad}) \in Int
    BY <2>4, OnHandIsSum
  <2>6. cost \in Int
    <3>1. Found(W, sklad) \in SUBSET (DOMAIN W.b)
      BY DEF Found
    <3>2. AverageCost(W, Found(W, sklad)) \in Int
      BY <2>4, <3>1, AverageIsInt
    <3> QED BY <3>2
  <2> HIDE DEF cost, D
  <2>7. CASE C.left <= 0
    <3>1. D = C /\ C.left = 0
      BY <2>2, <2>3, <2>7
    <3>2. OnHand(D.W.b, {sklad}) = OnHand(W.b, {sklad}) - qty
      BY <2>3, <2>5, <3>1
    <3> QED BY <2>3, <3>1, <3>2 DEF D, Drawn
  <2>8. CASE ~ C.left <= 0
    <3>1. C.left > 0
      BY <2>3, <2>8
    <3>2. D.W = (IF allow THEN Overdraw(C.W, d, sklad, C.left, cost) ELSE Fail(C.W)) /\ D.amount = C.amount
      BY <2>2, <2>3, <2>8
    <3>3. CASE allow
      <4>1. PICK V, left : V = C.W /\ left = C.left
        OBVIOUS
      <4>2. WorkFits(Overdraw(V, d, sklad, left, cost), b0, d)
        BY <2>3, <2>6, <3>1, <3>3, <4>1, OverdrawFits
      <4> QED BY <2>3, <3>2, <3>3, <4>1, <4>2 DEF D, Drawn
    <3>4. CASE ~ allow
      <4>1. PICK V : V = C.W
        OBVIOUS
      <4>3. WorkFits(V, b0, d)
        BY <2>3, <4>1
      <4>2. WorkFits(Fail(V), b0, d) /\ Fail(V).ok = FALSE
        BY <4>3, FailFits
      <4> QED BY <2>3, <3>2, <3>4, <4>1, <4>2 DEF D, Drawn
    <3> QED BY <3>3, <3>4
  <2> QED BY <2>7, <2>8
<1> QED BY <1>1, <1>2

\* The columns of a line.
OfDocument(d, line) == \E k \in DOMAIN Document[d].lines : line = Document[d].lines[k]

LEMMA LineFields ==
  ASSUME NEW d \in Docs
  PROVE  /\ Len(Document[d].lines) \in Nat /\ DOMAIN Document[d].lines = 1 .. Len(Document[d].lines)
         /\ Document[d].to \in Sklady /\ Document[d].type \in DocType
         /\ Document[d].given \in BOOLEAN /\ Document[d].total \in Int /\ Document[d].total % 100 = 0
         /\ \A k \in DOMAIN Document[d].lines :
              LET line == Document[d].lines[k] IN
              /\ line.sklad \in Sklady /\ line.qty \in Int /\ line.price \in Nat /\ line.price % 100 = 0
              /\ OfDocument(d, line)
<1>1. /\ Document[d].lines \in Seq([sklad : Sklady, qty : Int, price : Nat])
      /\ Document[d].to \in Sklady /\ Document[d].type \in DocType
      /\ Document[d].given \in BOOLEAN /\ Document[d].total \in Int /\ Document[d].total % 100 = 0
      /\ \A k \in DOMAIN Document[d].lines : Document[d].lines[k].price % 100 = 0
  BY LedgerAssumption
<1>2. /\ Len(Document[d].lines) \in Nat /\ DOMAIN Document[d].lines = 1 .. Len(Document[d].lines)
      /\ \A k \in DOMAIN Document[d].lines :
           Document[d].lines[k] \in [sklad : Sklady, qty : Int, price : Nat]
  BY <1>1, SequenceIs
<1>3. \A k \in DOMAIN Document[d].lines :
        LET line == Document[d].lines[k] IN
        line.sklad \in Sklady /\ line.qty \in Int /\ line.price \in Nat /\ OfDocument(d, line)
  BY <1>2 DEF OfDocument
<1> QED BY <1>1, <1>2, <1>3

\* A transfer keeps the work.
LEMMA TransferFits ==
  ASSUME NEW b0, NEW d, NEW W, WorkFits(W, b0, d), NEW line,
         line.sklad \in Sklady, line.qty \in Int, OfDocument(d, line),
         Document[d].type = "peremeshenie"
  PROVE  WorkFits(Transfer(W, d, line), b0, d)
<1> DEFINE C == Consume(W, d, line.sklad, line.qty, method, FALSE)
           price == IF line.qty > 0 THEN Quantize(C.amount, line.qty) ELSE 0
<1>1. WorkFits(C.W, b0, d) /\ C.amount \in Int
  BY ConsumeFits
<1> HIDE DEF C
<1>2. price \in Int
  <2>1. CASE line.qty > 0
    BY <1>1, <2>1, QuantizeIsInt
  <2>2. CASE ~ line.qty > 0
    BY <2>2
  <2> QED BY <2>1, <2>2
<1> HIDE DEF price
<1>3. Document[d].to \in Sklady
  BY LineFields DEF WorkFits
<1>5. Document[d].type \notin Outgoing /\ (line.qty < 0 => BringsNegative(d, line.qty))
  BY DEF Outgoing, OfDocument, BringsNegative
<1>4. WorkFits(CreateIncoming(C.W, d, Document[d].to, line.qty, price), b0, d)
  <2>1. PICK q, V : q = line.qty /\ V = C.W
    OBVIOUS
  <2>2. WorkFits(CreateIncoming(V, d, Document[d].to, q, price), b0, d)
    BY <1>1, <1>2, <1>3, <1>5, <2>1, CreateFits
  <2> QED BY <2>1, <2>2
<1> QED BY <1>1, <1>4 DEF Transfer, C, price

\* A balance is an integer.
LEMMA BalanceIsInt ==
  ASSUME NEW W, WorkType(W), NEW sklad
  PROVE  Balance(W, {sklad}) \in Int
<1> DEFINE S == {i \in DOMAIN W.b : W.b[i].sklad \in {sklad}}
           f == [i \in S |-> W.db[i]]
<1>1. Balance(W, {sklad}) = SumFunctionOnSet(f, S)
  BY DEF Balance, SumOver
<1>2. \A i \in S : f[i] \in Int
  BY WorkParts
<1>3. IsFiniteSet(S)
  <2>1. W.b \in Seq(AnyBatch)
    BY WorkParts
  <2>2. IsFiniteSet(DOMAIN W.b)
    BY <2>1, SequenceIs
  <2> QED BY <2>2, FS_Subset
<1> HIDE DEF S, f
<1> QED BY <1>1, <1>2, <1>3, SumIsInt

\* Every line keeps the work, whatever the type of the document.
LEMMA LineFits ==
  ASSUME NEW b0, NEW d, NEW W, WorkFits(W, b0, d), NEW line,
         line.sklad \in Sklady, line.qty \in Int, line.price \in Nat, OfDocument(d, line)
  PROVE  WorkFits(LineStep(W, d, line), b0, d)
<1> DEFINE type == Document[d].type
           allow == AllowNegative(type)
<1>1. CASE type \in Incoming
  <2>1. type \notin Outgoing
    BY <1>1 DEF Incoming, Outgoing
  <2>5. PICK s, q, p : s = line.sklad /\ q = line.qty /\ p = line.price
    OBVIOUS
  <2>7. /\ s \in Sklady /\ q \in Int /\ p \in Int /\ Document[d].type \notin Outgoing
        /\ q < 0 => BringsNegative(d, q)
    <3>1. q < 0 => BringsNegative(d, q)
      BY <1>1, <2>5 DEF BringsNegative, OfDocument, type
    <3> QED BY <2>1, <2>5, <3>1
  <2> HIDE DEF type, allow
  <2>6. WorkFits(CreateIncoming(W, d, s, q, p), b0, d)
    BY <2>7, CreateFits
  <2>2. WorkFits(CreateIncoming(W, d, line.sklad, line.qty, line.price), b0, d)
    BY <2>5, <2>6
  <2>3. ApplyLine(W, d, line) = CreateIncoming(W, d, line.sklad, line.qty, line.price)
    BY <1>1 DEF ApplyLine, type
  <2>4. type # "inventarizaciya"
    BY <1>1 DEF Incoming
  <2> QED BY <2>2, <2>3, <2>4 DEF LineStep, type
<1>2. CASE type = "peremeshenie"
  <2>1. type \notin Outgoing /\ type \notin Incoming
    BY <1>2 DEF Outgoing, Incoming
  <2>2. WorkFits(Transfer(W, d, line), b0, d)
    BY <1>2, TransferFits DEF type
  <2> QED BY <1>2, <2>1, <2>2 DEF LineStep, ApplyLine
<1>3. CASE type = "inventarizaciya"
  <2> DEFINE deviation == line.qty - Balance(W, {line.sklad})
  <2>1. type \notin Outgoing
    BY <1>3 DEF Outgoing
  <2>2. deviation \in Int
    <3>1. Balance(W, {line.sklad}) \in Int
      BY BalanceIsInt DEF WorkFits
    <3> QED BY <3>1
  <2>3. ApplyInventoryLine(W, d, line) =
          IF deviation > 0 THEN CreateIncoming(W, d, line.sklad, deviation, line.price)
          ELSE IF deviation < 0 THEN Consume(W, d, line.sklad, -deviation, method, FALSE).W
          ELSE W
    BY DEF ApplyInventoryLine
  <2> HIDE DEF deviation
  <2>4. deviation > 0 => WorkFits(CreateIncoming(W, d, line.sklad, deviation, line.price), b0, d)
    <3>1. SUFFICES ASSUME deviation > 0 PROVE WorkFits(CreateIncoming(W, d, line.sklad, deviation, line.price), b0, d)
      OBVIOUS
    <3>2. deviation \in Int /\ line.price \in Int /\ ~ deviation < 0
      BY <2>2, <3>1
    <3> QED BY <2>1, <3>2, CreateFits
  <2>5. deviation < 0 => WorkFits(Consume(W, d, line.sklad, -deviation, method, FALSE).W, b0, d)
    <3>1. SUFFICES ASSUME deviation < 0 PROVE WorkFits(Consume(W, d, line.sklad, -deviation, method, FALSE).W, b0, d)
      OBVIOUS
    <3>2. -deviation \in Int
      BY <2>2, <3>1
    <3> QED BY <3>2, ConsumeFits
  <2>6. WorkFits(ApplyInventoryLine(W, d, line), b0, d)
    BY <2>3, <2>4, <2>5
  <2> QED BY <1>3, <2>6 DEF LineStep
<1>4. CASE type \notin Incoming \cup {"peremeshenie", "inventarizaciya"}
  <2>1. allow \in BOOLEAN
    BY DEF AllowNegative
  <2>2. WorkFits(Consume(W, d, line.sklad, line.qty, method, allow).W, b0, d)
    BY <2>1, ConsumeFits
  <2>3. ApplyLine(W, d, line) = Consume(W, d, line.sklad, line.qty, method, allow).W
    BY <1>4 DEF ApplyLine
  <2>4. LineStep(W, d, line) = IF ~ W.ok THEN W ELSE ApplyLine(W, d, line)
    BY <1>4 DEF LineStep
  <2> QED BY <2>2, <2>3, <2>4
<1> QED BY <1>1, <1>2, <1>3, <1>4

\* _check_stock fails or changes nothing.
LEMMA CheckFits ==
  ASSUME NEW b \in Seq(AnyBatch), NEW d \in Docs
  PROVE  /\ WorkFits(CheckStock(Begin(b), d), b, d)
         /\ CheckStock(Begin(b), d).m = <<>> /\ CheckStock(Begin(b), d).b = b
         /\ CheckStock(Begin(b), d).ok => CheckStock(Begin(b), d) = Begin(b)
<1>1. WorkFits(Begin(b), b, d) /\ Begin(b).m = <<>> /\ Begin(b).b = b
  BY BeginFits
<1>2. /\ WorkFits(Fail(Begin(b)), b, d) /\ Fail(Begin(b)).ok = FALSE
      /\ Fail(Begin(b)).m = <<>> /\ Fail(Begin(b)).b = b
  BY <1>1, FailFits, ZenonT(40)
<1> QED BY <1>1, <1>2 DEF CheckStock

\* What a posting does to the batches it found and to those it makes: all
\* that the invariant needs to know of _apply_stock_movement.
THEOREM PostingFits ==
  ASSUME NEW b \in Seq(AnyBatch), NEW d \in Docs
  PROVE  WorkFits(ApplyLines(b, d), b, d)
<1> DEFINE lines == Document[d].lines
           n == Len(lines)
<1>1. n \in Nat
  BY LineFields
<1>2. PICK after : Posting(after, b, d)
  BY <1>1, PostingUnfolds
<1>3. /\ after[0] = CheckStock(Begin(b), d)
      /\ \A k \in 1 .. n : after[k] = LineStep(after[k - 1], d, lines[k])
      /\ ApplyLines(b, d) = after[n]
  BY <1>2 DEF Posting
<1> DEFINE S == {k \in 0 .. n : WorkFits(after[k], b, d)}
<1>4. 0 \in S
  BY <1>1, <1>3, CheckFits
<1>5. ASSUME NEW k \in 1 .. n, k - 1 \in S PROVE k \in S
  <2>1. lines[k].sklad \in Sklady /\ lines[k].qty \in Int /\ lines[k].price \in Nat /\ OfDocument(d, lines[k])
    BY LineFields
  <2>2. PICK W, line : W = after[k - 1] /\ line = lines[k]
    OBVIOUS
  <2>3. WorkFits(LineStep(W, d, line), b, d)
    BY <1>5, <2>1, <2>2, LineFits
  <2> QED BY <1>1, <1>3, <2>2, <2>3
<1> HIDE DEF S
<1>6. \A k \in 0 .. n : k \in S
  BY <1>1, <1>4, <1>5, UpTo
<1>7. n \in S
  BY <1>1, <1>6
<1> QED BY <1>3, <1>7 DEF S

-----------------------------------------------------------------------------
(***************************************************************************)
(* What a cancellation does to the batches.                                *)
(***************************************************************************)
\* The first n movements can be undone one after the other.
CanUndo(b, m, n) ==
  \A j \in 1 .. n :
    m[j].batch # NoBatch /\ m[j].qty >= 0 =>
      b[m[j].batch].qty - MovedBy(m, j - 1, m[j].batch) >= m[j].qty

\* One of them, undone, leaves batch i of document d empty.
LeftEmpty(b, d, m, n, i) ==
  \E j \in 1 .. n : m[j].batch = i /\ b[i].src = d /\ b[i].qty = MovedBy(m, j, i)

LessMoved(b, m, n, i) ==
  IF b[i] = Gone THEN Gone ELSE [b[i] EXCEPT !.qty = b[i].qty - MovedBy(m, n, i)]

Undoable(b, m) ==
  /\ b \in Seq(AnyBatch) /\ m \in Seq(AnyRow)
  /\ \A k \in DOMAIN m : m[k].batch # NoBatch => m[k].batch \in DOMAIN b /\ b[m[k].batch] # Gone

UndoIs(U, b, d, m, n) ==
  /\ U = [b |-> U.b, ok |-> U.ok, empty |-> U.empty]
  /\ DOMAIN U.b = DOMAIN b /\ U.ok \in BOOLEAN
  /\ U.ok <=> CanUndo(b, m, n)
  /\ U.ok => \A i \in DOMAIN b :
       /\ U.b[i] = LessMoved(b, m, n, i)
       /\ i \in U.empty <=> LeftEmpty(b, d, m, n, i)

OnlyQty(x, y) == y = [x EXCEPT !.qty = y.qty]

\* A batch the document has not left empty.
LEMMA LessMovedIs ==
  ASSUME NEW b, NEW m, Undoable(b, m), NEW i \in DOMAIN b, NEW n \in 0 .. Len(m)
  PROVE  /\ b[i].qty \in Int /\ MovedBy(m, n, i) \in Int
         /\ b[i] = Gone => LessMoved(b, m, n, i) = Gone
         /\ b[i] # Gone => LET x == LessMoved(b, m, n, i) IN
                           /\ OnlyQty(b[i], x)
                           /\ x \in AnyBatch /\ x # Gone /\ x.qty = b[i].qty - MovedBy(m, n, i)
                           /\ x.src = b[i].src /\ x.sklad = b[i].sklad /\ x.cost = b[i].cost
<1>1. b[i] \in AnyBatch /\ m \in Seq(AnyRow)
  <2>1. b \in Seq(AnyBatch)
    BY DEF Undoable
  <2> QED BY <2>1, SequenceIs DEF Undoable
<1>2. b[i].qty \in Int
  BY <1>1, BatchFields
<1>3. MovedBy(m, n, i) \in Int
  BY <1>1, MovedFacts
<1>4. ASSUME b[i] # Gone
      PROVE  LET x == LessMoved(b, m, n, i) IN
             /\ OnlyQty(b[i], x)
             /\ x \in AnyBatch /\ x # Gone /\ x.qty = b[i].qty - MovedBy(m, n, i)
             /\ x.src = b[i].src /\ x.sklad = b[i].sklad /\ x.cost = b[i].cost
  <2>1. PICK q : q = b[i].qty - MovedBy(m, n, i)
    OBVIOUS
  <2>2. q \in Int
    BY <1>2, <1>3, <2>1
  <2>3. PICK y : y = b[i]
    OBVIOUS
  <2>4. LET x == [y EXCEPT !.qty = q] IN
        /\ x \in AnyBatch /\ x # Gone /\ x.qty = q
        /\ x.src = y.src /\ x.sklad = y.sklad /\ x.cost = y.cost
    BY <1>1, <1>4, <2>2, <2>3, BatchFields
  <2>5. LessMoved(b, m, n, i) = [y EXCEPT !.qty = q]
    BY <1>4, <2>1, <2>3 DEF LessMoved
  <2> QED BY <2>1, <2>3, <2>4, <2>5 DEF OnlyQty
<1> QED BY <1>2, <1>3, <1>4 DEF LessMoved

\* A movement of a batch, undone.
LEMMA UndoBatchStepIs ==
  ASSUME NEW b, NEW d, NEW m, Undoable(b, m), NEW k \in 1 .. Len(m),
         NEW U, UndoIs(U, b, d, m, k - 1), m[k].batch # NoBatch
  PROVE  UndoIs(UndoStep(U, d, m[k]), b, d, m, k)
<1> DEFINE r == m[k]
           i == m[k].batch
           V == [U EXCEPT !.b[i].qty = @ - r.qty]
<1>1. m \in Seq(AnyRow) /\ Len(m) \in Nat /\ DOMAIN m = 1 .. Len(m) /\ k \in DOMAIN m
  BY SequenceIs DEF Undoable
<1>2. i \in DOMAIN b /\ b[i] # Gone /\ r.qty \in Int
  <2>1. r \in AnyRow
    BY <1>1
  <2> QED BY <1>1, <2>1, RowFields DEF Undoable
<1>3. k - 1 \in 0 .. Len(m) /\ k \in 0 .. Len(m)
  BY <1>1
<1>4. /\ MovedBy(m, k, i) = MovedBy(m, k - 1, i) + r.qty
      /\ \A j : j # i => MovedBy(m, k, j) = MovedBy(m, k - 1, j)
  <2>1. \A j : MovedBy(m, k, j) = MovedBy(m, k - 1, j) + Share(m, j)[k] /\ MovedBy(m, k - 1, j) \in Int
    BY <1>1, <1>3, MovedFacts
  <2>2. Share(m, i)[k] = r.qty /\ \A j : j # i => Share(m, j)[k] = 0
    BY <1>1 DEF Share
  <2> QED BY <2>1, <2>2
<1>5. CanUndo(b, m, k) <=> CanUndo(b, m, k - 1) /\ (r.qty >= 0 => b[i].qty - MovedBy(m, k - 1, i) >= r.qty)
  <2>1. \A j : j \in 1 .. k <=> j \in 1 .. k - 1 \/ j = k
    BY <1>1
  <2>2. i # NoBatch
    OBVIOUS
  <2> QED BY <2>1, <2>2 DEF CanUndo
<1>6. \A j : LeftEmpty(b, d, m, k, j) <=>
               LeftEmpty(b, d, m, k - 1, j) \/ (j = i /\ b[i].src = d /\ b[i].qty = MovedBy(m, k, i))
  <2>1. \A j : j \in 1 .. k <=> j \in 1 .. k - 1 \/ j = k
    BY <1>1
  <2> QED BY <2>1 DEF LeftEmpty
<1>10. i # NoBatch
  OBVIOUS
<1>7. CASE ~ U.ok
  <2>1. UndoStep(U, d, r) = U
    BY <1>7 DEF UndoStep
  <2> QED BY <1>5, <1>7, <2>1 DEF UndoIs
<1>8. CASE U.ok
  <2>1. /\ U = [b |-> U.b, ok |-> U.ok, empty |-> U.empty]
        /\ DOMAIN U.b = DOMAIN b /\ CanUndo(b, m, k - 1)
        /\ \A j \in DOMAIN b : /\ U.b[j] = LessMoved(b, m, k - 1, j)
                               /\ j \in U.empty <=> LeftEmpty(b, d, m, k - 1, j)
    BY <1>8 DEF UndoIs
  <2>2. /\ U.b[i] # Gone /\ U.b[i].qty = b[i].qty - MovedBy(m, k - 1, i) /\ U.b[i].src = b[i].src
        /\ b[i].qty \in Int /\ MovedBy(m, k - 1, i) \in Int
        /\ U.b[i] = [b[i] EXCEPT !.qty = U.b[i].qty]
    BY <1>2, <1>3, <2>1, LessMovedIs, SMTT(30) DEF OnlyQty
  <2>3. CASE r.qty >= 0 /\ U.b[i].qty < r.qty
    <3>1. UndoMovement(U, r) = [U EXCEPT !.ok = FALSE]
      BY <2>3 DEF UndoMovement
    <3>3. ~ CanUndo(b, m, k)
      <4>1. PICK x, y, z, u : x = b[i].qty /\ y = MovedBy(m, k - 1, i) /\ z = r.qty /\ u = U.b[i].qty
        OBVIOUS
      <4>2. x \in Int /\ y \in Int /\ z \in Int /\ u = x - y /\ z >= 0 /\ u < z
        BY <1>2, <2>2, <2>3, <4>1
      <4>3. ~ x - y >= z
        BY <4>2
      <4> QED BY <1>5, <4>1, <4>2, <4>3
    <3>4. /\ [U EXCEPT !.ok = FALSE].ok = FALSE /\ [U EXCEPT !.ok = FALSE].b = U.b
          /\ [U EXCEPT !.ok = FALSE].empty = U.empty
          /\ [U EXCEPT !.ok = FALSE] = [b |-> U.b, ok |-> FALSE, empty |-> U.empty]
      <4>1. PICK B, o, e : U = [b |-> B, ok |-> o, empty |-> e]
        BY <2>1
      <4>2. \A f : [U EXCEPT !.ok = f] = [b |-> B, ok |-> f, empty |-> e]
        BY <4>1
      <4>3. U.b = B /\ U.empty = e
        BY <4>1
      <4> QED BY <4>2, <4>3
    <3>2. UndoStep(U, d, r) = [U EXCEPT !.ok = FALSE]
      <4>1. PICK X : X = [U EXCEPT !.ok = FALSE]
        OBVIOUS
      <4>2. X.ok = FALSE /\ UndoMovement(U, r) = X
        BY <3>1, <3>4, <4>1
      <4>3. UndoStep(U, d, r) = X
        BY <1>8, <1>10, <2>2, <4>2 DEF UndoStep
      <4> QED BY <4>1, <4>3
    <3> QED BY <2>1, <3>2, <3>3, <3>4 DEF UndoIs
  <2>4. CASE ~ (r.qty >= 0 /\ U.b[i].qty < r.qty)
    <3>1. UndoMovement(U, r) = V
      BY <2>4 DEF UndoMovement
    <3>2. CanUndo(b, m, k)
      BY <1>2, <1>5, <2>1, <2>2, <2>4
    <3>3. /\ V.ok = U.ok /\ V.empty = U.empty /\ DOMAIN V.b = DOMAIN b
          /\ V = [b |-> V.b, ok |-> V.ok, empty |-> V.empty]
          /\ V.b[i] = [U.b[i] EXCEPT !.qty = U.b[i].qty - r.qty]
          /\ \A j \in DOMAIN b : j # i => V.b[j] = U.b[j]
      BY <1>2, <2>1
    <3> HIDE DEF V
    <3>4. V.b[i] = LessMoved(b, m, k, i)
      <4>1. LessMoved(b, m, k, i) = [b[i] EXCEPT !.qty = b[i].qty - MovedBy(m, k, i)]
        BY <1>2 DEF LessMoved
      <4>2. b[i].qty - MovedBy(m, k, i) = U.b[i].qty - r.qty
        BY <1>2, <1>4, <2>2
      <4>3. \A x, y, p, q : y = [x EXCEPT !.qty = p] => [y EXCEPT !.qty = q] = [x EXCEPT !.qty = q]
        OBVIOUS
      <4> QED BY <2>2, <3>3, <4>1, <4>2, <4>3
    <3>5. \A j \in DOMAIN b : V.b[j] = LessMoved(b, m, k, j)
      <4>1. \A j : j # i => LessMoved(b, m, k, j) = LessMoved(b, m, k - 1, j)
        BY <1>4 DEF LessMoved
      <4> QED BY <2>1, <3>3, <3>4, <4>1
    <3>6. V.b[i].qty = b[i].qty - MovedBy(m, k, i) /\ V.b[i].src = b[i].src /\ MovedBy(m, k, i) \in Int
      BY <1>2, <1>3, <3>4, LessMovedIs
    <3>7. UndoStep(U, d, r) = IF V.ok /\ V.b[i].qty = 0 /\ V.b[i].src = d
                              THEN [V EXCEPT !.empty = V.empty \cup {i}] ELSE V
      BY <1>8, <1>10, <2>1, <2>2, <3>1 DEF UndoStep
    <3>8. V.b[i].qty = 0 /\ V.b[i].src = d <=> b[i].src = d /\ b[i].qty = MovedBy(m, k, i)
      BY <2>2, <3>6
    <3>9. CASE V.b[i].qty = 0 /\ V.b[i].src = d
      <4> DEFINE X == [V EXCEPT !.empty = V.empty \cup {i}]
      <4>1. /\ X.b = V.b /\ X.ok = V.ok /\ X.empty = V.empty \cup {i}
            /\ X = [b |-> X.b, ok |-> X.ok, empty |-> X.empty]
        <5>1. PICK B, o, e : V = [b |-> B, ok |-> o, empty |-> e]
          BY <3>3
        <5>4. \A f : [V EXCEPT !.empty = f] = [b |-> B, ok |-> o, empty |-> f]
          BY <5>1
        <5>2. X = [b |-> B, ok |-> o, empty |-> V.empty \cup {i}]
          BY <5>4
        <5>3. V.b = B /\ V.ok = o
          BY <5>1
        <5> HIDE DEF X
        <5> QED BY <5>2, <5>3
      <4>2. UndoStep(U, d, r) = X
        BY <1>8, <3>3, <3>7, <3>9
      <4> HIDE DEF X
      <4>3. \A j \in DOMAIN b : j \in X.empty <=> LeftEmpty(b, d, m, k, j)
        <5>1. \A j \in DOMAIN b : j \in U.empty <=> LeftEmpty(b, d, m, k - 1, j)
          BY <2>1
        <5>2. X.empty = U.empty \cup {i}
          BY <3>3, <4>1
        <5>3. b[i].src = d /\ b[i].qty = MovedBy(m, k, i)
          BY <3>8, <3>9
        <5> QED BY <1>6, <5>1, <5>2, <5>3
      <4> HIDE DEF r, i
      <4>4. UndoIs(X, b, d, m, k)
        BY <1>8, <3>2, <3>3, <3>5, <4>1, <4>3 DEF UndoIs
      <4> QED BY <4>2, <4>4 DEF r
    <3>10. CASE ~ (V.b[i].qty = 0 /\ V.b[i].src = d)
      <4>1. UndoStep(U, d, r) = V
        BY <3>7, <3>10
      <4>2. \A j \in DOMAIN b : j \in V.empty <=> LeftEmpty(b, d, m, k, j)
        BY <1>6, <2>1, <3>3, <3>8, <3>10
      <4> HIDE DEF i
      <4>3. UndoIs(V, b, d, m, k)
        BY <1>8, <3>2, <3>3, <3>5, <4>2 DEF UndoIs
      <4> QED BY <4>1, <4>3 DEF r
    <3> QED BY <3>9, <3>10
  <2> QED BY <2>3, <2>4
<1>9. U.ok \in BOOLEAN
  BY DEF UndoIs
<1> QED BY <1>7, <1>8

\* One movement undone: one of no batch needs nothing.
LEMMA UndoStepIs ==
  ASSUME NEW b, NEW d, NEW m, Undoable(b, m), NEW k \in 1 .. Len(m),
         NEW U, UndoIs(U, b, d, m, k - 1)
  PROVE  UndoIs(UndoStep(U, d, m[k]), b, d, m, k)
<1>1. CASE m[k].batch # NoBatch
  BY <1>1, UndoBatchStepIs
<1>2. CASE m[k].batch = NoBatch
  <2>1. m \in Seq(AnyRow) /\ Len(m) \in Nat /\ DOMAIN m = 1 .. Len(m) /\ k \in DOMAIN m
    BY SequenceIs DEF Undoable
  <2>2. UndoStep(U, d, m[k]) = U
    BY <1>2 DEF UndoStep
  <2>3. \A j : j \in 1 .. k <=> j \in 1 .. k - 1 \/ j = k
    BY <2>1
  <2>4. CanUndo(b, m, k) <=> CanUndo(b, m, k - 1)
    BY <1>2, <2>3 DEF CanUndo
  <2>5. ASSUME NEW i \in DOMAIN b
        PROVE  /\ LessMoved(b, m, k, i) = LessMoved(b, m, k - 1, i)
               /\ LeftEmpty(b, d, m, k, i) <=> LeftEmpty(b, d, m, k - 1, i)
    <3>1. m[k].batch # i
      <4>1. b \in Seq(AnyBatch)
        BY DEF Undoable
      <4>2. DOMAIN b = 1 .. Len(b) /\ Len(b) \in Nat
        BY <4>1, SequenceIs
      <4> QED BY <1>2, <4>2 DEF NoBatch
    <3>2. MovedBy(m, k, i) = MovedBy(m, k - 1, i)
      <4>1. MovedBy(m, k, i) = MovedBy(m, k - 1, i) + Share(m, i)[k] /\ MovedBy(m, k - 1, i) \in Int
        <5>1. k - 1 \in 0 .. Len(m)
          BY <2>1
        <5> QED BY <2>1, <5>1, MovedFacts
      <4>2. Share(m, i)[k] = 0
        BY <2>1, <3>1 DEF Share
      <4> QED BY <4>1, <4>2
    <3> QED BY <2>3, <3>1, <3>2 DEF LessMoved, LeftEmpty
  <2>6. /\ U = [b |-> U.b, ok |-> U.ok, empty |-> U.empty]
        /\ DOMAIN U.b = DOMAIN b /\ U.ok \in BOOLEAN
        /\ U.ok <=> CanUndo(b, m, k - 1)
        /\ U.ok => \A i \in DOMAIN b :
             /\ U.b[i] = LessMoved(b, m, k - 1, i)
             /\ i \in U.empty <=> LeftEmpty(b, d, m, k - 1, i)
    BY DEF UndoIs
  <2>7. UndoIs(U, b, d, m, k)
    BY <2>4, <2>5, <2>6 DEF UndoIs
  <2> QED BY <2>2, <2>7
<1> QED BY <1>1, <1>2

\* _rollback_stock succeeds when every movement can be undone; then a batch
\* that it left empty is gone and another one has its movements undone.
LEMMA RollbackIs ==
  ASSUME NEW b, NEW d, NEW m, Undoable(b, m)
  PROVE  LET U == Rollback(b, d, m) IN
         /\ U.ok <=> CanUndo(b, m, Len(m))
         /\ DOMAIN U.b = DOMAIN b
         /\ U.ok => U.b = [i \in DOMAIN b |->
                             IF LeftEmpty(b, d, m, Len(m), i) THEN Gone ELSE LessMoved(b, m, Len(m), i)]
<1> DEFINE n == Len(m)
<1>1. b \in Seq(AnyBatch) /\ m \in Seq(AnyRow) /\ n \in Nat
  BY SequenceIs DEF Undoable
<1>2. PICK after : Undoing(after, b, d, m)
  BY <1>1, UndoingUnfolds
<1>3. /\ after[0] = [b |-> b, ok |-> TRUE, empty |-> {}]
      /\ \A k \in 1 .. n : after[k] = UndoStep(after[k - 1], d, m[k])
      /\ Rollback(b, d, m) = [ok |-> after[n].ok,
                              b |-> [i \in DOMAIN after[n].b |->
                                       IF i \in after[n].empty THEN Gone ELSE after[n].b[i]]]
  BY <1>2 DEF Undoing
<1> DEFINE S == {k \in 0 .. n : UndoIs(after[k], b, d, m, k)}
<1>4. 0 \in S
  <2>1. after[0].b = b /\ after[0].ok = TRUE /\ after[0].empty = {}
    BY <1>3
  <2>2. CanUndo(b, m, 0) /\ \A i : ~ LeftEmpty(b, d, m, 0, i)
    BY DEF CanUndo, LeftEmpty
  <2>3. ASSUME NEW i \in DOMAIN b PROVE b[i] = LessMoved(b, m, 0, i)
    <3>1. 0 \in 0 .. Len(m)
      BY <1>1
    <3>2. MovedBy(m, 0, i) = 0
      BY <1>1, MovedFacts
    <3>3. b[i].qty \in Int /\ b[i] \in AnyBatch
      BY <1>1, SequenceIs, BatchFields
    <3>4. b[i].qty - 0 = b[i].qty
      BY <3>3
    <3>5. b[i] = [b[i] EXCEPT !.qty = b[i].qty]
      BY <3>3 DEF AnyBatch, Gone
    <3> QED BY <3>2, <3>4, <3>5 DEF LessMoved
  <2>4. UndoIs(after[0], b, d, m, 0)
    BY <1>3, <2>1, <2>2, <2>3 DEF UndoIs
  <2> QED BY <1>1, <2>4
<1>5. ASSUME NEW k \in 1 .. n, k - 1 \in S PROVE k \in S
  <2>1. PICK U : U = after[k - 1]
    OBVIOUS
  <2>2. UndoIs(UndoStep(U, d, m[k]), b, d, m, k)
    BY <1>5, <2>1, UndoStepIs
  <2> QED BY <1>1, <1>3, <2>1, <2>2
<1>6. n \in S
  <2> HIDE DEF S
  <2>1. \A k \in 0 .. n : k \in S
    BY <1>1, <1>4, <1>5, UpTo
  <2> QED BY <1>1, <2>1
<1>7. UndoIs(after[n], b, d, m, n)
  BY <1>6
<1>8. PICK U : U = after[n]
  OBVIOUS
<1>9. /\ DOMAIN U.b = DOMAIN b
      /\ U.ok <=> CanUndo(b, m, n)
      /\ U.ok => \A i \in DOMAIN b : /\ U.b[i] = LessMoved(b, m, n, i)
                                     /\ i \in U.empty <=> LeftEmpty(b, d, m, n, i)
  BY <1>7, <1>8 DEF UndoIs
<1>10. /\ Rollback(b, d, m).ok = U.ok
       /\ Rollback(b, d, m).b = [i \in DOMAIN b |-> IF i \in U.empty THEN Gone ELSE U.b[i]]
  BY <1>3, <1>8, <1>9
<1>11. U.ok => [i \in DOMAIN b |-> IF i \in U.empty THEN Gone ELSE U.b[i]]
             = [i \in DOMAIN b |-> IF LeftEmpty(b, d, m, n, i) THEN Gone ELSE LessMoved(b, m, n, i)]
  BY <1>9
<1> QED BY <1>9, <1>10, <1>11

-----------------------------------------------------------------------------
(***************************************************************************)
(* Batches and movements agree, posting after cancellation after posting.  *)
(***************************************************************************)
Register(mv) == mv \in [Docs -> Seq(AnyRow)]

\* The movements of document d become m.
Enrolls(mv2, mv, d, m) == mv2 = [mv EXCEPT ![d] = m]

\* The movements of one document.
LEMMA RegisterIs ==
  ASSUME NEW mv, Register(mv), NEW f \in Docs
  PROVE  /\ mv[f] \in Seq(AnyRow) /\ Len(mv[f]) \in Nat /\ DOMAIN mv[f] = 1 .. Len(mv[f])
         /\ \A j \in DOMAIN mv[f] : mv[f][j] \in AnyRow /\ mv[f][j].qty \in Int
<1>1. mv[f] \in Seq(AnyRow)
  BY DEF Register
<1>2. PICK m : m = mv[f]
  OBVIOUS
<1>3. Len(m) \in Nat /\ DOMAIN m = 1 .. Len(m) /\ \A j \in DOMAIN m : m[j] \in AnyRow
  BY <1>1, <1>2, SequenceIs
<1> QED BY <1>1, <1>2, <1>3, RowFields

\* The rows of a batch.
LEMMA RowIs ==
  ASSUME NEW mv, Register(mv), NEW i
  PROVE  /\ \A f \in Docs : \A j \in DOMAIN mv[f] : mv[f][j].batch = i => <<f, j>> \in BatchRows(mv, i)
         /\ \A r \in BatchRows(mv, i) :
              /\ r = <<r[1], r[2]>> /\ r[1] \in Docs /\ r[2] \in DOMAIN mv[r[1]]
              /\ mv[r[1]][r[2]].batch = i
<1>1. BatchRows(mv, i) = {r \in Docs \X Nat : r[2] \in DOMAIN mv[r[1]] /\ mv[r[1]][r[2]].batch = i}
  BY RowsAreFinite DEF Register
<1>2. ASSUME NEW f \in Docs, NEW j \in DOMAIN mv[f], mv[f][j].batch = i PROVE <<f, j>> \in BatchRows(mv, i)
  <2>1. j \in Nat
    BY RegisterIs
  <2> QED BY <1>1, <1>2, <2>1
<1> QED BY <1>1, <1>2

\* What the register holds once the movements of a document are in it.
LEMMA EnrollIs ==
  ASSUME NEW mv, Register(mv), NEW d \in Docs, NEW m, m \in Seq(AnyRow),
         NEW mv2, Enrolls(mv2, mv, d, m)
  PROVE  /\ Register(mv2) /\ mv2[d] = m /\ \A e \in Docs \ {d} : mv2[e] = mv[e]
         /\ mv[d] = <<>> => \A i : HeldIn(mv2, i) = HeldIn(mv, i) + MovedBy(m, Len(m), i)
<1>1. Register(mv2) /\ mv2[d] = m /\ \A e \in Docs \ {d} : mv2[e] = mv[e]
  BY DEF Register, Enrolls
<1>2. ASSUME mv[d] = <<>>, NEW i PROVE HeldIn(mv2, i) = HeldIn(mv, i) + MovedBy(m, Len(m), i)
  <2>1. mv \in [Docs -> Seq(AnyRow)]
    BY DEF Register
  <2>2. HeldIn([mv EXCEPT ![d] = m], i) = HeldIn(mv, i) + MovedBy(m, Len(m), i)
    BY <1>2, <2>1, HeldAfter
  <2> QED BY <2>2 DEF Enrolls
<1> QED BY <1>1, <1>2

\* A batch holds no more than what made it, and as much only when nothing else
\* moved it.
LEMMA HeldFounded ==
  ASSUME NEW mv, Register(mv), NEW e \in Docs, NEW k \in DOMAIN mv[e], NEW i, Founds(mv, e, k, i)
  PROVE  /\ HeldIn(mv, i) \in Int /\ HeldIn(mv, i) <= mv[e][k].qty
         /\ HeldIn(mv, i) >= mv[e][k].qty =>
              \A f \in Docs : \A j \in DOMAIN mv[f] :
                mv[f][j].batch = i /\ <<f, j>> # <<e, k>> => mv[f][j].qty = 0
         /\ (\A f \in Docs : \A j \in DOMAIN mv[f] :
               mv[f][j].batch = i /\ <<f, j>> # <<e, k>> => mv[f][j].qty = 0) =>
              HeldIn(mv, i) = mv[e][k].qty
<1> DEFINE S == BatchRows(mv, i)
           g == [r \in BatchRows(mv, i) |-> mv[r[1]][r[2]].qty]
           y == <<e, k>>
<1>1. IsFiniteSet(S)
  BY RowsAreFinite DEF Register
<1>2. y \in S
  BY RowIs DEF Founds
<1>3. ASSUME NEW r \in S PROVE g[r] \in Int /\ (r # y => g[r] <= 0) /\ g[r] = mv[r[1]][r[2]].qty
  <2>1. /\ r = <<r[1], r[2]>> /\ r[1] \in Docs /\ r[2] \in DOMAIN mv[r[1]]
        /\ mv[r[1]][r[2]].batch = i
    BY RowIs
  <2>2. mv[r[1]][r[2]].qty \in Int
    BY <2>1, RegisterIs
  <2>3. r # y => mv[r[1]][r[2]].qty <= 0
    BY <2>1 DEF Founds
  <2> QED BY <2>2, <2>3
<1>4. g[y] = mv[e][k].qty
  BY <1>2
<1>5. HeldIn(mv, i) = SumFunctionOnSet(g, S)
  BY DEF HeldIn
<1> HIDE DEF g, S
<1>6. /\ SumFunctionOnSet(g, S) <= g[y]
      /\ SumFunctionOnSet(g, S) >= g[y] => \A x \in S \ {y} : g[x] = 0
      /\ (\A x \in S \ {y} : g[x] = 0) => SumFunctionOnSet(g, S) = g[y]
  BY <1>1, <1>2, <1>3, SumWithOne
<1>7. SumFunctionOnSet(g, S) \in Int
  BY <1>1, <1>3, SumIsInt
<1>8. ASSUME HeldIn(mv, i) >= mv[e][k].qty, NEW f \in Docs, NEW j \in DOMAIN mv[f],
             mv[f][j].batch = i, <<f, j>> # <<e, k>>
      PROVE  mv[f][j].qty = 0
  <2>1. <<f, j>> \in S
    BY <1>8, RowIs DEF S
  <2>2. g[<<f, j>>] = 0
    BY <1>4, <1>5, <1>6, <1>8, <2>1
  <2> QED BY <2>1, <2>2 DEF g, S
<1>9. ASSUME \A f \in Docs : \A j \in DOMAIN mv[f] :
               mv[f][j].batch = i /\ <<f, j>> # <<e, k>> => mv[f][j].qty = 0
      PROVE  \A x \in S \ {y} : g[x] = 0
  <2>1. \A r \in S : /\ r = <<r[1], r[2]>> /\ r[1] \in Docs /\ r[2] \in DOMAIN mv[r[1]]
                     /\ mv[r[1]][r[2]].batch = i
    BY RowIs DEF S
  <2> QED BY <1>3, <1>9, <2>1
<1> QED BY <1>4, <1>5, <1>6, <1>7, <1>8, <1>9

\* Nothing is held of a batch that no row names.
LEMMA HeldNothing ==
  ASSUME NEW mv, Register(mv), NEW i,
         \A f \in Docs : \A j \in DOMAIN mv[f] : mv[f][j].batch # i
  PROVE  HeldIn(mv, i) = 0
<1>1. BatchRows(mv, i) = {}
  BY RowIs
<1> QED BY <1>1, SumOfNone DEF HeldIn

\* The types of a posting.
LEMMA WorkIs ==
  ASSUME NEW b, NEW d, NEW W, WorkFits(W, b, d)
  PROVE  /\ b \in Seq(AnyBatch) /\ W.b \in Seq(AnyBatch) /\ W.m \in Seq(AnyRow) /\ d \in Docs
         /\ DOMAIN W.m = 1 .. Len(W.m) /\ Len(W.m) \in Nat
         /\ \A i \in DOMAIN b : b[i] \in AnyBatch /\ b[i].qty \in Int /\ i \in DOMAIN W.b
         /\ \A i \in DOMAIN W.b : W.b[i] \in AnyBatch /\ W.b[i].qty \in Int
<1>1. b \in Seq(AnyBatch) /\ WorkType(W) /\ Len(b) <= Len(W.b) /\ d \in Docs
  BY DEF WorkFits
<1>2. /\ W.b \in Seq(AnyBatch) /\ W.m \in Seq(AnyRow)
      /\ Len(W.b) \in Nat /\ DOMAIN W.b = 1 .. Len(W.b)
      /\ \A i \in DOMAIN W.b : W.b[i] \in AnyBatch /\ W.b[i].qty \in Int
      /\ DOMAIN W.m = 1 .. Len(W.m) /\ Len(W.m) \in Nat
  BY <1>1, WorkParts
<1>3. Len(b) \in Nat /\ DOMAIN b = 1 .. Len(b) /\ \A i \in DOMAIN b : b[i] \in AnyBatch /\ b[i].qty \in Int
  BY <1>1, SequenceIs, BatchFields
<1> QED BY <1>1, <1>2, <1>3

\* The rows of the work, which only take from the batches it began with.
LEMMA WorkRows ==
  ASSUME NEW b, NEW d, NEW W, WorkFits(W, b, d), NEW k \in DOMAIN W.m, NEW i, i = W.m[k].batch
  PROVE  /\ W.m[k].qty \in Int
         /\ i # NoBatch => i \in DOMAIN W.b /\ W.m[k].sklad = W.b[i].sklad
         /\ i = NoBatch => i \notin DOMAIN W.b /\ i \notin DOMAIN b /\ W.m[k].qty >= 0
         /\ i \in DOMAIN b => b[i].qty > 0 /\ W.m[k].qty <= 0 /\ Reduced(W.m, i)
<1>1. W.m \in Seq(AnyRow) /\ W.b \in Seq(AnyBatch) /\ \A j \in DOMAIN b : j \in DOMAIN W.b
  BY WorkIs
<1>2. W.m[k] \in AnyRow
  BY <1>1, SequenceIs
<1>3. OfBatch(W, k) \/ OfNoBatch(W, k)
  BY DEF WorkFits, RowFits
<1>4. i \in DOMAIN b => OldBatch(W, b, i)
  BY DEF WorkFits
<1>5. 0 \notin DOMAIN W.b
  <2>1. DOMAIN W.b = 1 .. Len(W.b) /\ Len(W.b) \in Nat
    BY <1>1, SequenceIs
  <2> QED BY <2>1
<1>6. W.m[k].qty \in Int
  BY <1>2, RowFields
<1>7. i # NoBatch => i \in DOMAIN W.b /\ W.m[k].sklad = W.b[i].sklad
  BY <1>3 DEF OfBatch, OfNoBatch
<1>8. i = NoBatch => i \notin DOMAIN W.b /\ i \notin DOMAIN b /\ W.m[k].qty >= 0
  BY <1>1, <1>3, <1>5 DEF OfBatch, OfNoBatch, NoBatch
<1> QED BY <1>4, <1>6, <1>7, <1>8 DEF OldBatch

\* A batch the work began with.
LEMMA OldIs ==
  ASSUME NEW b, NEW d, NEW W, WorkFits(W, b, d), NEW i \in DOMAIN b
  PROVE  /\ i \in DOMAIN W.b
         /\ (b[i] = Gone <=> W.b[i] = Gone)
         /\ W.b[i].src = b[i].src /\ W.b[i].cost = b[i].cost /\ W.b[i].sklad = b[i].sklad
         /\ OnlyQty(b[i], W.b[i])
         /\ W.b[i].qty = b[i].qty + MovedBy(W.m, Len(W.m), i)
         /\ W.b[i].qty < 0 => W.b[i].qty = b[i].qty
<1>1. OldBatch(W, b, i) /\ i \in DOMAIN W.b
  BY WorkIs DEF WorkFits
<1>2. PICK x, y, q : x = b[i] /\ y = W.b[i] /\ q = W.b[i].qty
  OBVIOUS
<1>3. x \in AnyBatch /\ y \in AnyBatch /\ y = [x EXCEPT !.qty = q] /\ q \in Int
  BY <1>1, <1>2, WorkIs DEF OldBatch
<1>4. x # Gone => y # Gone /\ y.src = x.src /\ y.cost = x.cost /\ y.sklad = x.sklad
  BY <1>3, BatchFields
<1>5. x = Gone => y = Gone
  <2>1. "none" \notin Sklady
    BY LedgerAssumption
  <2>2. x = Gone => y.sklad = "none"
    BY <1>3 DEF Gone
  <2> QED BY <1>3, <2>1, <2>2 DEF AnyBatch
<1> QED BY <1>1, <1>2, <1>4, <1>5 DEF OldBatch, OnlyQty

\* A batch the work created.
LEMMA NewIs ==
  ASSUME NEW b, NEW d, NEW W, WorkFits(W, b, d), NEW i \in DOMAIN W.b, i \notin DOMAIN b
  PROVE  /\ W.b[i] # Gone /\ W.b[i].src = d
         /\ W.b[i].qty = MovedBy(W.m, Len(W.m), i)
         /\ W.b[i].qty < 0 => AllowNegative(Document[d].type) \/ BringsNegative(d, W.b[i].qty)
         /\ \E k \in DOMAIN W.m : Creates(W.m, k, i)
BY DEF WorkFits, NewBatch

\* Posting a document keeps batches and movements consistent.
LEMMA PostingKeeps ==
  ASSUME NEW b, NEW mv, NEW p, Consistent(b, mv, p), NEW d, d \in Docs \ p,
         NEW W, WorkFits(W, b, d), NEW mv2, Enrolls(mv2, mv, d, W.m)
  PROVE  Consistent(W.b, mv2, p \cup {d})
<1> DEFINE m == W.m
           n == Len(W.m)
<1>1. /\ b \in Seq(AnyBatch) /\ Register(mv) /\ p \subseteq Docs /\ d \in Docs
      /\ mv[d] = <<>> /\ \A e \in Docs \ p : mv[e] = <<>>
      /\ \A i \in DOMAIN b : b[i].qty = HeldIn(mv, i)
      /\ \A i \in DOMAIN b : b[i] # Gone => \E k \in DOMAIN mv[b[i].src] : Founds(mv, b[i].src, k, i)
      /\ \A e \in Docs : \A k \in DOMAIN mv[e] :
           \/ mv[e][k].batch = NoBatch /\ mv[e][k].qty >= 0
           \/ /\ mv[e][k].batch \in DOMAIN b /\ b[mv[e][k].batch] # Gone
              /\ mv[e][k].sklad = b[mv[e][k].batch].sklad
              /\ b[mv[e][k].batch].src # e => Reduced(mv[e], mv[e][k].batch)
  BY DEF Consistent, Tables, Register
<1>2. /\ Register(mv2) /\ mv2[d] = W.m /\ \A e \in Docs \ {d} : mv2[e] = mv[e]
      /\ \A i : HeldIn(mv2, i) = HeldIn(mv, i) + MovedBy(W.m, Len(W.m), i)
  BY <1>1, EnrollIs, WorkIs
<1>3. Tables(W.b, mv2, p \cup {d})
  BY <1>1, <1>2, WorkIs DEF Tables, Register
<1>4. DOMAIN mv[d] = {}
  BY <1>1
<1>11. \A i \in DOMAIN W.b : i # NoBatch
  <2>1. DOMAIN W.b = 1 .. Len(W.b)
    BY WorkIs, SequenceIs
  <2> QED BY <2>1 DEF NoBatch
<1>5. ASSUME NEW i \in DOMAIN W.b, i \notin DOMAIN b
      PROVE  W.b[i].qty = HeldIn(mv2, i) /\ \E k \in DOMAIN mv2[W.b[i].src] : Founds(mv2, W.b[i].src, k, i)
  <2>1. /\ W.b[i] # Gone /\ W.b[i].src = d /\ W.b[i].qty = MovedBy(W.m, Len(W.m), i) /\ W.b[i].qty \in Int
    BY <1>5, NewIs, WorkIs
  <2>2. HeldIn(mv, i) = 0
    <3>1. \A f \in Docs : \A j \in DOMAIN mv[f] : mv[f][j].batch # i
      BY <1>1, <1>5, <1>11
    <3> QED BY <1>1, <3>1, HeldNothing
  <2>3. PICK k \in DOMAIN W.m : Creates(W.m, k, i)
    BY <1>5, NewIs
  <2>4. Founds(mv2, d, k, i)
    <3>1. ASSUME NEW f \in Docs, NEW j \in DOMAIN mv2[f], mv2[f][j].batch = i, <<f, j>> # <<d, k>>
          PROVE  /\ mv2[f][j].qty <= 0 /\ mv2[d][k].qty > 0 /\ (f = d => j > k)
      <4>1. f = d
        BY <1>1, <1>2, <1>5, <1>11, <3>1
      <4>2. j \in DOMAIN W.m /\ W.m[j].batch = i /\ j # k
        BY <1>2, <3>1, <4>1
      <4>3. j > k /\ W.m[j].qty <= 0 /\ W.m[k].qty > 0
        BY <2>3, <4>2 DEF Creates
      <4>4. mv2[f][j] = W.m[j] /\ mv2[d][k] = W.m[k]
        BY <1>2, <4>1
      <4> QED BY <4>3, <4>4
    <3>2. mv2[d][k].batch = i
      BY <1>2, <2>3 DEF Creates
    <3> QED BY <3>1, <3>2 DEF Founds
  <2>5. k \in DOMAIN mv2[d]
    BY <1>2, <2>3
  <2>6. W.b[i].qty = HeldIn(mv2, i)
    BY <1>2, <2>1, <2>2
  <2>7. PICK s : s = W.b[i].src
    OBVIOUS
  <2>8. s = d
    BY <2>1, <2>7
  <2>9. k \in DOMAIN mv2[s] /\ Founds(mv2, s, k, i)
    BY <2>4, <2>5, <2>8
  <2> QED BY <2>6, <2>7, <2>9
<1>6. ASSUME NEW i \in DOMAIN b, b[i] # Gone
      PROVE  \E k \in DOMAIN mv2[W.b[i].src] : Founds(mv2, W.b[i].src, k, i)
  <2> DEFINE e == b[i].src
  <2>1. PICK k \in DOMAIN mv[e] : Founds(mv, e, k, i)
    BY <1>1, <1>6
  <2>2. e \in Docs /\ e # d /\ mv2[e] = mv[e]
    <3>1. b[i] \in AnyBatch
      BY <1>1, SequenceIs
    <3>2. e \in Docs
      BY <1>6, <3>1 DEF AnyBatch
    <3> QED BY <1>2, <1>4, <2>1, <3>2
  <2>3. HeldIn(mv, i) <= mv[e][k].qty /\ HeldIn(mv, i) \in Int /\ mv[e][k].qty \in Int
    BY <1>1, <2>1, <2>2, HeldFounded, RegisterIs
  <2>4. Founds(mv2, e, k, i)
    <3>1. ASSUME NEW f \in Docs, NEW j \in DOMAIN mv2[f], mv2[f][j].batch = i, <<f, j>> # <<e, k>>
          PROVE  /\ mv2[f][j].qty <= 0 /\ mv2[e][k].qty > 0 /\ (f = e => j > k)
      <4>1. CASE f # d
        BY <1>2, <2>1, <2>2, <3>1, <4>1 DEF Founds
      <4>2. CASE f = d
        <5>1. b[i].qty > 0 /\ W.m[j].qty <= 0
          <6>1. j \in DOMAIN W.m /\ W.m[j].batch = i
            BY <1>2, <3>1, <4>2
          <6> QED BY <6>1, WorkRows
        <5>2. mv[e][k].qty > 0
          BY <1>1, <2>3, <5>1
        <5> QED BY <1>2, <2>2, <4>2, <5>1, <5>2
      <4> QED BY <4>1, <4>2
    <3>2. mv2[e][k].batch = i
      BY <2>1, <2>2 DEF Founds
    <3> QED BY <3>1, <3>2 DEF Founds
  <2>5. W.b[i].src = e
    BY OldIs
  <2>7. PICK s : s = W.b[i].src
    OBVIOUS
  <2>8. s = e
    BY <2>5, <2>7
  <2>9. k \in DOMAIN mv2[s] /\ Founds(mv2, s, k, i)
    BY <2>1, <2>2, <2>4, <2>8
  <2> QED BY <2>7, <2>9
<1>10. /\ \A i \in DOMAIN b : i \in DOMAIN W.b /\ (b[i] = Gone <=> W.b[i] = Gone) /\ W.b[i].src = b[i].src
                           /\ W.b[i].sklad = b[i].sklad
  BY OldIs
<1>7. \A i \in DOMAIN W.b : W.b[i].qty = HeldIn(mv2, i)
  <2>1. ASSUME NEW i \in DOMAIN b PROVE W.b[i].qty = HeldIn(mv2, i)
    <3>1. W.b[i].qty = b[i].qty + MovedBy(W.m, Len(W.m), i)
      BY OldIs
    <3> QED BY <1>1, <1>2, <3>1
  <2> QED BY <1>5, <2>1
<1>8. ASSUME NEW i \in DOMAIN W.b, W.b[i] # Gone
      PROVE  \E k \in DOMAIN mv2[W.b[i].src] : Founds(mv2, W.b[i].src, k, i)
  <2>1. CASE i \in DOMAIN b
    <3>1. b[i] # Gone
      BY <1>8, <1>10, <2>1
    <3> QED BY <1>6, <2>1, <3>1
  <2>2. CASE i \notin DOMAIN b
    BY <1>5, <2>2
  <2> QED BY <2>1, <2>2
<1>9. ASSUME NEW e \in Docs, NEW k \in DOMAIN mv2[e]
      PROVE  LET i == mv2[e][k].batch IN
             \/ i = NoBatch /\ mv2[e][k].qty >= 0
             \/ /\ i \in DOMAIN W.b /\ W.b[i] # Gone /\ mv2[e][k].sklad = W.b[i].sklad
                /\ W.b[i].src # e => Reduced(mv2[e], i)
  <2>3. PICK i : i = mv2[e][k].batch
    OBVIOUS
  <2>1. CASE e # d
    <3>1. mv2[e] = mv[e]
      BY <1>2, <2>1
    <3>4. k \in DOMAIN mv[e] /\ mv[e][k].batch = i
      BY <2>3, <3>1
    <3>5. CASE i = NoBatch
      <4>1. mv[e][k].qty >= 0
        BY <1>1, <1>10, <1>11, <3>4, <3>5
      <4> QED BY <2>3, <3>1, <3>5, <4>1
    <3>6. CASE i # NoBatch
      <4>1. i \in DOMAIN b /\ b[i] # Gone /\ mv[e][k].sklad = b[i].sklad /\ (b[i].src # e => Reduced(mv[e], i))
        BY <1>1, <3>4, <3>6
      <4>2. i \in DOMAIN W.b /\ W.b[i] # Gone /\ W.b[i].src = b[i].src /\ W.b[i].sklad = b[i].sklad
        BY <1>10, <4>1
      <4> QED BY <2>3, <3>1, <4>1, <4>2
    <3> QED BY <3>5, <3>6
  <2>2. CASE e = d
    <3>1. k \in DOMAIN W.m /\ i = W.m[k].batch /\ mv2[e] = W.m
      BY <1>2, <2>2, <2>3
    <3>5. CASE i = NoBatch
      <4>1. W.m[k].qty >= 0
        BY <3>1, <3>5, WorkRows
      <4> QED BY <2>3, <3>1, <3>5, <4>1
    <3>4. i # NoBatch => i \in DOMAIN W.b /\ W.m[k].sklad = W.b[i].sklad
      BY <3>1, WorkRows
    <3>2. CASE i \in DOMAIN b /\ i # NoBatch
      <4>1. b[i].qty > 0 /\ Reduced(W.m, i)
        BY <3>1, <3>2, WorkRows
      <4>2. b[i] # Gone
        BY <4>1, BatchFields
      <4> QED BY <1>10, <2>3, <3>1, <3>2, <3>4, <4>1, <4>2
    <3>3. CASE i \notin DOMAIN b /\ i # NoBatch
      <4>1. \A j \in DOMAIN W.b \ DOMAIN b : W.b[j] # Gone /\ W.b[j].src = d
        BY NewIs
      <4> QED BY <2>2, <2>3, <3>1, <3>3, <3>4, <4>1
    <3> QED BY <3>2, <3>3, <3>5
  <2> QED BY <2>1, <2>2
<1> QED BY <1>3, <1>7, <1>8, <1>9 DEF Consistent

\* What movements of batch i come to when only one of them matters.
LEMMA MovedLess ==
  ASSUME NEW m, m \in Seq(AnyRow), NEW i, NEW n \in 0 .. Len(m),
         \A j \in 1 .. n : m[j].batch = i => m[j].qty <= 0
  PROVE  /\ MovedBy(m, n, i) \in Int /\ MovedBy(m, n, i) <= 0
         /\ (\A j \in 1 .. n : m[j].batch = i => m[j].qty = 0) => MovedBy(m, n, i) = 0
<1>1. /\ Len(m) \in Nat /\ DOMAIN m = 1 .. Len(m) /\ IsFiniteSet(1 .. n)
      /\ \A j \in 1 .. n : j \in DOMAIN m
  <2>1. Len(m) \in Nat /\ DOMAIN m = 1 .. Len(m)
    BY SequenceIs
  <2>2. n \in Int /\ 1 \in Int /\ \A j \in 1 .. n : j \in DOMAIN m
    BY <2>1
  <2>3. IsFiniteSet(1 .. n)
    BY <2>2, FS_Interval
  <2> QED BY <2>1, <2>2, <2>3
<1>2. \A j \in 1 .. n : Share(m, i)[j] \in Int /\ Share(m, i)[j] <= 0
  <2>1. \A j \in 1 .. n : Share(m, i)[j] \in Int
    BY <1>1, MovedFacts
  <2>2. \A j \in 1 .. n : Share(m, i)[j] = IF m[j].batch = i THEN m[j].qty ELSE 0
    BY <1>1 DEF Share
  <2> QED BY <2>1, <2>2
<1>3. MovedBy(m, n, i) \in Int /\ MovedBy(m, n, i) <= 0
  BY <1>1, <1>2, SumNotPositive DEF MovedBy
<1>4. ASSUME \A j \in 1 .. n : m[j].batch = i => m[j].qty = 0
      PROVE  MovedBy(m, n, i) = 0
  <2>1. \A j \in 1 .. n : Share(m, i)[j] = 0
    BY <1>1, <1>4 DEF Share
  <2> QED BY <1>1, <2>1, SumOfZeros DEF MovedBy
<1> QED BY <1>3, <1>4

\* Nothing leaves a batch after the movement that made it, or less is left.
LEMMA MovedByOne ==
  ASSUME NEW m, m \in Seq(AnyRow), NEW i, NEW n \in 0 .. Len(m), NEW c \in 1 .. n, m[c].batch = i,
         \A j \in 1 .. n : m[j].batch = i /\ j # c => m[j].qty <= 0
  PROVE  /\ MovedBy(m, n, i) \in Int /\ m[c].qty \in Int
         /\ MovedBy(m, n, i) <= m[c].qty
         /\ MovedBy(m, n, i) >= m[c].qty => \A j \in 1 .. n : m[j].batch = i /\ j # c => m[j].qty = 0
         /\ (\A j \in 1 .. n : m[j].batch = i /\ j # c => m[j].qty = 0) => MovedBy(m, n, i) = m[c].qty
<1>1. /\ Len(m) \in Nat /\ DOMAIN m = 1 .. Len(m) /\ IsFiniteSet(1 .. n)
      /\ \A j \in 1 .. n : j \in DOMAIN m
  <2>1. Len(m) \in Nat /\ DOMAIN m = 1 .. Len(m)
    BY SequenceIs
  <2>2. n \in Int /\ 1 \in Int /\ \A j \in 1 .. n : j \in DOMAIN m
    BY <2>1
  <2>3. IsFiniteSet(1 .. n)
    BY <2>2, FS_Interval
  <2> QED BY <2>1, <2>2, <2>3
<1>2. \A j \in 1 .. n : Share(m, i)[j] \in Int
  BY <1>1, MovedFacts
<1>3. \A j \in 1 .. n : Share(m, i)[j] = IF m[j].batch = i THEN m[j].qty ELSE 0
  BY <1>1 DEF Share
<1>4. \A j \in (1 .. n) \ {c} : Share(m, i)[j] <= 0
  BY <1>3
<1>5. /\ SumFunctionOnSet(Share(m, i), 1 .. n) <= Share(m, i)[c]
      /\ SumFunctionOnSet(Share(m, i), 1 .. n) >= Share(m, i)[c] =>
           \A j \in (1 .. n) \ {c} : Share(m, i)[j] = 0
      /\ (\A j \in (1 .. n) \ {c} : Share(m, i)[j] = 0) =>
           SumFunctionOnSet(Share(m, i), 1 .. n) = Share(m, i)[c]
  BY <1>1, <1>2, <1>4, SumWithOne, SMTT(30)
<1>6. Share(m, i)[c] = m[c].qty /\ m[c].qty \in Int
  BY <1>2, <1>3
<1>7. MovedBy(m, n, i) \in Int
  BY <1>1, MovedFacts
<1>8. MovedBy(m, n, i) = SumFunctionOnSet(Share(m, i), 1 .. n)
  BY DEF MovedBy
<1>9. ASSUME \A j \in 1 .. n : m[j].batch = i /\ j # c => m[j].qty = 0
      PROVE  \A j \in (1 .. n) \ {c} : Share(m, i)[j] = 0
  BY <1>3, <1>9
<1>10. ASSUME \A j \in (1 .. n) \ {c} : Share(m, i)[j] = 0
       PROVE  \A j \in 1 .. n : m[j].batch = i /\ j # c => m[j].qty = 0
  BY <1>3, <1>10
<1> QED BY <1>5, <1>6, <1>7, <1>8, <1>9, <1>10

\* A batch nothing left holds what it was made with.
LEMMA MovedByOnly ==
  ASSUME NEW m, m \in Seq(AnyRow), NEW i, NEW n \in 0 .. Len(m), NEW c \in 1 .. n, m[c].batch = i,
         \A j \in 1 .. n : m[j].batch = i /\ j # c => m[j].qty = 0
  PROVE  MovedBy(m, n, i) = m[c].qty
<1>1. \A j \in 1 .. n : m[j].batch = i /\ j # c => m[j].qty <= 0
  <2>1. ASSUME NEW j \in 1 .. n, m[j].batch = i, j # c PROVE m[j].qty <= 0
    <3>1. m[j].qty = 0
      BY <2>1
    <3> QED BY <3>1
  <2> QED BY <2>1
<1> QED BY <1>1, MovedByOne

\* What of Consistent a cancellation needs.
LEMMA ConsistentIs ==
  ASSUME NEW b, NEW mv, NEW p, Consistent(b, mv, p)
  PROVE  /\ b \in Seq(AnyBatch) /\ Register(mv) /\ p \subseteq Docs
         /\ \A e \in Docs : e \notin p => mv[e] = <<>>
         /\ \A i \in DOMAIN b : b[i].qty = HeldIn(mv, i) /\ b[i] \in AnyBatch /\ b[i].qty \in Int
         /\ \A i \in DOMAIN b : b[i] # Gone => b[i].src \in Docs
         /\ \A i \in DOMAIN b : b[i] # Gone => \E k \in DOMAIN mv[b[i].src] : Founds(mv, b[i].src, k, i)
<1>1. b \in Seq(AnyBatch)
  BY DEF Consistent, Tables
<1>2. \A i \in DOMAIN b : b[i] \in AnyBatch /\ b[i].qty \in Int
  BY <1>1, SequenceIs, BatchFields
<1>3. \A i \in DOMAIN b : b[i] # Gone => b[i].src \in Docs
  BY <1>2 DEF AnyBatch
<1> QED BY <1>1, <1>2, <1>3 DEF Consistent, Tables, Register

\* A movement names a batch that was not deleted, or none.
LEMMA RowsConsistent ==
  ASSUME NEW b, NEW mv, NEW p, Consistent(b, mv, p), NEW e \in Docs, NEW k \in DOMAIN mv[e],
         NEW i, i = mv[e][k].batch
  PROVE  /\ i = NoBatch => mv[e][k].qty >= 0
         /\ i # NoBatch => /\ i \in DOMAIN b /\ b[i] # Gone /\ mv[e][k].sklad = b[i].sklad
                           /\ b[i].src # e => Reduced(mv[e], i)
         /\ NoBatch \notin DOMAIN b
<1>1. NoBatch \notin DOMAIN b
  <2>1. b \in Seq(AnyBatch)
    BY ConsistentIs
  <2>2. DOMAIN b = 1 .. Len(b) /\ Len(b) \in Nat
    BY <2>1, SequenceIs
  <2> QED BY <2>2 DEF NoBatch
<1> QED BY <1>1 DEF Consistent

\* The movements of a document can be undone one by one.
LEMMA CanUndoAll ==
  ASSUME NEW b, NEW mv, NEW p, Consistent(b, mv, p), NEW d, d \in Docs
  PROVE  Undoable(b, mv[d])
<1>1. b \in Seq(AnyBatch) /\ mv[d] \in Seq(AnyRow)
  BY ConsistentIs, RegisterIs
<1>2. \A k \in DOMAIN mv[d] : mv[d][k].batch # NoBatch => mv[d][k].batch \in DOMAIN b /\ b[mv[d][k].batch] # Gone
  BY DEF Consistent
<1> QED BY <1>1, <1>2 DEF Undoable

\* When all of a document's movements can be undone, a batch it made is left
\* empty, and no other document has moved it.
LEMMA OwnIsEmptied ==
  ASSUME NEW b, NEW mv, NEW p, Consistent(b, mv, p), NEW d, d \in Docs,
         NEW m, m = mv[d], CanUndo(b, m, Len(m)),
         NEW i \in DOMAIN b, b[i] # Gone, b[i].src = d
  PROVE  /\ LeftEmpty(b, d, m, Len(m), i)
         /\ \A f \in Docs : \A j \in DOMAIN mv[f] : mv[f][j].batch = i => f = d
<1>1. Register(mv) /\ m \in Seq(AnyRow) /\ Len(m) \in Nat /\ DOMAIN m = 1 .. Len(m)
  BY ConsistentIs, RegisterIs
<1>13. i # NoBatch
  <2>1. b \in Seq(AnyBatch)
    BY ConsistentIs
  <2>2. DOMAIN b = 1 .. Len(b)
    BY <2>1, SequenceIs
  <2> QED BY <2>2 DEF NoBatch
<1>2. PICK c \in DOMAIN m : Founds(mv, d, c, i)
  <2>1. PICK s : s = b[i].src
    OBVIOUS
  <2>2. \E k \in DOMAIN mv[s] : Founds(mv, s, k, i)
    BY <2>1, ConsistentIs
  <2> QED BY <2>1, <2>2
<1>3. /\ m[c].batch = i /\ m[c].qty \in Int
      /\ \A f \in Docs : \A j \in DOMAIN mv[f] :
           mv[f][j].batch = i /\ <<f, j>> # <<d, c>> =>
             /\ mv[f][j].qty <= 0 /\ m[c].qty > 0
             /\ f = d => j > c
  BY <1>1, <1>2, RegisterIs DEF Founds
<1>4. /\ HeldIn(mv, i) \in Int /\ HeldIn(mv, i) <= m[c].qty /\ b[i].qty = HeldIn(mv, i)
      /\ HeldIn(mv, i) >= m[c].qty =>
              \A f \in Docs : \A j \in DOMAIN mv[f] :
                mv[f][j].batch = i /\ <<f, j>> # <<d, c>> => mv[f][j].qty = 0
      /\ (\A f \in Docs : \A j \in DOMAIN mv[f] :
            mv[f][j].batch = i /\ <<f, j>> # <<d, c>> => mv[f][j].qty = 0) =>
              HeldIn(mv, i) = m[c].qty
  BY <1>1, <1>2, HeldFounded, ConsistentIs
<1>5. /\ c - 1 \in 0 .. Len(m) /\ c \in 0 .. Len(m) /\ c \in 1 .. c
      /\ \A j \in 1 .. c : j \in DOMAIN m
      /\ \A j \in 1 .. c - 1 : j \in DOMAIN m /\ ~ j > c /\ j # c
  BY <1>1
<1>6. ASSUME NEW j \in 1 .. c, j # c PROVE m[j].batch # i
  <2>1. j \in DOMAIN mv[d] /\ ~ j > c
    BY <1>5, <1>6
  <2> QED BY <1>3, <1>6, <2>1
<1>7. MovedBy(m, c - 1, i) = 0
  <2>1. \A j \in 1 .. c - 1 : m[j].batch # i
    BY <1>5, <1>6
  <2>2. PICK n : n = c - 1
    OBVIOUS
  <2>3. n \in 0 .. Len(m) /\ \A j \in 1 .. n : m[j].batch # i
    BY <1>5, <2>1, <2>2
  <2>4. MovedBy(m, n, i) = 0
    BY <1>1, <2>3, MovedLess
  <2> QED BY <2>2, <2>4
<1>8. \A f \in Docs : \A j \in DOMAIN mv[f] :
        mv[f][j].batch = i /\ <<f, j>> # <<d, c>> => mv[f][j].qty = 0
  <2>1. CASE m[c].qty >= 0
    <3>1. b[i].qty - MovedBy(m, c - 1, i) >= m[c].qty
      <4>1. c \in 1 .. Len(m)
        BY <1>1
      <4> QED BY <1>3, <1>13, <2>1, <4>1 DEF CanUndo
    <3>2. HeldIn(mv, i) >= m[c].qty
      BY <1>3, <1>4, <1>7, <3>1
    <3> QED BY <1>4, <3>2
  <2>2. CASE ~ m[c].qty >= 0
    <3>1. ~ m[c].qty > 0
      BY <1>3, <2>2
    <3> QED BY <1>3, <3>1
  <2> QED BY <2>1, <2>2
<1>9. b[i].qty = m[c].qty
  BY <1>4, <1>8
<1>10. MovedBy(m, c, i) = m[c].qty
  BY <1>1, <1>3, <1>5, <1>6, MovedByOne
<1>11. LeftEmpty(b, d, m, Len(m), i)
  <2>1. c \in 1 .. Len(m)
    BY <1>1
  <2> QED BY <1>3, <1>9, <1>10, <2>1 DEF LeftEmpty
<1>12. ASSUME NEW f \in Docs, NEW j \in DOMAIN mv[f], mv[f][j].batch = i, f # d PROVE FALSE
  <2>1. Reduced(mv[f], i)
    BY <1>12, <1>13, RowsConsistent
  <2>2. PICK h \in DOMAIN mv[f] : mv[f][h].batch = i /\ mv[f][h].qty < 0
    BY <2>1 DEF Reduced
  <2>3. <<f, h>> # <<d, c>>
    BY <1>12
  <2> QED BY <1>8, <2>2, <2>3
<1> QED BY <1>11, <1>12

\* The movements of document d are deleted.
Cleared(mv2, mv, d) == mv2 = [mv EXCEPT ![d] = <<>>]

\* The register without them.
LEMMA ClearedIs ==
  ASSUME NEW mv, Register(mv), NEW d, d \in Docs, NEW mv2, Cleared(mv2, mv, d)
  PROVE  Register(mv2) /\ mv2[d] = <<>> /\ DOMAIN mv2[d] = {} /\ \A e \in Docs \ {d} : mv2[e] = mv[e]
<1>1. <<>> \in Seq(AnyRow) /\ DOMAIN <<>> = {}
  OBVIOUS
<1> QED BY <1>1 DEF Register, Cleared

\* Undoing the movements m of document d makes b2 of the batches b.
Undone(b2, b, d, m) == \E U \in {Rollback(b, d, m)} : U.ok /\ b2 = U.b

\* Cancelling a document keeps batches and movements consistent, takes no
\* batch below zero and changes no cost.
LEMMA UnpostingKeeps ==
  ASSUME NEW b, NEW mv, NEW p, Consistent(b, mv, p), NEW d, d \in p,
         NEW b2, Undone(b2, b, d, mv[d]),
         NEW mv2, Cleared(mv2, mv, d)
  PROVE  /\ Consistent(b2, mv2, p \ {d})
         /\ DOMAIN b2 = DOMAIN b
         /\ \A i \in DOMAIN b :
              /\ b2[i].qty < 0 => b2[i].qty >= b[i].qty
              /\ b2[i] = Gone \/ b2[i].cost = b[i].cost
<1>1. Register(mv) /\ p \subseteq Docs /\ d \in Docs /\ b \in Seq(AnyBatch)
  BY ConsistentIs
<1>2. PICK m : m = mv[d]
  OBVIOUS
<1>3. m \in Seq(AnyRow) /\ Len(m) \in Nat /\ DOMAIN m = 1 .. Len(m) /\ Len(m) \in 0 .. Len(m) /\ Undoable(b, m)
  BY <1>1, <1>2, RegisterIs, CanUndoAll
<1>4. /\ CanUndo(b, m, Len(m)) /\ DOMAIN b2 = DOMAIN b
      /\ b2 = [i \in DOMAIN b |->
                  IF LeftEmpty(b, d, m, Len(m), i) THEN Gone ELSE LessMoved(b, m, Len(m), i)]
  <2>1. PICK U : U = Rollback(b, d, m) /\ U.ok /\ b2 = U.b
    BY <1>2 DEF Undone
  <2> QED BY <1>3, <2>1, RollbackIs
<1>5. Register(mv2) /\ mv2[d] = <<>> /\ DOMAIN mv2[d] = {} /\ \A e \in Docs \ {d} : mv2[e] = mv[e]
  BY <1>1, ClearedIs
<1>6. ASSUME NEW i PROVE HeldIn(mv, i) = HeldIn(mv2, i) + MovedBy(m, Len(m), i) /\ HeldIn(mv2, i) \in Int
  <2>1. Enrolls(mv, mv2, d, m)
    BY <1>1, <1>2 DEF Enrolls, Register, Cleared
  <2>2. HeldIn(mv2, i) \in Int
    BY <1>5, HeldIsInt DEF Register
  <2> QED BY <1>1, <1>3, <1>5, <2>1, <2>2, EnrollIs
<1>7. ASSUME NEW i \in DOMAIN b, b[i] # Gone, b[i].src = d
      PROVE  /\ b2[i] = Gone
             /\ \A f \in Docs : \A j \in DOMAIN mv2[f] : mv2[f][j].batch # i
  <2>1. /\ LeftEmpty(b, d, m, Len(m), i)
        /\ \A f \in Docs : \A j \in DOMAIN mv[f] : mv[f][j].batch = i => f = d
    BY <1>1, <1>2, <1>4, <1>7, OwnIsEmptied
  <2> QED BY <1>4, <1>5, <2>1
<1>8. ASSUME NEW i \in DOMAIN b, b[i] = Gone
      PROVE  /\ b2[i] = Gone
             /\ \A f \in Docs : \A j \in DOMAIN mv2[f] : mv2[f][j].batch # i
  <2>1. LessMoved(b, m, Len(m), i) = Gone
    BY <1>8 DEF LessMoved
  <2>2. \A f \in Docs : \A j \in DOMAIN mv[f] : mv[f][j].batch # i
    <3>1. i # NoBatch
      <4>1. DOMAIN b = 1 .. Len(b)
        BY <1>1, SequenceIs
      <4> QED BY <4>1 DEF NoBatch
    <3> QED BY <1>8, <3>1, RowsConsistent
  <2> QED BY <1>4, <1>5, <2>1, <2>2
<1>9. ASSUME NEW i \in DOMAIN b, b[i] # Gone, b[i].src # d
      PROVE  /\ b2[i] \in AnyBatch /\ b2[i] # Gone
             /\ b2[i].src = b[i].src /\ b2[i].cost = b[i].cost /\ b2[i].sklad = b[i].sklad
             /\ b2[i].qty = HeldIn(mv2, i) /\ b2[i].qty >= b[i].qty
             /\ b[i].src \in Docs /\ \E k \in DOMAIN mv2[b[i].src] : Founds(mv2, b[i].src, k, i)
  <2>1. ~ LeftEmpty(b, d, m, Len(m), i)
    BY <1>9 DEF LeftEmpty
  <2>2. b2[i] = LessMoved(b, m, Len(m), i)
    BY <1>4, <2>1
  <2>3. /\ b2[i] \in AnyBatch /\ b2[i] # Gone
        /\ b2[i].src = b[i].src /\ b2[i].cost = b[i].cost /\ b2[i].sklad = b[i].sklad
        /\ b2[i].qty = b[i].qty - MovedBy(m, Len(m), i)
        /\ b[i].qty \in Int /\ MovedBy(m, Len(m), i) \in Int
    BY <1>3, <1>9, <2>2, LessMovedIs
  <2>4. b[i].qty = HeldIn(mv, i) /\ b[i].src \in Docs
    BY <1>9, ConsistentIs
  <2>5. PICK s : s = b[i].src
    OBVIOUS
  <2>6. PICK k \in DOMAIN mv[s] : Founds(mv, s, k, i)
    BY <1>9, <2>5, ConsistentIs
  <2>7. s \in Docs /\ s # d /\ mv2[s] = mv[s]
    BY <1>5, <1>9, <2>4, <2>5
  <2>8. \A f \in Docs : \A j \in DOMAIN mv2[f] : f # d /\ j \in DOMAIN mv[f] /\ mv2[f][j] = mv[f][j]
    BY <1>5
  <2>9. Founds(mv2, s, k, i)
    BY <2>6, <2>7, <2>8 DEF Founds
  <2>10. \A j \in 1 .. Len(m) : m[j].batch = i => m[j].qty <= 0
    <3>1. \A j \in DOMAIN mv[d] : mv[d][j].batch = i => mv[d][j].qty <= 0
      BY <1>1, <2>6, <2>7 DEF Founds
    <3> QED BY <1>2, <1>3, <3>1
  <2>11. MovedBy(m, Len(m), i) <= 0
    <3>1. PICK n : n = Len(m)
      OBVIOUS
    <3>2. MovedBy(m, n, i) <= 0
      BY <1>3, <2>10, <3>1, MovedLess
    <3> QED BY <3>1, <3>2
  <2>12. b2[i].qty = HeldIn(mv2, i) /\ b2[i].qty >= b[i].qty
    BY <1>6, <2>3, <2>4, <2>11
  <2>13. k \in DOMAIN mv2[s]
    BY <2>7
  <2> QED BY <2>3, <2>4, <2>5, <2>7, <2>9, <2>12, <2>13
<1>10. ASSUME NEW i \in DOMAIN b
       PROVE  b2[i] \in AnyBatch /\ b2[i].qty = HeldIn(mv2, i)
  <2>1. CASE b[i] # Gone /\ b[i].src # d
    BY <1>9, <2>1
  <2>2. CASE ~ (b[i] # Gone /\ b[i].src # d)
    <3>1. b2[i] = Gone /\ \A f \in Docs : \A j \in DOMAIN mv2[f] : mv2[f][j].batch # i
      BY <1>7, <1>8, <2>2
    <3>2. HeldIn(mv2, i) = 0
      BY <1>5, <3>1, HeldNothing
    <3>3. Gone \in AnyBatch
      BY DEF AnyBatch
    <3> QED BY <3>1, <3>2, <3>3, BatchFields
  <2> QED BY <2>1, <2>2
<1>11. Tables(b2, mv2, p \ {d})
  <2>1. b2 \in Seq(AnyBatch)
    <3>1. PICK n : n = Len(b)
      OBVIOUS
    <3>2. n \in Nat /\ DOMAIN b = 1 .. n
      BY <1>1, <3>1, SequenceIs
    <3>3. b2 \in [1 .. n -> AnyBatch]
      BY <1>4, <1>10, <3>2
    <3> QED BY <3>2, <3>3, SequenceOfLength
  <2>2. \A e \in Docs \ (p \ {d}) : mv2[e] = <<>>
    BY <1>5, ConsistentIs
  <2> QED BY <1>1, <1>5, <2>1, <2>2 DEF Tables, Register
<1>12. ASSUME NEW i \in DOMAIN b2, b2[i] # Gone
       PROVE  \E k \in DOMAIN mv2[b2[i].src] : Founds(mv2, b2[i].src, k, i)
  <2>1. b[i] # Gone /\ b[i].src # d /\ i \in DOMAIN b
    BY <1>4, <1>7, <1>8, <1>12
  <2>2. PICK s : s = b[i].src
    OBVIOUS
  <2>3. b2[i].src = s /\ \E k \in DOMAIN mv2[s] : Founds(mv2, s, k, i)
    BY <1>9, <2>1, <2>2
  <2> QED BY <2>3
<1>13. ASSUME NEW e \in Docs, NEW k \in DOMAIN mv2[e], NEW i, i = mv2[e][k].batch
       PROVE  \/ i = NoBatch /\ mv2[e][k].qty >= 0
              \/ /\ i \in DOMAIN b2 /\ b2[i] # Gone /\ mv2[e][k].sklad = b2[i].sklad
                 /\ b2[i].src # e => Reduced(mv2[e], i)
  <2>1. e # d /\ mv2[e] = mv[e]
    BY <1>5
  <2>5. CASE i = NoBatch
    <3>1. mv[e][k].qty >= 0
      BY <1>13, <2>1, <2>5, RowsConsistent
    <3> QED BY <2>1, <2>5, <3>1
  <2>6. CASE i # NoBatch
    <3>2. /\ i \in DOMAIN b /\ b[i] # Gone /\ mv[e][k].sklad = b[i].sklad
          /\ b[i].src # e => Reduced(mv[e], i)
      BY <1>13, <2>1, <2>6, RowsConsistent
    <3>3. b[i].src # d
      BY <1>7, <1>13, <3>2
    <3>4. b2[i] # Gone /\ b2[i].src = b[i].src /\ b2[i].sklad = b[i].sklad
      BY <1>9, <3>2, <3>3
    <3> QED BY <1>4, <2>1, <3>2, <3>4
  <2> QED BY <2>5, <2>6
<1>14. Consistent(b2, mv2, p \ {d})
  BY <1>4, <1>10, <1>11, <1>12, <1>13 DEF Consistent
<1>15. ASSUME NEW i \in DOMAIN b
       PROVE  /\ b2[i].qty < 0 => b2[i].qty >= b[i].qty
              /\ b2[i] = Gone \/ b2[i].cost = b[i].cost
  BY <1>7, <1>8, <1>9, BatchFields
<1> QED BY <1>4, <1>14, <1>15

-----------------------------------------------------------------------------
(***************************************************************************)
(* A posting cancelled at once.                                            *)
(***************************************************************************)
\* In the work of a document, a batch of its own is made by one row, and the
\* others only take from it.
LEMMA OwnCanUndo ==
  ASSUME NEW b, NEW d, NEW W, WorkFits(W, b, d), ~ TakesItsOwn(W.m),
         NEW k \in DOMAIN W.m, W.m[k].qty >= 0, NEW i, i = W.m[k].batch, i # NoBatch
  PROVE  W.b[i].qty - MovedBy(W.m, k - 1, i) >= W.m[k].qty
<1>1. PICK m, n, q : m = W.m /\ n = k - 1 /\ q = W.b[i].qty
  OBVIOUS
<1>2. /\ m \in Seq(AnyRow) /\ Len(m) \in Nat /\ DOMAIN m = 1 .. Len(m)
      /\ n \in 0 .. Len(m) /\ Len(m) \in 0 .. Len(m) /\ k \in 1 .. Len(m)
  <2>1. W.m \in Seq(AnyRow) /\ Len(W.m) \in Nat /\ DOMAIN W.m = 1 .. Len(W.m)
    BY WorkIs
  <2> QED BY <1>1, <2>1
<1>3. /\ i \in DOMAIN W.b /\ m[k].qty \in Int /\ q \in Int /\ m[k].batch = i /\ m[k].qty >= 0
      /\ i \in DOMAIN b => b[i].qty > 0 /\ m[k].qty <= 0
  BY <1>1, WorkRows, WorkIs, SMTT(30)
<1>4. CASE i \in DOMAIN b
  <2>1. \A j \in DOMAIN W.m : W.m[j].batch = i => W.m[j].qty <= 0
    BY <1>4, WorkRows
  <2>2. \A j \in 1 .. n : m[j].batch = i => m[j].qty <= 0
    BY <1>1, <1>2, <2>1
  <2>3. MovedBy(m, n, i) \in Int /\ MovedBy(m, n, i) <= 0
    BY <1>2, <2>2, MovedLess
  <2>4. q >= 0
    <3>1. W.b[i].qty < 0 => W.b[i].qty = b[i].qty
      BY <1>4, OldIs
    <3>2. b[i].qty > 0 /\ b[i].qty \in Int
      BY <1>3, <1>4, WorkIs
    <3> QED BY <1>1, <1>3, <3>1, <3>2
  <2>5. q - MovedBy(m, n, i) >= m[k].qty
    BY <1>3, <1>4, <2>3, <2>4
  <2> QED BY <1>1, <2>5
<1>5. CASE i \notin DOMAIN b
  <2>1. PICK c \in DOMAIN m : Creates(m, c, i)
    BY <1>1, <1>3, <1>5, NewIs
  <2>2. /\ m[c].batch = i /\ m[c].qty \in Int /\ c \in 1 .. Len(m)
        /\ \A j \in DOMAIN m : m[j].batch = i /\ j # c => j > c /\ m[j].qty <= 0 /\ m[c].qty > 0
    <3>1. m[c].qty \in Int
      BY <1>1, <2>1, WorkRows
    <3> QED BY <1>2, <2>1, <3>1 DEF Creates
  <2>3. ASSUME NEW j \in DOMAIN m, m[j].batch = i, j # c PROVE m[j].qty = 0
    <3>1. m[j].qty <= 0 /\ m[c].qty > 0 /\ m[j].qty \in Int
      BY <1>1, <2>2, <2>3, WorkRows
    <3>2. ~ m[j].qty < 0
      BY <1>1, <2>2, <2>3, <3>1 DEF TakesItsOwn
    <3> QED BY <3>1, <3>2
  <2>4. q = m[c].qty
    <3>1. q = MovedBy(m, Len(m), i)
      BY <1>1, <1>3, <1>5, NewIs
    <3>2. PICK z : z = Len(m)
      OBVIOUS
    <3>3. z \in 0 .. Len(m) /\ c \in 1 .. z /\ \A j \in 1 .. z : m[j].batch = i /\ j # c => m[j].qty = 0
      BY <1>2, <2>2, <2>3, <3>2
    <3>4. MovedBy(m, z, i) = m[c].qty
      BY <1>2, <2>2, <3>3, MovedByOnly
    <3> QED BY <3>1, <3>2, <3>4
  <2>5. CASE k = c
    <3>1. \A j \in 1 .. n : m[j].batch # i
      <4>1. \A j \in 1 .. n : j \in DOMAIN m /\ j # c /\ ~ j > c
        BY <1>1, <1>2, <2>5
      <4> QED BY <2>2, <4>1
    <3>2. MovedBy(m, n, i) = 0
      BY <1>2, <3>1, MovedLess
    <3>3. q - MovedBy(m, n, i) >= m[k].qty
      BY <1>3, <2>4, <2>5, <3>2
    <3> QED BY <1>1, <3>3
  <2>6. CASE k # c
    <3>1. k > c /\ m[k].qty = 0 /\ c \in 1 .. n
      <4>1. k > c /\ m[k].qty = 0
        BY <1>2, <1>3, <2>2, <2>3, <2>6
      <4> QED BY <1>1, <1>2, <2>2, <4>1
    <3>2. \A j \in 1 .. n : m[j].batch = i /\ j # c => m[j].qty = 0
      BY <1>2, <2>3
    <3>3. MovedBy(m, n, i) = m[c].qty
      BY <1>2, <2>2, <3>1, <3>2, MovedByOnly
    <3>4. q - MovedBy(m, n, i) >= m[k].qty
      BY <2>2, <2>4, <3>1, <3>3
    <3> QED BY <1>1, <3>4
  <2> QED BY <2>5, <2>6
<1> QED BY <1>4, <1>5

\* One that did cannot be cancelled at all.
LEMMA OwnCannotUndo ==
  ASSUME NEW b, NEW d, NEW W, WorkFits(W, b, d), TakesItsOwn(W.m)
  PROVE  ~ CanUndo(W.b, W.m, Len(W.m))
<1>1. PICK m : m = W.m
  OBVIOUS
<1>2. PICK c \in DOMAIN m, k \in DOMAIN m : m[c].batch = m[k].batch /\ m[c].qty > 0 /\ m[k].qty < 0
  BY <1>1 DEF TakesItsOwn
<1>3. PICK i : i = m[c].batch
  OBVIOUS
<1>4. /\ m \in Seq(AnyRow) /\ Len(m) \in Nat /\ DOMAIN m = 1 .. Len(m) /\ c \in 1 .. Len(m) /\ k \in 1 .. Len(m)
      /\ c - 1 \in 0 .. Len(m) /\ i \in DOMAIN W.b /\ i # NoBatch /\ W.b[i].qty \in Int
      /\ m[c].batch = i /\ m[k].batch = i /\ m[c].qty \in Int /\ m[k].qty \in Int
  <2>1. W.m \in Seq(AnyRow) /\ Len(W.m) \in Nat /\ DOMAIN W.m = 1 .. Len(W.m)
    BY WorkIs
  <2>2. i \in DOMAIN W.b /\ m[c].qty \in Int /\ m[k].qty \in Int /\ i # NoBatch
    <3>1. /\ m[c].qty \in Int /\ m[k].qty \in Int
          /\ i # NoBatch => i \in DOMAIN W.b
          /\ i = NoBatch => m[k].qty >= 0
      BY <1>1, <1>2, <1>3, WorkRows
    <3> QED BY <1>2, <3>1
  <2>3. W.b[i].qty \in Int
    BY <2>2, WorkIs
  <2> QED BY <1>1, <1>2, <1>3, <2>1, <2>2, <2>3
<1>5. i \notin DOMAIN b
  BY <1>1, <1>2, <1>4, WorkRows
<1>6. PICK e \in DOMAIN m : Creates(m, e, i)
  BY <1>1, <1>4, <1>5, NewIs
<1>7. e = c
  BY <1>2, <1>4, <1>6 DEF Creates
<1>8. \A j \in DOMAIN m : m[j].batch = i /\ j # c => j > c /\ m[j].qty <= 0
  BY <1>6, <1>7 DEF Creates
<1>9. MovedBy(m, c - 1, i) = 0
  <2>1. PICK n : n = c - 1
    OBVIOUS
  <2>2. n \in 0 .. Len(m) /\ \A j \in 1 .. n : m[j].batch # i
    <3>1. \A j \in 1 .. n : j \in DOMAIN m /\ j # c /\ ~ j > c
      BY <1>4, <2>1
    <3> QED BY <1>4, <1>8, <2>1, <3>1
  <2>3. MovedBy(m, n, i) = 0
    BY <1>4, <2>2, MovedLess
  <2> QED BY <2>1, <2>3
<1>10. W.b[i].qty < m[c].qty
  <2>1. W.b[i].qty = MovedBy(m, Len(m), i)
    BY <1>1, <1>4, <1>5, NewIs
  <2>2. PICK z : z = Len(m)
    OBVIOUS
  <2>3. z \in 0 .. Len(m) /\ c \in 1 .. z /\ \A j \in 1 .. z : m[j].batch = i /\ j # c => m[j].qty <= 0
    BY <1>4, <1>8, <2>2
  <2>4. /\ MovedBy(m, z, i) \in Int /\ MovedBy(m, z, i) <= m[c].qty
        /\ MovedBy(m, z, i) >= m[c].qty => \A j \in 1 .. z : m[j].batch = i /\ j # c => m[j].qty = 0
    BY <1>4, <2>3, MovedByOne, ZenonT(40)
  <2>5. k \in 1 .. z /\ k # c /\ m[k].qty # 0
    BY <1>2, <1>4, <2>2
  <2>6. ~ MovedBy(m, z, i) >= m[c].qty
    BY <1>4, <2>4, <2>5
  <2> QED BY <1>4, <2>1, <2>2, <2>4, <2>6
<1>11. m[c].qty >= 0 /\ ~ (W.b[i].qty - MovedBy(m, c - 1, i) >= m[c].qty)
  BY <1>2, <1>4, <1>9, <1>10
<1> QED BY <1>1, <1>4, <1>11 DEF CanUndo

\* A posting can be cancelled at once unless it took from a batch of its own,
\* and leaves the batches it found.
LEMMA CancelledAtOnce ==
  ASSUME NEW b, NEW mv, NEW p, Consistent(b, mv, p), NEW d, d \in Docs \ p,
         NEW W, WorkFits(W, b, d), NEW U, U = Rollback(W.b, d, W.m)
  PROVE  /\ U.ok <=> ~ TakesItsOwn(W.m)
         /\ U.ok => /\ \A i \in DOMAIN b : U.b[i] = b[i]
                    /\ \A i \in DOMAIN U.b \ DOMAIN b : U.b[i] = Gone
<1>1. PICK mv2 : Enrolls(mv2, mv, d, W.m)
  BY DEF Enrolls
<1>2. Consistent(W.b, mv2, p \cup {d})
  BY <1>1, PostingKeeps
<1>3. mv2[d] = W.m /\ d \in Docs /\ mv[d] = <<>>
  BY <1>1, ConsistentIs, EnrollIs, WorkIs
<1>4. PICK m : m = W.m
  OBVIOUS
<1>5. Undoable(W.b, m) /\ Len(m) \in 0 .. Len(m) /\ DOMAIN m = 1 .. Len(m) /\ m = mv2[d]
  <2>1. Undoable(W.b, mv2[d])
    BY <1>2, <1>3, CanUndoAll
  <2>2. Len(W.m) \in Nat /\ DOMAIN W.m = 1 .. Len(W.m)
    BY WorkIs
  <2> QED BY <1>3, <1>4, <2>1, <2>2
<1>6. PICK B : B = W.b
  OBVIOUS
<1>7. /\ U.ok <=> CanUndo(B, m, Len(m))
      /\ DOMAIN U.b = DOMAIN B
      /\ U.ok => U.b = [i \in DOMAIN B |->
                          IF LeftEmpty(B, d, m, Len(m), i) THEN Gone ELSE LessMoved(B, m, Len(m), i)]
  BY <1>4, <1>5, <1>6, RollbackIs
<1>8. U.ok <=> ~ TakesItsOwn(W.m)
  <2>1. ~ TakesItsOwn(W.m) => CanUndo(B, m, Len(m))
    <3>1. ASSUME ~ TakesItsOwn(W.m), NEW k \in 1 .. Len(m), m[k].batch # NoBatch, m[k].qty >= 0
          PROVE  B[m[k].batch].qty - MovedBy(m, k - 1, m[k].batch) >= m[k].qty
      <4>1. PICK i : i = W.m[k].batch
        OBVIOUS
      <4>2. k \in DOMAIN W.m /\ W.m[k].qty >= 0
        BY <1>4, <1>5, <3>1
      <4>4. i # NoBatch
        BY <1>4, <3>1, <4>1
      <4>3. W.b[i].qty - MovedBy(W.m, k - 1, i) >= W.m[k].qty
        BY <3>1, <4>1, <4>2, <4>4, OwnCanUndo
      <4> QED BY <1>4, <1>6, <4>1, <4>3
    <3> QED BY <3>1 DEF CanUndo
  <2>2. TakesItsOwn(W.m) => ~ CanUndo(B, m, Len(m))
    BY <1>4, <1>6, OwnCannotUndo
  <2> QED BY <1>7, <2>1, <2>2
<1>9. ASSUME U.ok, NEW i \in DOMAIN b PROVE U.b[i] = b[i]
  <2>1. /\ i \in DOMAIN B /\ (b[i] = Gone <=> B[i] = Gone) /\ B[i].src = b[i].src
        /\ OnlyQty(b[i], B[i]) /\ B[i].qty = b[i].qty + MovedBy(m, Len(m), i)
    BY <1>4, <1>6, OldIs
  <2>2. b[i] # Gone => b[i].src # d
    <3>1. SUFFICES ASSUME b[i] # Gone, b[i].src = d PROVE FALSE
      OBVIOUS
    <3>2. \E k \in DOMAIN mv[d] : Founds(mv, d, k, i)
      BY <3>1, ConsistentIs
    <3> QED BY <1>3, <3>2
  <2>3. CASE b[i] = Gone
    <3>1. LessMoved(B, m, Len(m), i) = Gone
      BY <2>1, <2>3 DEF LessMoved
    <3> QED BY <1>7, <1>9, <2>1, <2>3, <3>1
  <2>4. CASE b[i] # Gone
    <3>1. ~ LeftEmpty(B, d, m, Len(m), i)
      BY <2>1, <2>2, <2>4 DEF LeftEmpty
    <3>2. U.b[i] = LessMoved(B, m, Len(m), i)
      BY <1>7, <1>9, <2>1, <3>1
    <3>3. /\ OnlyQty(B[i], U.b[i])
          /\ U.b[i].qty = B[i].qty - MovedBy(m, Len(m), i) /\ MovedBy(m, Len(m), i) \in Int
      <4>1. PICK n : n = Len(m)
        OBVIOUS
      <4>2. /\ OnlyQty(B[i], LessMoved(B, m, n, i)) /\ MovedBy(m, n, i) \in Int
            /\ LessMoved(B, m, n, i).qty = B[i].qty - MovedBy(m, n, i)
        <5>1. Undoable(B, m) /\ n \in 0 .. Len(m) /\ i \in DOMAIN B /\ B[i] # Gone
          BY <1>5, <1>6, <2>1, <2>4, <4>1
        <5> QED BY <5>1, LessMovedIs
      <4> QED BY <3>2, <4>1, <4>2
    <3>4. b[i] \in AnyBatch /\ b[i].qty \in Int
      BY WorkIs
    <3>5. U.b[i].qty = b[i].qty
      BY <2>1, <3>3, <3>4
    <3>6. PICK x, y, z, q, t : x = b[i] /\ y = B[i] /\ z = U.b[i] /\ q = b[i].qty /\ t = B[i].qty
      OBVIOUS
    <3>7. y = [x EXCEPT !.qty = t] /\ z = [y EXCEPT !.qty = q] /\ x \in AnyBatch /\ x.qty = q
      BY <2>1, <3>3, <3>4, <3>5, <3>6 DEF OnlyQty
    <3>8. z = x
      BY <3>7 DEF AnyBatch, Gone
    <3> QED BY <3>6, <3>8
  <2> QED BY <2>3, <2>4
<1>10. ASSUME U.ok, NEW i \in DOMAIN U.b \ DOMAIN b PROVE U.b[i] = Gone
  <2>1. i \in DOMAIN B /\ B[i] # Gone /\ B[i].src = d
    BY <1>6, <1>7, NewIs
  <2>2. Consistent(B, mv2, p \cup {d})
    BY <1>2, <1>6
  <2>3. PICK P : P = p \cup {d}
    OBVIOUS
  <2>4. Consistent(B, mv2, P) /\ CanUndo(B, m, Len(m)) /\ m = mv2[d]
    BY <1>5, <1>7, <1>10, <2>2, <2>3
  <2>5. LeftEmpty(B, d, m, Len(m), i)
    BY <1>3, <2>1, <2>4, OwnIsEmptied
  <2> QED BY <1>7, <1>10, <2>1, <2>5
<1> QED BY <1>8, <1>9, <1>10

-----------------------------------------------------------------------------
(***************************************************************************)
(* A revaluation changes nothing but costs.                                *)
(***************************************************************************)
Recosted(b, b2) ==
  /\ b \in Seq(AnyBatch) /\ b2 \in Seq(AnyBatch) /\ DOMAIN b2 = DOMAIN b
  /\ \A i \in DOMAIN b :
       b2[i].qty = b[i].qty /\ b2[i].src = b[i].src /\ b2[i].sklad = b[i].sklad /\ (b2[i] = Gone <=> b[i] = Gone)

CostLog == UNION {[S -> Int] : S \in SUBSET Nat}

\* A batch with another cost.
WithCost(x, c) == [x EXCEPT !.cost = c]

\* A batch at another cost.
LEMMA WithCostIs ==
  ASSUME NEW x, x \in AnyBatch, x # Gone, NEW c, c \in Int
  PROVE  LET y == WithCost(x, c) IN
         /\ y \in AnyBatch /\ y # Gone /\ y.qty = x.qty /\ y.src = x.src /\ y.sklad = x.sklad /\ y.cost = c
         /\ WithCost(y, x.cost) = x
<1>1. "none" \notin Sklady
  BY LedgerAssumption
<1>2. x \in [sklad : Sklady, qty : Int, cost : Int, src : Docs]
  BY DEF AnyBatch
<1>3. WithCost(x, c) \in [sklad : Sklady, qty : Int, cost : Int, src : Docs]
  BY <1>2 DEF WithCost
<1> QED BY <1>1, <1>2, <1>3 DEF AnyBatch, Gone, WithCost

\* Costs written twice.
LEMMA RecostedAgain ==
  ASSUME NEW b, NEW b2, NEW b3, Recosted(b, b2), Recosted(b2, b3)
  PROVE  Recosted(b, b3)
BY DEF Recosted

\* The batches S take their costs in c.
WithCosts(b, S, c) == [i \in DOMAIN b |-> IF i \in S THEN WithCost(b[i], c[i]) ELSE b[i]]
Priced(S, price) == [i \in S |-> price]
CostsOf(b, S) == [i \in S |-> b[i].cost]

\* Costs written by one line.
LEMMA RecostedByStep ==
  ASSUME NEW b, b \in Seq(AnyBatch), NEW S, NEW c, NEW b2, b2 = WithCosts(b, S, c),
         \A i \in DOMAIN b : i \in S => b[i] # Gone /\ c[i] \in Int
  PROVE  Recosted(b, b2)
<1>1. Len(b) \in Nat /\ DOMAIN b = 1 .. Len(b) /\ \A i \in DOMAIN b : b[i] \in AnyBatch
  BY SequenceIs
<1>5. b2 = [i \in DOMAIN b |-> IF i \in S THEN WithCost(b[i], c[i]) ELSE b[i]]
  BY DEF WithCosts
<1>2. \A i \in DOMAIN b : /\ b2[i] \in AnyBatch
                          /\ b2[i].qty = b[i].qty /\ b2[i].src = b[i].src /\ b2[i].sklad = b[i].sklad
                          /\ (b2[i] = Gone <=> b[i] = Gone)
  <2>1. SUFFICES ASSUME NEW i \in DOMAIN b
                 PROVE  /\ b2[i] \in AnyBatch
                        /\ b2[i].qty = b[i].qty /\ b2[i].src = b[i].src /\ b2[i].sklad = b[i].sklad
                        /\ (b2[i] = Gone <=> b[i] = Gone)
    OBVIOUS
  <2>2. PICK x, t : x = b[i] /\ t = c[i]
    OBVIOUS
  <2>3. CASE i \in S
    <3>1. x \in AnyBatch /\ x # Gone /\ t \in Int /\ b2[i] = WithCost(x, t)
      BY <1>1, <1>5, <2>2, <2>3
    <3> QED BY <2>2, <3>1, WithCostIs
  <2>4. CASE i \notin S
    <3>1. b2[i] = b[i]
      BY <1>5, <2>4
    <3> QED BY <1>1, <3>1
  <2> QED BY <2>3, <2>4
<1>3. DOMAIN b2 = DOMAIN b
  BY <1>5
<1>4. b2 \in Seq(AnyBatch)
  <2>1. PICK n : n = Len(b)
    OBVIOUS
  <2>2. n \in Nat /\ b2 \in [1 .. n -> AnyBatch]
    BY <1>1, <1>2, <1>5, <2>1
  <2> QED BY <2>2, SequenceOfLength
<1> QED BY <1>2, <1>3, <1>4 DEF Recosted

\* The batches that a line of a revaluation finds.
OnHandIn(b, sklad) == {i \in DOMAIN b : b[i].sklad = sklad /\ b[i].qty # 0}

\* One line of a revaluation.
LEMMA RevalueStepIs ==
  ASSUME NEW R, R.b \in Seq(AnyBatch), R.log \in Seq(CostLog), R.diff \in Int,
         NEW line, line.sklad \in Sklady, line.price \in Int
  PROVE  LET Q == RevalueStep(R, line) IN
         /\ Recosted(R.b, Q.b) /\ Q.log \in Seq(CostLog) /\ Q.diff \in Int
         /\ Q.log = Append(R.log, CostsOf(R.b, OnHandIn(R.b, line.sklad)))
         /\ Q.b = WithCosts(R.b, OnHandIn(R.b, line.sklad), Priced(OnHandIn(R.b, line.sklad), line.price))
<1> DEFINE Q == RevalueStep(R, line)
           S == OnHandIn(R.b, line.sklad)
           old == CostsOf(R.b, S)
           f == [i \in S |-> (line.price - R.b[i].cost) * R.b[i].qty]
<1>1. /\ Q.b = WithCosts(R.b, S, Priced(S, line.price))
      /\ Q.log = Append(R.log, old)
      /\ Q.diff = R.diff + SumFunctionOnSet(f, S)
  BY DEF RevalueStep, OnHandIn, WithCost, WithCosts, Priced, CostsOf, SumOver
<1>2. /\ IsFiniteSet(DOMAIN R.b) /\ DOMAIN R.b \subseteq Nat
      /\ \A i \in DOMAIN R.b : R.b[i] \in AnyBatch /\ R.b[i].qty \in Int /\ R.b[i].cost \in Int
  <2>1. PICK b : b = R.b
    OBVIOUS
  <2>2. Len(b) \in Nat /\ DOMAIN b = 1 .. Len(b) /\ IsFiniteSet(DOMAIN b) /\ \A i \in DOMAIN b : b[i] \in AnyBatch
    BY <2>1, SequenceIs
  <2>3. DOMAIN b \subseteq Nat
    BY <2>2
  <2> QED BY <2>1, <2>2, <2>3, BatchFields
<1>3. S \in SUBSET (DOMAIN R.b) /\ \A i \in S : R.b[i].sklad = line.sklad
  BY DEF OnHandIn
<1> HIDE DEF S, Q
<1>4. IsFiniteSet(S)
  BY <1>2, <1>3, FS_Subset
<1>5. \A i \in DOMAIN R.b : i \in S => R.b[i] # Gone
  BY <1>2, <1>3, BatchFields
<1>6. Recosted(R.b, Q.b)
  <2>1. PICK b, c : b = R.b /\ c = Priced(S, line.price)
    OBVIOUS
  <2>2. Q.b = WithCosts(b, S, c) /\ b \in Seq(AnyBatch)
    BY <1>1, <2>1
  <2>3. \A i \in DOMAIN b : i \in S => b[i] # Gone /\ c[i] \in Int
    BY <1>5, <2>1 DEF Priced
  <2> QED BY <2>1, <2>2, <2>3, RecostedByStep
<1>7. Q.log \in Seq(CostLog)
  <2>1. old \in [S -> Int]
    BY <1>2, <1>3 DEF CostsOf
  <2>2. S \in SUBSET Nat
    BY <1>2, <1>3
  <2>3. old \in CostLog
    BY <2>1, <2>2 DEF CostLog
  <2> HIDE DEF old
  <2> QED BY <1>1, <2>3
<1>8. Q.diff \in Int
  <2>1. \A i \in S : f[i] \in Int
    <3>1. SUFFICES ASSUME NEW i \in S PROVE f[i] \in Int
      OBVIOUS
    <3>2. PICK x, y, z : x = line.price /\ y = R.b[i].cost /\ z = R.b[i].qty
      OBVIOUS
    <3>3. x \in Int /\ y \in Int /\ z \in Int
      BY <1>2, <1>3, <3>2
    <3>4. (x - y) * z \in Int
      BY <3>3
    <3> QED BY <3>2, <3>4
  <2> HIDE DEF f
  <2>2. SumFunctionOnSet(f, S) \in Int
    BY <1>4, <2>1, SumIsInt
  <2> QED BY <1>1, <2>2
<1> QED BY <1>1, <1>6, <1>7, <1>8 DEF Q, S

RevaluedTo(R, b) ==
  /\ Recosted(b, R.b) /\ R.log \in Seq(CostLog) /\ R.diff \in Int

\* A revaluation writes costs only, and logs those it found.
LEMMA RevalueIs ==
  ASSUME NEW b, b \in Seq(AnyBatch), NEW d, d \in Docs
  PROVE  LET R == Revalue(b, d) IN Recosted(b, R.b) /\ LogFits(R.log) /\ R.diff \in Int
<1> DEFINE n == Len(Document[d].lines)
<1>1. n \in Nat /\ \A k \in 1 .. n : Document[d].lines[k].sklad \in Sklady /\ Document[d].lines[k].price \in Int
  BY LineFields
<1>2. PICK after : Revaluing(after, b, d)
  BY <1>1, RevaluingUnfolds
<1>3. /\ after[0] = [b |-> b, log |-> <<>>, diff |-> 0]
      /\ \A k \in 1 .. n : after[k] = RevalueStep(after[k - 1], Document[d].lines[k])
      /\ Revalue(b, d) = after[n]
  BY <1>2 DEF Revaluing
<1> DEFINE S == {k \in 0 .. n : RevaluedTo(after[k], b)}
<1>4. 0 \in S
  <2>1. after[0].b = b /\ after[0].log = <<>> /\ after[0].diff = 0
    BY <1>3
  <2>2. Recosted(b, b) /\ <<>> \in Seq(CostLog) /\ 0 \in Int
    BY DEF Recosted
  <2>3. RevaluedTo(after[0], b)
    BY <2>1, <2>2 DEF RevaluedTo
  <2> QED BY <1>1, <2>3
<1>5. ASSUME NEW k \in 1 .. n, k - 1 \in S PROVE k \in S
  <2>1. PICK R, line : R = after[k - 1] /\ line = Document[d].lines[k]
    OBVIOUS
  <2>2. /\ Recosted(b, R.b) /\ R.b \in Seq(AnyBatch) /\ R.log \in Seq(CostLog) /\ R.diff \in Int
        /\ line.sklad \in Sklady /\ line.price \in Int
    BY <1>1, <1>5, <2>1 DEF RevaluedTo, Recosted
  <2>3. PICK Q : Q = RevalueStep(R, line)
    OBVIOUS
  <2>4. Recosted(R.b, Q.b) /\ Q.log \in Seq(CostLog) /\ Q.diff \in Int
    BY <2>2, <2>3, RevalueStepIs
  <2>5. RevaluedTo(Q, b)
    BY <2>2, <2>4, RecostedAgain DEF RevaluedTo
  <2> QED BY <1>1, <1>3, <2>1, <2>3, <2>5
<1>6. n \in S
  <2> HIDE DEF S
  <2>1. \A k \in 0 .. n : k \in S
    BY <1>1, <1>4, <1>5, UpTo
  <2> QED BY <1>1, <2>1
<1>7. PICK R : R = Revalue(b, d)
  OBVIOUS
<1>8. Recosted(b, R.b) /\ R.log \in Seq(CostLog) /\ R.diff \in Int
  BY <1>3, <1>6, <1>7 DEF RevaluedTo
<1>9. LogFits(R.log)
  <2>1. PICK log : log = R.log
    OBVIOUS
  <2>2. Len(log) \in Nat /\ DOMAIN log = 1 .. Len(log) /\ \A k \in DOMAIN log : log[k] \in CostLog
    BY <1>8, <2>1, SequenceIs
  <2>3. \A x \in CostLog : \A i \in DOMAIN x : x[i] \in Int
    BY DEF CostLog
  <2> QED BY <2>1, <2>2, <2>3 DEF LogFits
<1> QED BY <1>7, <1>8, <1>9

\* Cancelling one writes costs only.
LEMMA RestoreIs ==
  ASSUME NEW b, b \in Seq(AnyBatch), NEW log, LogFits(log)
  PROVE  Recosted(b, RestoreCosts(b, log))
<1> DEFINE n == Len(log)
<1>1. n \in Nat /\ \A k \in 1 .. n : \A i \in DOMAIN log[k] : log[k][i] \in Int
  BY DEF LogFits
<1>2. PICK after : Restoring(after, b, log)
  BY <1>1, RestoringUnfolds
<1>3. /\ after[0] = b
      /\ \A k \in 1 .. n : after[k] = RestoreStep(after[k - 1], log[k])
      /\ RestoreCosts(b, log) = after[n]
  BY <1>2 DEF Restoring
<1> DEFINE S == {k \in 0 .. n : Recosted(b, after[k])}
<1>4. 0 \in S
  <2>1. Recosted(b, b)
    BY DEF Recosted
  <2> QED BY <1>1, <1>3, <2>1
<1>5. ASSUME NEW k \in 1 .. n, k - 1 \in S PROVE k \in S
  <2>1. PICK a, old : a = after[k - 1] /\ old = log[k]
    OBVIOUS
  <2>2. Recosted(b, a) /\ a \in Seq(AnyBatch) /\ \A i \in DOMAIN old : old[i] \in Int
    BY <1>1, <1>5, <2>1 DEF Recosted
  <2>3. PICK T : T = {i \in DOMAIN a : i \in DOMAIN old /\ a[i] # Gone}
    OBVIOUS
  <2>4. PICK a2 : a2 = RestoreStep(a, old)
    OBVIOUS
  <2>5. a2 = WithCosts(a, T, old)
    BY <2>3, <2>4 DEF RestoreStep, WithCost, WithCosts
  <2>6. \A i \in DOMAIN a : i \in T => a[i] # Gone /\ old[i] \in Int
    BY <2>2, <2>3
  <2>7. Recosted(a, a2)
    BY <2>2, <2>5, <2>6, RecostedByStep
  <2>8. Recosted(b, a2)
    BY <2>2, <2>7, RecostedAgain
  <2> QED BY <1>1, <1>3, <2>1, <2>4, <2>8
<1>6. n \in S
  <2> HIDE DEF S
  <2>1. \A k \in 0 .. n : k \in S
    BY <1>1, <1>4, <1>5, UpTo
  <2> QED BY <1>1, <2>1
<1> QED BY <1>3, <1>6

\* A cost written twice is the last one.
LEMMA WithCostTwice ==
  ASSUME NEW x, x \in AnyBatch, NEW p \in Int, NEW c \in Int
  PROVE  WithCost(WithCost(x, p), c) = WithCost(x, c)
<1>1. CASE x \in [sklad : Sklady, qty : Int, cost : Int, src : Docs]
  BY <1>1 DEF WithCost
<1>2. CASE x = Gone
  BY <1>2 DEF WithCost, Gone
<1> QED BY <1>1, <1>2 DEF AnyBatch

\* Batches that differ from b in their costs.
Alike(b, a) ==
  /\ Recosted(b, a)
  /\ \A i \in DOMAIN b : b[i] # Gone => WithCost(a[i], b[i].cost) = b[i]

LEMMA AlikeSelf ==
  ASSUME NEW b, b \in Seq(AnyBatch)
  PROVE  Alike(b, b)
<1>1. Recosted(b, b)
  BY DEF Recosted
<1>2. ASSUME NEW i \in DOMAIN b, b[i] # Gone PROVE WithCost(b[i], b[i].cost) = b[i]
  <2>1. b[i] \in AnyBatch
    BY SequenceIs
  <2>2. b[i] \in [sklad : Sklady, qty : Int, cost : Int, src : Docs]
    BY <1>2, <2>1 DEF AnyBatch
  <2> QED BY <2>2 DEF WithCost
<1> QED BY <1>1, <1>2 DEF Alike

\* A line finds the same batches among those that differ in their costs.
LEMMA AlikeOnHand ==
  ASSUME NEW b, NEW a, Alike(b, a), NEW sklad
  PROVE  OnHandIn(a, sklad) = OnHandIn(b, sklad)
BY DEF Alike, Recosted, OnHandIn

\* Costs written to some of them.
LEMMA AlikeByStep ==
  ASSUME NEW b, b \in Seq(AnyBatch), NEW a, Alike(b, a), NEW S, NEW c, NEW a2, a2 = WithCosts(a, S, c),
         \A i \in DOMAIN a : i \in S => a[i] # Gone /\ c[i] \in Int
  PROVE  Alike(b, a2)
<1>1. a \in Seq(AnyBatch) /\ DOMAIN a = DOMAIN b /\ Recosted(b, a)
  BY DEF Alike, Recosted
<1>2. Recosted(a, a2)
  BY <1>1, RecostedByStep
<1>3. Recosted(b, a2)
  BY <1>1, <1>2, RecostedAgain
<1>4. ASSUME NEW i \in DOMAIN b, b[i] # Gone PROVE WithCost(a2[i], b[i].cost) = b[i]
  <2>1. b[i] \in AnyBatch /\ a[i] \in AnyBatch
    BY <1>1, SequenceIs
  <2>2. PICK x, y, t : x = a[i] /\ y = b[i].cost /\ t = c[i]
    OBVIOUS
  <2>3. y \in Int /\ x \in AnyBatch /\ WithCost(x, y) = b[i]
    BY <1>4, <2>1, <2>2, BatchFields DEF Alike
  <2>4. CASE i \in S
    <3>1. t \in Int /\ a2[i] = WithCost(x, t)
      BY <1>1, <2>2, <2>4 DEF WithCosts
    <3>2. WithCost(WithCost(x, t), y) = WithCost(x, y)
      BY <2>3, <3>1, WithCostTwice
    <3> QED BY <2>2, <2>3, <3>1, <3>2
  <2>5. CASE i \notin S
    <3>1. a2[i] = x
      BY <1>1, <2>2, <2>5 DEF WithCosts
    <3> QED BY <2>2, <2>3, <3>1
  <2> QED BY <2>4, <2>5
<1> QED BY <1>3, <1>4 DEF Alike

\* The first k lines of a revaluation that names a warehouse once: each logs
\* the costs that the batches had at the start, and no other batch changes.
FoundBy(b, d, j) == OnHandIn(b, Document[d].lines[j].sklad)

RevaluedSoFar(R, b, d, k) ==
  /\ Alike(b, R.b) /\ R.log \in Seq(CostLog) /\ R.diff \in Int
  /\ Len(R.log) = k
  /\ \A j \in 1 .. k : R.log[j] = CostsOf(b, FoundBy(b, d, j))
  /\ \A i \in DOMAIN b : (\A j \in 1 .. k : i \notin FoundBy(b, d, j)) => R.b[i] = b[i]

LEMMA RevaluedSoFarStep ==
  ASSUME NEW b, b \in Seq(AnyBatch), NEW d, d \in Docs, NamesOnce(d),
         NEW k \in 1 .. Len(Document[d].lines), NEW R, RevaluedSoFar(R, b, d, k - 1)
  PROVE  RevaluedSoFar(RevalueStep(R, Document[d].lines[k]), b, d, k)
<1>1. PICK line, Q : line = Document[d].lines[k] /\ Q = RevalueStep(R, line)
  OBVIOUS
<1>2. line.sklad \in Sklady /\ line.price \in Int /\ k \in Nat /\ k \in DOMAIN Document[d].lines
  BY <1>1, LineFields
<1>3. PICK S : S = FoundBy(b, d, k)
  OBVIOUS
<1>4. PICK a, log : a = R.b /\ log = R.log
  OBVIOUS
<1>5. Alike(b, a) /\ a \in Seq(AnyBatch) /\ DOMAIN a = DOMAIN b /\ log \in Seq(CostLog) /\ Len(log) = k - 1 /\ R.diff \in Int
  BY <1>4 DEF RevaluedSoFar, Alike, Recosted
<1>6. OnHandIn(a, line.sklad) = S
  BY <1>1, <1>3, <1>5, AlikeOnHand DEF FoundBy
<1>7. /\ Q.log \in Seq(CostLog) /\ Q.diff \in Int
      /\ Q.log = Append(log, CostsOf(a, S))
      /\ Q.b = WithCosts(a, S, Priced(S, line.price))
  <2>1. R.b \in Seq(AnyBatch) /\ R.log \in Seq(CostLog) /\ R.diff \in Int
    BY <1>4, <1>5
  <2>2. /\ Q.log \in Seq(CostLog) /\ Q.diff \in Int
        /\ Q.log = Append(R.log, CostsOf(R.b, OnHandIn(R.b, line.sklad)))
        /\ Q.b = WithCosts(R.b, OnHandIn(R.b, line.sklad), Priced(OnHandIn(R.b, line.sklad), line.price))
    BY <1>1, <1>2, <2>1, RevalueStepIs
  <2> QED BY <1>4, <1>6, <2>2
<1>8. ASSUME NEW i \in S PROVE i \in DOMAIN b /\ b[i].sklad = line.sklad /\ a[i].sklad = line.sklad /\ a[i] = b[i]
  <2>1. i \in DOMAIN b /\ b[i].sklad = line.sklad
    BY <1>1, <1>3 DEF FoundBy, OnHandIn
  <2>2. ASSUME NEW j \in 1 .. k - 1 PROVE i \notin FoundBy(b, d, j)
    <3>1. j \in DOMAIN Document[d].lines /\ j # k
      BY <1>2, LineFields
    <3>2. Document[d].lines[j].sklad # line.sklad
      BY <1>1, <1>2, <3>1 DEF NamesOnce
    <3> QED BY <2>1, <3>2 DEF FoundBy, OnHandIn
  <2>3. a[i] = b[i]
    BY <1>4, <2>1, <2>2 DEF RevaluedSoFar
  <2> QED BY <2>1, <2>3
<1>9. CostsOf(a, S) = CostsOf(b, S)
  BY <1>8 DEF CostsOf
<1>10. Alike(b, Q.b)
  <2>1. PICK c, a2 : c = Priced(S, line.price) /\ a2 = Q.b
    OBVIOUS
  <2>2. ASSUME NEW i \in DOMAIN a, i \in S PROVE a[i] # Gone /\ c[i] \in Int
    <3>1. a[i] # Gone
      <4>1. "none" \notin Sklady
        BY LedgerAssumption
      <4> QED BY <1>2, <1>8, <2>2, <4>1 DEF Gone
    <3> QED BY <1>2, <2>1, <2>2, <3>1 DEF Priced
  <2>3. a2 = WithCosts(a, S, c)
    BY <1>7, <2>1
  <2>4. Alike(b, a2)
    BY <1>5, <2>2, <2>3, AlikeByStep
  <2> QED BY <2>1, <2>4
<1>11. Len(Q.log) = k /\ \A j \in 1 .. k : Q.log[j] = CostsOf(b, FoundBy(b, d, j))
  <2>1. PICK g, x : g = Q.log /\ x = CostsOf(a, S)
    OBVIOUS
  <2>2. g = Append(log, x) /\ Len(log) = k - 1 /\ log \in Seq(CostLog)
    BY <1>5, <1>7, <2>1
  <2>3. Len(g) = k /\ g[k] = x /\ \A j \in 1 .. k - 1 : g[j] = log[j]
    BY <1>2, <2>2
  <2>4. ASSUME NEW j \in 1 .. k PROVE g[j] = CostsOf(b, FoundBy(b, d, j))
    <3>1. CASE j = k
      BY <1>3, <1>9, <2>1, <2>3, <3>1
    <3>2. CASE j # k
      <4>1. j \in 1 .. k - 1
        BY <1>2, <3>2
      <4>2. log[j] = CostsOf(b, FoundBy(b, d, j))
        BY <1>4, <4>1 DEF RevaluedSoFar
      <4> QED BY <2>3, <4>1, <4>2
    <3> QED BY <3>1, <3>2
  <2> QED BY <2>1, <2>3, <2>4
<1>12. ASSUME NEW i \in DOMAIN b, \A j \in 1 .. k : i \notin FoundBy(b, d, j) PROVE Q.b[i] = b[i]
  <2>1. i \notin S
    BY <1>2, <1>3, <1>12
  <2>2. \A j \in 1 .. k - 1 : i \notin FoundBy(b, d, j)
    BY <1>2, <1>12
  <2>3. a[i] = b[i]
    BY <1>4, <2>2 DEF RevaluedSoFar
  <2> QED BY <1>5, <1>7, <2>1, <2>3 DEF WithCosts
<1>13. RevaluedSoFar(Q, b, d, k)
  BY <1>7, <1>10, <1>11, <1>12 DEF RevaluedSoFar
<1> QED BY <1>1, <1>13

LEMMA RevaluedAll ==
  ASSUME NEW b, b \in Seq(AnyBatch), NEW d, d \in Docs, NamesOnce(d)
  PROVE  RevaluedSoFar(Revalue(b, d), b, d, Len(Document[d].lines))
<1> DEFINE n == Len(Document[d].lines)
<1>1. n \in Nat
  BY LineFields
<1>2. PICK after : Revaluing(after, b, d)
  BY <1>1, RevaluingUnfolds
<1>3. /\ after[0] = [b |-> b, log |-> <<>>, diff |-> 0]
      /\ \A k \in 1 .. n : after[k] = RevalueStep(after[k - 1], Document[d].lines[k])
      /\ Revalue(b, d) = after[n]
  BY <1>2 DEF Revaluing
<1> DEFINE S == {k \in 0 .. n : RevaluedSoFar(after[k], b, d, k)}
<1>4. 0 \in S
  <2>1. after[0].b = b /\ after[0].log = <<>> /\ after[0].diff = 0
    BY <1>3
  <2>2. Alike(b, b) /\ <<>> \in Seq(CostLog) /\ Len(<<>>) = 0 /\ 0 \in Int /\ 1 .. 0 = {}
    BY AlikeSelf
  <2>3. RevaluedSoFar(after[0], b, d, 0)
    BY <2>1, <2>2 DEF RevaluedSoFar
  <2> QED BY <1>1, <2>3
<1>5. ASSUME NEW k \in 1 .. n, k - 1 \in S PROVE k \in S
  <2>1. PICK R : R = after[k - 1]
    OBVIOUS
  <2>2. RevaluedSoFar(R, b, d, k - 1)
    BY <1>5, <2>1
  <2>3. RevaluedSoFar(RevalueStep(R, Document[d].lines[k]), b, d, k)
    BY <2>2, RevaluedSoFarStep
  <2> QED BY <1>1, <1>3, <2>1, <2>3
<1> HIDE DEF S
<1>6. \A k \in 0 .. n : k \in S
  BY <1>1, <1>4, <1>5, UpTo
<1>7. n \in S
  BY <1>1, <1>6
<1> QED BY <1>3, <1>7 DEF S

\* The first k logs restored.
RestoredSoFar(a, b, d, k) ==
  /\ Alike(b, a)
  /\ \A i \in DOMAIN b : (\A j \in 1 .. Len(Document[d].lines) : i \notin FoundBy(b, d, j)) => a[i] = b[i]
  /\ \A i \in DOMAIN b : (\E j \in 1 .. k : i \in FoundBy(b, d, j)) => a[i] = b[i]

LEMMA RestoredSoFarStep ==
  ASSUME NEW b, b \in Seq(AnyBatch), NEW d, d \in Docs,
         NEW k \in 1 .. Len(Document[d].lines), NEW a, RestoredSoFar(a, b, d, k - 1)
  PROVE  RestoredSoFar(RestoreStep(a, CostsOf(b, FoundBy(b, d, k))), b, d, k)
<1>1. PICK S, old, a2 : S = FoundBy(b, d, k) /\ old = CostsOf(b, S) /\ a2 = RestoreStep(a, old)
  OBVIOUS
<1>2. Alike(b, a) /\ DOMAIN a = DOMAIN b /\ k \in Nat /\ Len(Document[d].lines) \in Nat
  BY LineFields DEF RestoredSoFar, Alike, Recosted
<1>3. ASSUME NEW i \in S PROVE i \in DOMAIN b /\ b[i] # Gone /\ b[i].cost \in Int /\ a[i] # Gone /\ WithCost(a[i], b[i].cost) = b[i]
  <2>1. i \in DOMAIN b /\ b[i].qty # 0
    BY <1>1, <1>3 DEF FoundBy, OnHandIn
  <2>2. b[i] \in AnyBatch
    BY <2>1, SequenceIs
  <2>3. b[i].cost \in Int /\ b[i] # Gone
    BY <2>1, <2>2, BatchFields DEF Gone
  <2> QED BY <1>2, <2>1, <2>3 DEF Alike, Recosted
<1>4. DOMAIN old = S /\ \A i \in S : old[i] = b[i].cost
  BY <1>1 DEF CostsOf
<1>5. a2 = WithCosts(a, S, old)
  <2>1. a2 = [i \in DOMAIN a |-> IF i \in S /\ a[i] # Gone THEN WithCost(a[i], old[i]) ELSE a[i]]
    BY <1>1, <1>4 DEF RestoreStep, WithCost
  <2>2. \A i \in DOMAIN a : (i \in S /\ a[i] # Gone) <=> i \in S
    BY <1>3
  <2> QED BY <2>1, <2>2 DEF WithCosts
<1>6. Alike(b, a2)
  <2>1. \A i \in DOMAIN a : i \in S => a[i] # Gone /\ old[i] \in Int
    BY <1>3, <1>4
  <2> QED BY <1>2, <1>5, <2>1, AlikeByStep
<1>7. \A i \in DOMAIN b : i \notin S => a2[i] = a[i]
  BY <1>2, <1>5 DEF WithCosts
<1>8. \A i \in S : a2[i] = b[i]
  BY <1>2, <1>3, <1>4, <1>5 DEF WithCosts
<1>9. ASSUME NEW i \in DOMAIN b, \A j \in 1 .. Len(Document[d].lines) : i \notin FoundBy(b, d, j) PROVE a2[i] = b[i]
  <2>1. i \notin S /\ a[i] = b[i]
    BY <1>1, <1>9 DEF RestoredSoFar
  <2> QED BY <1>7, <2>1
<1>10. ASSUME NEW i \in DOMAIN b, NEW j \in 1 .. k, i \in FoundBy(b, d, j) PROVE a2[i] = b[i]
  <2>1. CASE i \in S
    BY <1>8, <2>1
  <2>2. CASE i \notin S
    <3>1. j \in 1 .. k - 1
      BY <1>1, <1>2, <1>10, <2>2
    <3>2. a[i] = b[i]
      BY <1>10, <3>1 DEF RestoredSoFar
    <3> QED BY <1>7, <2>2, <3>2
  <2> QED BY <2>1, <2>2
<1>11. RestoredSoFar(a2, b, d, k)
  BY <1>6, <1>9, <1>10 DEF RestoredSoFar
<1> QED BY <1>1, <1>11

\* A revaluation that names a warehouse once, undone at once.
LEMMA RevaluedAtOnce ==
  ASSUME NEW b, b \in Seq(AnyBatch), NEW d, d \in Docs, NamesOnce(d),
         NEW R, R = Revalue(b, d)
  PROVE  RestoreCosts(R.b, R.log) = b
<1> DEFINE n == Len(Document[d].lines)
<1>1. n \in Nat
  BY LineFields
<1>2. PICK rb, log : rb = R.b /\ log = R.log
  OBVIOUS
<1>3. RevaluedSoFar(R, b, d, n)
  BY RevaluedAll
<1>4. /\ Alike(b, rb) /\ Len(log) = n
      /\ \A j \in 1 .. n : log[j] = CostsOf(b, FoundBy(b, d, j))
      /\ \A i \in DOMAIN b : (\A j \in 1 .. n : i \notin FoundBy(b, d, j)) => rb[i] = b[i]
  BY <1>2, <1>3 DEF RevaluedSoFar
<1>5. PICK back : Restoring(back, rb, log)
  BY <1>1, <1>4, RestoringUnfolds
<1>6. /\ back[0] = rb
      /\ \A k \in 1 .. n : back[k] = RestoreStep(back[k - 1], log[k])
      /\ RestoreCosts(rb, log) = back[n]
  BY <1>4, <1>5 DEF Restoring
<1> DEFINE S == {k \in 0 .. n : RestoredSoFar(back[k], b, d, k)}
<1>7. 0 \in S
  <2>1. 1 .. 0 = {}
    OBVIOUS
  <2>2. RestoredSoFar(rb, b, d, 0)
    BY <1>4, <2>1 DEF RestoredSoFar
  <2> QED BY <1>1, <1>6, <2>2
<1>8. ASSUME NEW k \in 1 .. n, k - 1 \in S PROVE k \in S
  <2>1. PICK a : a = back[k - 1]
    OBVIOUS
  <2>2. RestoredSoFar(a, b, d, k - 1)
    BY <1>8, <2>1
  <2>3. RestoredSoFar(RestoreStep(a, CostsOf(b, FoundBy(b, d, k))), b, d, k)
    BY <2>2, RestoredSoFarStep
  <2>4. back[k] = RestoreStep(a, CostsOf(b, FoundBy(b, d, k)))
    BY <1>4, <1>6, <2>1
  <2> QED BY <1>1, <2>3, <2>4
<1> HIDE DEF S
<1>9. \A k \in 0 .. n : k \in S
  BY <1>1, <1>7, <1>8, UpTo
<1>10. RestoredSoFar(back[n], b, d, n)
  BY <1>1, <1>9 DEF S
<1>11. ASSUME NEW i \in DOMAIN b PROVE back[n][i] = b[i]
  BY <1>10 DEF RestoredSoFar
<1>12. back[n] \in Seq(AnyBatch) /\ DOMAIN back[n] = DOMAIN b
  BY <1>10 DEF RestoredSoFar, Alike, Recosted
<1>13. back[n] = b
  BY <1>11, <1>12
<1> QED BY <1>2, <1>6, <1>13

\* Writing costs keeps batches and movements consistent.
LEMMA RecostingKeeps ==
  ASSUME NEW b, NEW mv, NEW p, Consistent(b, mv, p), NEW b2, Recosted(b, b2),
         NEW p2, p2 \subseteq Docs, \A e \in Docs \ p2 : mv[e] = <<>>
  PROVE  Consistent(b2, mv, p2)
<1>1. Tables(b2, mv, p2)
  BY DEF Recosted, Consistent, Tables
<1>2. ASSUME NEW i \in DOMAIN b2, b2[i] # Gone PROVE \E k \in DOMAIN mv[b2[i].src] : Founds(mv, b2[i].src, k, i)
  <2>1. i \in DOMAIN b /\ b[i] # Gone /\ b2[i].src = b[i].src
    BY <1>2 DEF Recosted
  <2>2. PICK s : s = b[i].src
    OBVIOUS
  <2>3. \E k \in DOMAIN mv[s] : Founds(mv, s, k, i)
    BY <2>1, <2>2, ConsistentIs
  <2> QED BY <2>1, <2>2, <2>3
<1>3. \A i \in DOMAIN b2 : b2[i].qty = HeldIn(mv, i)
  BY DEF Recosted, Consistent
<1>4. ASSUME NEW e \in Docs, NEW k \in DOMAIN mv[e]
      PROVE  LET i == mv[e][k].batch IN
             \/ i = NoBatch /\ mv[e][k].qty >= 0
             \/ i \in DOMAIN b2 /\ b2[i] # Gone /\ mv[e][k].sklad = b2[i].sklad /\ (b2[i].src # e => Reduced(mv[e], i))
  <2>1. PICK i : i = mv[e][k].batch
    OBVIOUS
  <2>2. /\ i = NoBatch => mv[e][k].qty >= 0
        /\ i # NoBatch => /\ i \in DOMAIN b /\ b[i] # Gone /\ mv[e][k].sklad = b[i].sklad
                          /\ b[i].src # e => Reduced(mv[e], i)
    BY <2>1, RowsConsistent
  <2>3. CASE i = NoBatch
    BY <2>1, <2>2, <2>3
  <2>4. CASE i # NoBatch
    <3>1. i \in DOMAIN b /\ b[i] # Gone /\ mv[e][k].sklad = b[i].sklad /\ (b[i].src # e => Reduced(mv[e], i))
      BY <2>2, <2>4
    <3>2. i \in DOMAIN b2 /\ b2[i] # Gone /\ b2[i].sklad = b[i].sklad /\ b2[i].src = b[i].src
      BY <3>1 DEF Recosted
    <3> QED BY <2>1, <3>1, <3>2
  <2> QED BY <2>3, <2>4
<1> QED BY <1>1, <1>2, <1>3, <1>4 DEF Consistent

-----------------------------------------------------------------------------
(***************************************************************************)
(* Account 41.                                                             *)
(***************************************************************************)
\* A product rounded by the document and by the column: they differ where it
\* comes to half a hundredth.
Half(x) == IF x % 100000 = 50000 THEN 100 ELSE 0

LEMMA CentsNearby ==
  ASSUME NEW x \in Int
  PROVE  /\ QuantizeCents(x) \in Int /\ Cents(x) \in Int /\ Half(x) \in Int
         /\ -Half(x) <= QuantizeCents(x) - Cents(x) /\ QuantizeCents(x) - Cents(x) <= Half(x)
BY SMTT(60) DEF Cents, QuantizeCents, Quantize, Half

\* Half a hundredth at most is rounded away.
Spill(x) == IF x % 100000 = 0 THEN 0 ELSE 50000

LEMMA CentsSlack ==
  ASSUME NEW x \in Int
  PROVE  /\ Spill(x) \in Int
         /\ -Spill(x) <= x - 1000 * Cents(x) /\ x - 1000 * Cents(x) <= Spill(x)
BY SMTT(60) DEF Cents, Spill

\* The amounts of a posting.
LEMMA WorkAmounts ==
  ASSUME NEW b, NEW d, NEW W, WorkFits(W, b, d), NEW k \in DOMAIN W.m
  PROVE  /\ W.m[k].amount \in Int /\ W.m[k].qty \in Int
         /\ W.m[k].qty = 0 => W.m[k].amount = 0
         /\ Document[d].type \in Outgoing => W.m[k].qty <= 0 \/ W.m[k].amount = 0
<1>1. W.m \in Seq(AnyRow)
  BY WorkIs
<1>2. W.m[k] \in AnyRow
  BY <1>1, SequenceIs
<1>3. RowFits(W, d, k)
  BY DEF WorkFits
<1> QED BY <1>2, <1>3, RowFields DEF RowFits

Amounts(m) == SumFunctionOnSet([k \in DOMAIN m |-> m[k].amount], DOMAIN m)

\* The lines of an incoming document become its movements, one each.
IncomingSoFar(W, b, d, n) ==
  /\ WorkFits(W, b, d) /\ W.ok
  /\ Len(W.m) = n
  /\ \A j \in 1 .. n : W.m[j].amount = Cents(Document[d].lines[j].qty * Document[d].lines[j].price)

\* A line of an incoming document adds a movement of its amount.
LEMMA IncomingStep ==
  ASSUME NEW b, NEW d, Document[d].type \in Incoming,
         NEW n \in 1 .. Len(Document[d].lines), NEW W, IncomingSoFar(W, b, d, n - 1)
  PROVE  IncomingSoFar(LineStep(W, d, Document[d].lines[n]), b, d, n)
<1>1. PICK line : line = Document[d].lines[n]
  OBVIOUS
<1>2. PICK V : V = LineStep(W, d, line)
  OBVIOUS
<1>3. d \in Docs /\ WorkFits(W, b, d) /\ W.ok /\ Len(W.m) = n - 1
  BY WorkIs DEF IncomingSoFar
<1>4. line.sklad \in Sklady /\ line.qty \in Int /\ line.price \in Nat /\ OfDocument(d, line) /\ n \in Nat
  BY <1>1, <1>3, LineFields
<1>5. WorkFits(V, b, d)
  BY <1>2, <1>3, <1>4, LineFits
<1>6. V = CreateIncoming(W, d, line.sklad, line.qty, line.price)
  <2>1. Document[d].type # "inventarizaciya"
    BY DEF Incoming
  <2> QED BY <1>2, <1>3, <2>1 DEF LineStep, ApplyLine
<1>7. PICK B, row : /\ B = Append(W.b, [sklad |-> line.sklad, qty |-> line.qty, cost |-> line.price, src |-> d])
                    /\ row = [batch |-> Len(B), sklad |-> line.sklad, qty |-> line.qty, amount |-> Cents(line.qty * line.price)]
  OBVIOUS
<1>8. WorkType(W) /\ W.m \in Seq(AnyRow)
  BY <1>3, WorkIs DEF WorkFits
<1>9. V.m = Append(W.m, row) /\ V.ok = W.ok
  <2>1. V = [W EXCEPT !.b = B, !.db = Quantities(B), !.m = Append(W.m, row)]
    BY <1>6, <1>7 DEF CreateIncoming
  <2> QED BY <1>8, <2>1 DEF WorkType
<1>10. row.amount = Cents(line.qty * line.price)
  BY <1>7
<1>11. Len(V.m) = n /\ V.m[n] = row /\ \A j \in 1 .. n - 1 : V.m[j] = W.m[j]
  <2>1. PICK m, m2 : m = W.m /\ m2 = V.m
    OBVIOUS
  <2>2. m \in Seq(AnyRow) /\ m2 = Append(m, row) /\ Len(m) = n - 1
    BY <1>3, <1>8, <1>9, <2>1
  <2>3. Len(m2) = Len(m) + 1 /\ m2[Len(m) + 1] = row /\ \A j \in 1 .. Len(m) : m2[j] = m[j]
    BY <2>2
  <2> QED BY <1>4, <2>1, <2>2, <2>3
<1>12. ASSUME NEW j \in 1 .. n
       PROVE  V.m[j].amount = Cents(Document[d].lines[j].qty * Document[d].lines[j].price)
  <2>1. CASE j = n
    BY <1>1, <1>10, <1>11, <2>1
  <2>2. CASE j # n
    <3>1. j \in 1 .. n - 1
      BY <1>4, <2>2
    <3> QED BY <1>11, <3>1 DEF IncomingSoFar
  <2> QED BY <2>1, <2>2
<1>13. V.ok
  BY <1>3, <1>9
<1> QED BY <1>1, <1>2, <1>5, <1>11, <1>12, <1>13 DEF IncomingSoFar

\* So the movements of the document are its lines.
LEMMA IncomingIs ==
  ASSUME NEW b, b \in Seq(AnyBatch), NEW d, d \in Docs, Document[d].type \in Incoming
  PROVE  IncomingSoFar(ApplyLines(b, d), b, d, Len(Document[d].lines))
<1> DEFINE lines == Document[d].lines
           n == Len(lines)
<1>1. n \in Nat
  BY LineFields
<1>2. PICK after : Posting(after, b, d)
  BY <1>1, PostingUnfolds
<1>3. /\ after[0] = CheckStock(Begin(b), d)
      /\ \A k \in 1 .. n : after[k] = LineStep(after[k - 1], d, lines[k])
      /\ ApplyLines(b, d) = after[n]
  BY <1>2 DEF Posting
<1> DEFINE S == {k \in 0 .. n : IncomingSoFar(after[k], b, d, k)}
<1>4. 0 \in S
  <2>1. CheckStock(Begin(b), d) = Begin(b)
    BY DEF CheckStock, Incoming
  <2>2. PICK W : W = Begin(b)
    OBVIOUS
  <2>3. WorkFits(W, b, d) /\ W.m = <<>> /\ W.ok
    BY <2>2, BeginFits
  <2>4. Len(W.m) = 0
    BY <2>3
  <2>5. IncomingSoFar(W, b, d, 0)
    BY <2>3, <2>4 DEF IncomingSoFar
  <2> QED BY <1>1, <1>3, <2>1, <2>2, <2>5
<1>5. ASSUME NEW k \in 1 .. n, k - 1 \in S PROVE k \in S
  <2>1. PICK W : W = after[k - 1]
    OBVIOUS
  <2>2. IncomingSoFar(LineStep(W, d, Document[d].lines[k]), b, d, k)
    BY <1>5, <2>1, IncomingStep
  <2> QED BY <1>1, <1>3, <2>1, <2>2
<1> HIDE DEF S
<1>6. \A k \in 0 .. n : k \in S
  BY <1>1, <1>4, <1>5, UpTo
<1>7. n \in S
  BY <1>1, <1>6
<1> QED BY <1>3, <1>7 DEF S

\* What the lines of a document may put between its entries and its movements.
LineHalf(d) == [i \in DOMAIN Document[d].lines |-> Half(Document[d].lines[i].qty * Document[d].lines[i].price)]

LEMMA HalvesAre ==
  ASSUME NEW d \in Docs
  PROVE  /\ Halves(d) = SumFunctionOnSet(LineHalf(d), DOMAIN Document[d].lines)
         /\ Halves(d) \in Int /\ 0 <= Halves(d)
         /\ IsFiniteSet(DOMAIN Document[d].lines)
         /\ \A i \in DOMAIN Document[d].lines : Document[d].lines[i].qty * Document[d].lines[i].price \in Int
<1>1. PICK lines, f, S : lines = Document[d].lines /\ f = LineHalf(d) /\ S = DOMAIN lines
  OBVIOUS
<1>2. Halves(d) = SumFunctionOnSet(f, S)
  BY <1>1 DEF Halves, SumOver, LineHalf, Half
<1>3. S = 1 .. Len(lines) /\ Len(lines) \in Nat
  BY <1>1, LineFields
<1>4. IsFiniteSet(S)
  BY <1>3, FS_Interval
<1>5. ASSUME NEW i \in S PROVE lines[i].qty * lines[i].price \in Int /\ f[i] \in Nat
  <2>1. PICK q, c : q = lines[i].qty /\ c = lines[i].price
    OBVIOUS
  <2>2. q \in Int /\ c \in Int
    BY <1>1, <2>1, LineFields
  <2>3. q * c \in Int
    BY <2>2
  <2>4. f[i] = Half(q * c)
    BY <1>1, <2>1 DEF LineHalf
  <2>5. Half(q * c) \in Nat
    BY DEF Half
  <2> QED BY <2>1, <2>3, <2>4, <2>5
<1>6. SumFunctionOnSet(f, S) \in Nat
  BY <1>4, <1>5, SumIsNat
<1>7. Halves(d) \in Int /\ 0 <= Halves(d)
  BY <1>2, <1>6
<1> QED BY <1>1, <1>2, <1>4, <1>5, <1>7

\* The account of a document is what its movements come to.
AccountNear(d, account, m) ==
  LET off == account - Amounts(m) IN
  /\ Document[d].type \in Outgoing \cup {"inventarizaciya"} => off = 0
  /\ Document[d].type \in Incoming /\ ~ Document[d].given => -Halves(d) <= off /\ off <= Halves(d)

\* The total of a document.
LEMMA TotalIs ==
  ASSUME NEW d \in Docs
  PROVE  /\ Total(d) \in Int
         /\ ~ Document[d].given =>
              Total(d) = SumFunctionOnSet([i \in DOMAIN Document[d].lines |-> LineAmount(d, i)], DOMAIN Document[d].lines)
<1>1. PICK S, g : S = DOMAIN Document[d].lines /\ g = [i \in DOMAIN Document[d].lines |-> LineAmount(d, i)]
  OBVIOUS
<1>2. Total(d) = IF Document[d].given THEN Document[d].total ELSE SumFunctionOnSet(g, S)
  BY <1>1 DEF Total, SumOver
<1>3. ASSUME NEW i \in S PROVE g[i] \in Int
  <2>1. PICK x : x = Document[d].lines[i].qty * Document[d].lines[i].price
    OBVIOUS
  <2>2. x \in Int
    BY <1>1, <2>1, HalvesAre
  <2>3. g[i] = QuantizeCents(x)
    BY <1>1, <2>1 DEF LineAmount
  <2> QED BY <2>2, <2>3, CentsNearby
<1>4. SumFunctionOnSet(g, S) \in Int
  BY <1>1, <1>3, HalvesAre, SumIsInt
<1>5. Document[d].total \in Int
  BY LineFields
<1> QED BY <1>1, <1>2, <1>4, <1>5

\* The entries of a document on account 41 are the amounts of its movements.
LEMMA AccountIs ==
  ASSUME NEW b, b \in Seq(AnyBatch), NEW d, d \in Docs, NEW W, W = ApplyLines(b, d)
  PROVE  Account41(d, W.m) \in Int /\ AccountNear(d, Account41(d, W.m), W.m)
<1>1. PICK m : m = W.m
  OBVIOUS
<1>2. PICK type : type = Document[d].type
  OBVIOUS
<1>3. WorkFits(W, b, d)
  BY PostingFits
<1> DEFINE f == [k \in DOMAIN m |-> m[k].amount]
           Out == {k \in DOMAIN m : m[k].qty < 0}
           In == {k \in DOMAIN m : m[k].qty > 0}
           out == [k \in Out |-> m[k].amount]
           in == [k \in In |-> m[k].amount]
<1>4. /\ IsFiniteSet(DOMAIN m) /\ DOMAIN m = 1 .. Len(m)
      /\ \A k \in DOMAIN m : /\ m[k].amount \in Int /\ m[k].qty \in Int
                             /\ m[k].qty = 0 => m[k].amount = 0
                             /\ type \in Outgoing => m[k].qty <= 0 \/ m[k].amount = 0
  <2>1. m \in Seq(AnyRow)
    BY <1>1, <1>3, WorkIs
  <2>2. IsFiniteSet(DOMAIN m) /\ DOMAIN m = 1 .. Len(m)
    BY <2>1, SequenceIs
  <2> QED BY <1>1, <1>2, <1>3, <2>2, WorkAmounts
<1>5. /\ IsFiniteSet(Out) /\ IsFiniteSet(In) /\ Out \in SUBSET (DOMAIN m) /\ In \in SUBSET (DOMAIN m)
      /\ \A k \in Out : f[k] = out[k]
      /\ \A k \in In : f[k] = in[k]
      /\ \A k \in DOMAIN m : f[k] \in Int
      /\ \A k \in (DOMAIN m) \ Out : type \in Outgoing => f[k] = 0
      /\ \A k \in (DOMAIN m) \ Out : k \notin In => f[k] = 0
      /\ In \subseteq (DOMAIN m) \ Out
  <2>1. Out \in SUBSET (DOMAIN m) /\ In \in SUBSET (DOMAIN m)
    OBVIOUS
  <2>2. \A k \in DOMAIN m : f[k] = m[k].amount
    OBVIOUS
  <2>3. IsFiniteSet(Out) /\ IsFiniteSet(In)
    <3> HIDE DEF Out, In
    <3> QED BY <1>4, <2>1, FS_Subset
  <2>4. \A k \in Out : f[k] = out[k]
    OBVIOUS
  <2>5. \A k \in In : f[k] = in[k]
    OBVIOUS
  <2>6. \A k \in (DOMAIN m) \ Out : type \in Outgoing => f[k] = 0
    BY <1>4
  <2>7. \A k \in (DOMAIN m) \ Out : k \notin In => f[k] = 0
    BY <1>4
  <2>8. In \subseteq (DOMAIN m) \ Out
    BY <1>4
  <2> QED BY <1>4, <2>1, <2>2, <2>3, <2>4, <2>5, <2>6, <2>7, <2>8
<1>6. /\ OutgoingCost(m) = -SumFunctionOnSet(out, Out)
      /\ IncomingCost(m) = SumFunctionOnSet(in, In)
      /\ Amounts(m) = SumFunctionOnSet(f, DOMAIN m)
  BY DEF OutgoingCost, IncomingCost, Amounts, SumOver
<1> HIDE DEF f, Out, In, out, in
<1>7. /\ SumFunctionOnSet(f, Out) = SumFunctionOnSet(out, Out)
      /\ SumFunctionOnSet(f, In) = SumFunctionOnSet(in, In)
  BY <1>5, SumSame
<1>8. SumFunctionOnSet(f, Out) \in Int /\ SumFunctionOnSet(f, In) \in Int /\ SumFunctionOnSet(f, DOMAIN m) \in Int
  <2>1. \A k \in Out : f[k] \in Int
    BY <1>5
  <2>2. \A k \in In : f[k] \in Int
    BY <1>5
  <2> QED BY <1>4, <1>5, <2>1, <2>2, SumIsInt
<1>9. Amounts(m) \in Int
  BY <1>6, <1>8
<1>10. CASE type \in Incoming
  <2>1. IncomingSoFar(W, b, d, Len(Document[d].lines))
    BY <1>2, <1>10, IncomingIs
  <2>2. PICK lines : lines = Document[d].lines
    OBVIOUS
  <2> DEFINE g == [i \in DOMAIN lines |-> LineAmount(d, i)]
             h == LineHalf(d)
             S == DOMAIN m
  <2>3. DOMAIN lines = S /\ \A j \in S : m[j].amount = Cents(lines[j].qty * lines[j].price)
    <3>1. DOMAIN lines = 1 .. Len(lines)
      BY <2>2, LineFields
    <3> QED BY <1>1, <1>4, <2>1, <2>2, <3>1 DEF IncomingSoFar
  <2>4. /\ Total(d) \in Int
        /\ ~ Document[d].given => Total(d) = SumFunctionOnSet(g, S)
        /\ Halves(d) = SumFunctionOnSet(h, S)
    BY <2>2, <2>3, TotalIs, HalvesAre
  <2>5. PICK u \in Int : u = 1
    OBVIOUS
  <2>6. ASSUME NEW k \in S
        PROVE  /\ f[k] \in Int /\ g[k] \in Int /\ h[k] \in Int
               /\ -h[k] <= g[k] * u - f[k] * u /\ g[k] * u - f[k] * u <= h[k]
    <3>1. PICK x : x = lines[k].qty * lines[k].price
      OBVIOUS
    <3>2. x \in Int
      BY <2>2, <2>3, <3>1, HalvesAre
    <3>3. f[k] = Cents(x) /\ g[k] = QuantizeCents(x) /\ h[k] = Half(x)
      BY <2>2, <2>3, <3>1 DEF f, LineAmount, LineHalf
    <3>4. /\ QuantizeCents(x) \in Int /\ Cents(x) \in Int /\ Half(x) \in Int
          /\ -Half(x) <= QuantizeCents(x) - Cents(x) /\ QuantizeCents(x) - Cents(x) <= Half(x)
      BY <3>2, CentsNearby
    <3> HIDE DEF g, h
    <3> QED BY <2>5, <3>3, <3>4
  <2>7. IsFiniteSet(S)
    BY <1>4
  <2> HIDE DEF g, h, S
  <2>8. LET off == SumFunctionOnSet(g, S) * u - SumFunctionOnSet(f, S) * u
        IN -SumFunctionOnSet(h, S) <= off /\ off <= SumFunctionOnSet(h, S)
    BY <2>6, <2>7, SumNearby
  <2>9. SumFunctionOnSet(f, S) = Amounts(m)
    BY <1>6 DEF S
  <2>10. Account41(d, m) = Total(d)
    BY <1>2, <1>10 DEF Account41
  <2>11. ASSUME ~ Document[d].given
         PROVE  LET off == Account41(d, m) - Amounts(m) IN -Halves(d) <= off /\ off <= Halves(d)
    BY <1>9, <2>4, <2>8, <2>9, <2>10, <2>11, <2>5
  <2>12. type \notin Outgoing \cup {"inventarizaciya"}
    BY <1>10 DEF Incoming, Outgoing
  <2> QED BY <1>1, <1>2, <2>4, <2>10, <2>11, <2>12 DEF AccountNear
<1>11. CASE type \in Outgoing
  <2>1. \A k \in (DOMAIN m) \ Out : f[k] = 0
    BY <1>5, <1>11
  <2>2. SumFunctionOnSet(f, DOMAIN m) = SumFunctionOnSet(f, Out)
    BY <1>4, <1>5, <2>1, SumOfSupport
  <2>3. Account41(d, m) = -OutgoingCost(m)
    BY <1>2, <1>11 DEF Account41, Incoming, Outgoing
  <2>4. Account41(d, m) = Amounts(m)
    BY <1>6, <1>7, <1>8, <2>2, <2>3
  <2>5. type \notin Incoming
    BY <1>11 DEF Incoming, Outgoing
  <2> QED BY <1>1, <1>2, <1>9, <2>4, <2>5 DEF AccountNear
<1>12. CASE type = "inventarizaciya"
  <2>1. SumFunctionOnSet(f, DOMAIN m) = SumFunctionOnSet(f, Out) + SumFunctionOnSet(f, (DOMAIN m) \ Out)
    BY <1>4, <1>5, SumSplit
  <2>2. SumFunctionOnSet(f, (DOMAIN m) \ Out) = SumFunctionOnSet(f, In)
    <3>1. PICK R : R = (DOMAIN m) \ Out
      OBVIOUS
    <3>2. IsFiniteSet(R) /\ In \in SUBSET R /\ \A k \in R : f[k] \in Int
      BY <1>4, <1>5, <3>1, FS_Subset
    <3>3. \A k \in R \ In : f[k] = 0
      BY <1>5, <3>1
    <3> QED BY <3>1, <3>2, <3>3, SumOfSupport
  <2>3. Account41(d, m) = IncomingCost(m) - OutgoingCost(m)
    BY <1>2, <1>12 DEF Account41, Incoming, Outgoing
  <2>4. Account41(d, m) = Amounts(m)
    BY <1>6, <1>7, <1>8, <2>1, <2>2, <2>3
  <2>5. type \notin Incoming
    BY <1>12 DEF Incoming
  <2> QED BY <1>1, <1>2, <1>9, <2>4, <2>5 DEF AccountNear
<1>13. CASE type \notin Incoming \cup Outgoing \cup {"inventarizaciya"}
  <2>1. Account41(d, m) = 0
    BY <1>2, <1>13 DEF Account41
  <2> QED BY <1>1, <1>2, <1>13, <2>1 DEF AccountNear
<1> QED BY <1>10, <1>11, <1>12, <1>13

\* The account of each document is what its movements come to.
AccountFits(acc, mv) ==
  \A d \in Docs : AccountNear(d, acc[d], mv[d])

\* The tables of the ledger, together.
LedgerIs(b, mv, p, acc, log, rec) ==
  /\ Consistent(b, mv, p)
  /\ rec \in BOOLEAN
  /\ ~ rec => AmountsFit(b, mv)
  /\ \A d \in p : Document[d].type = "pereocenka" => rec
  /\ \A d \in Docs : Document[d].type = "pereocenka" => mv[d] = <<>>
  /\ DOMAIN log = Docs /\ \A d \in Docs : LogFits(log[d])
  /\ acc \in [Docs -> Int] /\ AccountFits(acc, mv)

LedgerInv ==
  /\ LedgerIs(batches, moves, posted, acc41, revLog, recosted)
  /\ <<restock, method>> \in Settings

\* No movements, no amount.
LEMMA AmountsOfNone == Amounts(<<>>) = 0
<1>1. DOMAIN << >> = {}
  OBVIOUS
<1> QED BY <1>1, SumOfNone DEF Amounts

\* Neither movements nor entries; a revaluation.
LEMMA NoAccountIs ==
  ASSUME NEW d \in Docs
  PROVE  /\ AccountNear(d, 0, <<>>)
         /\ Document[d].type = "pereocenka" => \A a, m : AccountNear(d, a, m)
BY AmountsOfNone, HalvesAre DEF AccountNear, Incoming, Outgoing

\* A document gets the account of its new movements.
LEMMA AccountAfter ==
  ASSUME NEW acc, acc \in [Docs -> Int], NEW mv, AccountFits(acc, mv), NEW d, d \in Docs,
         NEW mv2, \A e \in Docs \ {d} : mv2[e] = mv[e],
         NEW acc2, acc2 \in [Docs -> Int], \A e \in Docs \ {d} : acc2[e] = acc[e],
         AccountNear(d, acc2[d], mv2[d])
  PROVE  AccountFits(acc2, mv2)
BY DEF AccountFits

\* Posting a document keeps the ledger.
LEMMA PostDocumentKeeps ==
  ASSUME NEW b, NEW mv, NEW p, NEW acc, NEW log, NEW rec, LedgerIs(b, mv, p, acc, log, rec),
         NEW d, d \in Docs \ p, Document[d].type # "pereocenka",
         NEW W, W = ApplyLines(b, d),
         NEW mv2, Enrolls(mv2, mv, d, W.m), NEW acc2, Enrolls(acc2, acc, d, Account41(d, W.m)),
         NEW rec2, rec2 \in BOOLEAN, ~ rec2 => ~ rec /\ method # "average", rec => rec2
  PROVE  LedgerIs(W.b, mv2, p \cup {d}, acc2, log, rec2)
<1>1. Consistent(b, mv, p) /\ b \in Seq(AnyBatch) /\ Register(mv)
  BY ConsistentIs DEF LedgerIs
<1>2. WorkFits(W, b, d)
  BY <1>1, PostingFits
<1>3. Consistent(W.b, mv2, p \cup {d})
  BY <1>1, <1>2, PostingKeeps
<1>4. W.m \in Seq(AnyRow)
  BY <1>2, WorkIs
<1>5. mv2[d] = W.m /\ \A e \in Docs \ {d} : mv2[e] = mv[e]
  BY <1>1, <1>4, EnrollIs
<1>6. ~ rec2 => AmountsFit(W.b, mv2)
  <2> SUFFICES ASSUME ~ rec2, NEW e \in Docs, NEW k \in DOMAIN mv2[e],
                      mv2[e][k].batch # NoBatch
               PROVE  mv2[e][k].amount = Cents(mv2[e][k].qty * W.b[mv2[e][k].batch].cost)
    BY DEF AmountsFit
  <2>1. CASE e = d
    <3>1. RowFits(W, d, k)
      BY <1>2, <1>5, <2>1 DEF WorkFits
    <3>2. OfBatch(W, k)
      BY <1>5, <2>1, <3>1 DEF RowFits, OfNoBatch
    <3> QED BY <1>5, <2>1, <3>2 DEF OfBatch
  <2>2. CASE e # d
    <3>1. mv2[e] = mv[e] /\ k \in DOMAIN mv[e]
      BY <1>5, <2>2
    <3>2. PICK i : i = mv[e][k].batch
      OBVIOUS
    <3>3. i \in DOMAIN b /\ i # NoBatch
      <4>1. i # NoBatch
        BY <3>1, <3>2
      <4> QED BY <1>1, <3>1, <3>2, <4>1, RowsConsistent
    <3>4. W.b[i].cost = b[i].cost
      BY <1>2, <3>3, OldIs
    <3>5. AmountsFit(b, mv)
      BY DEF LedgerIs
    <3>6. mv[e][k].amount = Cents(mv[e][k].qty * b[i].cost)
      BY <3>1, <3>2, <3>3, <3>5 DEF AmountsFit
    <3> QED BY <3>1, <3>2, <3>4, <3>6
  <2> QED BY <2>1, <2>2
<1>7. Account41(d, W.m) \in Int /\ AccountNear(d, Account41(d, W.m), W.m)
  BY <1>1, AccountIs
<1>8. acc2 \in [Docs -> Int] /\ AccountFits(acc2, mv2)
  <2>1. acc \in [Docs -> Int] /\ AccountFits(acc, mv)
    BY DEF LedgerIs
  <2>2. acc2 \in [Docs -> Int] /\ acc2[d] = Account41(d, W.m) /\ \A e \in Docs \ {d} : acc2[e] = acc[e]
    BY <1>7, <2>1 DEF Enrolls
  <2> QED BY <1>5, <1>7, <2>1, <2>2, AccountAfter
<1>9. \A e \in p \cup {d} : Document[e].type = "pereocenka" => rec2
  BY DEF LedgerIs
<1>10. \A e \in Docs : Document[e].type = "pereocenka" => mv2[e] = <<>>
  BY <1>5 DEF LedgerIs
<1>11. DOMAIN log = Docs /\ \A e \in Docs : LogFits(log[e])
  BY DEF LedgerIs
<1> QED BY <1>3, <1>6, <1>8, <1>9, <1>10, <1>11 DEF LedgerIs

\* The difference a revaluation books is an integer.
LEMMA DiffIsInt ==
  ASSUME NEW x, x \in Int
  PROVE  QuantizeCents(x) \in Int
BY CentsNearby

\* Posting a revaluation keeps the ledger.
LEMMA PostRevaluationKeeps ==
  ASSUME NEW b, NEW mv, NEW p, NEW acc, NEW log, NEW rec, LedgerIs(b, mv, p, acc, log, rec),
         NEW d, d \in Docs \ p, Document[d].type = "pereocenka",
         NEW R, R = Revalue(b, d),
         NEW log2, Enrolls(log2, log, d, R.log), NEW acc2, Enrolls(acc2, acc, d, QuantizeCents(R.diff))
  PROVE  LedgerIs(R.b, mv, p \cup {d}, acc2, log2, TRUE)
<1>1. Consistent(b, mv, p) /\ b \in Seq(AnyBatch) /\ p \subseteq Docs /\ \A e \in Docs : e \notin p => mv[e] = <<>>
  BY ConsistentIs DEF LedgerIs
<1>2. Recosted(b, R.b) /\ LogFits(R.log) /\ R.diff \in Int
  BY <1>1, RevalueIs
<1>3. Consistent(R.b, mv, p \cup {d})
  <2>1. PICK b2 : b2 = R.b
    OBVIOUS
  <2>2. p \cup {d} \subseteq Docs /\ \A e \in Docs \ (p \cup {d}) : mv[e] = <<>>
    BY <1>1
  <2> QED BY <1>1, <1>2, <2>1, <2>2, RecostingKeeps
<1>4. QuantizeCents(R.diff) \in Int
  BY <1>2, DiffIsInt
<1>5. acc2 \in [Docs -> Int] /\ \A e \in Docs \ {d} : acc2[e] = acc[e]
  BY <1>4 DEF Enrolls, LedgerIs
<1>6. AccountFits(acc2, mv)
  BY <1>5, NoAccountIs DEF AccountFits, LedgerIs
<1>7. DOMAIN log2 = Docs /\ log2[d] = R.log /\ \A e \in Docs \ {d} : log2[e] = log[e]
  BY DEF Enrolls, LedgerIs
<1>8. \A e \in Docs : LogFits(log2[e])
  BY <1>2, <1>7 DEF LedgerIs
<1>9. \A e \in Docs : Document[e].type = "pereocenka" => mv[e] = <<>>
  BY DEF LedgerIs
<1> QED BY <1>3, <1>5, <1>6, <1>7, <1>8, <1>9 DEF LedgerIs

\* Cancelling a document keeps the ledger.
LEMMA UnpostDocumentKeeps ==
  ASSUME NEW b, NEW mv, NEW p, NEW acc, NEW log, NEW rec, LedgerIs(b, mv, p, acc, log, rec),
         NEW d, d \in p, Document[d].type # "pereocenka",
         NEW b2, Undone(b2, b, d, mv[d]),
         NEW mv2, Cleared(mv2, mv, d), NEW acc2, Enrolls(acc2, acc, d, 0)
  PROVE  LedgerIs(b2, mv2, p \ {d}, acc2, log, rec)
<1>1. Consistent(b, mv, p) /\ Register(mv) /\ d \in Docs
  BY ConsistentIs DEF LedgerIs
<1>2. /\ Consistent(b2, mv2, p \ {d})
      /\ DOMAIN b2 = DOMAIN b
      /\ \A i \in DOMAIN b : b2[i] = Gone \/ b2[i].cost = b[i].cost
  BY <1>1, UnpostingKeeps, SMTT(30)
<1>4. mv2[d] = <<>> /\ \A e \in Docs \ {d} : mv2[e] = mv[e]
  BY <1>1, ClearedIs
<1>5. ~ rec => AmountsFit(b2, mv2)
  <2> SUFFICES ASSUME ~ rec, NEW e \in Docs, NEW k \in DOMAIN mv2[e],
                      mv2[e][k].batch # NoBatch
               PROVE  mv2[e][k].amount = Cents(mv2[e][k].qty * b2[mv2[e][k].batch].cost)
    BY DEF AmountsFit
  <2>1. e # d
    BY <1>4
  <2>2. mv2[e] = mv[e] /\ k \in DOMAIN mv[e]
    BY <1>4, <2>1
  <2>3. PICK i : i = mv2[e][k].batch
    OBVIOUS
  <2>4. i \in DOMAIN b2 /\ b2[i] # Gone
    <3>1. PICK p2 : p2 = p \ {d}
      OBVIOUS
    <3>2. Consistent(b2, mv2, p2)
      BY <1>2, <3>1
    <3>3. i # NoBatch
      BY <2>3
    <3> QED BY <2>3, <3>1, <3>2, <3>3, RowsConsistent
  <2>5. b2[i].cost = b[i].cost
    BY <1>2, <2>4
  <2>6. AmountsFit(b, mv)
    BY DEF LedgerIs
  <2>7. mv[e][k].amount = Cents(mv[e][k].qty * b[i].cost)
    BY <2>2, <2>3, <2>6 DEF AmountsFit, NoBatch
  <2> QED BY <2>2, <2>3, <2>5, <2>7
<1>6. acc2 \in [Docs -> Int] /\ AccountFits(acc2, mv2)
  <2>1. acc \in [Docs -> Int] /\ AccountFits(acc, mv)
    BY DEF LedgerIs
  <2>2. acc2 \in [Docs -> Int] /\ acc2[d] = 0 /\ \A e \in Docs \ {d} : acc2[e] = acc[e]
    BY <1>1, <2>1 DEF Enrolls
  <2>3. AccountNear(d, acc2[d], mv2[d])
    BY <1>1, <1>4, <2>2, NoAccountIs
  <2> QED BY <1>1, <1>4, <2>1, <2>2, <2>3, AccountAfter, SMTT(30)
<1>7. \A e \in p \ {d} : Document[e].type = "pereocenka" => rec
  BY DEF LedgerIs
<1>8. \A e \in Docs : Document[e].type = "pereocenka" => mv2[e] = <<>>
  BY <1>4 DEF LedgerIs
<1>9. DOMAIN log = Docs /\ (\A e \in Docs : LogFits(log[e])) /\ rec \in BOOLEAN
  BY DEF LedgerIs
<1> QED BY <1>2, <1>5, <1>6, <1>7, <1>8, <1>9 DEF LedgerIs

\* Cancelling a revaluation keeps the ledger.
LEMMA UnpostRevaluationKeeps ==
  ASSUME NEW b, NEW mv, NEW p, NEW acc, NEW log, NEW rec, LedgerIs(b, mv, p, acc, log, rec),
         NEW d, d \in p, Document[d].type = "pereocenka",
         NEW acc2, Enrolls(acc2, acc, d, 0)
  PROVE  LedgerIs(RestoreCosts(b, log[d]), mv, p \ {d}, acc2, log, rec)
<1>1. /\ Consistent(b, mv, p) /\ b \in Seq(AnyBatch) /\ d \in Docs /\ p \subseteq Docs
      /\ \A e \in Docs : e \notin p => mv[e] = <<>>
  BY ConsistentIs DEF LedgerIs
<1>2. PICK b2 : b2 = RestoreCosts(b, log[d])
  OBVIOUS
<1>3. LogFits(log[d])
  BY <1>1 DEF LedgerIs
<1>4. Recosted(b, b2)
  BY <1>1, <1>2, <1>3, RestoreIs
<1>5. mv[d] = <<>>
  BY <1>1 DEF LedgerIs
<1>6. Consistent(b2, mv, p \ {d})
  <2>1. p \ {d} \subseteq Docs /\ \A e \in Docs \ (p \ {d}) : mv[e] = <<>>
    BY <1>1, <1>5
  <2> QED BY <1>1, <1>4, <2>1, RecostingKeeps
<1>7. rec = TRUE
  BY DEF LedgerIs
<1>8. acc2 \in [Docs -> Int] /\ \A e \in Docs \ {d} : acc2[e] = acc[e]
  BY <1>1 DEF Enrolls, LedgerIs
<1>9. AccountFits(acc2, mv)
  BY <1>1, <1>8, NoAccountIs DEF AccountFits, LedgerIs
<1>10. \A e \in Docs : Document[e].type = "pereocenka" => mv[e] = <<>>
  BY DEF LedgerIs
<1>11. DOMAIN log = Docs /\ \A e \in Docs : LogFits(log[e])
  BY DEF LedgerIs
<1> QED BY <1>2, <1>6, <1>7, <1>8, <1>9, <1>10, <1>11 DEF LedgerIs

-----------------------------------------------------------------------------
(***************************************************************************)
(* The ledger invariant.                                                   *)
(***************************************************************************)

\* The invariant holds of an empty base.
LEMMA LedgerInit ==
  Init => LedgerInv
<1> SUFFICES ASSUME Init PROVE LedgerInv
  OBVIOUS
<1>1. batches \in Seq(AnyBatch) /\ DOMAIN batches = {}
  BY DEF Init
<1>2. moves \in [Docs -> Seq(AnyRow)] /\ \A d \in Docs : moves[d] = <<>> /\ DOMAIN moves[d] = {}
  BY DEF Init
<1>3. Consistent(batches, moves, posted)
  BY <1>1, <1>2 DEF Consistent, Tables, Init
<1>4. AmountsFit(batches, moves)
  BY <1>2 DEF AmountsFit
<1>5. DOMAIN revLog = Docs /\ \A d \in Docs : LogFits(revLog[d])
  <2>1. Len(<< >>) = 0 /\ 1 .. 0 = {}
    OBVIOUS
  <2> QED BY <2>1 DEF LogFits, Init
<1>6. acc41 \in [Docs -> Int] /\ AccountFits(acc41, moves)
  BY <1>2, NoAccountIs DEF AccountFits, Init
<1>7. <<restock, method>> \in Settings
  BY LedgerAssumption DEF Init
<1>8. recosted = FALSE /\ posted = {}
  BY DEF Init
<1> QED BY <1>2, <1>3, <1>4, <1>5, <1>6, <1>7, <1>8 DEF LedgerInv, LedgerIs

\* What each action does to the tables.
LEMMA PostDocumentIs ==
  ASSUME LedgerInv, NEW d \in Docs, PostDocument(d)
  PROVE  \E W : /\ W = ApplyLines(batches, d) /\ W.ok /\ WorkFits(W, batches, d)
                /\ batches' = W.b /\ Enrolls(moves', moves, d, W.m)
                /\ Enrolls(acc41', acc41, d, Account41(d, W.m))
<1>1. batches \in Seq(AnyBatch)
  BY ConsistentIs DEF LedgerInv, LedgerIs
<1>2. WorkFits(ApplyLines(batches, d), batches, d)
  BY <1>1, PostingFits
<1> QED BY <1>2 DEF PostDocument, Enrolls

\* The same of a revaluation.
LEMMA PostRevaluationIs ==
  ASSUME LedgerInv, NEW d \in Docs, PostRevaluation(d)
  PROVE  \E R : /\ R = Revalue(batches, d) /\ batches' = R.b
                /\ Enrolls(revLog', revLog, d, R.log)
                /\ Enrolls(acc41', acc41, d, QuantizeCents(R.diff))
BY DEF PostRevaluation, Enrolls

\* Every step keeps the invariant.
LEMMA LedgerStep ==
  LedgerInv /\ [Next]_vars => LedgerInv'
<1> SUFFICES ASSUME LedgerInv, [Next]_vars PROVE LedgerInv'
  OBVIOUS
<1>0. /\ LedgerIs(batches, moves, posted, acc41, revLog, recosted)
      /\ <<restock, method>> \in Settings /\ recosted \in BOOLEAN
  BY DEF LedgerInv, LedgerIs
<1>1. ASSUME NEW d \in Docs, PostDocument(d) PROVE LedgerInv'
  <2>1. PICK W : /\ W = ApplyLines(batches, d) /\ batches' = W.b /\ Enrolls(moves', moves, d, W.m)
                 /\ Enrolls(acc41', acc41, d, Account41(d, W.m))
    BY <1>1, PostDocumentIs
  <2>2. /\ d \in Docs \ posted /\ Document[d].type # "pereocenka"
        /\ posted' = posted \cup {d} /\ recosted' = (recosted \/ method = "average")
        /\ revLog' = revLog /\ restock' = restock /\ method' = method
    BY <1>1 DEF PostDocument
  <2>3. PICK rec2 : rec2 = recosted'
    OBVIOUS
  <2>4. rec2 \in BOOLEAN /\ (~ rec2 => ~ recosted /\ method # "average") /\ (recosted => rec2)
    BY <1>0, <2>2, <2>3
  <2>5. LedgerIs(W.b, moves', posted \cup {d}, acc41', revLog, rec2)
    BY <1>0, <2>1, <2>2, <2>4, PostDocumentKeeps, SMTT(30)
  <2>6. LedgerIs(batches', moves', posted', acc41', revLog', recosted')
    BY <2>1, <2>2, <2>3, <2>5
  <2> QED BY <1>0, <2>2, <2>6 DEF LedgerInv
<1>2. ASSUME NEW d \in Docs, PostRevaluation(d) PROVE LedgerInv'
  <2>1. PICK R : /\ R = Revalue(batches, d) /\ batches' = R.b
                 /\ Enrolls(revLog', revLog, d, R.log)
                 /\ Enrolls(acc41', acc41, d, QuantizeCents(R.diff))
    BY <1>2, PostRevaluationIs
  <2>2. /\ d \in Docs \ posted /\ Document[d].type = "pereocenka"
        /\ posted' = posted \cup {d} /\ recosted' = TRUE
        /\ moves' = moves /\ restock' = restock /\ method' = method
    BY <1>2 DEF PostRevaluation
  <2>3. LedgerIs(R.b, moves, posted \cup {d}, acc41', revLog', TRUE)
    BY <1>0, <2>1, <2>2, PostRevaluationKeeps
  <2>4. LedgerIs(batches', moves', posted', acc41', revLog', recosted')
    BY <2>1, <2>2, <2>3
  <2> QED BY <1>0, <2>2, <2>4 DEF LedgerInv
<1>3. ASSUME NEW d \in Docs, UnpostDocument(d) PROVE LedgerInv'
  <2>1. /\ d \in posted /\ Document[d].type # "pereocenka"
        /\ posted' = posted \ {d} /\ recosted' = recosted
        /\ revLog' = revLog /\ restock' = restock /\ method' = method
    BY <1>3 DEF UnpostDocument
  <2>2. Undone(batches', batches, d, moves[d])
    BY <1>3 DEF UnpostDocument, Undone
  <2>3. Cleared(moves', moves, d) /\ Enrolls(acc41', acc41, d, 0)
    BY <1>3 DEF UnpostDocument, Cleared, Enrolls
  <2>4. LedgerIs(batches', moves', posted \ {d}, acc41', revLog, recosted)
    BY <1>0, <2>1, <2>2, <2>3, UnpostDocumentKeeps
  <2>5. LedgerIs(batches', moves', posted', acc41', revLog', recosted')
    BY <2>1, <2>4
  <2> QED BY <1>0, <2>1, <2>5 DEF LedgerInv
<1>4. ASSUME NEW d \in Docs, UnpostRevaluation(d) PROVE LedgerInv'
  <2>1. /\ d \in posted /\ Document[d].type = "pereocenka"
        /\ posted' = posted \ {d} /\ recosted' = recosted /\ moves' = moves
        /\ revLog' = revLog /\ restock' = restock /\ method' = method
        /\ batches' = RestoreCosts(batches, revLog[d]) /\ Enrolls(acc41', acc41, d, 0)
    BY <1>4 DEF UnpostRevaluation, Enrolls
  <2>2. LedgerIs(RestoreCosts(batches, revLog[d]), moves, posted \ {d}, acc41', revLog, recosted)
    BY <1>0, <2>1, UnpostRevaluationKeeps
  <2>3. LedgerIs(batches', moves', posted', acc41', revLog', recosted')
    BY <2>1, <2>2
  <2> QED BY <1>0, <2>1, <2>3 DEF LedgerInv
<1>5. CASE ChangeConstants
  <2>1. LedgerIs(batches', moves', posted', acc41', revLog', recosted')
    BY <1>0, <1>5 DEF ChangeConstants
  <2>2. <<restock', method'>> \in Settings
    BY <1>5, LedgerAssumption DEF ChangeConstants
  <2> QED BY <2>1, <2>2 DEF LedgerInv
<1>6. CASE UNCHANGED vars
  <2>1. LedgerIs(batches', moves', posted', acc41', revLog', recosted')
    BY <1>0, <1>6 DEF vars
  <2>2. restock' = restock /\ method' = method
    BY <1>6 DEF vars
  <2> QED BY <1>0, <2>1, <2>2 DEF LedgerInv
<1> QED BY <1>1, <1>2, <1>3, <1>4, <1>5, <1>6 DEF Next

\* The invariant of the ledger: batches, movements, amounts and account 41
\* agree after every posting and every cancelling.
THEOREM LedgerHolds == Spec => []LedgerInv
<1>1. Init => LedgerInv
  BY LedgerInit
<1>2. LedgerInv /\ [Next]_vars => LedgerInv'
  BY LedgerStep
<1> QED BY <1>1, <1>2, PTL DEF Spec

-----------------------------------------------------------------------------
(***************************************************************************)
(* What the invariant says of the tables.                                  *)
(***************************************************************************)

\* The rows of a batch in the register of movements.
LEMMA RowsOfIs ==
  \A i : RowsOf(i) = BatchRows(moves, i)
BY DEF RowsOf, BatchRows

\* Batches hold what their movements come to.
LEMMA InvariantGivesMovements ==
  LedgerInv => BatchesMatchMovements
<1> SUFFICES ASSUME LedgerInv, NEW i \in DOMAIN batches
             PROVE  /\ batches[i].qty = SumOver(RowsOf(i), LAMBDA r : moves[r[1]][r[2]].qty)
                    /\ batches[i] = Gone => RowsOf(i) = {}
  BY DEF BatchesMatchMovements
<1>1. Consistent(batches, moves, posted) /\ Register(moves)
  BY ConsistentIs DEF LedgerInv, LedgerIs
<1>2. batches[i].qty = HeldIn(moves, i)
  BY <1>1, ConsistentIs
<1>3. SumOver(RowsOf(i), LAMBDA r : moves[r[1]][r[2]].qty) = HeldIn(moves, i)
  BY RowsOfIs DEF SumOver, HeldIn
<1>4. batches[i] = Gone => BatchRows(moves, i) = {}
  <2> SUFFICES ASSUME NEW r \in BatchRows(moves, i) PROVE batches[i] # Gone
    OBVIOUS
  <2>1. r[1] \in Docs /\ r[2] \in DOMAIN moves[r[1]] /\ moves[r[1]][r[2]].batch = i
    BY <1>1, RowIs
  <2>2. PICK e, k : e = r[1] /\ k = r[2]
    OBVIOUS
  <2>3. e \in Docs /\ k \in DOMAIN moves[e] /\ i = moves[e][k].batch
    BY <2>1, <2>2
  <2> QED BY <1>1, <2>3, RowsConsistent
<1> QED BY <1>2, <1>3, <1>4, RowsOfIs

\* Account 41 is the amounts of the movements.
LEMMA InvariantGivesAccount41 ==
  LedgerInv => Account41MatchesMovements
<1> SUFFICES ASSUME LedgerInv
             PROVE  Account41MatchesMovements
  OBVIOUS
<1>1. \A d \in Docs : AccountNear(d, acc41[d], moves[d])
  BY DEF LedgerInv, LedgerIs, AccountFits
<1>2. \A d \in Docs : SumOver(DOMAIN moves[d], LAMBDA k : moves[d][k].amount) = Amounts(moves[d])
  BY DEF SumOver, Amounts
<1> QED BY <1>1, <1>2 DEF Account41MatchesMovements, AccountNear

\* So a batch is near the amounts of its movements.
LEMMA InvariantGivesValue ==
  LedgerInv => ValueConserved
<1> SUFFICES ASSUME LedgerInv, ~ recosted, NEW i \in DOMAIN batches
             PROVE  LET amounts == SumFunctionOnSet([r \in RowsOf(i) |-> moves[r[1]][r[2]].amount], RowsOf(i))
                        off == batches[i].qty * batches[i].cost - 1000 * amounts
                        slack == SumFunctionOnSet([r \in RowsOf(i) |-> Spill(moves[r[1]][r[2]].qty * batches[i].cost)],
                                                  RowsOf(i))
                    IN -slack <= off /\ off <= slack
  BY DEF ValueConserved, SumOver, Spill
<1>1. Consistent(batches, moves, posted) /\ Register(moves) /\ batches[i] \in AnyBatch
      /\ batches[i].qty = HeldIn(moves, i)
  BY ConsistentIs DEF LedgerInv, LedgerIs
<1>2. AmountsFit(batches, moves)
  BY DEF LedgerInv, LedgerIs
<1>3. PICK cost \in Int : cost = batches[i].cost
  BY <1>1, BatchFields
<1>4. NoBatch # i
  BY <1>1, RowsConsistent, ConsistentIs, SequenceIs DEF NoBatch
<1>5. PICK u \in Int : u = 1000
  OBVIOUS
<1> DEFINE S == BatchRows(moves, i)
           q == [r \in S |-> moves[r[1]][r[2]].qty]
           f == [r \in S |-> moves[r[1]][r[2]].amount]
           h == [r \in S |-> Spill(moves[r[1]][r[2]].qty * cost)]
<1>6. ASSUME NEW r \in S
      PROVE  /\ f[r] \in Int /\ q[r] \in Int /\ h[r] \in Int
             /\ -h[r] <= q[r] * cost - f[r] * u /\ q[r] * cost - f[r] * u <= h[r]
  <2>1. r[1] \in Docs /\ r[2] \in DOMAIN moves[r[1]] /\ moves[r[1]][r[2]].batch = i
    BY <1>1, RowIs
  <2>2. PICK e, k : e = r[1] /\ k = r[2]
    OBVIOUS
  <2>3. e \in Docs /\ k \in DOMAIN moves[e] /\ moves[e][k].batch = i
    BY <2>1, <2>2
  <2>4. PICK n : n = moves[e][k].qty
    OBVIOUS
  <2>5. n \in Int
    BY <1>1, <2>3, <2>4, RegisterIs
  <2>6. moves[e][k].amount = Cents(n * cost)
    BY <1>2, <1>3, <1>4, <2>3, <2>4 DEF AmountsFit
  <2>7. PICK x : x = n * cost
    OBVIOUS
  <2>8. x \in Int
    BY <2>5, <2>7
  <2>9. /\ Spill(x) \in Int /\ Cents(x) \in Int
        /\ -Spill(x) <= x - 1000 * Cents(x) /\ x - 1000 * Cents(x) <= Spill(x)
    BY <2>8, CentsSlack, CentsNearby
  <2>10. q[r] = n /\ f[r] = Cents(x) /\ h[r] = Spill(x)
    BY <2>2, <2>4, <2>6, <2>7
  <2>11. Cents(x) * 1000 = 1000 * Cents(x)
    BY <2>9
  <2> HIDE DEF q, f, h
  <2> QED BY <1>5, <2>5, <2>7, <2>9, <2>10, <2>11
<1>7. IsFiniteSet(S)
  BY <1>1, RowsAreFinite DEF Register
<1>8. /\ RowsOf(i) = S
      /\ [r \in RowsOf(i) |-> moves[r[1]][r[2]].amount] = f
      /\ [r \in RowsOf(i) |-> Spill(moves[r[1]][r[2]].qty * batches[i].cost)] = h
  BY <1>3, RowsOfIs
<1>9. batches[i].qty = SumFunctionOnSet(q, S)
  BY <1>1 DEF HeldIn
<1> HIDE DEF S, q, f, h
<1>10. LET off == SumFunctionOnSet(q, S) * cost - SumFunctionOnSet(f, S) * u
      IN -SumFunctionOnSet(h, S) <= off /\ off <= SumFunctionOnSet(h, S)
  BY <1>6, <1>7, SumNearby
<1>11. SumFunctionOnSet(f, S) \in Int
  BY <1>6, <1>7, SumIsInt
<1>12. SumFunctionOnSet(f, S) * u = 1000 * SumFunctionOnSet(f, S)
  BY <1>11, <1>5
<1> QED BY <1>3, <1>8, <1>9, <1>10, <1>12

\* A posting can be cancelled at once.
LEMMA InvariantGivesUnposting ==
  LedgerInv => UnpostRestoresBatches
<1> SUFFICES ASSUME LedgerInv, NEW d \in Docs \ posted
             PROVE  /\ Document[d].type # "pereocenka" =>
                         \A W \in {ApplyLines(batches, d)} :
                           W.ok => \A U \in {Rollback(W.b, d, W.m)} :
                                     /\ U.ok <=> ~ TakesItsOwn(W.m)
                                     /\ U.ok => /\ \A i \in DOMAIN batches : U.b[i] = batches[i]
                                                /\ \A i \in DOMAIN U.b \ DOMAIN batches : U.b[i] = Gone
                    /\ Document[d].type = "pereocenka" /\ NamesOnce(d) =>
                         LET R == Revalue(batches, d) IN RestoreCosts(R.b, R.log) = batches
  BY DEF UnpostRestoresBatches
<1>1. Consistent(batches, moves, posted) /\ batches \in Seq(AnyBatch)
  BY ConsistentIs DEF LedgerInv, LedgerIs
<1>2. ASSUME NEW W, W = ApplyLines(batches, d), NEW U, U = Rollback(W.b, d, W.m)
      PROVE  /\ U.ok <=> ~ TakesItsOwn(W.m)
             /\ U.ok => /\ \A i \in DOMAIN batches : U.b[i] = batches[i]
                        /\ \A i \in DOMAIN U.b \ DOMAIN batches : U.b[i] = Gone
  <2>1. WorkFits(W, batches, d)
    BY <1>1, <1>2, PostingFits
  <2> QED BY <1>1, <1>2, <2>1, CancelledAtOnce
<1>3. ASSUME NamesOnce(d), NEW R, R = Revalue(batches, d)
      PROVE  RestoreCosts(R.b, R.log) = batches
  BY <1>1, <1>3, RevaluedAtOnce
<1> QED BY <1>2, <1>3

\* Every batch holds what its movements brought in less what they took out.
THEOREM MovementsHold == Spec => []BatchesMatchMovements
BY LedgerHolds, InvariantGivesMovements, PTL

\* The entries on account 41 are the amounts of the movements, exactly where
\* they are summed from them (_apply_accounting), and for an arrival, entered at
\* the total of its lines, to a hundredth for each line of half a hundredth.
THEOREM Account41Holds == Spec => []Account41MatchesMovements
BY LedgerHolds, InvariantGivesAccount41, PTL

\* Until something is recosted a batch is worth the amounts of its movements,
\* but for what the column of an amount rounds off (create_incoming,
\* consume_batches).
THEOREM ValueHolds == Spec => []ValueConserved
BY LedgerHolds, InvariantGivesValue, PTL

\* A posting cancelled at once leaves the batches as they were, and can be
\* cancelled unless it took from a batch of its own (_rollback_stock); so does a
\* revaluation that names no warehouse twice (_rollback_revaluation).
THEOREM UnpostingHolds == Spec => []UnpostRestoresBatches
BY LedgerHolds, InvariantGivesUnposting, PTL

-----------------------------------------------------------------------------
(***************************************************************************)
(* What a step may never do.                                               *)
(***************************************************************************)

\* A step posts a document, posts or cancels a revaluation, which changes no
\* quantity, cancels a document, or leaves the batches alone.
Posts(d) ==
  /\ posted' = posted \cup {d} /\ d \notin posted
  /\ \E W : W = ApplyLines(batches, d) /\ W.ok /\ WorkFits(W, batches, d) /\ batches' = W.b
Cancels(d) ==
  /\ posted' = posted \ {d} /\ d \in posted
  /\ DOMAIN batches' = DOMAIN batches
  /\ \A i \in DOMAIN batches : batches'[i].qty < 0 => batches'[i].qty >= batches[i].qty
SameQuantities ==
  /\ DOMAIN batches' = DOMAIN batches
  /\ \A i \in DOMAIN batches : batches'[i].qty = batches[i].qty /\ batches[i].qty \in Int

\* These are all the steps.
LEMMA StepsAre ==
  ASSUME LedgerInv, [Next]_vars
  PROVE  \/ \E d \in Docs : Document[d].type # "pereocenka" /\ Document[d].lines # <<>> /\ Posts(d)
         \/ \E d \in Docs : Cancels(d)
         \/ SameQuantities /\ \A d \in posted' \ posted : Document[d].type = "pereocenka"
<1>1. /\ Consistent(batches, moves, posted) /\ batches \in Seq(AnyBatch)
      /\ \A i \in DOMAIN batches : batches[i].qty \in Int
  BY ConsistentIs DEF LedgerInv, LedgerIs
<1>2. ASSUME NEW d \in Docs, PostDocument(d)
      PROVE  Document[d].type # "pereocenka" /\ Document[d].lines # <<>> /\ Posts(d)
  <2>1. \E W : W = ApplyLines(batches, d) /\ W.ok /\ WorkFits(W, batches, d) /\ batches' = W.b
    BY <1>2, PostDocumentIs
  <2> QED BY <1>2, <2>1 DEF PostDocument, Posts
<1>3. ASSUME NEW d \in Docs, PostRevaluation(d)
      PROVE  SameQuantities /\ \A e \in posted' \ posted : Document[e].type = "pereocenka"
  <2>1. batches' = Revalue(batches, d).b
    BY <1>3 DEF PostRevaluation
  <2>2. Recosted(batches, batches')
    BY <1>1, <2>1, RevalueIs
  <2>3. posted' = posted \cup {d} /\ Document[d].type = "pereocenka"
    BY <1>3 DEF PostRevaluation
  <2> QED BY <1>1, <2>2, <2>3 DEF Recosted, SameQuantities
<1>4. ASSUME NEW d \in Docs, UnpostDocument(d) PROVE Cancels(d)
  <2>1. Undone(batches', batches, d, moves[d])
    BY <1>4 DEF UnpostDocument, Undone
  <2>2. Cleared(moves', moves, d) /\ d \in posted /\ posted' = posted \ {d}
    BY <1>4 DEF UnpostDocument, Cleared
  <2>3. /\ DOMAIN batches' = DOMAIN batches
        /\ \A i \in DOMAIN batches : batches'[i].qty < 0 => batches'[i].qty >= batches[i].qty
    BY <1>1, <2>1, <2>2, UnpostingKeeps, ZenonT(40)
  <2> QED BY <2>2, <2>3 DEF Cancels
<1>5. ASSUME NEW d \in Docs, UnpostRevaluation(d) PROVE SameQuantities /\ posted' \subseteq posted
  <2>1. batches' = RestoreCosts(batches, revLog[d]) /\ posted' = posted \ {d}
    BY <1>5 DEF UnpostRevaluation
  <2>2. LogFits(revLog[d])
    BY DEF LedgerInv, LedgerIs
  <2>3. Recosted(batches, batches')
    BY <1>1, <2>1, <2>2, RestoreIs
  <2> QED BY <1>1, <2>1, <2>3 DEF Recosted, SameQuantities
<1>6. ASSUME ChangeConstants \/ UNCHANGED vars PROVE SameQuantities /\ posted' = posted
  <2>1. batches' = batches /\ posted' = posted
    BY <1>6 DEF ChangeConstants, vars
  <2> QED BY <1>1, <2>1 DEF SameQuantities
<1> QED BY <1>2, <1>3, <1>4, <1>5, <1>6 DEF Next

\* What ControlKeepsBatchesPositive, CostOrderKept and InventoryReachesFact say of a step.
StaysPositive ==
  restock = "by_warehouse" =>
    \A i \in DOMAIN batches' :
      batches'[i].qty < 0 =>
        IF i \in DOMAIN batches THEN batches'[i].qty >= batches[i].qty
        ELSE BringsNegative(batches'[i].src, batches'[i].qty)

TakesInOrder ==
  posted' # posted /\ posted \subseteq posted' =>
    \A i, j \in DOMAIN batches :
      /\ batches[i].sklad = batches[j].sklad
      /\ Precedes(i, j)
      /\ batches'[j].qty < batches[j].qty
      => batches'[i].qty <= 0

LeavesTheFact ==
  \A d \in posted' \ posted :
    Document[d].type = "inventarizaciya" /\ Len(Document[d].lines) = 1 =>
      LET line == Document[d].lines[1] IN OnHand(batches', {line.sklad}) = line.qty

\* No step takes a batch below zero under the control by warehouse.
LEMMA StepStaysPositive ==
  LedgerInv /\ [Next]_vars => StaysPositive
<1> SUFFICES ASSUME LedgerInv, [Next]_vars, restock = "by_warehouse",
                    NEW i \in DOMAIN batches', batches'[i].qty < 0
             PROVE  IF i \in DOMAIN batches THEN batches'[i].qty >= batches[i].qty
                    ELSE BringsNegative(batches'[i].src, batches'[i].qty)
  BY DEF StaysPositive
<1>1. ASSUME NEW d \in Docs, Posts(d)
      PROVE  /\ i \in DOMAIN batches => batches'[i].qty >= batches[i].qty
             /\ i \notin DOMAIN batches => BringsNegative(batches'[i].src, batches'[i].qty)
  <2>1. PICK W : WorkFits(W, batches, d) /\ batches' = W.b
    BY <1>1 DEF Posts
  <2>2. ASSUME i \notin DOMAIN batches PROVE BringsNegative(batches'[i].src, batches'[i].qty)
    <3>1. /\ W.b[i].src = d
          /\ AllowNegative(Document[d].type) \/ BringsNegative(d, W.b[i].qty)
      BY <2>1, <2>2, NewIs
    <3>2. ~ AllowNegative(Document[d].type)
      BY DEF AllowNegative
    <3> QED BY <2>1, <3>1, <3>2
  <2>3. ASSUME i \in DOMAIN batches PROVE batches'[i].qty >= batches[i].qty
    <3>1. batches'[i].qty = batches[i].qty
      BY <2>1, <2>3, OldIs
    <3>2. batches[i].qty \in Int
      BY <2>1, <2>3, WorkIs
    <3> QED BY <3>1, <3>2
  <2> QED BY <2>2, <2>3
<1>2. ASSUME NEW d \in Docs, Cancels(d)
      PROVE  i \in DOMAIN batches /\ batches'[i].qty >= batches[i].qty
  BY <1>2 DEF Cancels
<1>3. ASSUME SameQuantities
      PROVE  i \in DOMAIN batches /\ batches'[i].qty >= batches[i].qty
  BY <1>3 DEF SameQuantities
<1> QED BY <1>1, <1>2, <1>3, StepsAre

\* A posting takes in the order of the method.
LEMMA StepTakesInOrder ==
  LedgerInv /\ [Next]_vars => TakesInOrder
<1> SUFFICES ASSUME LedgerInv, [Next]_vars, posted' # posted, posted \subseteq posted',
                    NEW i \in DOMAIN batches, NEW j \in DOMAIN batches,
                    batches[i].sklad = batches[j].sklad, Precedes(i, j),
                    batches'[j].qty < batches[j].qty
             PROVE  batches'[i].qty <= 0
  BY DEF TakesInOrder
<1>1. ASSUME NEW d \in Docs, Posts(d) PROVE batches'[i].qty <= 0
  <2>1. PICK W : WorkFits(W, batches, d) /\ batches' = W.b
    BY <1>1 DEF Posts
  <2>2. InOrder(W, batches)
    BY <2>1 DEF WorkFits
  <2> QED BY <2>1, <2>2 DEF InOrder
<1>2. ASSUME NEW d \in Docs, Cancels(d) PROVE FALSE
  BY <1>2 DEF Cancels
<1>3. ASSUME SameQuantities PROVE FALSE
  BY <1>3 DEF SameQuantities
<1> QED BY <1>1, <1>2, <1>3, StepsAre

\* The balance a transaction begins with is what the warehouse holds.
LEMMA BalanceOfBegun ==
  ASSUME NEW b, b \in Seq(AnyBatch), NEW sklad
  PROVE  Balance(Begin(b), {sklad}) = OnHand(b, {sklad})
<1>1. Begin(b).b = b /\ Begin(b).db = Quantities(b)
  BY DEF Begin
<1>2. \A i \in InWarehouse(b, sklad) : Quantities(b)[i] = b[i].qty
  BY DEF Quantities, InWarehouse
<1>3. [i \in InWarehouse(b, sklad) |-> Quantities(b)[i]] = [i \in InWarehouse(b, sklad) |-> b[i].qty]
  BY <1>2
<1>4. Balance(Begin(b), {sklad})
        = SumFunctionOnSet([i \in InWarehouse(b, sklad) |-> Quantities(b)[i]], InWarehouse(b, sklad))
  BY <1>1 DEF Balance, SumOver, InWarehouse
<1> QED BY <1>3, <1>4, OnHandIsSum

\* What a warehouse holds, and what is left after a consumption that may not
\* overdraw it.
Stock(b, sklad) == OnHand(b, {sklad})
Drains(V, W, d, sklad, qty, allow) == V = Consume(W, d, sklad, qty, method, allow).W

\* A consumption that may not overdraw takes what it was asked for, or fails.
LEMMA ConsumedExactly ==
  ASSUME NEW b0, NEW d, NEW W, WorkFits(W, b0, d), NEW sklad \in Sklady, NEW qty \in Nat,
         NEW allow \in BOOLEAN, ~ allow
  PROVE  LET D == Consume(W, d, sklad, qty, method, allow) IN
         WorkFits(D.W, b0, d) /\ (D.W.ok => OnHand(D.W.b, {sklad}) = OnHand(W.b, {sklad}) - qty)
<1>1. allow => AllowNegative(Document[d].type)
  OBVIOUS
<1>2. qty \in Int
  OBVIOUS
<1>3. PICK D : D = Consume(W, d, sklad, qty, method, allow)
  OBVIOUS
<1>4. WorkFits(D.W, b0, d) /\ Drawn(D.W, W, sklad, qty, allow)
  BY <1>1, <1>2, <1>3, ConsumeFits
<1>5. D.W.ok => OnHand(D.W.b, {sklad}) = OnHand(W.b, {sklad}) - qty
  BY <1>2, <1>4 DEF Drawn
<1> QED BY <1>3, <1>4, <1>5

\* The same of what the warehouse then holds.
LEMMA DrainedExactly ==
  ASSUME NEW b0, NEW d, NEW W, WorkFits(W, b0, d), NEW sklad \in Sklady, NEW qty \in Nat,
         NEW allow \in BOOLEAN, ~ allow, NEW V, Drains(V, W, d, sklad, qty, allow), V.ok
  PROVE  Stock(V.b, sklad) = Stock(W.b, sklad) - qty
<1>1. LET D == Consume(W, d, sklad, qty, method, allow) IN
      D.W.ok => OnHand(D.W.b, {sklad}) = OnHand(W.b, {sklad}) - qty
  BY ConsumedExactly
<1> QED BY <1>1 DEF Drains, Stock

\* The posting of document d makes b2 of the batches b.
Makes(b2, b, d) == \E W : W = ApplyLines(b, d) /\ W.ok /\ b2 = W.b

\* An inventory of one line leaves what was counted.
LEMMA CountedOnce ==
  ASSUME NEW b, b \in Seq(AnyBatch), NEW d, d \in Docs, Document[d].type = "inventarizaciya",
         Len(Document[d].lines) = 1, NEW line, line = Document[d].lines[1],
         NEW b2, Makes(b2, b, d)
  PROVE  OnHand(b2, {line.sklad}) = line.qty
<1>0. PICK W : W = ApplyLines(b, d) /\ W.ok /\ b2 = W.b
  BY DEF Makes
<1>1. line.sklad \in Sklady /\ line.qty \in Int /\ line.price \in Int
  BY LineFields
<1>2. PICK after : Posting(after, b, d)
  <2>1. Len(Document[d].lines) \in Nat
    OBVIOUS
  <2> QED BY <2>1, PostingUnfolds
<1>3. after[0] = CheckStock(Begin(b), d) /\ W = LineStep(after[0], d, line)
  <2>1. 1 \in 1 .. 1 /\ 1 - 1 = 0
    OBVIOUS
  <2> QED BY <1>0, <1>2, <2>1 DEF Posting
<1>4. PICK Z : Z = Begin(b)
  OBVIOUS
<1>5. after[0] = Z
  BY <1>3, <1>4 DEF CheckStock
<1>6. WorkFits(Z, b, d) /\ Z.b = b /\ Z.ok
  BY <1>4, BeginFits
<1>7. Balance(Z, {line.sklad}) = OnHand(b, {line.sklad}) /\ OnHand(b, {line.sklad}) \in Int
  BY <1>4, BalanceOfBegun, OnHandIsSum
<1>8. W = ApplyInventoryLine(Z, d, line)
  BY <1>3, <1>5, <1>6 DEF LineStep
<1>9. PICK deviation \in Int : deviation = line.qty - OnHand(b, {line.sklad})
  BY <1>1, <1>7
<1>13. W = IF deviation > 0 THEN CreateIncoming(Z, d, line.sklad, deviation, line.price)
           ELSE IF deviation < 0 THEN Consume(Z, d, line.sklad, -deviation, method, FALSE).W
           ELSE Z
  BY <1>7, <1>8, <1>9 DEF ApplyInventoryLine
<1>10. CASE deviation > 0
  <2>1. W = CreateIncoming(Z, d, line.sklad, deviation, line.price)
    BY <1>10, <1>13
  <2>2. PICK x : x = [sklad |-> line.sklad, qty |-> deviation, cost |-> line.price, src |-> d]
    OBVIOUS
  <2>3. W.b = Append(b, x)
    <3>1. deviation \in Nat /\ Document[d].type \notin Outgoing
      BY <1>10 DEF Outgoing
    <3> QED BY <1>1, <1>6, <2>1, <2>2, <3>1, CreateFits, SMTT(30)
  <2>4. x \in AnyBatch /\ x.sklad = line.sklad /\ x.qty = deviation
    BY <1>1, <2>2 DEF AnyBatch
  <2>5. OnHand(b2, {x.sklad}) = OnHand(b, {x.sklad}) + x.qty
    BY <1>0, <2>3, <2>4, OnHandEntered
  <2> QED BY <1>1, <1>7, <1>9, <2>4, <2>5
<1>11. CASE deviation < 0
  <2>1. PICK q \in Nat : q = -deviation
    BY <1>11
  <2>2. W = Consume(Z, d, line.sklad, q, method, FALSE).W
    <3>1. ~ (deviation > 0)
      BY <1>11
    <3> QED BY <1>11, <1>13, <2>1, <3>1
  <2>3. PICK allow : allow = FALSE
    OBVIOUS
  <2>4. Drains(W, Z, d, line.sklad, q, allow)
    BY <2>2, <2>3 DEF Drains
  <2>5. allow \in BOOLEAN /\ ~ allow
    BY <2>3
  <2>6. Stock(W.b, line.sklad) = Stock(Z.b, line.sklad) - q
    BY <1>0, <1>1, <1>6, <2>4, <2>5, DrainedExactly
  <2>7. PICK had \in Int : had = Stock(b, line.sklad)
    BY <1>7 DEF Stock
  <2>8. PICK fact \in Int : fact = line.qty
    BY <1>1
  <2>9. deviation = fact - had
    BY <1>9, <2>7, <2>8 DEF Stock
  <2>10. Stock(b2, line.sklad) = had - q
    BY <1>0, <1>6, <2>6, <2>7
  <2>11. Stock(b2, line.sklad) = fact
    BY <2>1, <2>9, <2>10
  <2> QED BY <2>8, <2>11 DEF Stock
<1>12. CASE deviation = 0
  <2>1. W = Z
    <3>1. ~ (deviation > 0) /\ ~ (deviation < 0)
      BY <1>12
    <3> QED BY <1>13, <3>1
  <2> QED BY <1>0, <1>1, <1>6, <1>7, <1>9, <1>12, <2>1
<1> QED BY <1>10, <1>11, <1>12

\* A step that posts such an inventory does.
LEMMA StepLeavesTheFact ==
  LedgerInv /\ [Next]_vars => LeavesTheFact
<1> SUFFICES ASSUME LedgerInv, [Next]_vars, NEW d \in posted' \ posted,
                    Document[d].type = "inventarizaciya", Len(Document[d].lines) = 1,
                    NEW line, line = Document[d].lines[1]
             PROVE  OnHand(batches', {line.sklad}) = line.qty
  BY DEF LeavesTheFact
<1>1. ASSUME NEW e \in Docs, Posts(e) PROVE OnHand(batches', {line.sklad}) = line.qty
  <2>1. e = d
    BY <1>1 DEF Posts
  <2>2. Makes(batches', batches, d) /\ batches \in Seq(AnyBatch)
    BY <1>1, <2>1, WorkIs DEF Posts, Makes
  <2>3. d \in Docs
    BY <1>1, <2>1
  <2> QED BY <2>2, <2>3, CountedOnce
<1>2. ASSUME NEW e \in Docs, Cancels(e) PROVE FALSE
  BY <1>2 DEF Cancels
<1>3. ASSUME \A e \in posted' \ posted : Document[e].type = "pereocenka" PROVE FALSE
  BY <1>3
<1> QED BY <1>1, <1>2, <1>3, StepsAre

\* Under the control by warehouse no step takes a batch below zero, and none is
\* made below zero but by a line below zero (consume_batches, create_incoming).
THEOREM PositiveHolds == Spec => ControlKeepsBatchesPositive
<1>1. LedgerInv /\ [Next]_vars => [StaysPositive]_vars
  BY StepStaysPositive
<1>2. Spec => [][StaysPositive]_vars
  BY <1>1, LedgerHolds, PTL DEF Spec
<1> QED BY <1>2 DEF ControlKeepsBatchesPositive, StaysPositive

\* A posting takes the batches in the order of the method.
THEOREM CostOrderHolds == Spec => CostOrderKept
<1>1. LedgerInv /\ [Next]_vars => [TakesInOrder]_vars
  BY StepTakesInOrder
<1>2. Spec => [][TakesInOrder]_vars
  BY <1>1, LedgerHolds, PTL DEF Spec
<1> QED BY <1>2 DEF CostOrderKept, TakesInOrder

\* The posting of an inventory that counts a warehouse once leaves the fact.
THEOREM InventoryHolds == Spec => InventoryReachesFact
<1>1. LedgerInv /\ [Next]_vars => [LeavesTheFact]_vars
  BY StepLeavesTheFact
<1>2. Spec => [][LeavesTheFact]_vars
  BY <1>1, LedgerHolds, PTL DEF Spec
<1> QED BY <1>2 DEF InventoryReachesFact, LeavesTheFact

-----------------------------------------------------------------------------
(***************************************************************************)
(* The shifts of the cash desks.                                           *)
(***************************************************************************)

\* The money of a posted document, and of no other.
MoneyFits ==
  /\ DOMAIN money = AllDocs
  /\ \A d \in AllDocs : money[d] \in {<<>>, MoneyRows(d)}

ShiftFits(s, day) ==
  /\ s.status \in {"open", "closed"}
  /\ s.opened \in 0 .. day
  /\ s.status = "closed" => s.closed \in 0 .. day

Opens(x) == x.pc \in {"check", "insert"}

\* As long as no two openings met, shifts follow one another, and one is
\* opened when all the others are closed.
InTurn ==
  /\ \A i, j \in DOMAIN shifts : i < j =>
       /\ shifts[i].status = "closed"
       /\ i \notin reclosed => shifts[i].closed <= shifts[j].opened
  /\ \A q, r \in Requests : Opens(req[q]) /\ Opens(req[r]) => q = r
  /\ (\E r \in Requests : Opens(req[r])) => \A i \in DOMAIN shifts : shifts[i].status = "closed"

ShiftsInv ==
  /\ today \in Nat
  /\ shifts \in Seq(Shift) /\ Len(shifts) \in Nat /\ DOMAIN shifts = 1 .. Len(shifts)
  /\ \A i \in DOMAIN shifts : ShiftFits(shifts[i], today)
  /\ DOMAIN req = Requests
  /\ \A r \in Requests : req[r].pc = "close" => req[r].shift \in DOMAIN shifts
  /\ \A r \in Requests : Opens(req[r]) => req[r].kassa \in Kassy \cup {NoOne}
  /\ ~ overlapped => InTurn

TillInv == MoneyFits /\ ShiftsInv

\* The register of money is written by posting and cancelling only.
LEMMA MoneyStep ==
  ASSUME MoneyFits, BooksNext
  PROVE  MoneyFits'
<1>1. ASSUME NEW d \in AllDocs, NEW rows \in {<<>>, MoneyRows(d)}, money' = [money EXCEPT ![d] = rows]
      PROVE  MoneyFits'
  <2>1. DOMAIN money' = AllDocs /\ money'[d] = rows /\ \A e \in AllDocs \ {d} : money'[e] = money[e]
    BY <1>1 DEF MoneyFits
  <2>2. \A e \in AllDocs : money'[e] \in {<<>>, MoneyRows(e)}
    BY <1>1, <2>1 DEF MoneyFits
  <2> QED BY <2>1, <2>2 DEF MoneyFits
<1>2. ASSUME NEW d \in Docs, PostGoods(d) PROVE MoneyFits'
  BY <1>1, <1>2 DEF PostGoods, Enter, AllDocs
<1>3. ASSUME NEW d \in Docs, UnpostGoods(d) PROVE MoneyFits'
  BY <1>1, <1>3 DEF UnpostGoods, DeleteMovements, AllDocs
<1>4. ASSUME NEW d \in Payments, PostPayment(d) PROVE MoneyFits'
  BY <1>1, <1>4 DEF PostPayment, Enter, AllDocs
<1>5. ASSUME NEW d \in Payments, UnpostPayment(d) PROVE MoneyFits'
  BY <1>1, <1>5 DEF UnpostPayment, DeleteMovements, AllDocs
<1> QED BY <1>2, <1>3, <1>4, <1>5 DEF BooksNext

\* A request that opens nothing and keeps its shift leaves the shifts in turn.
LEMMA RequestStep ==
  ASSUME ShiftsInv, NEW r \in Requests, NEW x, req' = [req EXCEPT ![r] = x],
         shifts' = shifts, today' = today, overlapped' = overlapped, reclosed' = reclosed,
         x.pc = "close" => x.shift \in DOMAIN shifts,
         x.pc \in {"check", "insert"} => Opens(req[r]) /\ x.kassa = req[r].kassa
  PROVE  ShiftsInv'
<1>1. DOMAIN req' = Requests /\ req'[r] = x /\ \A q \in Requests \ {r} : req'[q] = req[q]
  BY DEF ShiftsInv
<1>2. \A q \in Requests : Opens(req'[q]) => Opens(req[q])
  BY <1>1 DEF Opens
<1>3. \A q \in Requests : req'[q].pc = "close" => req'[q].shift \in DOMAIN shifts
  BY <1>1 DEF ShiftsInv
<1>4. ~ overlapped => InTurn'
  BY <1>2 DEF ShiftsInv, InTurn
<1>5. \A q \in Requests : Opens(req'[q]) => req'[q].kassa \in Kassy \cup {NoOne}
  BY <1>1 DEF ShiftsInv, Opens
<1> QED BY <1>1, <1>3, <1>4, <1>5 DEF ShiftsInv, ShiftFits

\* An opening begins when every shift is closed.
LEMMA BeginOpenStep ==
  ASSUME ShiftsInv, NEW r \in Requests, NEW kassa \in Kassy \cup {NoOne}, BeginOpen(r, kassa)
  PROVE  ShiftsInv'
<1>1. /\ req' = [req EXCEPT ![r] = [pc |-> "check", kassa |-> kassa]]
      /\ shifts' = shifts /\ today' = today /\ reclosed' = reclosed
      /\ overlapped' = (overlapped \/ \E q \in Requests : Opens(req[q]))
      /\ \A i \in DOMAIN shifts : shifts[i].status # "open"
  BY DEF BeginOpen, OpenShifts, Opens
<1>2. /\ DOMAIN req' = Requests /\ req'[r].pc = "check" /\ req'[r].kassa = kassa
      /\ \A q \in Requests \ {r} : req'[q] = req[q]
  BY <1>1 DEF ShiftsInv
<1>3. \A q \in Requests : req'[q].pc = "close" => req'[q].shift \in DOMAIN shifts
  BY <1>2 DEF ShiftsInv
<1>4. ~ overlapped' => InTurn'
  <2> SUFFICES ASSUME ~ overlapped' PROVE InTurn'
    OBVIOUS
  <2>1. ~ overlapped /\ \A q \in Requests : ~ Opens(req[q])
    BY <1>1
  <2>2. \A q \in Requests : Opens(req'[q]) => q = r
    BY <1>2, <2>1 DEF Opens
  <2>3. \A i \in DOMAIN shifts : shifts[i].status = "closed"
    BY <1>1 DEF ShiftsInv, ShiftFits
  <2>4. InTurn
    BY <2>1 DEF ShiftsInv
  <2> QED BY <1>1, <2>2, <2>3, <2>4 DEF InTurn
<1>5. \A q \in Requests : Opens(req'[q]) => req'[q].kassa \in Kassy \cup {NoOne}
  BY <1>2 DEF ShiftsInv, Opens
<1> QED BY <1>1, <1>2, <1>3, <1>4, <1>5 DEF ShiftsInv, ShiftFits

\* The shift that is opened comes after all the others.
LEMMA InsertShiftStep ==
  ASSUME ShiftsInv, NEW r \in Requests, InsertShift(r)
  PROVE  ShiftsInv'
<1> DEFINE n == Len(shifts)
<1>1. PICK s : /\ s = [kassa |-> req[r].kassa, status |-> "open", opened |-> today, closed |-> NoOne]
               /\ shifts' = Append(shifts, s)
  BY DEF InsertShift
<1>2. /\ req[r].pc = "insert" /\ req' = [req EXCEPT ![r] = Idle]
      /\ today' = today /\ overlapped' = overlapped /\ reclosed' = reclosed
  BY DEF InsertShift
<1>0. s \in Shift
  BY <1>1, <1>2 DEF ShiftsInv, Opens, Shift
<1>3. /\ shifts' \in Seq(Shift)
      /\ Len(shifts') = n + 1 /\ DOMAIN shifts' = 1 .. n + 1 /\ n \in Nat /\ DOMAIN shifts = 1 .. n
      /\ \A i \in DOMAIN shifts : shifts'[i] = shifts[i]
      /\ shifts'[n + 1] = s
  <2>1. shifts \in Seq(Shift)
    BY DEF ShiftsInv
  <2>2. PICK t : t = shifts'
    OBVIOUS
  <2>3. t = Append(shifts, s)
    BY <1>1, <2>2
  <2>4. /\ t \in Seq(Shift) /\ Len(shifts) \in Nat /\ Len(t) = Len(shifts) + 1
        /\ DOMAIN shifts = 1 .. Len(shifts) /\ DOMAIN t = 1 .. Len(shifts) + 1
        /\ \A k \in DOMAIN shifts : t[k] = shifts[k]
        /\ t[Len(shifts) + 1] = s
    BY <1>0, <2>1, <2>3, Appended
  <2> QED BY <2>2, <2>4
<1> HIDE DEF n
<1>4. s.status = "open" /\ s.opened = today
  BY <1>1
<1>5. \A i \in DOMAIN shifts' : ShiftFits(shifts'[i], today')
  BY <1>2, <1>3, <1>4 DEF ShiftsInv, ShiftFits
<1>6. DOMAIN req' = Requests /\ req'[r].pc = "idle" /\ \A q \in Requests \ {r} : req'[q] = req[q]
  BY <1>2 DEF ShiftsInv, Idle
<1>7. \A q \in Requests : req'[q].pc = "close" => req'[q].shift \in DOMAIN shifts'
  BY <1>3, <1>6 DEF ShiftsInv
<1>8. ~ overlapped => InTurn'
  <2> SUFFICES ASSUME ~ overlapped PROVE InTurn'
    OBVIOUS
  <2>1. InTurn /\ Opens(req[r])
    BY <1>2 DEF ShiftsInv, Opens
  <2>2. \A i \in DOMAIN shifts : shifts[i].status = "closed" /\ shifts[i].closed <= today
    BY <2>1 DEF InTurn, ShiftsInv, ShiftFits
  <2>3. \A q \in Requests : ~ Opens(req'[q])
    BY <1>6, <2>1 DEF InTurn, Opens
  <2>4. ASSUME NEW i \in DOMAIN shifts', NEW j \in DOMAIN shifts', i < j
        PROVE  /\ shifts'[i].status = "closed"
               /\ i \notin reclosed => shifts'[i].closed <= shifts'[j].opened
    <3>1. i \in DOMAIN shifts /\ shifts'[i] = shifts[i]
      BY <1>3, <2>4
    <3>2. CASE j = n + 1
      BY <1>3, <1>4, <2>2, <3>1, <3>2
    <3>3. CASE j # n + 1
      <4>1. j \in DOMAIN shifts /\ shifts'[j] = shifts[j]
        BY <1>3, <3>3
      <4> QED BY <2>1, <2>4, <3>1, <4>1 DEF InTurn
    <3> QED BY <3>2, <3>3
  <2> QED BY <1>2, <2>3, <2>4 DEF InTurn
<1>9. \A q \in Requests : Opens(req'[q]) => req'[q].kassa \in Kassy \cup {NoOne}
  BY <1>6 DEF ShiftsInv, Opens
<1> QED BY <1>2, <1>3, <1>5, <1>6, <1>7, <1>8, <1>9 DEF ShiftsInv

\* A shift that is closed for the first time is the last one.
LEMMA CloseShiftStep ==
  ASSUME ShiftsInv, NEW r \in Requests, CloseShift(r)
  PROVE  ShiftsInv'
<1>1. PICK c : c = req[r].shift
  OBVIOUS
<1>2. c \in DOMAIN shifts /\ req' = [req EXCEPT ![r] = Idle] /\ today' = today /\ overlapped' = overlapped
  BY <1>1 DEF CloseShift, ShiftsInv
<1>3. /\ shifts' = [shifts EXCEPT ![c].status = "closed", ![c].closed = today]
      /\ reclosed' = IF shifts[c].status = "closed" THEN reclosed \cup {c} ELSE reclosed
  BY <1>1 DEF CloseShift
<1>4. /\ DOMAIN shifts' = DOMAIN shifts /\ shifts' \in Seq(Shift) /\ Len(shifts') = Len(shifts)
      /\ shifts'[c].status = "closed" /\ shifts'[c].closed = today /\ shifts'[c].opened = shifts[c].opened
      /\ \A i \in DOMAIN shifts \ {c} : shifts'[i] = shifts[i]
  <2>1. shifts \in Seq(Shift) /\ shifts[c] \in Shift /\ today \in Nat
    BY <1>2 DEF ShiftsInv
  <2>2. PICK s : s = [shifts[c] EXCEPT !.status = "closed", !.closed = today]
    OBVIOUS
  <2>3. s \in Shift /\ s.status = "closed" /\ s.closed = today /\ s.opened = shifts[c].opened
    BY <2>1, <2>2 DEF Shift
  <2>4. PICK t : t = shifts'
    OBVIOUS
  <2>5. t = [shifts EXCEPT ![c] = s]
    BY <1>2, <1>3, <2>2, <2>4
  <2>6. /\ t \in Seq(Shift) /\ Len(t) = Len(shifts) /\ DOMAIN t = DOMAIN shifts /\ t[c] = s
        /\ \A j \in DOMAIN shifts \ {c} : t[j] = shifts[j]
    BY <1>2, <2>1, <2>3, <2>5, Replaced
  <2> QED BY <2>3, <2>4, <2>6
<1>6. \A i \in DOMAIN shifts' : ShiftFits(shifts'[i], today')
  BY <1>2, <1>4, SMTT(30) DEF ShiftsInv, ShiftFits
<1>7. DOMAIN req' = Requests /\ req'[r].pc = "idle" /\ \A q \in Requests \ {r} : req'[q] = req[q]
  BY <1>2 DEF ShiftsInv, Idle
<1>8. \A q \in Requests : req'[q].pc = "close" => req'[q].shift \in DOMAIN shifts'
  BY <1>4, <1>7 DEF ShiftsInv
<1>9. ~ overlapped => InTurn'
  <2> SUFFICES ASSUME ~ overlapped PROVE InTurn'
    OBVIOUS
  <2>1. InTurn
    BY DEF ShiftsInv
  <2>2. \A q \in Requests : Opens(req'[q]) => Opens(req[q])
    BY <1>7 DEF Opens
  <2>3. \A i \in DOMAIN shifts : shifts[i].status = "closed" => shifts'[i].status = "closed"
    BY <1>4
  <2>4. ASSUME NEW i \in DOMAIN shifts, NEW j \in DOMAIN shifts, i < j
        PROVE  /\ shifts'[i].status = "closed"
               /\ i \notin reclosed' => shifts'[i].closed <= shifts'[j].opened
    <3>1. shifts[i].status = "closed" /\ (i \notin reclosed => shifts[i].closed <= shifts[j].opened)
      BY <2>1, <2>4 DEF InTurn
    <3>2. shifts'[j].opened = shifts[j].opened
      BY <1>4
    <3>3. CASE i = c
      BY <1>3, <1>4, <3>1, <3>3
    <3>4. CASE i # c
      BY <1>3, <1>4, <3>1, <3>2, <3>4
    <3> QED BY <3>3, <3>4
  <2> QED BY <1>4, <2>1, <2>2, <2>3, <2>4 DEF InTurn
<1>10. \A q \in Requests : Opens(req'[q]) => req'[q].kassa \in Kassy \cup {NoOne}
  BY <1>7 DEF ShiftsInv, Opens
<1> QED BY <1>2, <1>4, <1>6, <1>7, <1>8, <1>9, <1>10 DEF ShiftsInv

\* Every step of the till keeps the shifts in turn.
LEMMA ShiftsStep ==
  ASSUME ShiftsInv, ShiftsNext
  PROVE  ShiftsInv'
<1>1. ASSUME NEW r \in Requests, CheckOpen(r) PROVE ShiftsInv'
  <2>1. PICK x : x = IF OpenShifts(req[r].kassa) # {} THEN Idle ELSE [req[r] EXCEPT !.pc = "insert"]
    OBVIOUS
  <2>2. /\ req' = [req EXCEPT ![r] = x] /\ req[r].pc = "check"
        /\ shifts' = shifts /\ today' = today /\ overlapped' = overlapped /\ reclosed' = reclosed
    BY <1>1, <2>1 DEF CheckOpen
  <2>3. x.pc # "close"
    BY <2>1, <2>2 DEF Idle
  <2>4. Opens(req[r]) /\ (x.pc \in {"check", "insert"} => x.kassa = req[r].kassa)
    BY <2>1, <2>2 DEF Opens, Idle
  <2> QED BY <2>2, <2>3, <2>4, RequestStep
<1>2. ASSUME NEW r \in Requests, BeginClose(r) PROVE ShiftsInv'
  <2>1. PICK i \in OpenShifts(NoOne) : req' = [req EXCEPT ![r] = [pc |-> "close", shift |-> i]]
    BY <1>2 DEF BeginClose
  <2>2. PICK x : x = [pc |-> "close", shift |-> i]
    OBVIOUS
  <2>3. /\ req' = [req EXCEPT ![r] = x] /\ x.pc = "close" /\ x.shift \in DOMAIN shifts
        /\ shifts' = shifts /\ today' = today /\ overlapped' = overlapped /\ reclosed' = reclosed
    BY <1>2, <2>1, <2>2 DEF BeginClose, OpenShifts
  <2> QED BY <2>3, RequestStep
<1>3. ASSUME NEW r \in Requests, FailRequest(r) PROVE ShiftsInv'
  <2>1. /\ req' = [req EXCEPT ![r] = Idle] /\ Idle.pc = "idle"
        /\ shifts' = shifts /\ today' = today /\ overlapped' = overlapped /\ reclosed' = reclosed
    BY <1>3 DEF FailRequest, Idle
  <2> QED BY <2>1, RequestStep
<1>4. CASE NextDay
  <2>1. /\ shifts' = shifts /\ req' = req /\ overlapped' = overlapped /\ reclosed' = reclosed
        /\ today' = today + 1
    BY <1>4 DEF NextDay
  <2>2. \A i \in DOMAIN shifts : ShiftFits(shifts'[i], today')
    BY <2>1 DEF ShiftsInv, ShiftFits
  <2>3. InTurn => InTurn'
    BY <2>1 DEF InTurn, Opens
  <2> QED BY <2>1, <2>2, <2>3 DEF ShiftsInv
<1> QED BY <1>1, <1>2, <1>3, <1>4, BeginOpenStep, InsertShiftStep, CloseShiftStep DEF ShiftsNext

\* The invariant of the till.
THEOREM TillHolds == TillSpec => []TillInv
<1>1. BooksInit /\ ShiftsInit => TillInv
  <2> SUFFICES ASSUME BooksInit, ShiftsInit PROVE TillInv
    OBVIOUS
  <2>1. MoneyFits
    BY DEF BooksInit, MoneyFits
  <2>2. \A r \in Requests : req[r].pc = "idle"
    BY DEF ShiftsInit, Idle
  <2>3. Len(shifts) = 0 /\ DOMAIN shifts = {} /\ 1 .. 0 = {}
    BY DEF ShiftsInit
  <2>4. ShiftsInv
    BY <2>2, <2>3 DEF ShiftsInit, ShiftsInv, InTurn, Opens
  <2> QED BY <2>1, <2>4 DEF TillInv
<1>2. TillInv /\ [TillNext]_<<vars, registers, till>> => TillInv'
  <2> SUFFICES ASSUME TillInv, [TillNext]_<<vars, registers, till>> PROVE TillInv'
    OBVIOUS
  <2>1. CASE BooksNext /\ UNCHANGED till
    <3>1. MoneyFits'
      BY <2>1, MoneyStep DEF TillInv
    <3>2. ShiftsInv'
      BY <2>1 DEF TillInv, till, ShiftsInv, ShiftFits, InTurn, Opens
    <3> QED BY <3>1, <3>2 DEF TillInv
  <2>2. CASE ShiftsNext /\ UNCHANGED <<vars, registers>>
    <3>1. MoneyFits'
      BY <2>2 DEF TillInv, registers, MoneyFits
    <3>2. ShiftsInv'
      BY <2>2, ShiftsStep DEF TillInv
    <3> QED BY <3>1, <3>2 DEF TillInv
  <2>3. CASE UNCHANGED <<vars, registers, till>>
    <3>1. MoneyFits'
      BY <2>3 DEF TillInv, registers, MoneyFits
    <3>2. ShiftsInv'
      BY <2>3 DEF TillInv, till, ShiftsInv, ShiftFits, InTurn, Opens
    <3> QED BY <3>1, <3>2 DEF TillInv
  <2> QED BY <2>1, <2>2, <2>3 DEF TillNext
<1> QED BY <1>1, <1>2, PTL DEF TillSpec

\* Shifts follow one another, so that no money is counted in two of them but
\* on the day one was closed and the other opened.
LEMMA InvariantGivesShifts ==
  TillInv => ShiftsCountOnce
<1> SUFFICES ASSUME TillInv, ~ overlapped
             PROVE  /\ Cardinality(OpenShifts(NoOne)) <= 1
                    /\ \A i, j \in DOMAIN shifts :
                         i < j /\ i \notin reclosed =>
                           \A r \in RowsIn(money) :
                             LET m == money[r[1]][r[2]] IN
                             InWindow(shifts[i], m) /\ InWindow(shifts[j], m) =>
                               m.date = shifts[i].closed /\ m.date = shifts[j].opened
  BY DEF ShiftsCountOnce
<1>1. InTurn /\ ShiftsInv
  BY DEF TillInv, ShiftsInv
<1>2. Cardinality(OpenShifts(NoOne)) <= 1
  <2>1. OpenShifts(NoOne) \subseteq {Len(shifts)}
    <3> SUFFICES ASSUME NEW i \in OpenShifts(NoOne), i # Len(shifts) PROVE FALSE
      OBVIOUS
    <3>1. i \in DOMAIN shifts /\ shifts[i].status = "open"
      BY DEF OpenShifts
    <3>2. Len(shifts) \in DOMAIN shifts /\ i < Len(shifts)
      BY <1>1, <3>1 DEF ShiftsInv
    <3> QED BY <1>1, <3>1, <3>2 DEF InTurn
  <2>2. IsFiniteSet({Len(shifts)}) /\ Cardinality({Len(shifts)}) = 1
    BY FS_Singleton
  <2>3. Cardinality(OpenShifts(NoOne)) <= Cardinality({Len(shifts)})
    BY <2>1, <2>2, FS_Subset
  <2> QED BY <2>2, <2>3
<1>3. ASSUME NEW i \in DOMAIN shifts, NEW j \in DOMAIN shifts, i < j, i \notin reclosed,
             NEW r \in RowsIn(money), NEW m, m = money[r[1]][r[2]],
             InWindow(shifts[i], m), InWindow(shifts[j], m)
      PROVE  m.date = shifts[i].closed /\ m.date = shifts[j].opened
  <2>1. m.date \in Nat
    <3>1. PICK d \in AllDocs : r \in {<<d, k>> : k \in DOMAIN money[d]}
      BY <1>3 DEF RowsIn, TillInv, MoneyFits
    <3>2. r[1] = d /\ r[2] \in DOMAIN money[d]
      BY <3>1
    <3>3. money[d] = MoneyRows(d) /\ MoneyOf(d) # 0
      <4>1. money[d] # <<>>
        BY <3>2
      <4> QED BY <4>1 DEF TillInv, MoneyFits, MoneyRows
    <3>4. money[d] = <<[date |-> Header[d].date, kassa |-> Header[d].kassa, amount |-> MoneyOf(d) * TotalOf(d)]>>
      BY <3>3 DEF MoneyRows
    <3>5. r[2] = 1
      BY <3>2, <3>4
    <3>6. m.date = Header[d].date
      BY <1>3, <3>2, <3>4, <3>5
    <3> QED BY <3>6, BooksAssumption DEF Dates
  <2>2. shifts[i].status = "closed" /\ shifts[i].closed <= shifts[j].opened
    BY <1>1, <1>3 DEF InTurn
  <2>3. shifts[i].closed \in Nat /\ shifts[j].opened \in Nat
    BY <1>1, <2>2 DEF ShiftsInv, ShiftFits
  <2>4. shifts[i].closed # NoOne
    BY <2>3, ShiftsAssumption
  <2>5. m.date <= shifts[i].closed /\ m.date >= shifts[j].opened
    BY <1>3, <2>4 DEF InWindow
  <2> QED BY <2>1, <2>2, <2>3, <2>5
<1> QED BY <1>2, <1>3

\* Nothing is counted twice by two shifts but on the day they share.
THEOREM ShiftsHold == TillSpec => []ShiftsCountOnce
BY TillHolds, InvariantGivesShifts, PTL

-----------------------------------------------------------------------------
(***************************************************************************)
(* The books: sums over the documents.                                     *)
(***************************************************************************)

\* Two sums added up, one summand after the other.
LEMMA SumAdd ==
  ASSUME NEW f, NEW g, NEW h, NEW S, IsFiniteSet(S),
         \A x \in S : f[x] \in Int /\ g[x] \in Int /\ h[x] = f[x] + g[x]
  PROVE  SumFunctionOnSet(h, S) = SumFunctionOnSet(f, S) + SumFunctionOnSet(g, S)
<1> DEFINE B == {T \in SUBSET S :
                   SumFunctionOnSet(h, T) # SumFunctionOnSet(f, T) + SumFunctionOnSet(g, T)}
<1> SUFFICES ASSUME B # {} PROVE FALSE
  OBVIOUS
<1>1. PICK T \in B : \A V \in B : V \subseteq T => V = T
  <2> HIDE DEF B
  <2>1. B \in SUBSET (SUBSET S)
    BY DEF B
  <2> QED BY <2>1, LeastSubset
<1>2. T # {} /\ IsFiniteSet(T) /\ T \subseteq S
  <2>1. SumFunctionOnSet(h, {}) = 0 /\ SumFunctionOnSet(f, {}) = 0 /\ SumFunctionOnSet(g, {}) = 0
    BY SumOfNone
  <2>2. T \subseteq S /\ SumFunctionOnSet(h, T) # SumFunctionOnSet(f, T) + SumFunctionOnSet(g, T)
    OBVIOUS
  <2>3. ASSUME T = {} PROVE FALSE
    <3>1. /\ SumFunctionOnSet(h, T) = 0 /\ SumFunctionOnSet(f, T) = 0
          /\ SumFunctionOnSet(g, T) = 0
      BY <2>1, <2>3
    <3> HIDE DEF B
    <3> QED BY <2>2, <3>1
  <2> QED BY <2>2, <2>3, FS_Subset
<1>3. PICK y : y = Least(T)
  OBVIOUS
<1>4. y \in T
  BY <1>2, <1>3 DEF Least
<1>5. T \ {y} \notin B
  BY <1>1, <1>4
<1>6. SumFunctionOnSet(h, T \ {y}) = SumFunctionOnSet(f, T \ {y}) + SumFunctionOnSet(g, T \ {y})
  BY <1>2, <1>5
<1>7. SumFunctionOnSet(f, T \ {y}) \in Int /\ SumFunctionOnSet(g, T \ {y}) \in Int
  <2>1. IsFiniteSet(T \ {y}) /\ \A x \in T \ {y} : f[x] \in Int /\ g[x] \in Int
    BY <1>2, FS_Subset
  <2> QED BY <2>1, SumIsInt
<1>8. /\ SumFunctionOnSet(f, T) = f[y] + SumFunctionOnSet(f, T \ {y})
      /\ SumFunctionOnSet(g, T) = g[y] + SumFunctionOnSet(g, T \ {y})
      /\ SumFunctionOnSet(h, T) = h[y] + SumFunctionOnSet(h, T \ {y})
  BY <1>2, <1>3, SumUnfold
<1>9. SumFunctionOnSet(h, T) # SumFunctionOnSet(f, T) + SumFunctionOnSet(g, T)
  OBVIOUS
<1>10. f[y] \in Int /\ g[y] \in Int /\ h[y] = f[y] + g[y]
  BY <1>2, <1>4
<1> HIDE DEF B
<1> QED BY <1>6, <1>7, <1>8, <1>9, <1>10

\* What is summed over some documents is summed over all, the others giving 0.
LEMMA SumFiltered ==
  ASSUME NEW D, IsFiniteSet(D), NEW S \in SUBSET D, NEW f, NEW g,
         \A x \in S : f[x] \in Int /\ g[x] = f[x], \A x \in D \ S : g[x] = 0
  PROVE  SumFunctionOnSet(f, S) = SumFunctionOnSet(g, D)
<1>1. \A x \in D : g[x] \in Int
  OBVIOUS
<1>2. SumFunctionOnSet(g, D) = SumFunctionOnSet(g, S)
  BY <1>1, SumOfSupport
<1>3. SumFunctionOnSet(f, S) = SumFunctionOnSet(g, S)
  BY FS_Subset, SumSame
<1> QED BY <1>2, <1>3

\* S are the k-th rows of some documents, p their amounts.
AmountsAt(p, amount, S, D, k) ==
  /\ \A r \in S : \E d \in D : r = <<d, k>>
  /\ \A d \in D : p[d] \in Int /\ p[d] = IF <<d, k>> \in S THEN amount[<<d, k>>] ELSE 0

\* The k-th rows of the documents.
LEMMA SumOfRowsAt ==
  ASSUME NEW D, IsFiniteSet(D), NEW k, NEW S, NEW amount, NEW p, AmountsAt(p, amount, S, D, k)
  PROVE  SumFunctionOnSet(amount, S) = SumFunctionOnSet(p, D)
<1>1. PICK E : E = {d \in D : <<d, k>> \in S}
  OBVIOUS
<1>2. E \in SUBSET D /\ IsFiniteSet(E)
  BY <1>1, FS_Subset
<1>3. SumFunctionOnSet(p, D) = SumFunctionOnSet(p, E)
  BY <1>1, <1>2, SumOfSupport, ZenonT(40) DEF AmountsAt
<1>4. PICK h : h = [d \in D |-> <<d, k>>]
  OBVIOUS
<1>5. S = {h[d] : d \in E}
  BY <1>1, <1>4 DEF AmountsAt
<1>6. \A x, y \in E : h[x] = h[y] => x = y
  BY <1>2, <1>4
<1>7. \A x \in E : p[x] \in Int /\ amount[h[x]] = p[x]
  BY <1>1, <1>4 DEF AmountsAt
<1>8. SumFunctionOnSet(p, E) = SumFunctionOnSet(amount, {h[d] : d \in E})
  BY <1>2, <1>6, <1>7, SumReindex
<1> QED BY <1>3, <1>5, <1>8

\* S are rows 1 and 2 of documents of D, and p what the rows of a document come to.
ByDocument(p, amount, S, D) ==
  /\ \A r \in S : (\E d \in D : r = <<d, 1>> \/ r = <<d, 2>>) /\ amount[r] \in Int
  /\ \A d \in D : p[d] = (IF <<d, 1>> \in S THEN amount[<<d, 1>>] ELSE 0)
                          + (IF <<d, 2>> \in S THEN amount[<<d, 2>>] ELSE 0)

\* Rows of a register in which a document has two at most, by document.
LEMMA SumByDocument ==
  ASSUME NEW D, IsFiniteSet(D), NEW S, IsFiniteSet(S), NEW amount, NEW p,
         ByDocument(p, amount, S, D)
  PROVE  SumFunctionOnSet(amount, S) = SumFunctionOnSet(p, D)
<1>0. /\ \A r \in S : (\E d \in D : r = <<d, 1>> \/ r = <<d, 2>>) /\ amount[r] \in Int
      /\ \A d \in D : p[d] = (IF <<d, 1>> \in S THEN amount[<<d, 1>>] ELSE 0)
                              + (IF <<d, 2>> \in S THEN amount[<<d, 2>>] ELSE 0)
  BY DEF ByDocument
<1>1. PICK T : T = {r \in S : r[2] = 1}
  OBVIOUS
<1>2. PICK f : f = [d \in D |-> IF <<d, 1>> \in S THEN amount[<<d, 1>>] ELSE 0]
  OBVIOUS
<1>3. PICK g : g = [d \in D |-> IF <<d, 2>> \in S THEN amount[<<d, 2>>] ELSE 0]
  OBVIOUS
<1>4. \A d \in D : f[d] \in Int /\ g[d] \in Int /\ p[d] = f[d] + g[d]
  <2> SUFFICES ASSUME NEW d \in D PROVE f[d] \in Int /\ g[d] \in Int /\ p[d] = f[d] + g[d]
    OBVIOUS
  <2>1. PICK r : r = <<d, 1>>
    OBVIOUS
  <2>2. PICK q : q = <<d, 2>>
    OBVIOUS
  <2>3. f[d] = (IF r \in S THEN amount[r] ELSE 0) /\ g[d] = (IF q \in S THEN amount[q] ELSE 0)
    BY <1>2, <1>3, <2>1, <2>2
  <2>4. p[d] = (IF r \in S THEN amount[r] ELSE 0) + (IF q \in S THEN amount[q] ELSE 0)
    BY <1>0, <2>1, <2>2
  <2> QED BY <1>0, <2>3, <2>4
<1>5. SumFunctionOnSet(amount, T) = SumFunctionOnSet(f, D)
  <2>1. \A r \in T : \E d \in D : r = <<d, 1>>
    BY <1>0, <1>1
  <2>2. \A d \in D : f[d] = IF <<d, 1>> \in T THEN amount[<<d, 1>>] ELSE 0
    <3>1. \A d \in D : <<d, 1>>[2] = 1
      OBVIOUS
    <3>2. \A d \in D : <<d, 1>> \in T <=> <<d, 1>> \in S
      BY <1>1, <3>1
    <3> QED BY <1>2, <3>2
  <2>3. \A d \in D : f[d] \in Int
    BY <1>4
  <2>4. AmountsAt(f, amount, T, D, 1)
    BY <2>1, <2>2, <2>3 DEF AmountsAt
  <2> QED BY <2>4, SumOfRowsAt
<1>6. SumFunctionOnSet(amount, S \ T) = SumFunctionOnSet(g, D)
  <2>1. \A r \in S \ T : \E d \in D : r = <<d, 2>>
    BY <1>0, <1>1
  <2>2. \A d \in D : g[d] = IF <<d, 2>> \in S \ T THEN amount[<<d, 2>>] ELSE 0
    <3>1. \A d \in D : <<d, 2>>[2] = 2
      OBVIOUS
    <3>2. \A d \in D : <<d, 2>> \in S \ T <=> <<d, 2>> \in S
      <4> SUFFICES ASSUME NEW d \in D PROVE <<d, 2>> \in S \ T <=> <<d, 2>> \in S
        OBVIOUS
      <4>1. PICK r : r = <<d, 2>>
        OBVIOUS
      <4>2. r[2] = 2
        BY <4>1
      <4>3. r \in S \ T <=> r \in S
        BY <1>1, <4>2
      <4> QED BY <4>1, <4>3
    <3> QED BY <1>3, <3>2
  <2>3. \A d \in D : g[d] \in Int
    BY <1>4
  <2>4. AmountsAt(g, amount, S \ T, D, 2)
    BY <2>1, <2>2, <2>3 DEF AmountsAt
  <2> QED BY <2>4, SumOfRowsAt
<1>7. SumFunctionOnSet(amount, S) = SumFunctionOnSet(amount, T) + SumFunctionOnSet(amount, S \ T)
  BY <1>0, <1>1, SumSplit
<1>8. SumFunctionOnSet(p, D) = SumFunctionOnSet(f, D) + SumFunctionOnSet(g, D)
  BY <1>4, SumAdd
<1> QED BY <1>5, <1>6, <1>7, <1>8

-----------------------------------------------------------------------------
\* A register of at most two rows a document.
TwoRows(register) ==
  /\ DOMAIN register = AllDocs
  /\ \A d \in AllDocs : \A k \in DOMAIN register[d] : k \in {1, 2} /\ register[d][k].amount \in Int

\* The documents are finitely many.
LEMMA DocsAreFinite ==
  IsFiniteSet(AllDocs) /\ IsFiniteSet(Docs) /\ Docs \subseteq AllDocs /\ Payments \subseteq AllDocs
BY LedgerAssumption, BooksAssumption, FS_Union DEF AllDocs

\* The rows of such a register are finitely many.
LEMMA RegisterIsFinite ==
  ASSUME NEW register, TwoRows(register)
  PROVE  /\ IsFiniteSet(RowsIn(register))
         /\ \A r \in RowsIn(register) :
              \E d \in AllDocs : r \in {<<d, 1>>, <<d, 2>>} /\ r[1] = d /\ r[2] \in DOMAIN register[d]
         /\ \A d \in AllDocs : \A k \in DOMAIN register[d] : <<d, k>> \in RowsIn(register)
<1>1. \A r \in RowsIn(register) :
        \E d \in AllDocs : r \in {<<d, 1>>, <<d, 2>>} /\ r[1] = d /\ r[2] \in DOMAIN register[d]
  <2> SUFFICES ASSUME NEW r \in RowsIn(register)
               PROVE  \E d \in AllDocs : r \in {<<d, 1>>, <<d, 2>>} /\ r[1] = d /\ r[2] \in DOMAIN register[d]
    OBVIOUS
  <2>1. PICK d \in DOMAIN register : r \in {<<d, k>> : k \in DOMAIN register[d]}
    BY DEF RowsIn
  <2>2. PICK k \in DOMAIN register[d] : r = <<d, k>>
    BY <2>1
  <2> QED BY <2>1, <2>2 DEF TwoRows
<1>2. \A d \in AllDocs : \A k \in DOMAIN register[d] : <<d, k>> \in RowsIn(register)
  BY DEF RowsIn, TwoRows
<1>3. IsFiniteSet(RowsIn(register))
  <2>1. IsFiniteSet({1, 2})
    <3>1. IsFiniteSet({1}) /\ {1, 2} = {1} \cup {2}
      BY FS_Singleton
    <3> QED BY <3>1, FS_AddElement
  <2>2. IsFiniteSet(AllDocs \X {1, 2})
    BY <2>1, DocsAreFinite, FS_Product
  <2>3. RowsIn(register) \subseteq AllDocs \X {1, 2}
    BY <1>1
  <2> QED BY <2>2, <2>3, FS_Subset
<1> QED BY <1>1, <1>2, <1>3

\* The amount of the k-th row of d, if it is one of S.
Part(register, d, k, S) == IF <<d, k>> \in S THEN register[d][k].amount ELSE 0

\* Some rows of a register come to what they come to in each document.
LEMMA SumOfRegister ==
  ASSUME NEW register, TwoRows(register), NEW S \in SUBSET RowsIn(register),
         NEW f, \A r \in S : f[r] = register[r[1]][r[2]].amount,
         NEW p, \A d \in AllDocs : p[d] = Part(register, d, 1, S) + Part(register, d, 2, S)
  PROVE  SumFunctionOnSet(f, S) = SumFunctionOnSet(p, AllDocs)
<1>1. IsFiniteSet(S) /\ \A r \in S : \E d \in AllDocs : r = <<d, 1>> \/ r = <<d, 2>>
  BY RegisterIsFinite, FS_Subset
<1>2. \A r \in S : f[r] \in Int
  BY RegisterIsFinite DEF TwoRows
<1>3. ASSUME NEW d \in AllDocs, NEW k \in {1, 2}
      PROVE  Part(register, d, k, S) = IF <<d, k>> \in S THEN f[<<d, k>>] ELSE 0
  <2>1. PICK r : r = <<d, k>>
    OBVIOUS
  <2>2. r[1] = d /\ r[2] = k
    BY <2>1
  <2> QED BY <2>1, <2>2 DEF Part
<1>4. \A d \in AllDocs : p[d] = (IF <<d, 1>> \in S THEN f[<<d, 1>>] ELSE 0)
                                + (IF <<d, 2>> \in S THEN f[<<d, 2>>] ELSE 0)
  BY <1>3
<1>5. PICK D : D = AllDocs
  OBVIOUS
<1>6. IsFiniteSet(D) /\ IsFiniteSet(S)
  BY <1>1, <1>5, DocsAreFinite
<1>7. \A r \in S : (\E d \in D : r = <<d, 1>> \/ r = <<d, 2>>) /\ f[r] \in Int
  BY <1>1, <1>2, <1>5
<1>8. \A d \in D : p[d] = (IF <<d, 1>> \in S THEN f[<<d, 1>>] ELSE 0)
                          + (IF <<d, 2>> \in S THEN f[<<d, 2>>] ELSE 0)
  BY <1>4, <1>5
<1>9. ByDocument(p, f, S, D)
  BY <1>7, <1>8 DEF ByDocument
<1>10. SumFunctionOnSet(f, S) = SumFunctionOnSet(p, D)
  BY <1>6, <1>9, SumByDocument
<1> QED BY <1>5, <1>10

-----------------------------------------------------------------------------
\* What the entries of one document put on an account, less what they take.
OnDebit(rows, a) ==
  (IF 1 \in DOMAIN rows /\ rows[1].debit = a THEN rows[1].amount ELSE 0)
  + (IF 2 \in DOMAIN rows /\ rows[2].debit = a THEN rows[2].amount ELSE 0)
OnCredit(rows, a) ==
  (IF 1 \in DOMAIN rows /\ rows[1].credit = a THEN rows[1].amount ELSE 0)
  + (IF 2 \in DOMAIN rows /\ rows[2].credit = a THEN rows[2].amount ELSE 0)
Net(rows, a) == OnDebit(rows, a) - OnCredit(rows, a)

\* An account is debited or credited with the amount of one entry.
Side(x, a, v) == IF x = a THEN v ELSE 0

\* Few rows of integers.
FewRows(rows) == \A k \in DOMAIN rows : k \in {1, 2} /\ rows[k].amount \in Int

\* One entry, or none of an amount of zero.
LEMMA EntryIs ==
  ASSUME NEW d, NEW x, NEW y, NEW v, v \in Int
  PROVE  /\ FewRows(Entry(d, x, y, v)) /\ Len(Entry(d, x, y, v)) \in {0, 1}
         /\ \A a : Net(Entry(d, x, y, v), a) = Side(x, a, v) - Side(y, a, v)
<1>1. CASE v = 0
  <2>1. Entry(d, x, y, v) = <<>> /\ DOMAIN <<>> = {} /\ Len(<<>>) = 0
    BY <1>1 DEF Entry
  <2> QED BY <1>1, <2>1 DEF FewRows, Net, OnDebit, OnCredit, Side
<1>2. CASE v # 0
  <2>1. PICK e : e = [date |-> Header[d].date, debit |-> x, credit |-> y, amount |-> v]
    OBVIOUS
  <2>2. e.debit = x /\ e.credit = y /\ e.amount = v
    BY <2>1
  <2>3. PICK rows : rows = <<e>>
    OBVIOUS
  <2>4. Entry(d, x, y, v) = rows
    BY <1>2, <2>1, <2>3 DEF Entry
  <2>5. DOMAIN rows = {1} /\ rows[1] = e /\ Len(rows) = 1
    BY <2>3
  <2>6. FewRows(rows) /\ Len(rows) \in {0, 1}
    BY <2>2, <2>5 DEF FewRows
  <2>7. ASSUME NEW a PROVE Net(rows, a) = Side(x, a, v) - Side(y, a, v)
    BY <2>2, <2>5 DEF Net, OnDebit, OnCredit, Side
  <2> QED BY <2>4, <2>6, <2>7
<1> QED BY <1>1, <1>2

\* Two entries.
LEMMA TwoEntriesAre ==
  ASSUME NEW d, NEW x, NEW y, NEW v, v \in Int, NEW z, NEW w, NEW u, u \in Int
  PROVE  /\ FewRows(Entry(d, x, y, v) \o Entry(d, z, w, u))
         /\ \A a : Net(Entry(d, x, y, v) \o Entry(d, z, w, u), a)
                     = (Side(x, a, v) - Side(y, a, v)) + (Side(z, a, u) - Side(w, a, u))
<1>1. CASE v = 0
  <2>1. Entry(d, x, y, v) = <<>>
    BY <1>1 DEF Entry
  <2>2. PICK S : Entry(d, z, w, u) \in Seq(S)
    <3>1. PICK e : e = [date |-> Header[d].date, debit |-> z, credit |-> w, amount |-> u]
      OBVIOUS
    <3>2. Entry(d, z, w, u) \in {<<>>, <<e>>}
      BY <3>1 DEF Entry
    <3>3. <<>> \in Seq({e}) /\ <<e>> \in Seq({e})
      OBVIOUS
    <3> QED BY <3>2, <3>3
  <2>3. Entry(d, x, y, v) \o Entry(d, z, w, u) = Entry(d, z, w, u)
    BY <2>1, <2>2
  <2>4. \A a : Side(x, a, v) - Side(y, a, v) = 0 /\ Side(z, a, u) \in Int /\ Side(w, a, u) \in Int
    BY <1>1 DEF Side
  <2>5. \A a : Net(Entry(d, z, w, u), a) = Side(z, a, u) - Side(w, a, u)
    BY EntryIs
  <2> QED BY <2>3, <2>4, <2>5, EntryIs
<1>2. CASE v # 0 /\ u = 0
  <2>1. Entry(d, z, w, u) = <<>>
    BY <1>2 DEF Entry
  <2>2. PICK S : Entry(d, x, y, v) \in Seq(S)
    <3>1. PICK e : e = [date |-> Header[d].date, debit |-> x, credit |-> y, amount |-> v]
      OBVIOUS
    <3>2. Entry(d, x, y, v) \in {<<>>, <<e>>}
      BY <3>1 DEF Entry
    <3>3. <<>> \in Seq({e}) /\ <<e>> \in Seq({e})
      OBVIOUS
    <3> QED BY <3>2, <3>3
  <2>3. Entry(d, x, y, v) \o Entry(d, z, w, u) = Entry(d, x, y, v)
    BY <2>1, <2>2
  <2>4. \A a : Side(z, a, u) - Side(w, a, u) = 0 /\ Side(x, a, v) \in Int /\ Side(y, a, v) \in Int
    BY <1>2 DEF Side
  <2>5. \A a : Net(Entry(d, x, y, v), a) = Side(x, a, v) - Side(y, a, v)
    BY EntryIs
  <2> QED BY <2>3, <2>4, <2>5, EntryIs
<1>3. CASE v # 0 /\ u # 0
  <2>1. PICK e : e = [date |-> Header[d].date, debit |-> x, credit |-> y, amount |-> v]
    OBVIOUS
  <2>2. PICK f : f = [date |-> Header[d].date, debit |-> z, credit |-> w, amount |-> u]
    OBVIOUS
  <2>3. /\ e.debit = x /\ e.credit = y /\ e.amount = v
        /\ f.debit = z /\ f.credit = w /\ f.amount = u
    BY <2>1, <2>2
  <2>4. PICK s : s = <<e>>
    OBVIOUS
  <2>5. PICK t : t = <<f>>
    OBVIOUS
  <2>10. PICK rows : rows = s \o t
    OBVIOUS
  <2>11. Entry(d, x, y, v) \o Entry(d, z, w, u) = rows
    BY <1>3, <2>1, <2>2, <2>4, <2>5, <2>10 DEF Entry
  <2>6. DOMAIN rows = {1, 2} /\ rows[1] = e /\ rows[2] = f
    <3>1. PICK E : E = {e, f}
      OBVIOUS
    <3>2. s \in Seq(E) /\ t \in Seq(E) /\ Len(s) = 1 /\ Len(t) = 1 /\ s[1] = e /\ t[1] = f
      BY <2>4, <2>5, <3>1
    <3>3. /\ rows \in Seq(E) /\ Len(rows) = Len(s) + Len(t)
          /\ \A i \in 1 .. Len(s) + Len(t) : rows[i] = IF i <= Len(s) THEN s[i] ELSE t[i - Len(s)]
      BY <2>10, <3>2, ConcatProperties
    <3>4. Len(rows) = 2 /\ DOMAIN rows = 1 .. 2
      BY <3>2, <3>3
    <3>5. rows[1] = s[1] /\ rows[2] = t[1]
      BY <3>2, <3>3
    <3> QED BY <3>2, <3>4, <3>5
  <2>7. FewRows(rows)
    BY <2>3, <2>6 DEF FewRows
  <2>8. ASSUME NEW a
        PROVE  Net(rows, a) = (Side(x, a, v) - Side(y, a, v)) + (Side(z, a, u) - Side(w, a, u))
    <3>1. OnDebit(rows, a) = Side(x, a, v) + Side(z, a, u)
      BY <2>3, <2>6 DEF OnDebit, Side
    <3>2. OnCredit(rows, a) = Side(y, a, v) + Side(w, a, u)
      BY <2>3, <2>6 DEF OnCredit, Side
    <3>3. Side(x, a, v) \in Int /\ Side(y, a, v) \in Int /\ Side(z, a, u) \in Int /\ Side(w, a, u) \in Int
      BY DEF Side
    <3> QED BY <3>1, <3>2, <3>3 DEF Net
  <2> QED BY <2>11, <2>7, <2>8
<1> QED BY <1>1, <1>2, <1>3

\* No entry.
LEMMA NoEntryIs == FewRows(<<>>) /\ \A a : Net(<<>>, a) = 0
<1>1. DOMAIN <<>> = {}
  OBVIOUS
<1> QED BY <1>1 DEF FewRows, Net, OnDebit, OnCredit

-----------------------------------------------------------------------------
\* What a document is for is a number: its total, its money and its debt.
LEMMA TotalsAreInt ==
  ASSUME NEW d \in AllDocs
  PROVE  TotalOf(d) \in Int /\ (d \in Payments => TypeOf(d) \in PaymentType /\ d \notin Docs)
         /\ (d \in Docs => TypeOf(d) \in DocType)
<1>1. CASE d \in Docs
  <2>1. TotalOf(d) = Total(d) /\ TypeOf(d) = Document[d].type
    BY <1>1 DEF TotalOf, TypeOf
  <2>2. Total(d) \in Int
    BY <1>1, TotalIs
  <2> QED BY <1>1, <2>1, <2>2, LedgerAssumption, BooksAssumption
<1>2. CASE d \notin Docs
  <2>1. d \in Payments
    BY <1>2 DEF AllDocs
  <2> QED BY <1>2, <2>1, BooksAssumption DEF TotalOf, TypeOf
<1> QED BY <1>1, <1>2

-----------------------------------------------------------------------------
\* The balance of an account, document by document.
NetOf(en, a) == [d \in AllDocs |-> Net(en[d], a)]

DebitRows(en, a) == {r \in RowsIn(en) : en[r[1]][r[2]].debit = a}
CreditRows(en, a) == {r \in RowsIn(en) : en[r[1]][r[2]].credit = a}
Amount(register, S) == [r \in S |-> register[r[1]][r[2]].amount]

\* The rows of a document that are marked.
Marked(en, M, d) == Part(en, d, 1, M) + Part(en, d, 2, M)

\* The rows on one side of an account are what each document puts there.
LEMMA MarkedAre ==
  ASSUME NEW en, TwoRows(en), NEW a, NEW d \in AllDocs
  PROVE  /\ OnDebit(en[d], a) = Marked(en, DebitRows(en, a), d)
         /\ OnCredit(en[d], a) = Marked(en, CreditRows(en, a), d)
<1>1. ASSUME NEW k \in {1, 2}
      PROVE  /\ Part(en, d, k, DebitRows(en, a))
                  = IF k \in DOMAIN en[d] /\ en[d][k].debit = a THEN en[d][k].amount ELSE 0
             /\ Part(en, d, k, CreditRows(en, a))
                  = IF k \in DOMAIN en[d] /\ en[d][k].credit = a THEN en[d][k].amount ELSE 0
  <2>1. PICK r : r = <<d, k>>
    OBVIOUS
  <2>2. r[1] = d /\ r[2] = k
    BY <2>1
  <2>3. r \in RowsIn(en) <=> k \in DOMAIN en[d]
    <3>1. ASSUME r \in RowsIn(en) PROVE k \in DOMAIN en[d]
      BY <2>2, <3>1, RegisterIsFinite
    <3> QED BY <2>1, <3>1, RegisterIsFinite
  <2>4. r \in DebitRows(en, a) <=> k \in DOMAIN en[d] /\ en[d][k].debit = a
    BY <2>2, <2>3 DEF DebitRows
  <2>5. r \in CreditRows(en, a) <=> k \in DOMAIN en[d] /\ en[d][k].credit = a
    BY <2>2, <2>3 DEF CreditRows
  <2> QED BY <2>1, <2>4, <2>5 DEF Part
<1> QED BY <1>1 DEF OnDebit, OnCredit, Marked

\* The rows on one side of an account come to what each document puts there.
LEMMA DebitIs ==
  ASSUME NEW en, TwoRows(en), NEW a
  PROVE  SumFunctionOnSet(Amount(en, DebitRows(en, a)), DebitRows(en, a))
           = SumFunctionOnSet([d \in AllDocs |-> OnDebit(en[d], a)], AllDocs)
<1>1. PICK S : S = DebitRows(en, a)
  OBVIOUS
<1>2. S \in SUBSET RowsIn(en)
  BY <1>1 DEF DebitRows
<1>3. PICK f : f = Amount(en, S)
  OBVIOUS
<1>4. \A r \in S : f[r] = en[r[1]][r[2]].amount
  BY <1>3 DEF Amount
<1>5. PICK p : p = [d \in AllDocs |-> OnDebit(en[d], a)]
  OBVIOUS
<1>6. \A d \in AllDocs : p[d] = Marked(en, S, d)
  BY <1>1, <1>5, MarkedAre
<1>7. \A d \in AllDocs : p[d] = Part(en, d, 1, S) + Part(en, d, 2, S)
  BY <1>6 DEF Marked
<1>8. SumFunctionOnSet(f, S) = SumFunctionOnSet(p, AllDocs)
  BY <1>2, <1>4, <1>7, SumOfRegister
<1> QED BY <1>1, <1>3, <1>5, <1>8

\* The same of the credits.
LEMMA CreditIs ==
  ASSUME NEW en, TwoRows(en), NEW a
  PROVE  SumFunctionOnSet(Amount(en, CreditRows(en, a)), CreditRows(en, a))
           = SumFunctionOnSet([d \in AllDocs |-> OnCredit(en[d], a)], AllDocs)
<1>1. PICK S : S = CreditRows(en, a)
  OBVIOUS
<1>2. S \in SUBSET RowsIn(en)
  BY <1>1 DEF CreditRows
<1>3. PICK f : f = Amount(en, S)
  OBVIOUS
<1>4. \A r \in S : f[r] = en[r[1]][r[2]].amount
  BY <1>3 DEF Amount
<1>5. PICK p : p = [d \in AllDocs |-> OnCredit(en[d], a)]
  OBVIOUS
<1>6. \A d \in AllDocs : p[d] = Marked(en, S, d)
  BY <1>1, <1>5, MarkedAre
<1>7. \A d \in AllDocs : p[d] = Part(en, d, 1, S) + Part(en, d, 2, S)
  BY <1>6 DEF Marked
<1>8. SumFunctionOnSet(f, S) = SumFunctionOnSet(p, AllDocs)
  BY <1>2, <1>4, <1>7, SumOfRegister
<1> QED BY <1>1, <1>3, <1>5, <1>8

\* What a document puts on either side is an integer.
LEMMA SidesAreInt ==
  ASSUME NEW en, TwoRows(en), NEW a, NEW d \in AllDocs
  PROVE  OnDebit(en[d], a) \in Int /\ OnCredit(en[d], a) \in Int /\ Net(en[d], a) \in Int
<1>1. PICK rows : rows = en[d]
  OBVIOUS
<1>2. \A k \in DOMAIN rows : rows[k].amount \in Int
  BY <1>1 DEF TwoRows
<1>3. OnDebit(rows, a) \in Int
  BY <1>2 DEF OnDebit
<1>4. OnCredit(rows, a) \in Int
  BY <1>2 DEF OnCredit
<1> QED BY <1>1, <1>3, <1>4 DEF Net

\* The balance of an account.
LEMMA BalanceIs ==
  ASSUME TwoRows(entries), NEW a
  PROVE  /\ BalanceOf(a) = SumFunctionOnSet(NetOf(entries, a), AllDocs)
         /\ BalanceOf(a) \in Int
<1>1. PICK n : n = NetOf(entries, a)
  OBVIOUS
<1>2. PICK f : f = [d \in AllDocs |-> OnDebit(entries[d], a)]
  OBVIOUS
<1>3. PICK g : g = [d \in AllDocs |-> OnCredit(entries[d], a)]
  OBVIOUS
<1>4. \A d \in AllDocs : f[d] \in Int /\ g[d] \in Int /\ n[d] \in Int /\ n[d] = f[d] - g[d]
  BY <1>1, <1>2, <1>3, SidesAreInt DEF NetOf, Net
<1>5. \A d \in AllDocs : n[d] \in Int /\ g[d] \in Int /\ f[d] = n[d] + g[d]
  BY <1>4
<1>6. SumFunctionOnSet(f, AllDocs) = SumFunctionOnSet(n, AllDocs) + SumFunctionOnSet(g, AllDocs)
  BY <1>5, DocsAreFinite, SumAdd
<1>7. SumFunctionOnSet(n, AllDocs) \in Int /\ SumFunctionOnSet(g, AllDocs) \in Int
  BY <1>4, DocsAreFinite, SumIsInt
<1>8. SumIn(entries, LAMBDA e : e.debit = a) = SumFunctionOnSet(f, AllDocs)
  BY <1>2, DebitIs DEF SumIn, SumOver, DebitRows, Amount
<1>9. SumIn(entries, LAMBDA e : e.credit = a) = SumFunctionOnSet(g, AllDocs)
  BY <1>3, CreditIs DEF SumIn, SumOver, CreditRows, Amount
<1>10. BalanceOf(a) = SumIn(entries, LAMBDA e : e.debit = a) - SumIn(entries, LAMBDA e : e.credit = a)
  BY DEF BalanceOf
<1> QED BY <1>1, <1>6, <1>7, <1>8, <1>9, <1>10

\* All rows of a register.
RowsSum(rows) == (IF 1 \in DOMAIN rows THEN rows[1].amount ELSE 0)
                 + (IF 2 \in DOMAIN rows THEN rows[2].amount ELSE 0)

\* All rows of a register come to what each document wrote.
LEMMA AllRowsAre ==
  ASSUME NEW register, TwoRows(register)
  PROVE  SumIn(register, LAMBDA m : TRUE)
           = SumFunctionOnSet([d \in AllDocs |-> RowsSum(register[d])], AllDocs)
<1>1. PICK S : S = RowsIn(register)
  OBVIOUS
<1>2. S \in SUBSET RowsIn(register)
  BY <1>1
<1>3. PICK f : f = Amount(register, S)
  OBVIOUS
<1>4. \A r \in S : f[r] = register[r[1]][r[2]].amount
  BY <1>3 DEF Amount
<1>5. PICK p : p = [d \in AllDocs |-> RowsSum(register[d])]
  OBVIOUS
<1>6. ASSUME NEW d \in AllDocs, NEW k \in {1, 2}
      PROVE  Part(register, d, k, S) = IF k \in DOMAIN register[d] THEN register[d][k].amount ELSE 0
  <2>1. PICK r : r = <<d, k>>
    OBVIOUS
  <2>2. r[1] = d /\ r[2] = k
    BY <2>1
  <2>3. r \in RowsIn(register) <=> k \in DOMAIN register[d]
    <3>1. ASSUME r \in RowsIn(register) PROVE k \in DOMAIN register[d]
      BY <2>2, <3>1, RegisterIsFinite
    <3> QED BY <2>1, <3>1, RegisterIsFinite
  <2> QED BY <1>1, <2>1, <2>2, <2>3 DEF Part
<1>7. \A d \in AllDocs : p[d] = Part(register, d, 1, S) + Part(register, d, 2, S)
  BY <1>5, <1>6 DEF RowsSum
<1>8. SumFunctionOnSet(f, S) = SumFunctionOnSet(p, AllDocs)
  BY <1>2, <1>4, <1>7, SumOfRegister
<1>9. SumIn(register, LAMBDA m : TRUE) = SumFunctionOnSet(f, S)
  <2>1. {r \in RowsIn(register) : TRUE} = RowsIn(register)
    OBVIOUS
  <2> QED BY <1>1, <1>3, <2>1 DEF SumIn, SumOver, Amount
<1> QED BY <1>5, <1>8, <1>9

\* The documents posted that are of one kind.
LEMMA PostedAre ==
  ASSUME NEW S \in SUBSET AllDocs, NEW g,
         \A d \in AllDocs : g[d] = IF d \in S THEN TotalOf(d) ELSE 0
  PROVE  SumFunctionOnSet([d \in S |-> TotalOf(d)], S) = SumFunctionOnSet(g, AllDocs)
<1>1. PICK f : f = [d \in S |-> TotalOf(d)]
  OBVIOUS
<1>2. \A d \in S : f[d] \in Int /\ g[d] = f[d]
  BY <1>1, TotalsAreInt
<1>3. \A d \in AllDocs \ S : g[d] = 0
  OBVIOUS
<1> QED BY <1>1, <1>2, <1>3, DocsAreFinite, SumFiltered

-----------------------------------------------------------------------------
\* What a document of each type enters on an account.
Simple(d, m, v, type, debit, credit, amount) ==
  TypeOf(d) = type =>
    /\ FewRows(EntryRows(d, m, v))
    /\ \A a : Net(EntryRows(d, m, v), a) = Side(debit, a, amount) - Side(credit, a, amount)

Double(d, m, v, type, debit, credit, amount, debit2, credit2, amount2) ==
  TypeOf(d) = type =>
    /\ FewRows(EntryRows(d, m, v))
    /\ \A a : Net(EntryRows(d, m, v), a) = (Side(debit, a, amount) - Side(credit, a, amount))
                                            + (Side(debit2, a, amount2) - Side(credit2, a, amount2))

\* A sale and an inventory make two entries, every other document one, a
\* revaluation on the side its sign says.
LEMMA EntriesByType ==
  ASSUME NEW d \in AllDocs, NEW m, NEW v, v \in Int, OutgoingCost(m) \in Int, IncomingCost(m) \in Int
  PROVE  /\ Simple(d, m, v, "prihod", "41", "60", TotalOf(d))
         /\ Simple(d, m, v, "vozvrat", "41", "62", TotalOf(d))
         /\ Simple(d, m, v, "spisanie", "91.2", "41", OutgoingCost(m))
         /\ Simple(d, m, v, "oprihodovanie", "41", "91.1", TotalOf(d))
         /\ Simple(d, m, v, "vvod_ostatkov", "41", "00", TotalOf(d))
         /\ Simple(d, m, v, "vvod_ostatkov_deneg", "50", "00", TotalOf(d))
         /\ Simple(d, m, v, "prihodny_kassovy_order", "50", "62", TotalOf(d))
         /\ Simple(d, m, v, "rashodny_kassovy_order", "62", "50", TotalOf(d))
         /\ Simple(d, m, v, "platezhnoe_poruchenie", "60", "51", TotalOf(d))
         /\ Double(d, m, v, "rashod", "62", "90.1", TotalOf(d), "90.2", "41", OutgoingCost(m))
         /\ Double(d, m, v, "inventarizaciya", "41", "91.1", IncomingCost(m), "94", "41", OutgoingCost(m))
         /\ v > 0 => Simple(d, m, v, "pereocenka", "41", "91.1", v)
         /\ ~ (v > 0) => Simple(d, m, v, "pereocenka", "91.2", "41", -v)
         /\ TypeOf(d) = "peremeshenie" => EntryRows(d, m, v) = <<>>
<1>1. TotalOf(d) \in Int
  BY TotalsAreInt
<1>2. Simple(d, m, v, "prihod", "41", "60", TotalOf(d))
  <2> SUFFICES ASSUME TypeOf(d) = "prihod"
               PROVE  /\ FewRows(EntryRows(d, m, v))
                      /\ \A a : Net(EntryRows(d, m, v), a) = Side("41", a, TotalOf(d)) - Side("60", a, TotalOf(d))
    BY DEF Simple
  <2>1. EntryRows(d, m, v) = Entry(d, "41", "60", TotalOf(d))
    BY DEF EntryRows
  <2> QED BY <1>1, <2>1, EntryIs
<1>3. Simple(d, m, v, "vozvrat", "41", "62", TotalOf(d))
  <2> SUFFICES ASSUME TypeOf(d) = "vozvrat"
               PROVE  /\ FewRows(EntryRows(d, m, v))
                      /\ \A a : Net(EntryRows(d, m, v), a) = Side("41", a, TotalOf(d)) - Side("62", a, TotalOf(d))
    BY DEF Simple
  <2>1. EntryRows(d, m, v) = Entry(d, "41", "62", TotalOf(d))
    BY DEF EntryRows
  <2> QED BY <1>1, <2>1, EntryIs
<1>4. Simple(d, m, v, "spisanie", "91.2", "41", OutgoingCost(m))
  <2> SUFFICES ASSUME TypeOf(d) = "spisanie"
               PROVE  /\ FewRows(EntryRows(d, m, v))
                      /\ \A a : Net(EntryRows(d, m, v), a)
                                  = Side("91.2", a, OutgoingCost(m)) - Side("41", a, OutgoingCost(m))
    BY DEF Simple
  <2>1. EntryRows(d, m, v) = Entry(d, "91.2", "41", OutgoingCost(m))
    BY DEF EntryRows
  <2> QED BY <1>1, <2>1, EntryIs
<1>5. Simple(d, m, v, "oprihodovanie", "41", "91.1", TotalOf(d))
  <2> SUFFICES ASSUME TypeOf(d) = "oprihodovanie"
               PROVE  /\ FewRows(EntryRows(d, m, v))
                      /\ \A a : Net(EntryRows(d, m, v), a) = Side("41", a, TotalOf(d)) - Side("91.1", a, TotalOf(d))
    BY DEF Simple
  <2>1. EntryRows(d, m, v) = Entry(d, "41", "91.1", TotalOf(d))
    BY DEF EntryRows
  <2> QED BY <1>1, <2>1, EntryIs
<1>6. Simple(d, m, v, "vvod_ostatkov", "41", "00", TotalOf(d))
  <2> SUFFICES ASSUME TypeOf(d) = "vvod_ostatkov"
               PROVE  /\ FewRows(EntryRows(d, m, v))
                      /\ \A a : Net(EntryRows(d, m, v), a) = Side("41", a, TotalOf(d)) - Side("00", a, TotalOf(d))
    BY DEF Simple
  <2>1. EntryRows(d, m, v) = Entry(d, "41", "00", TotalOf(d))
    BY DEF EntryRows
  <2> QED BY <1>1, <2>1, EntryIs
<1>7. Simple(d, m, v, "vvod_ostatkov_deneg", "50", "00", TotalOf(d))
  <2> SUFFICES ASSUME TypeOf(d) = "vvod_ostatkov_deneg"
               PROVE  /\ FewRows(EntryRows(d, m, v))
                      /\ \A a : Net(EntryRows(d, m, v), a) = Side("50", a, TotalOf(d)) - Side("00", a, TotalOf(d))
    BY DEF Simple
  <2>1. EntryRows(d, m, v) = Entry(d, "50", "00", TotalOf(d))
    BY DEF EntryRows
  <2> QED BY <1>1, <2>1, EntryIs
<1>8. Simple(d, m, v, "prihodny_kassovy_order", "50", "62", TotalOf(d))
  <2> SUFFICES ASSUME TypeOf(d) = "prihodny_kassovy_order"
               PROVE  /\ FewRows(EntryRows(d, m, v))
                      /\ \A a : Net(EntryRows(d, m, v), a) = Side("50", a, TotalOf(d)) - Side("62", a, TotalOf(d))
    BY DEF Simple
  <2>1. EntryRows(d, m, v) = Entry(d, "50", "62", TotalOf(d))
    BY DEF EntryRows
  <2> QED BY <1>1, <2>1, EntryIs
<1>9. Simple(d, m, v, "rashodny_kassovy_order", "62", "50", TotalOf(d))
  <2> SUFFICES ASSUME TypeOf(d) = "rashodny_kassovy_order"
               PROVE  /\ FewRows(EntryRows(d, m, v))
                      /\ \A a : Net(EntryRows(d, m, v), a) = Side("62", a, TotalOf(d)) - Side("50", a, TotalOf(d))
    BY DEF Simple
  <2>1. EntryRows(d, m, v) = Entry(d, "62", "50", TotalOf(d))
    BY DEF EntryRows
  <2> QED BY <1>1, <2>1, EntryIs
<1>10. Simple(d, m, v, "platezhnoe_poruchenie", "60", "51", TotalOf(d))
  <2> SUFFICES ASSUME TypeOf(d) = "platezhnoe_poruchenie"
               PROVE  /\ FewRows(EntryRows(d, m, v))
                      /\ \A a : Net(EntryRows(d, m, v), a) = Side("60", a, TotalOf(d)) - Side("51", a, TotalOf(d))
    BY DEF Simple
  <2>1. EntryRows(d, m, v) = Entry(d, "60", "51", TotalOf(d))
    BY DEF EntryRows
  <2> QED BY <1>1, <2>1, EntryIs
<1>11. Double(d, m, v, "rashod", "62", "90.1", TotalOf(d), "90.2", "41", OutgoingCost(m))
  <2> SUFFICES ASSUME TypeOf(d) = "rashod"
               PROVE  /\ FewRows(EntryRows(d, m, v))
                      /\ \A a : Net(EntryRows(d, m, v), a)
                                  = (Side("62", a, TotalOf(d)) - Side("90.1", a, TotalOf(d)))
                                    + (Side("90.2", a, OutgoingCost(m)) - Side("41", a, OutgoingCost(m)))
    BY DEF Double
  <2>1. EntryRows(d, m, v) = Entry(d, "62", "90.1", TotalOf(d)) \o Entry(d, "90.2", "41", OutgoingCost(m))
    BY DEF EntryRows
  <2> QED BY <1>1, <2>1, TwoEntriesAre
<1>12. Double(d, m, v, "inventarizaciya", "41", "91.1", IncomingCost(m), "94", "41", OutgoingCost(m))
  <2> SUFFICES ASSUME TypeOf(d) = "inventarizaciya"
               PROVE  /\ FewRows(EntryRows(d, m, v))
                      /\ \A a : Net(EntryRows(d, m, v), a)
                                  = (Side("41", a, IncomingCost(m)) - Side("91.1", a, IncomingCost(m)))
                                    + (Side("94", a, OutgoingCost(m)) - Side("41", a, OutgoingCost(m)))
    BY DEF Double
  <2>1. EntryRows(d, m, v) = Entry(d, "41", "91.1", IncomingCost(m)) \o Entry(d, "94", "41", OutgoingCost(m))
    BY DEF EntryRows
  <2> QED BY <1>1, <2>1, TwoEntriesAre
<1>13. ASSUME v > 0 PROVE Simple(d, m, v, "pereocenka", "41", "91.1", v)
  <2> SUFFICES ASSUME TypeOf(d) = "pereocenka"
               PROVE  /\ FewRows(EntryRows(d, m, v))
                      /\ \A a : Net(EntryRows(d, m, v), a) = Side("41", a, v) - Side("91.1", a, v)
    BY DEF Simple
  <2>1. EntryRows(d, m, v) = Entry(d, "41", "91.1", v)
    BY <1>13 DEF EntryRows
  <2> QED BY <2>1, EntryIs
<1>14. ASSUME ~ (v > 0) PROVE Simple(d, m, v, "pereocenka", "91.2", "41", -v)
  <2> SUFFICES ASSUME TypeOf(d) = "pereocenka"
               PROVE  /\ FewRows(EntryRows(d, m, v))
                      /\ \A a : Net(EntryRows(d, m, v), a) = Side("91.2", a, -v) - Side("41", a, -v)
    BY DEF Simple
  <2>1. EntryRows(d, m, v) = Entry(d, "91.2", "41", -v) /\ -v \in Int
    BY <1>14 DEF EntryRows
  <2> QED BY <2>1, EntryIs
<1>15. TypeOf(d) = "peremeshenie" => EntryRows(d, m, v) = <<>>
  BY DEF EntryRows
<1> QED BY <1>2, <1>3, <1>4, <1>5, <1>6, <1>7, <1>8, <1>9, <1>10, <1>11, <1>12, <1>13, <1>14, <1>15

-----------------------------------------------------------------------------
\* What a document counts for in the comparison of accounts and registers.
Where(condition, v) == IF condition THEN v ELSE 0
InCash(d, type) == Where(Is(d, type, "cash"), TotalOf(d))
Returned(d) == Where(TypeOf(d) = "vozvrat", TotalOf(d))
Unsettled(d, type) == Where(DebtOf(d) = 0 /\ MoneyOf(d) = 0 /\ TypeOf(d) = type, TotalOf(d))
UnsettledPaid(d) ==
  Where(d \in Payments /\ DebtOf(d) = 0 /\ TypeOf(d) # "vvod_ostatkov_deneg", -MoneyOf(d) * TotalOf(d))

Signed(sign, v) == IF sign = 1 THEN v ELSE IF sign = -1 THEN -v ELSE 0

\* The signs, and what the rows of money and of settlements come to.
LEMMA SignsAre ==
  ASSUME NEW d \in AllDocs
  PROVE  /\ RowsSum(MoneyRows(d)) = Signed(MoneyOf(d), TotalOf(d)) /\ FewRows(MoneyRows(d))
         /\ RowsSum(SettlementRows(d)) = Signed(DebtOf(d), TotalOf(d)) /\ FewRows(SettlementRows(d))
         /\ MoneyOf(d) \in {-1, 0, 1} /\ DebtOf(d) \in {-1, 0, 1}
         /\ -MoneyOf(d) * TotalOf(d) = Signed(-MoneyOf(d), TotalOf(d))
<1>1. TotalOf(d) \in Int
  BY TotalsAreInt
<1>2. MoneyOf(d) \in {-1, 0, 1}
  BY DEF MoneyOf
<1>3. DebtOf(d) \in {-1, 0, 1}
  BY DEF DebtOf
<1>4. ASSUME NEW s \in {-1, 0, 1}, NEW v \in Int
      PROVE  s * v = Signed(s, v) /\ -s * v = Signed(-s, v) /\ Signed(s, v) \in Int
  <2>1. CASE s = 0
    BY <2>1 DEF Signed
  <2>2. CASE s = 1
    BY <2>2 DEF Signed
  <2>3. CASE s = -1
    <3>1. -s = 1 /\ s * v = -v /\ -s * v = v
      <4>1. (-1) * v = -v
        OBVIOUS
      <4>2. s * v = -v
        BY <2>3, <4>1
      <4>3. -s = 1
        <5>1. s \in Int /\ s + 1 = 0
          BY <2>3
        <5> QED BY <5>1
      <4>4. -s * v = -(s * v)
        OBVIOUS
      <4> QED BY <4>2, <4>3, <4>4
    <3> QED BY <2>3, <3>1 DEF Signed
  <2> QED BY <2>1, <2>2, <2>3
<1>5. RowsSum(<<>>) = 0 /\ FewRows(<<>>)
  <2>1. DOMAIN <<>> = {}
    OBVIOUS
  <2> QED BY <2>1 DEF RowsSum, FewRows
<1>6. ASSUME NEW e, e.amount \in Int PROVE RowsSum(<<e>>) = e.amount /\ FewRows(<<e>>)
  <2>1. PICK rows : rows = <<e>>
    OBVIOUS
  <2>2. DOMAIN rows = {1} /\ rows[1] = e
    BY <2>1
  <2>3. RowsSum(rows) = e.amount /\ FewRows(rows)
    BY <1>6, <2>2 DEF RowsSum, FewRows
  <2> QED BY <2>1, <2>3
<1>7. RowsSum(MoneyRows(d)) = Signed(MoneyOf(d), TotalOf(d)) /\ FewRows(MoneyRows(d))
  <2>1. CASE MoneyOf(d) = 0
    BY <1>5, <2>1 DEF MoneyRows, Signed
  <2>2. CASE MoneyOf(d) # 0
    <3>1. PICK e : e = [date |-> Header[d].date, kassa |-> Header[d].kassa, amount |-> MoneyOf(d) * TotalOf(d)]
      OBVIOUS
    <3>2. MoneyRows(d) = <<e>> /\ e.amount = MoneyOf(d) * TotalOf(d)
      BY <2>2, <3>1 DEF MoneyRows
    <3>3. e.amount = Signed(MoneyOf(d), TotalOf(d)) /\ e.amount \in Int
      BY <1>1, <1>2, <1>4, <3>2
    <3> QED BY <1>6, <3>2, <3>3
  <2> QED BY <2>1, <2>2
<1>8. RowsSum(SettlementRows(d)) = Signed(DebtOf(d), TotalOf(d)) /\ FewRows(SettlementRows(d))
  <2>1. CASE DebtOf(d) = 0
    BY <1>5, <2>1 DEF SettlementRows, Signed
  <2>2. CASE DebtOf(d) # 0
    <3>1. PICK e : e = [date |-> Header[d].date, kontragent |-> Header[d].kontragent,
                        base |-> IF d \in Docs THEN d ELSE Header[d].base, amount |-> DebtOf(d) * TotalOf(d)]
      OBVIOUS
    <3>2. SettlementRows(d) = <<e>> /\ e.amount = DebtOf(d) * TotalOf(d)
      BY <2>2, <3>1 DEF SettlementRows
    <3>3. e.amount = Signed(DebtOf(d), TotalOf(d)) /\ e.amount \in Int
      BY <1>1, <1>3, <1>4, <3>2
    <3> QED BY <1>6, <3>2, <3>3
  <2> QED BY <2>1, <2>2
<1> QED BY <1>1, <1>2, <1>3, <1>4, <1>7, <1>8

-----------------------------------------------------------------------------
\* What the rows of one posted document come to in the accounts, and what in
\* the registers.
Agrees(d, rows, acc) ==
  /\ Net(rows, "50") + Net(rows, "51") + InCash(d, "rashod")
       = Signed(MoneyOf(d), TotalOf(d)) + InCash(d, "prihod")
  /\ Net(rows, "60") + Net(rows, "62") + InCash(d, "prihod") + Returned(d) + Unsettled(d, "prihod")
       = Signed(DebtOf(d), TotalOf(d)) + InCash(d, "rashod") + Unsettled(d, "rashod") + UnsettledPaid(d)
  /\ Net(rows, "41") = acc

\* The entries of a document of goods.
LEMMA GoodsAgree ==
  ASSUME NEW d \in Docs, NEW m, NEW v, v \in Int, OutgoingCost(m) \in Int, IncomingCost(m) \in Int,
         Document[d].type # "pereocenka" => v = Account41(d, m)
  PROVE  FewRows(EntryRows(d, m, v)) /\ Agrees(d, EntryRows(d, m, v), v)
<1> DEFINE R == EntryRows(d, m, v)
<1>1. d \in AllDocs /\ d \notin Payments /\ TotalOf(d) \in Int /\ TypeOf(d) \in DocType
      /\ TypeOf(d) = Document[d].type /\ TotalOf(d) = Total(d)
  BY DocsAreFinite, TotalsAreInt, BooksAssumption DEF TypeOf, TotalOf
<1>2. UnsettledPaid(d) = 0
  BY <1>1 DEF UnsettledPaid, Where
<1> HIDE DEF R
<1>3. CASE TypeOf(d) = "prihod"
  <2>1. FewRows(R) /\ \A a : Net(R, a) = Side("41", a, TotalOf(d)) - Side("60", a, TotalOf(d))
    BY <1>1, <1>3, EntriesByType DEF Simple, R
  <2>2. v = TotalOf(d)
    BY <1>1, <1>3 DEF Account41, Incoming, Outgoing
  <2> QED BY <1>1, <1>2, <1>3, <2>1, <2>2
      DEF R, Agrees, Side, Signed, MoneyOf, DebtOf, InCash, Returned, Unsettled, Where, Is
<1>4. CASE TypeOf(d) = "vozvrat"
  <2>1. FewRows(R) /\ \A a : Net(R, a) = Side("41", a, TotalOf(d)) - Side("62", a, TotalOf(d))
    BY <1>1, <1>4, EntriesByType DEF Simple, R
  <2>2. v = TotalOf(d)
    BY <1>1, <1>4 DEF Account41, Incoming, Outgoing
  <2> QED BY <1>1, <1>2, <1>4, <2>1, <2>2
      DEF R, Agrees, Side, Signed, MoneyOf, DebtOf, InCash, Returned, Unsettled, Where, Is
<1>5. CASE TypeOf(d) = "oprihodovanie"
  <2>1. FewRows(R) /\ \A a : Net(R, a) = Side("41", a, TotalOf(d)) - Side("91.1", a, TotalOf(d))
    BY <1>1, <1>5, EntriesByType DEF Simple, R
  <2>2. v = TotalOf(d)
    BY <1>1, <1>5 DEF Account41, Incoming, Outgoing
  <2> QED BY <1>1, <1>2, <1>5, <2>1, <2>2
      DEF R, Agrees, Side, Signed, MoneyOf, DebtOf, InCash, Returned, Unsettled, Where, Is
<1>6. CASE TypeOf(d) = "vvod_ostatkov"
  <2>1. FewRows(R) /\ \A a : Net(R, a) = Side("41", a, TotalOf(d)) - Side("00", a, TotalOf(d))
    BY <1>1, <1>6, EntriesByType DEF Simple, R
  <2>2. v = TotalOf(d)
    BY <1>1, <1>6 DEF Account41, Incoming, Outgoing
  <2> QED BY <1>1, <1>2, <1>6, <2>1, <2>2
      DEF R, Agrees, Side, Signed, MoneyOf, DebtOf, InCash, Returned, Unsettled, Where, Is
<1>7. CASE TypeOf(d) = "spisanie"
  <2>1. FewRows(R) /\ \A a : Net(R, a) = Side("91.2", a, OutgoingCost(m)) - Side("41", a, OutgoingCost(m))
    BY <1>1, <1>7, EntriesByType DEF Simple, R
  <2>2. v = -OutgoingCost(m)
    BY <1>1, <1>7 DEF Account41, Incoming, Outgoing
  <2> QED BY <1>1, <1>2, <1>7, <2>1, <2>2
      DEF R, Agrees, Side, Signed, MoneyOf, DebtOf, InCash, Returned, Unsettled, Where, Is
<1>8. CASE TypeOf(d) = "rashod"
  <2>1. /\ FewRows(R)
        /\ \A a : Net(R, a) = (Side("62", a, TotalOf(d)) - Side("90.1", a, TotalOf(d)))
                              + (Side("90.2", a, OutgoingCost(m)) - Side("41", a, OutgoingCost(m)))
    BY <1>1, <1>8, EntriesByType DEF Double, R
  <2>2. v = -OutgoingCost(m)
    BY <1>1, <1>8 DEF Account41, Incoming, Outgoing
  <2> QED BY <1>1, <1>2, <1>8, <2>1, <2>2
      DEF R, Agrees, Side, Signed, MoneyOf, DebtOf, InCash, Returned, Unsettled, Where, Is
<1>9. CASE TypeOf(d) = "inventarizaciya"
  <2>1. /\ FewRows(R)
        /\ \A a : Net(R, a) = (Side("41", a, IncomingCost(m)) - Side("91.1", a, IncomingCost(m)))
                              + (Side("94", a, OutgoingCost(m)) - Side("41", a, OutgoingCost(m)))
    BY <1>1, <1>9, EntriesByType DEF Double, R
  <2>2. v = IncomingCost(m) - OutgoingCost(m)
    BY <1>1, <1>9 DEF Account41, Incoming, Outgoing
  <2> QED BY <1>1, <1>2, <1>9, <2>1, <2>2
      DEF R, Agrees, Side, Signed, MoneyOf, DebtOf, InCash, Returned, Unsettled, Where, Is
<1>10. CASE TypeOf(d) = "pereocenka" /\ v > 0
  <2>1. FewRows(R) /\ \A a : Net(R, a) = Side("41", a, v) - Side("91.1", a, v)
    BY <1>1, <1>10, EntriesByType DEF Simple, R
  <2> QED BY <1>1, <1>2, <1>10, <2>1
      DEF R, Agrees, Side, Signed, MoneyOf, DebtOf, InCash, Returned, Unsettled, Where, Is
<1>11. CASE TypeOf(d) = "pereocenka" /\ ~ (v > 0)
  <2>1. FewRows(R) /\ \A a : Net(R, a) = Side("91.2", a, -v) - Side("41", a, -v)
    BY <1>1, <1>11, EntriesByType DEF Simple, R
  <2> QED BY <1>1, <1>2, <1>11, <2>1
      DEF R, Agrees, Side, Signed, MoneyOf, DebtOf, InCash, Returned, Unsettled, Where, Is
<1>12. CASE TypeOf(d) = "peremeshenie"
  <2>1. FewRows(R) /\ \A a : Net(R, a) = 0
    BY <1>1, <1>12, EntriesByType, NoEntryIs DEF R
  <2>2. v = 0
    BY <1>1, <1>12 DEF Account41, Incoming, Outgoing
  <2> QED BY <1>1, <1>2, <1>12, <2>1, <2>2
      DEF R, Agrees, Side, Signed, MoneyOf, DebtOf, InCash, Returned, Unsettled, Where, Is
<1> QED BY <1>1, <1>3, <1>4, <1>5, <1>6, <1>7, <1>8, <1>9, <1>10, <1>11, <1>12 DEF DocType, Incoming, Outgoing

\* The entries of a payment.
LEMMA PaymentsAgree ==
  ASSUME NEW d \in Payments
  PROVE  FewRows(EntryRows(d, <<>>, 0)) /\ Agrees(d, EntryRows(d, <<>>, 0), 0)
<1>1. d \in AllDocs /\ TotalOf(d) \in Int /\ TypeOf(d) \in PaymentType
  BY DocsAreFinite, TotalsAreInt
<1>2. OutgoingCost(<<>>) \in Int /\ IncomingCost(<<>>) \in Int
  <2>1. DOMAIN <<>> = {}
    OBVIOUS
  <2>2. PICK f : f = [k \in {} |-> <<>>[k].amount]
    OBVIOUS
  <2>3. SumFunctionOnSet(f, {}) = 0
    BY SumOfNone
  <2>4. {k \in DOMAIN <<>> : <<>>[k].qty < 0} = {} /\ {k \in DOMAIN <<>> : <<>>[k].qty > 0} = {}
    BY <2>1
  <2> QED BY <2>2, <2>3, <2>4 DEF OutgoingCost, IncomingCost, SumOver
<1>3. PICK R : R = EntryRows(d, <<>>, 0)
  OBVIOUS
<1>4. -MoneyOf(d) * TotalOf(d) = Signed(-MoneyOf(d), TotalOf(d))
  BY <1>1, SignsAre
<1>5. CASE TypeOf(d) = "vvod_ostatkov_deneg"
  <2>1. FewRows(R) /\ \A a : Net(R, a) = Side("50", a, TotalOf(d)) - Side("00", a, TotalOf(d))
    BY <1>1, <1>2, <1>3, <1>5, EntriesByType DEF Simple
  <2> QED BY <1>1, <1>3, <1>4, <1>5, <2>1
      DEF Agrees, Side, Signed, MoneyOf, DebtOf, InCash, Returned, Unsettled, UnsettledPaid, Where, Is
<1>6. CASE TypeOf(d) = "prihodny_kassovy_order"
  <2>1. FewRows(R) /\ \A a : Net(R, a) = Side("50", a, TotalOf(d)) - Side("62", a, TotalOf(d))
    BY <1>1, <1>2, <1>3, <1>6, EntriesByType DEF Simple
  <2> QED BY <1>1, <1>3, <1>4, <1>6, <2>1
      DEF Agrees, Side, Signed, MoneyOf, DebtOf, InCash, Returned, Unsettled, UnsettledPaid, Where, Is
<1>7. CASE TypeOf(d) = "rashodny_kassovy_order"
  <2>1. FewRows(R) /\ \A a : Net(R, a) = Side("62", a, TotalOf(d)) - Side("50", a, TotalOf(d))
    BY <1>1, <1>2, <1>3, <1>7, EntriesByType DEF Simple
  <2> QED BY <1>1, <1>3, <1>4, <1>7, <2>1
      DEF Agrees, Side, Signed, MoneyOf, DebtOf, InCash, Returned, Unsettled, UnsettledPaid, Where, Is
<1>8. CASE TypeOf(d) = "platezhnoe_poruchenie"
  <2>1. FewRows(R) /\ \A a : Net(R, a) = Side("60", a, TotalOf(d)) - Side("51", a, TotalOf(d))
    BY <1>1, <1>2, <1>3, <1>8, EntriesByType DEF Simple
  <2> QED BY <1>1, <1>3, <1>4, <1>8, <2>1
      DEF Agrees, Side, Signed, MoneyOf, DebtOf, InCash, Returned, Unsettled, UnsettledPaid, Where, Is
<1> QED BY <1>1, <1>5, <1>6, <1>7, <1>8 DEF PaymentType

\* A document that is not posted.
LEMMA NothingAgrees ==
  FewRows(<<>>) /\ RowsSum(<<>>) = 0 /\ \A a : Net(<<>>, a) = 0
<1>1. DOMAIN <<>> = {}
  OBVIOUS
<1> QED BY <1>1, NoEntryIs DEF RowsSum

-----------------------------------------------------------------------------
(***************************************************************************)
(* The invariant of the books: a posted document has the rows that follow  *)
(* from it, from its movements and from its account, and no other has any. *)
(***************************************************************************)
BooksAre(mv, acc, p, pd, mo, se, en) ==
  /\ pd \subseteq Payments
  /\ DOMAIN mo = AllDocs /\ DOMAIN se = AllDocs /\ DOMAIN en = AllDocs
  /\ \A d \in AllDocs : d \notin p /\ d \notin pd => mo[d] = <<>> /\ se[d] = <<>> /\ en[d] = <<>>
  /\ \A d \in AllDocs : d \in p \/ d \in pd => mo[d] = MoneyRows(d) /\ se[d] = SettlementRows(d)
  /\ \A d \in Docs : d \in p => en[d] = EntryRows(d, mv[d], acc[d])
  /\ \A d \in pd : en[d] = EntryRows(d, <<>>, 0)
  /\ \A d \in Docs : d \notin p => acc[d] = 0
  /\ \A d \in Docs : d \in p /\ Document[d].type # "pereocenka" => acc[d] = Account41(d, mv[d])

BooksInv ==
  /\ LedgerInv
  /\ BooksAre(moves, acc41, posted, paid, money, settlements, entries)

Sets(f2, f, d, x) == f2 = [f EXCEPT ![d] = x]

\* Posting goods.
LEMMA GoodsEntered ==
  ASSUME NEW mv, NEW acc, NEW p, NEW pd, NEW mo, NEW se, NEW en, BooksAre(mv, acc, p, pd, mo, se, en),
         NEW d \in Docs,
         NEW mv2, \A e \in Docs \ {d} : mv2[e] = mv[e],
         NEW acc2, \A e \in Docs \ {d} : acc2[e] = acc[e],
         Document[d].type # "pereocenka" => acc2[d] = Account41(d, mv2[d]),
         NEW mo2, Sets(mo2, mo, d, MoneyRows(d)), NEW se2, Sets(se2, se, d, SettlementRows(d)),
         NEW en2, Sets(en2, en, d, EntryRows(d, mv2[d], acc2[d]))
  PROVE  BooksAre(mv2, acc2, p \cup {d}, pd, mo2, se2, en2)
<1>1. d \in AllDocs /\ d \notin Payments
  BY DocsAreFinite, BooksAssumption
<1>2. /\ DOMAIN mo2 = AllDocs /\ mo2[d] = MoneyRows(d) /\ \A e \in AllDocs \ {d} : mo2[e] = mo[e]
      /\ DOMAIN se2 = AllDocs /\ se2[d] = SettlementRows(d) /\ \A e \in AllDocs \ {d} : se2[e] = se[e]
      /\ DOMAIN en2 = AllDocs /\ en2[d] = EntryRows(d, mv2[d], acc2[d]) /\ \A e \in AllDocs \ {d} : en2[e] = en[e]
  BY <1>1 DEF BooksAre, Sets
<1> QED BY <1>1, <1>2, DocsAreFinite DEF BooksAre

\* Cancelling them.
LEMMA GoodsRemoved ==
  ASSUME NEW mv, NEW acc, NEW p, NEW pd, NEW mo, NEW se, NEW en, BooksAre(mv, acc, p, pd, mo, se, en),
         NEW d \in Docs,
         NEW mv2, \A e \in Docs \ {d} : mv2[e] = mv[e],
         NEW acc2, \A e \in Docs \ {d} : acc2[e] = acc[e], acc2[d] = 0,
         NEW mo2, Sets(mo2, mo, d, <<>>), NEW se2, Sets(se2, se, d, <<>>), NEW en2, Sets(en2, en, d, <<>>)
  PROVE  BooksAre(mv2, acc2, p \ {d}, pd, mo2, se2, en2)
<1>1. d \in AllDocs /\ d \notin Payments
  BY DocsAreFinite, BooksAssumption
<1>2. /\ DOMAIN mo2 = AllDocs /\ mo2[d] = <<>> /\ \A e \in AllDocs \ {d} : mo2[e] = mo[e]
      /\ DOMAIN se2 = AllDocs /\ se2[d] = <<>> /\ \A e \in AllDocs \ {d} : se2[e] = se[e]
      /\ DOMAIN en2 = AllDocs /\ en2[d] = <<>> /\ \A e \in AllDocs \ {d} : en2[e] = en[e]
  BY <1>1 DEF BooksAre, Sets
<1> QED BY <1>1, <1>2, DocsAreFinite DEF BooksAre

\* Posting a payment.
LEMMA PaymentEntered ==
  ASSUME NEW mv, NEW acc, NEW p, NEW pd, NEW mo, NEW se, NEW en, BooksAre(mv, acc, p, pd, mo, se, en),
         p \subseteq Docs, NEW d \in Payments,
         NEW mo2, Sets(mo2, mo, d, MoneyRows(d)), NEW se2, Sets(se2, se, d, SettlementRows(d)),
         NEW en2, Sets(en2, en, d, EntryRows(d, <<>>, 0))
  PROVE  BooksAre(mv, acc, p, pd \cup {d}, mo2, se2, en2)
<1>1. d \in AllDocs /\ d \notin Docs
  BY DocsAreFinite, BooksAssumption
<1>2. /\ DOMAIN mo2 = AllDocs /\ mo2[d] = MoneyRows(d) /\ \A e \in AllDocs \ {d} : mo2[e] = mo[e]
      /\ DOMAIN se2 = AllDocs /\ se2[d] = SettlementRows(d) /\ \A e \in AllDocs \ {d} : se2[e] = se[e]
      /\ DOMAIN en2 = AllDocs /\ en2[d] = EntryRows(d, <<>>, 0) /\ \A e \in AllDocs \ {d} : en2[e] = en[e]
  BY <1>1 DEF BooksAre, Sets
<1> QED BY <1>1, <1>2, DocsAreFinite DEF BooksAre

\* Cancelling one.
LEMMA PaymentRemoved ==
  ASSUME NEW mv, NEW acc, NEW p, NEW pd, NEW mo, NEW se, NEW en, BooksAre(mv, acc, p, pd, mo, se, en),
         p \subseteq Docs, NEW d \in Payments,
         NEW mo2, Sets(mo2, mo, d, <<>>), NEW se2, Sets(se2, se, d, <<>>), NEW en2, Sets(en2, en, d, <<>>)
  PROVE  BooksAre(mv, acc, p, pd \ {d}, mo2, se2, en2)
<1>1. d \in AllDocs /\ d \notin Docs
  BY DocsAreFinite, BooksAssumption
<1>2. /\ DOMAIN mo2 = AllDocs /\ mo2[d] = <<>> /\ \A e \in AllDocs \ {d} : mo2[e] = mo[e]
      /\ DOMAIN se2 = AllDocs /\ se2[d] = <<>> /\ \A e \in AllDocs \ {d} : se2[e] = se[e]
      /\ DOMAIN en2 = AllDocs /\ en2[d] = <<>> /\ \A e \in AllDocs \ {d} : en2[e] = en[e]
  BY <1>1 DEF BooksAre, Sets
<1> QED BY <1>1, <1>2, DocsAreFinite DEF BooksAre

\* Every step of the books keeps the invariant.
LEMMA BooksStep ==
  BooksInv /\ BooksNext => BooksInv'
<1> SUFFICES ASSUME BooksInv, BooksNext PROVE BooksInv'
  OBVIOUS
<1>0. /\ LedgerInv /\ BooksAre(moves, acc41, posted, paid, money, settlements, entries)
      /\ posted \subseteq Docs /\ Register(moves) /\ acc41 \in [Docs -> Int]
  BY ConsistentIs DEF BooksInv, LedgerInv, LedgerIs
<1>1. ASSUME NEW d \in Docs, PostGoods(d) PROVE BooksInv'
  <2>1. /\ PostDocument(d) \/ PostRevaluation(d)
        /\ Sets(money', money, d, MoneyRows(d)) /\ Sets(settlements', settlements, d, SettlementRows(d))
        /\ Sets(entries', entries, d, EntryRows(d, moves'[d], acc41'[d])) /\ paid' = paid
    BY <1>1 DEF PostGoods, Enter, Sets
  <2>2. posted' = posted \cup {d} /\ LedgerInv'
    BY <1>0, <2>1, LedgerStep DEF PostDocument, PostRevaluation, Next
  <2>3. /\ \A e \in Docs \ {d} : moves'[e] = moves[e]
        /\ \A e \in Docs \ {d} : acc41'[e] = acc41[e]
        /\ Document[d].type # "pereocenka" => acc41'[d] = Account41(d, moves'[d])
    <3>1. CASE PostDocument(d)
      <4>1. PICK W : /\ Enrolls(moves', moves, d, W.m)
                     /\ Enrolls(acc41', acc41, d, Account41(d, W.m))
        BY <1>0, <3>1, PostDocumentIs
      <4>2. moves'[d] = W.m /\ acc41'[d] = Account41(d, W.m)
        BY <1>0, <4>1 DEF Enrolls, Register
      <4> QED BY <1>0, <4>1, <4>2 DEF Enrolls, Register
    <3>2. CASE PostRevaluation(d)
      <4>1. PICK R : Enrolls(acc41', acc41, d, QuantizeCents(R.diff))
        BY <1>0, <3>2, PostRevaluationIs
      <4>2. moves' = moves /\ Document[d].type = "pereocenka"
        BY <3>2 DEF PostRevaluation
      <4> QED BY <1>0, <4>1, <4>2 DEF Enrolls
    <3> QED BY <2>1, <3>1, <3>2
  <2>4. PICK mv2, acc2, mo2, se2, en2 :
          mv2 = moves' /\ acc2 = acc41' /\ mo2 = money' /\ se2 = settlements' /\ en2 = entries'
    OBVIOUS
  <2>5. BooksAre(mv2, acc2, posted \cup {d}, paid, mo2, se2, en2)
    BY <1>0, <2>1, <2>3, <2>4, GoodsEntered, ZenonT(40)
  <2> QED BY <2>1, <2>2, <2>4, <2>5 DEF BooksInv
<1>2. ASSUME NEW d \in Docs, UnpostGoods(d) PROVE BooksInv'
  <2>1. /\ UnpostDocument(d) \/ UnpostRevaluation(d)
        /\ Sets(money', money, d, <<>>) /\ Sets(settlements', settlements, d, <<>>)
        /\ Sets(entries', entries, d, <<>>) /\ paid' = paid
    BY <1>2 DEF UnpostGoods, DeleteMovements, Sets
  <2>2. posted' = posted \ {d} /\ LedgerInv'
    BY <1>0, <2>1, LedgerStep DEF UnpostDocument, UnpostRevaluation, Next
  <2>3. /\ \A e \in Docs \ {d} : moves'[e] = moves[e]
        /\ \A e \in Docs \ {d} : acc41'[e] = acc41[e]
        /\ acc41'[d] = 0
    BY <1>0, <2>1 DEF UnpostDocument, UnpostRevaluation, Register
  <2>4. PICK mv2, acc2, mo2, se2, en2 :
          mv2 = moves' /\ acc2 = acc41' /\ mo2 = money' /\ se2 = settlements' /\ en2 = entries'
    OBVIOUS
  <2>5. BooksAre(mv2, acc2, posted \ {d}, paid, mo2, se2, en2)
    BY <1>0, <2>1, <2>3, <2>4, GoodsRemoved, ZenonT(40)
  <2> QED BY <2>1, <2>2, <2>4, <2>5 DEF BooksInv
<1>3. ASSUME NEW d \in Payments, PostPayment(d) PROVE BooksInv'
  <2>1. /\ UNCHANGED vars /\ paid' = paid \cup {d}
        /\ Sets(money', money, d, MoneyRows(d)) /\ Sets(settlements', settlements, d, SettlementRows(d))
        /\ Sets(entries', entries, d, EntryRows(d, <<>>, 0))
    BY <1>3 DEF PostPayment, Enter, Sets
  <2>2. moves' = moves /\ acc41' = acc41 /\ posted' = posted /\ LedgerInv'
    BY <1>0, <2>1, LedgerStep DEF vars
  <2>3. PICK mo2, se2, en2 : mo2 = money' /\ se2 = settlements' /\ en2 = entries'
    OBVIOUS
  <2>4. BooksAre(moves, acc41, posted, paid \cup {d}, mo2, se2, en2)
    BY <1>0, <2>1, <2>3, PaymentEntered
  <2> QED BY <2>1, <2>2, <2>3, <2>4 DEF BooksInv
<1>4. ASSUME NEW d \in Payments, UnpostPayment(d) PROVE BooksInv'
  <2>1. /\ UNCHANGED vars /\ paid' = paid \ {d}
        /\ Sets(money', money, d, <<>>) /\ Sets(settlements', settlements, d, <<>>)
        /\ Sets(entries', entries, d, <<>>)
    BY <1>4 DEF UnpostPayment, DeleteMovements, Sets
  <2>2. moves' = moves /\ acc41' = acc41 /\ posted' = posted /\ LedgerInv'
    BY <1>0, <2>1, LedgerStep DEF vars
  <2>3. PICK mo2, se2, en2 : mo2 = money' /\ se2 = settlements' /\ en2 = entries'
    OBVIOUS
  <2>4. BooksAre(moves, acc41, posted, paid \ {d}, mo2, se2, en2)
    BY <1>0, <2>1, <2>3, PaymentRemoved
  <2> QED BY <2>1, <2>2, <2>3, <2>4 DEF BooksInv
<1> QED BY <1>1, <1>2, <1>3, <1>4 DEF BooksNext

\* The invariant of the books, beside the till: a posted document has the rows of
\* money, settlement and accounting that follow from it, and no other has any.
THEOREM BooksHold == TillSpec => []BooksInv
<1>1. BooksInit => BooksInv
  <2> SUFFICES ASSUME BooksInit PROVE BooksInv
    OBVIOUS
  <2>1. LedgerInv
    BY LedgerInit DEF BooksInit
  <2>2. posted = {} /\ acc41 = [d \in Docs |-> 0] /\ paid = {}
    BY DEF BooksInit, Init
  <2>3. /\ money = [d \in AllDocs |-> <<>>] /\ settlements = [d \in AllDocs |-> <<>>]
        /\ entries = [d \in AllDocs |-> <<>>]
    BY DEF BooksInit
  <2> QED BY <2>1, <2>2, <2>3 DEF BooksInv, BooksAre
<1>2. BooksInv /\ [TillNext]_<<vars, registers, till>> => BooksInv'
  <2> SUFFICES ASSUME BooksInv, [TillNext]_<<vars, registers, till>> PROVE BooksInv'
    OBVIOUS
  <2>1. CASE BooksNext
    BY <2>1, BooksStep
  <2>2. CASE UNCHANGED <<vars, registers>>
    <3>1. LedgerInv'
      BY <2>2, LedgerStep DEF BooksInv
    <3>2. /\ moves' = moves /\ acc41' = acc41 /\ posted' = posted /\ paid' = paid
          /\ money' = money /\ settlements' = settlements /\ entries' = entries
      BY <2>2 DEF vars, registers
    <3> QED BY <3>1, <3>2 DEF BooksInv
  <2> QED BY <2>1, <2>2 DEF TillNext
<1> QED BY <1>1, <1>2, PTL DEF TillSpec

-----------------------------------------------------------------------------
\* What left and what came in have a cost.
LEMMA CostsAreInt ==
  ASSUME Register(moves), NEW d \in Docs
  PROVE  OutgoingCost(moves[d]) \in Int /\ IncomingCost(moves[d]) \in Int
<1>1. PICK m : m = moves[d]
  OBVIOUS
<1>2. Len(m) \in Nat /\ DOMAIN m = 1 .. Len(m) /\ \A k \in DOMAIN m : m[k] \in AnyRow
  BY <1>1, RegisterIs
<1>3. IsFiniteSet(DOMAIN m)
  BY <1>2, FS_Interval
<1>4. ASSUME NEW S \in SUBSET DOMAIN m PROVE SumFunctionOnSet([k \in S |-> m[k].amount], S) \in Int
  <2>1. PICK f : f = [k \in S |-> m[k].amount]
    OBVIOUS
  <2>2. IsFiniteSet(S) /\ \A k \in S : f[k] \in Int
    BY <1>2, <1>3, <2>1, FS_Subset DEF AnyRow
  <2> QED BY <2>1, <2>2, SumIsInt
<1>5. PICK S : S = {k \in DOMAIN m : m[k].qty < 0}
  OBVIOUS
<1>6. PICK T : T = {k \in DOMAIN m : m[k].qty > 0}
  OBVIOUS
<1>7. /\ SumFunctionOnSet([k \in S |-> m[k].amount], S) \in Int
      /\ SumFunctionOnSet([k \in T |-> m[k].amount], T) \in Int
  BY <1>4, <1>5, <1>6
<1> QED BY <1>1, <1>5, <1>6, <1>7 DEF OutgoingCost, IncomingCost, SumOver

\* What d counts for when it is posted.
IfPosted(d, v) == IF d \in Posted THEN v ELSE 0

\* The rows and the accounts of each document, posted or not.
LEMMA EachAgrees ==
  ASSUME BooksInv, NEW d \in AllDocs
  PROVE  /\ FewRows(entries[d]) /\ FewRows(money[d]) /\ FewRows(settlements[d])
         /\ Net(entries[d], "50") + Net(entries[d], "51") + IfPosted(d, InCash(d, "rashod"))
              = RowsSum(money[d]) + IfPosted(d, InCash(d, "prihod"))
         /\ Net(entries[d], "60") + Net(entries[d], "62") + IfPosted(d, InCash(d, "prihod"))
                + IfPosted(d, Returned(d)) + IfPosted(d, Unsettled(d, "prihod"))
              = RowsSum(settlements[d]) + IfPosted(d, InCash(d, "rashod"))
                + IfPosted(d, Unsettled(d, "rashod")) + IfPosted(d, UnsettledPaid(d))
         /\ Net(entries[d], "41") = IF d \in Docs THEN acc41[d] ELSE 0
<1>1. /\ BooksAre(moves, acc41, posted, paid, money, settlements, entries)
      /\ posted \subseteq Docs /\ Register(moves) /\ acc41 \in [Docs -> Int]
  BY ConsistentIs DEF BooksInv, LedgerInv, LedgerIs
<1>2. Docs \cap Payments = {} /\ paid \subseteq Payments /\ Docs \subseteq AllDocs /\ Payments \subseteq AllDocs
  BY <1>1, DocsAreFinite, BooksAssumption DEF BooksAre
<1>3. CASE d \in posted
  <2>1. PICK R : R = EntryRows(d, moves[d], acc41[d])
    OBVIOUS
  <2>2. entries[d] = R /\ money[d] = MoneyRows(d) /\ settlements[d] = SettlementRows(d)
    BY <1>1, <1>2, <1>3, <2>1 DEF BooksAre
  <2>3. FewRows(R) /\ Agrees(d, R, acc41[d])
    <3>1. /\ acc41[d] \in Int /\ OutgoingCost(moves[d]) \in Int /\ IncomingCost(moves[d]) \in Int
      BY <1>1, <1>3, CostsAreInt
    <3>2. Document[d].type # "pereocenka" => acc41[d] = Account41(d, moves[d])
      BY <1>1, <1>3 DEF BooksAre
    <3>3. PICK m, v : m = moves[d] /\ v = acc41[d]
      OBVIOUS
    <3> QED BY <1>1, <1>3, <2>1, <3>1, <3>2, <3>3, GoodsAgree
  <2>4. d \in Docs /\ d \in Posted
    BY <1>1, <1>3 DEF Posted
  <2> QED BY <2>2, <2>3, <2>4, SignsAre DEF Agrees, IfPosted
<1>4. CASE d \in paid
  <2>1. PICK R : R = EntryRows(d, <<>>, 0)
    OBVIOUS
  <2>2. entries[d] = R /\ money[d] = MoneyRows(d) /\ settlements[d] = SettlementRows(d)
    BY <1>1, <1>2, <1>4, <2>1 DEF BooksAre
  <2>3. FewRows(R) /\ Agrees(d, R, 0)
    BY <1>2, <1>4, <2>1, PaymentsAgree
  <2>4. d \notin Docs /\ d \in Posted
    BY <1>2, <1>4 DEF Posted
  <2> QED BY <2>2, <2>3, <2>4, SignsAre DEF Agrees, IfPosted
<1>5. CASE d \notin posted /\ d \notin paid
  <2>1. entries[d] = <<>> /\ money[d] = <<>> /\ settlements[d] = <<>> /\ (d \in Docs => acc41[d] = 0)
    BY <1>1, <1>5 DEF BooksAre
  <2>2. d \notin Posted
    BY <1>5 DEF Posted
  <2>3. \A v : IfPosted(d, v) = 0
    BY <2>2 DEF IfPosted
  <2> QED BY <2>1, <2>3, NothingAgrees
<1> QED BY <1>3, <1>4, <1>5

-----------------------------------------------------------------------------
\* What is posted of some documents is summed over all of them.
Of(S) == [d \in AllDocs |-> Where(d \in S, TotalOf(d))]

\* The totals of some documents, summed over all of them.
LEMMA TotalsOf ==
  ASSUME NEW S \in SUBSET AllDocs
  PROVE  /\ SumOver(S, TotalOf) = SumFunctionOnSet(Of(S), AllDocs)
         /\ \A d \in AllDocs : Of(S)[d] \in Int /\ Of(S)[d] = Where(d \in S, TotalOf(d))
<1>1. PICK g : g = Of(S)
  OBVIOUS
<1>2. \A d \in AllDocs : g[d] = IF d \in S THEN TotalOf(d) ELSE 0
  BY <1>1 DEF Of, Where
<1>3. SumFunctionOnSet([d \in S |-> TotalOf(d)], S) = SumFunctionOnSet(g, AllDocs)
  BY <1>2, PostedAre
<1>4. \A d \in AllDocs : g[d] \in Int
  BY <1>2, TotalsAreInt
<1> QED BY <1>1, <1>2, <1>3, <1>4 DEF SumOver, Where

-----------------------------------------------------------------------------
\* Sums over the documents of functions with integer values.
Whole(f) == \A d \in AllDocs : f[d] \in Int
SumAll(f) == SumFunctionOnSet(f, AllDocs)
Plus(f, g) == [d \in AllDocs |-> f[d] + g[d]]

\* Sums over the documents add up.
LEMMA PlusIs ==
  ASSUME NEW f, Whole(f), NEW g, Whole(g)
  PROVE  /\ Whole(Plus(f, g)) /\ SumAll(Plus(f, g)) = SumAll(f) + SumAll(g)
         /\ SumAll(f) \in Int /\ SumAll(g) \in Int
         /\ \A d \in AllDocs : Plus(f, g)[d] = f[d] + g[d]
<1>1. PICK h : h = Plus(f, g)
  OBVIOUS
<1>2. \A d \in AllDocs : f[d] \in Int /\ g[d] \in Int /\ h[d] = f[d] + g[d]
  BY <1>1 DEF Plus, Whole
<1>3. SumAll(h) = SumAll(f) + SumAll(g)
  BY <1>2, DocsAreFinite, SumAdd DEF SumAll
<1>4. SumAll(f) \in Int /\ SumAll(g) \in Int
  BY <1>2, DocsAreFinite, SumIsInt DEF SumAll
<1>5. Whole(h)
  BY <1>2 DEF Whole
<1> QED BY <1>1, <1>2, <1>3, <1>4, <1>5

\* They are the same when every document counts the same.
LEMMA SumAllSame ==
  ASSUME NEW f, NEW g, \A d \in AllDocs : f[d] = g[d]
  PROVE  SumAll(f) = SumAll(g)
BY DocsAreFinite, SumSame DEF SumAll

\* The entries, the registers and the balances, by document.
LEMMA SumsAre ==
  ASSUME BooksInv
  PROVE  /\ \A a : BalanceOf(a) = SumAll(NetOf(entries, a)) /\ Whole(NetOf(entries, a))
         /\ SumIn(money, LAMBDA m : TRUE) = SumAll([d \in AllDocs |-> RowsSum(money[d])])
         /\ Whole([d \in AllDocs |-> RowsSum(money[d])])
         /\ SumIn(settlements, LAMBDA m : TRUE) = SumAll([d \in AllDocs |-> RowsSum(settlements[d])])
         /\ Whole([d \in AllDocs |-> RowsSum(settlements[d])])
<1>1. DOMAIN money = AllDocs /\ DOMAIN settlements = AllDocs /\ DOMAIN entries = AllDocs
  BY DEF BooksInv, BooksAre
<1>2. TwoRows(money) /\ TwoRows(settlements) /\ TwoRows(entries)
  BY <1>1, EachAgrees DEF TwoRows, FewRows
<1>3. ASSUME NEW a PROVE BalanceOf(a) = SumAll(NetOf(entries, a)) /\ Whole(NetOf(entries, a))
  BY <1>2, BalanceIs, SidesAreInt DEF SumAll, Whole, NetOf
<1>4. ASSUME NEW register, TwoRows(register)
      PROVE  Whole([d \in AllDocs |-> RowsSum(register[d])])
  <2>1. ASSUME NEW d \in AllDocs PROVE RowsSum(register[d]) \in Int
    <3>1. PICK rows : rows = register[d]
      OBVIOUS
    <3>2. \A k \in DOMAIN rows : rows[k].amount \in Int
      BY <1>4, <3>1 DEF TwoRows
    <3> QED BY <3>1, <3>2 DEF RowsSum
  <2> QED BY <2>1 DEF Whole
<1> QED BY <1>2, <1>3, <1>4, AllRowsAre DEF SumAll

\* The documents left out of one of the two.
CashOf(type) == {d \in Posted : Is(d, type, "cash")}
Returns == {d \in Posted : TypeOf(d) = "vozvrat"}
UnsettledOf(type) == {d \in Posted : DebtOf(d) = 0 /\ MoneyOf(d) = 0 /\ TypeOf(d) = type}
UnsettledPayments == {d \in paid : DebtOf(d) = 0 /\ TypeOf(d) # "vvod_ostatkov_deneg"}

\* Payments that settle nothing, over all documents.
LEMMA UnsettledPaymentsAre ==
  ASSUME posted \subseteq Docs, paid \subseteq Payments,
         NEW g, g = [d \in AllDocs |-> IfPosted(d, UnsettledPaid(d))]
  PROVE  /\ SumOver(UnsettledPayments, LAMBDA d : -MoneyOf(d) * TotalOf(d)) = SumAll(g)
         /\ Whole(g)
<1>1. PICK S : S = UnsettledPayments
  OBVIOUS
<1>2. S \in SUBSET AllDocs /\ \A d \in S : d \in paid /\ d \in Payments /\ d \in Posted
  BY <1>1, DocsAreFinite DEF UnsettledPayments, Posted
<1>3. PICK f : f = [d \in S |-> -MoneyOf(d) * TotalOf(d)]
  OBVIOUS
<1>4. \A d \in S : f[d] \in Int /\ g[d] = f[d]
  <2> SUFFICES ASSUME NEW d \in S PROVE f[d] \in Int /\ g[d] = f[d]
    OBVIOUS
  <2>1. -MoneyOf(d) * TotalOf(d) \in Int
    <3>1. MoneyOf(d) \in Int /\ TotalOf(d) \in Int
      BY <1>2, SignsAre, TotalsAreInt
    <3> QED BY <3>1
  <2>2. UnsettledPaid(d) = -MoneyOf(d) * TotalOf(d)
    BY <1>1, <1>2 DEF UnsettledPayments, UnsettledPaid, Where
  <2> QED BY <1>2, <1>3, <2>1, <2>2 DEF IfPosted
<1>5. \A d \in AllDocs \ S : g[d] = 0
  <2> SUFFICES ASSUME NEW d \in AllDocs \ S PROVE g[d] = 0
    OBVIOUS
  <2>1. CASE d \in paid
    <3>1. UnsettledPaid(d) = 0
      BY <1>1, <2>1 DEF UnsettledPayments, UnsettledPaid, Where
    <3> QED BY <3>1 DEF IfPosted
  <2>2. CASE d \notin paid
    <3>1. d \in Posted => d \notin Payments
      BY <2>2, BooksAssumption DEF Posted
    <3> QED BY <3>1 DEF IfPosted, UnsettledPaid, Where
  <2> QED BY <2>1, <2>2
<1>6. SumFunctionOnSet(f, S) = SumAll(g)
  BY <1>2, <1>4, <1>5, DocsAreFinite, SumFiltered DEF SumAll
<1>7. Whole(g)
  BY <1>4, <1>5 DEF Whole
<1> QED BY <1>1, <1>3, <1>6, <1>7 DEF SumOver

\* The accounts and the registers agree but for what one of them leaves out.
LEMMA InvariantGivesBooks ==
  BooksInv => AccountsMatchRegisters
<1> SUFFICES ASSUME BooksInv PROVE AccountsMatchRegisters
  OBVIOUS
<1>1. /\ posted \subseteq Docs /\ paid \subseteq Payments /\ acc41 \in [Docs -> Int]
      /\ Docs \subseteq AllDocs /\ Payments \subseteq AllDocs /\ Posted \subseteq AllDocs
  BY ConsistentIs, DocsAreFinite DEF BooksInv, LedgerInv, LedgerIs, BooksAre, Posted
<1>2. PICK n41 : n41 = NetOf(entries, "41")
  OBVIOUS
<1>3. PICK n50 : n50 = NetOf(entries, "50")
  OBVIOUS
<1>4. PICK n51 : n51 = NetOf(entries, "51")
  OBVIOUS
<1>5. PICK n60 : n60 = NetOf(entries, "60")
  OBVIOUS
<1>6. PICK n62 : n62 = NetOf(entries, "62")
  OBVIOUS
<1>7. PICK mo : mo = [d \in AllDocs |-> RowsSum(money[d])]
  OBVIOUS
<1>8. PICK se : se = [d \in AllDocs |-> RowsSum(settlements[d])]
  OBVIOUS
<1>9. PICK cs : cs = Of(CashOf("rashod"))
  OBVIOUS
<1>10. PICK cp : cp = Of(CashOf("prihod"))
  OBVIOUS
<1>11. PICK rt : rt = Of(Returns)
  OBVIOUS
<1>12. PICK ur : ur = Of(UnsettledOf("rashod"))
  OBVIOUS
<1>13. PICK up : up = Of(UnsettledOf("prihod"))
  OBVIOUS
<1>14. PICK uq : uq = [d \in AllDocs |-> IfPosted(d, UnsettledPaid(d))]
  OBVIOUS
<1>15. /\ BalanceOf("41") = SumAll(n41) /\ Whole(n41)
       /\ BalanceOf("50") = SumAll(n50) /\ Whole(n50)
       /\ BalanceOf("51") = SumAll(n51) /\ Whole(n51)
       /\ BalanceOf("60") = SumAll(n60) /\ Whole(n60)
       /\ BalanceOf("62") = SumAll(n62) /\ Whole(n62)
       /\ SumIn(money, LAMBDA m : TRUE) = SumAll(mo) /\ Whole(mo)
       /\ SumIn(settlements, LAMBDA m : TRUE) = SumAll(se) /\ Whole(se)
  BY <1>2, <1>3, <1>4, <1>5, <1>6, <1>7, <1>8, SumsAre
<1>16. ASSUME NEW S, NEW f, S \in SUBSET AllDocs, f = Of(S)
       PROVE  SumOver(S, TotalOf) = SumAll(f) /\ Whole(f) /\ \A d \in AllDocs : f[d] = Where(d \in S, TotalOf(d))
  BY <1>16, TotalsOf DEF SumAll, Whole
<1>17. /\ TotalPosted(LAMBDA d : Is(d, "rashod", "cash")) = SumAll(cs)
       /\ Whole(cs) /\ \A d \in AllDocs : cs[d] = IfPosted(d, InCash(d, "rashod"))
  <2>1. PICK S : S = CashOf("rashod")
    OBVIOUS
  <2>2. S \in SUBSET AllDocs
    BY <1>1, <2>1 DEF CashOf
  <2>3. SumOver(S, TotalOf) = SumAll(cs) /\ Whole(cs) /\ \A d \in AllDocs : cs[d] = Where(d \in S, TotalOf(d))
    BY <1>9, <1>16, <2>1, <2>2
  <2> QED BY <2>1, <2>3 DEF TotalPosted, CashOf, IfPosted, InCash, Where
<1>18. /\ TotalPosted(LAMBDA d : Is(d, "prihod", "cash")) = SumAll(cp)
       /\ Whole(cp) /\ \A d \in AllDocs : cp[d] = IfPosted(d, InCash(d, "prihod"))
  <2>1. PICK S : S = CashOf("prihod")
    OBVIOUS
  <2>2. S \in SUBSET AllDocs
    BY <1>1, <2>1 DEF CashOf
  <2>3. SumOver(S, TotalOf) = SumAll(cp) /\ Whole(cp) /\ \A d \in AllDocs : cp[d] = Where(d \in S, TotalOf(d))
    BY <1>10, <1>16, <2>1, <2>2
  <2> QED BY <2>1, <2>3 DEF TotalPosted, CashOf, IfPosted, InCash, Where
<1>19. /\ TotalPosted(LAMBDA d : TypeOf(d) = "vozvrat") = SumAll(rt)
       /\ Whole(rt) /\ \A d \in AllDocs : rt[d] = IfPosted(d, Returned(d))
  <2>1. PICK S : S = Returns
    OBVIOUS
  <2>2. S \in SUBSET AllDocs
    BY <1>1, <2>1 DEF Returns
  <2>3. SumOver(S, TotalOf) = SumAll(rt) /\ Whole(rt) /\ \A d \in AllDocs : rt[d] = Where(d \in S, TotalOf(d))
    BY <1>11, <1>16, <2>1, <2>2
  <2> QED BY <2>1, <2>3 DEF TotalPosted, Returns, IfPosted, Returned, Where
<1>20. /\ TotalPosted(LAMBDA d : DebtOf(d) = 0 /\ MoneyOf(d) = 0 /\ TypeOf(d) = "rashod") = SumAll(ur)
       /\ Whole(ur) /\ \A d \in AllDocs : ur[d] = IfPosted(d, Unsettled(d, "rashod"))
  <2>1. PICK S : S = UnsettledOf("rashod")
    OBVIOUS
  <2>2. S \in SUBSET AllDocs
    BY <1>1, <2>1 DEF UnsettledOf
  <2>3. SumOver(S, TotalOf) = SumAll(ur) /\ Whole(ur) /\ \A d \in AllDocs : ur[d] = Where(d \in S, TotalOf(d))
    BY <1>12, <1>16, <2>1, <2>2
  <2> QED BY <2>1, <2>3 DEF TotalPosted, UnsettledOf, IfPosted, Unsettled, Where
<1>21. /\ TotalPosted(LAMBDA d : DebtOf(d) = 0 /\ MoneyOf(d) = 0 /\ TypeOf(d) = "prihod") = SumAll(up)
       /\ Whole(up) /\ \A d \in AllDocs : up[d] = IfPosted(d, Unsettled(d, "prihod"))
  <2>1. PICK S : S = UnsettledOf("prihod")
    OBVIOUS
  <2>2. S \in SUBSET AllDocs
    BY <1>1, <2>1 DEF UnsettledOf
  <2>3. SumOver(S, TotalOf) = SumAll(up) /\ Whole(up) /\ \A d \in AllDocs : up[d] = Where(d \in S, TotalOf(d))
    BY <1>13, <1>16, <2>1, <2>2
  <2> QED BY <2>1, <2>3 DEF TotalPosted, UnsettledOf, IfPosted, Unsettled, Where
<1>22. /\ SumOver(UnsettledPayments, LAMBDA d : -MoneyOf(d) * TotalOf(d)) = SumAll(uq)
       /\ Whole(uq) /\ \A d \in AllDocs : uq[d] = IfPosted(d, UnsettledPaid(d))
  BY <1>1, <1>14, UnsettledPaymentsAre
<1>23. ASSUME NEW d \in AllDocs
       PROVE  /\ n50[d] + n51[d] + cs[d] = mo[d] + cp[d]
              /\ n60[d] + n62[d] + cp[d] + rt[d] + up[d] = se[d] + cs[d] + ur[d] + uq[d]
              /\ n41[d] = IF d \in Docs THEN acc41[d] ELSE 0
  <2>1. /\ n41[d] = Net(entries[d], "41") /\ n50[d] = Net(entries[d], "50") /\ n51[d] = Net(entries[d], "51")
        /\ n60[d] = Net(entries[d], "60") /\ n62[d] = Net(entries[d], "62")
    BY <1>2, <1>3, <1>4, <1>5, <1>6 DEF NetOf
  <2>2. mo[d] = RowsSum(money[d]) /\ se[d] = RowsSum(settlements[d])
    BY <1>7, <1>8
  <2> QED BY <1>17, <1>18, <1>19, <1>20, <1>21, <1>22, <2>1, <2>2, EachAgrees
<1>24. SumAll(n50) + SumAll(n51) + SumAll(cs) = SumAll(mo) + SumAll(cp)
  <2>1. PICK a : a = Plus(n50, n51)
    OBVIOUS
  <2>2. PICK b : b = Plus(a, cs)
    OBVIOUS
  <2>3. PICK c : c = Plus(mo, cp)
    OBVIOUS
  <2>4. Whole(a) /\ SumAll(a) = SumAll(n50) + SumAll(n51) /\ \A d \in AllDocs : a[d] = n50[d] + n51[d]
    BY <1>15, <2>1, PlusIs, ZenonT(40)
  <2>5. Whole(b) /\ SumAll(b) = SumAll(a) + SumAll(cs) /\ \A d \in AllDocs : b[d] = a[d] + cs[d]
    BY <1>17, <2>2, <2>4, PlusIs
  <2>6. SumAll(c) = SumAll(mo) + SumAll(cp) /\ \A d \in AllDocs : c[d] = mo[d] + cp[d]
    BY <1>15, <1>18, <2>3, PlusIs, ZenonT(40)
  <2>7. SumAll(b) = SumAll(c)
    BY <1>23, <2>4, <2>5, <2>6, SumAllSame
  <2> QED BY <2>4, <2>5, <2>6, <2>7
<1>25. SumAll(n60) + SumAll(n62) + SumAll(cp) + SumAll(rt) + SumAll(up)
         = SumAll(se) + SumAll(cs) + SumAll(ur) + SumAll(uq)
  <2>1. PICK a : a = Plus(n60, n62)
    OBVIOUS
  <2>2. PICK b : b = Plus(a, cp)
    OBVIOUS
  <2>3. PICK c : c = Plus(b, rt)
    OBVIOUS
  <2>4. PICK e : e = Plus(c, up)
    OBVIOUS
  <2>5. PICK f : f = Plus(se, cs)
    OBVIOUS
  <2>6. PICK g : g = Plus(f, ur)
    OBVIOUS
  <2>7. PICK h : h = Plus(g, uq)
    OBVIOUS
  <2>8. Whole(a) /\ SumAll(a) = SumAll(n60) + SumAll(n62) /\ \A d \in AllDocs : a[d] = n60[d] + n62[d]
    BY <1>15, <2>1, PlusIs, ZenonT(40)
  <2>9. Whole(b) /\ SumAll(b) = SumAll(a) + SumAll(cp) /\ \A d \in AllDocs : b[d] = a[d] + cp[d]
    BY <1>18, <2>2, <2>8, PlusIs
  <2>10. Whole(c) /\ SumAll(c) = SumAll(b) + SumAll(rt) /\ \A d \in AllDocs : c[d] = b[d] + rt[d]
    BY <1>19, <2>3, <2>9, PlusIs
  <2>11. Whole(e) /\ SumAll(e) = SumAll(c) + SumAll(up) /\ \A d \in AllDocs : e[d] = c[d] + up[d]
    BY <1>21, <2>4, <2>10, PlusIs
  <2>12. Whole(f) /\ SumAll(f) = SumAll(se) + SumAll(cs) /\ \A d \in AllDocs : f[d] = se[d] + cs[d]
    BY <1>15, <1>17, <2>5, PlusIs, ZenonT(40)
  <2>13. Whole(g) /\ SumAll(g) = SumAll(f) + SumAll(ur) /\ \A d \in AllDocs : g[d] = f[d] + ur[d]
    BY <1>20, <2>6, <2>12, PlusIs
  <2>14. Whole(h) /\ SumAll(h) = SumAll(g) + SumAll(uq) /\ \A d \in AllDocs : h[d] = g[d] + uq[d]
    BY <1>22, <2>7, <2>13, PlusIs
  <2>15. SumAll(e) = SumAll(h)
    BY <1>23, <2>8, <2>9, <2>10, <2>11, <2>12, <2>13, <2>14, SumAllSame
  <2> QED BY <2>8, <2>9, <2>10, <2>11, <2>12, <2>13, <2>14, <2>15
<1>26. SumAll(n41) = SumOver(Docs, LAMBDA d : acc41[d])
  <2>1. PICK f : f = [d \in Docs |-> acc41[d]]
    OBVIOUS
  <2>2. (\A d \in Docs : f[d] \in Int /\ n41[d] = f[d]) /\ \A d \in AllDocs \ Docs : n41[d] = 0
    BY <1>1, <1>23, <2>1
  <2>3. SumFunctionOnSet(f, Docs) = SumAll(n41)
    BY <1>1, <2>2, DocsAreFinite, SumFiltered DEF SumAll
  <2> QED BY <2>1, <2>3 DEF SumOver
<1>27. /\ SumAll(n50) \in Int /\ SumAll(n51) \in Int /\ SumAll(n60) \in Int /\ SumAll(n62) \in Int
       /\ SumAll(mo) \in Int /\ SumAll(se) \in Int /\ SumAll(cs) \in Int /\ SumAll(cp) \in Int
       /\ SumAll(rt) \in Int /\ SumAll(ur) \in Int /\ SumAll(up) \in Int /\ SumAll(uq) \in Int
  BY <1>15, <1>17, <1>18, <1>19, <1>20, <1>21, <1>22, PlusIs
<1>28. BalanceOf("50") + BalanceOf("51")
         = SumIn(money, LAMBDA m : TRUE) - TotalPosted(LAMBDA d : Is(d, "rashod", "cash"))
           + TotalPosted(LAMBDA d : Is(d, "prihod", "cash"))
  BY <1>15, <1>17, <1>18, <1>24, <1>27
<1>29. BalanceOf("60") + BalanceOf("62")
         = SumAll(se) + SumAll(cs) - SumAll(cp) - SumAll(rt) + (SumAll(ur) - SumAll(up) + SumAll(uq))
  BY <1>15, <1>25, <1>27
<1>30. BalanceOf("41") = SumOver(Docs, LAMBDA d : acc41[d])
  BY <1>15, <1>26
<1> QED BY <1>15, <1>17, <1>18, <1>19, <1>20, <1>21, <1>22, <1>28, <1>29, <1>30
    DEF AccountsMatchRegisters, UnsettledPayments

\* The accounts, written by one piece of the posting, agree with the registers
\* of money and of settlements, written by another.
THEOREM AccountsMatch == TillSpec => []AccountsMatchRegisters
BY BooksHold, InvariantGivesBooks, PTL

=============================================================================
