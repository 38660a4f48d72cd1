---------------------- MODULE StockConcurrency_proofs ----------------------
(***************************************************************************)
(* Proofs about StockConcurrency, for every set of sessions, documents and *)
(* orders and all quantities.  First, that row locks, foreign keys and the *)
(* transactions' memory fit together (IInv); on that, that batches hold    *)
(* what arrived less what was taken (ConservationInv), and that what an    *)
(* order counts on stays where it is (ReservationInv).                     *)
(***************************************************************************)
EXTENDS StockConcurrency, FiniteSums, TLAPS

-----------------------------------------------------------------------------
(***************************************************************************)
(* The inductive invariant.                                                *)
(***************************************************************************)

\* Every phase belongs to one kind of document.
PhasesNameDocuments ==
  \A s \in Sessions :
    /\ sess[s].pc \in {"checked", "selected", "consuming", "undoing"} => sess[s].doc \in Out
    /\ sess[s].pc = "removing" => sess[s].doc \in In
    /\ sess[s].pc \in {"releasing", "rowsSelected", "rowsLocked", "reserving"} => sess[s].doc \in Orders

\* The batch of a posted document exists.
PostedHaveRows == posted \cap In \subseteq rows

\* A transaction remembers rows that exist, and no quantities of others when
\* it consumes.
SnapshotsExist ==
  \A s \in Sessions :
    /\ sess[s].snap \subseteq rows
    /\ At(s, "consuming") => \A b \in In : sess[s].got[b] # 0 => b \in sess[s].snap

IInv ==
  /\ TypeOK
  /\ PhasesNameDocuments
  /\ PostedHaveRows
  /\ SnapshotsExist
  /\ ConsumesFreshBatches
  /\ MovementsHaveBatches

LEMMA InitIInv == Init => IInv
  BY DEF Init, IInv, TypeOK, Session, Phases, Idle, PhasesNameDocuments,
     PostedHaveRows, SnapshotsExist, ConsumesFreshBatches, MovementsHaveBatches

LEMMA QuantitiesAreNat == \A d \in Docs : Quantity[d] \in Nat
  BY StockAssumption

LEMMA SessionUpdate ==
  ASSUME NEW r \in Session, NEW pc \in Phases, NEW snap \in SUBSET In
  PROVE  /\ [r EXCEPT !.pc = pc] \in Session
         /\ [r EXCEPT !.pc = pc, !.snap = snap] \in Session
  BY DEF Session

LEMMA SessionStart ==
  ASSUME NEW d \in Docs, NEW pc \in Phases, NEW gone \in SUBSET Ids
  PROVE  /\ Idle \in Session
         /\ [Idle EXCEPT !.pc = pc, !.doc = d] \in Session
         /\ [Idle EXCEPT !.pc = pc, !.doc = d, !.gone = gone] \in Session
<1>1. Idle \in Session
  BY DEF Session, Idle, Phases
<1> QED BY <1>1 DEF Session

LEMMA PostIncomingStep ==
  ASSUME IInv, NEW d \in In, PostIncoming(d)
  PROVE  IInv'
<1>1. TypeOK'
  <2>1. sess' \in [Sessions -> Session]
    BY DEF IInv, TypeOK, PostIncoming
  <2>2. posted' \in SUBSET (In \cup Out) /\ rows' \in SUBSET In
    BY DEF IInv, TypeOK, PostIncoming
  <2>3. qty' \in [In -> Int]
    BY QuantitiesAreNat DEF IInv, TypeOK, PostIncoming, Docs
  <2>4. taken' \in [Out -> [In -> Nat]]
    BY DEF IInv, TypeOK, PostIncoming
  <2>5. reserved' \in [Ids -> Orders \cup {NoDoc}] /\ rowLock' \in [In -> Sessions \cup {NoSession}]
    BY DEF IInv, TypeOK, PostIncoming
  <2>6. overwritten' \in SUBSET In /\ loose' \in SUBSET Orders /\ together' \in SUBSET Orders
    BY DEF IInv, TypeOK, PostIncoming
  <2> QED BY <2>1, <2>2, <2>3, <2>4, <2>5, <2>6 DEF TypeOK
<1>2. PhasesNameDocuments'
  BY DEF IInv, PostIncoming, PhasesNameDocuments
<1>3. PostedHaveRows'
  BY DEF IInv, PostIncoming, PostedHaveRows
<1>4. SnapshotsExist'
  BY DEF IInv, PostIncoming, At, SnapshotsExist
<1>5. ConsumesFreshBatches'
  BY DEF IInv, PostIncoming, At, ConsumesFreshBatches
<1>6. MovementsHaveBatches'
  BY DEF IInv, PostIncoming, MovementsHaveBatches
<1> QED BY <1>1, <1>2, <1>3, <1>4, <1>5, <1>6 DEF IInv

LEMMA CheckStockStep ==
  ASSUME IInv, NEW s \in Sessions, NEW d \in Out, CheckStock(s, d)
  PROVE  IInv'
<1>1. TypeOK'
  <2>1. sess' \in [Sessions -> Session]
    BY SessionStart DEF IInv, TypeOK, CheckStock, Phases, Docs
  <2>2. /\ posted' \in SUBSET (In \cup Out) /\ rows' \in SUBSET In
        /\ qty' \in [In -> Int] /\ taken' \in [Out -> [In -> Nat]]
        /\ reserved' \in [Ids -> Orders \cup {NoDoc}] /\ rowLock' \in [In -> Sessions \cup {NoSession}]
        /\ overwritten' \in SUBSET In /\ loose' \in SUBSET Orders /\ together' \in SUBSET Orders
    BY DEF IInv, TypeOK, CheckStock
  <2> QED BY <2>1, <2>2 DEF TypeOK
<1>2. PhasesNameDocuments'
  BY DEF IInv, CheckStock, PhasesNameDocuments
<1>3. PostedHaveRows'
  BY DEF IInv, CheckStock, PostedHaveRows
<1>4. SnapshotsExist'
  BY DEF IInv, CheckStock, Idle, At, SnapshotsExist
<1>5. ConsumesFreshBatches'
  BY DEF IInv, CheckStock, At, ConsumesFreshBatches
<1>6. MovementsHaveBatches'
  BY DEF IInv, CheckStock, MovementsHaveBatches
<1> QED BY <1>1, <1>2, <1>3, <1>4, <1>5, <1>6 DEF IInv

LEMMA SelectBatchesStep ==
  ASSUME IInv, NEW s \in Sessions, SelectBatches(s)
  PROVE  IInv'
<1>1. TypeOK'
  <2>1. sess' \in [Sessions -> Session]
    BY SessionUpdate DEF IInv, TypeOK, SelectBatches, Phases
  <2>2. /\ posted' \in SUBSET (In \cup Out) /\ rows' \in SUBSET In
        /\ qty' \in [In -> Int] /\ taken' \in [Out -> [In -> Nat]]
        /\ reserved' \in [Ids -> Orders \cup {NoDoc}] /\ rowLock' \in [In -> Sessions \cup {NoSession}]
        /\ overwritten' \in SUBSET In /\ loose' \in SUBSET Orders /\ together' \in SUBSET Orders
    BY DEF IInv, TypeOK, SelectBatches
  <2> QED BY <2>1, <2>2 DEF TypeOK
<1>2. PhasesNameDocuments'
  BY DEF IInv, TypeOK, SelectBatches, At, PhasesNameDocuments
<1>3. PostedHaveRows'
  BY DEF IInv, SelectBatches, PostedHaveRows
<1>4. SnapshotsExist'
  BY DEF IInv, TypeOK, SelectBatches, At, SnapshotsExist
<1>5. ConsumesFreshBatches'
  BY DEF IInv, TypeOK, SelectBatches, At, ConsumesFreshBatches
<1>6. MovementsHaveBatches'
  BY DEF IInv, SelectBatches, MovementsHaveBatches
<1> QED BY <1>1, <1>2, <1>3, <1>4, <1>5, <1>6 DEF IInv

LEMMA LockBatchesStep ==
  ASSUME IInv, NEW s \in Sessions, LockBatches(s)
  PROVE  IInv'
<1>1. TypeOK'
  <2>1. sess' \in [Sessions -> Session]
    BY DEF IInv, TypeOK, LockBatches, Read, Session, Phases
  <2>2. /\ posted' \in SUBSET (In \cup Out) /\ rows' \in SUBSET In
        /\ qty' \in [In -> Int] /\ taken' \in [Out -> [In -> Nat]]
        /\ reserved' \in [Ids -> Orders \cup {NoDoc}] /\ rowLock' \in [In -> Sessions \cup {NoSession}]
        /\ overwritten' \in SUBSET In /\ loose' \in SUBSET Orders /\ together' \in SUBSET Orders
    BY DEF IInv, TypeOK, LockBatches, LockRows
  <2> QED BY <2>1, <2>2 DEF TypeOK
<1>2. PhasesNameDocuments'
  BY DEF IInv, LockBatches, At, PhasesNameDocuments
<1>3. PostedHaveRows'
  BY DEF IInv, LockBatches, PostedHaveRows
<1>4. SnapshotsExist'
  BY DEF IInv, LockBatches, Read, At, SnapshotsExist
<1>5. ConsumesFreshBatches'
  BY StockAssumption DEF IInv, TypeOK, LockBatches, RowsFree, LockRows, Read, At,
     ConsumesFreshBatches, SnapshotsExist
<1>6. MovementsHaveBatches'
  BY DEF IInv, LockBatches, MovementsHaveBatches
<1> QED BY <1>1, <1>2, <1>3, <1>4, <1>5, <1>6 DEF IInv

LEMMA ConsumeBatchesStep ==
  ASSUME IInv, NEW s \in Sessions, ConsumeBatches(s)
  PROVE  IInv'
<1>1. TypeOK'
  <2>1. sess' \in [Sessions -> Session]
    BY DEF IInv, TypeOK, ConsumeBatches, End, Idle, Session, Phases
  <2>2. posted' \in SUBSET (In \cup Out) /\ rows' \in SUBSET In
    BY DEF IInv, TypeOK, ConsumeBatches, PhasesNameDocuments, At
  <2>3. qty' \in [In -> Int]
    <3>1. sess[s].got \in [In -> Int]
      BY DEF IInv, TypeOK, Session
    <3>2. PICK t \in Spreads(s) :
            qty' = [b \in In |-> IF b \in sess[s].snap THEN sess[s].got[b] - t[b] ELSE qty[b]]
      BY DEF ConsumeBatches
    <3>3. sess[s].doc \in Docs
      BY DEF IInv, PhasesNameDocuments, ConsumeBatches, At, Docs
    <3>4. t \in [In -> Int]
      BY <3>3 DEF Spreads
    <3> QED BY <3>1, <3>2, <3>4 DEF IInv, TypeOK
  <2>4. taken' \in [Out -> [In -> Nat]]
    BY DEF IInv, TypeOK, ConsumeBatches, Spreads, PhasesNameDocuments, At
  <2>5. reserved' \in [Ids -> Orders \cup {NoDoc}] /\ rowLock' \in [In -> Sessions \cup {NoSession}]
    BY DEF IInv, TypeOK, ConsumeBatches, End, ReleaseRows
  <2>6. overwritten' \in SUBSET In /\ loose' \in SUBSET Orders /\ together' \in SUBSET Orders
    BY DEF IInv, TypeOK, ConsumeBatches
  <2> QED BY <2>1, <2>2, <2>3, <2>4, <2>5, <2>6 DEF TypeOK
<1>2. PhasesNameDocuments'
  BY DEF IInv, ConsumeBatches, End, Idle, PhasesNameDocuments
<1>3. PostedHaveRows'
  BY StockAssumption DEF IInv, ConsumeBatches, At, PostedHaveRows, PhasesNameDocuments
<1>4. SnapshotsExist'
  BY DEF IInv, ConsumeBatches, End, Idle, At, SnapshotsExist
<1>5. ConsumesFreshBatches'
  BY DEF IInv, TypeOK, ConsumeBatches, End, ReleaseRows, Idle, At, ConsumesFreshBatches
<1>6. MovementsHaveBatches'
  BY DEF IInv, ConsumeBatches, Spreads, MovementsHaveBatches, SnapshotsExist
<1> QED BY <1>1, <1>2, <1>3, <1>4, <1>5, <1>6 DEF IInv

LEMMA ReadTakenStep ==
  ASSUME IInv, NEW s \in Sessions, NEW d \in Out, ReadTaken(s, d)
  PROVE  IInv'
<1>1. TypeOK'
  BY DEF IInv, TypeOK, ReadTaken, Held, Read, Session, Phases, Docs
<1>2. PhasesNameDocuments'
  BY DEF IInv, ReadTaken, PhasesNameDocuments
<1>3. PostedHaveRows'
  BY DEF IInv, ReadTaken, PostedHaveRows
<1>4. SnapshotsExist'
  BY DEF IInv, ReadTaken, Held, At, SnapshotsExist
<1>5. ConsumesFreshBatches'
  BY DEF IInv, ReadTaken, At, ConsumesFreshBatches
<1>6. MovementsHaveBatches'
  BY DEF IInv, ReadTaken, MovementsHaveBatches
<1> QED BY <1>1, <1>2, <1>3, <1>4, <1>5, <1>6 DEF IInv

LEMMA GiveBackStep ==
  ASSUME IInv, NEW s \in Sessions, GiveBack(s)
  PROVE  IInv'
<1>1. TypeOK'
  <2>1. sess' \in [Sessions -> Session]
    BY DEF IInv, TypeOK, GiveBack, End, Idle, Session, Phases
  <2>2. posted' \in SUBSET (In \cup Out) /\ rows' \in SUBSET In
    BY DEF IInv, TypeOK, GiveBack
  <2>3. qty' \in [In -> Int]
    <3>1. sess[s].got \in [In -> Int] /\ sess[s].doc \in Out
      BY DEF IInv, TypeOK, Session, GiveBack, At, PhasesNameDocuments
    <3>2. taken[sess[s].doc] \in [In -> Nat]
      BY <3>1 DEF IInv, TypeOK
    <3> QED BY <3>1, <3>2 DEF IInv, TypeOK, GiveBack
  <2>4. taken' \in [Out -> [In -> Nat]]
    BY DEF IInv, TypeOK, GiveBack
  <2>5. reserved' \in [Ids -> Orders \cup {NoDoc}] /\ rowLock' \in [In -> Sessions \cup {NoSession}]
    BY DEF IInv, TypeOK, GiveBack, End, ReleaseRows
  <2>6. overwritten' \in SUBSET In /\ loose' \in SUBSET Orders /\ together' \in SUBSET Orders
    BY DEF IInv, TypeOK, GiveBack, Session
  <2> QED BY <2>1, <2>2, <2>3, <2>4, <2>5, <2>6 DEF TypeOK
<1>2. PhasesNameDocuments'
  BY DEF IInv, GiveBack, End, Idle, PhasesNameDocuments
<1>3. PostedHaveRows'
  BY DEF IInv, GiveBack, PostedHaveRows
<1>4. SnapshotsExist'
  BY DEF IInv, GiveBack, End, Idle, At, SnapshotsExist
<1>5. ConsumesFreshBatches'
  BY StockAssumption DEF IInv, TypeOK, GiveBack, RowsFree, End, ReleaseRows, Idle,
     At, ConsumesFreshBatches
<1>6. MovementsHaveBatches'
  BY DEF IInv, TypeOK, GiveBack, MovementsHaveBatches
<1> QED BY <1>1, <1>2, <1>3, <1>4, <1>5, <1>6 DEF IInv

LEMMA ReadIncomingStep ==
  ASSUME IInv, NEW s \in Sessions, NEW d \in In, ReadIncoming(s, d)
  PROVE  IInv'
<1>1. TypeOK'
  BY DEF IInv, TypeOK, ReadIncoming, Read, Session, Phases, Docs
<1>2. PhasesNameDocuments'
  BY DEF IInv, ReadIncoming, PhasesNameDocuments
<1>3. PostedHaveRows'
  BY DEF IInv, ReadIncoming, PostedHaveRows
<1>4. SnapshotsExist'
  BY DEF IInv, ReadIncoming, At, SnapshotsExist, PostedHaveRows
<1>5. ConsumesFreshBatches'
  BY DEF IInv, ReadIncoming, At, ConsumesFreshBatches
<1>6. MovementsHaveBatches'
  BY DEF IInv, ReadIncoming, MovementsHaveBatches
<1> QED BY <1>1, <1>2, <1>3, <1>4, <1>5, <1>6 DEF IInv

LEMMA RemoveIncomingStep ==
  ASSUME IInv, NEW s \in Sessions, RemoveIncoming(s)
  PROVE  IInv'
<1>1. TypeOK'
  <2>1. sess' \in [Sessions -> Session]
    <3>1. Idle \in Session
      BY DEF Session, Idle, Phases
    <3>2. ASSUME NEW r \in Session, NEW deleted
          PROVE  [r EXCEPT !.snap = @ \ deleted] \in Session
      BY DEF Session
    <3> QED BY <3>1, <3>2 DEF IInv, TypeOK, RemoveIncoming
  <2>2. posted' \in SUBSET (In \cup Out) /\ rows' \in SUBSET In
    BY DEF IInv, TypeOK, RemoveIncoming
  <2>3. qty' \in [In -> Int]
    <3>1. sess[s].got \in [In -> Int] /\ sess[s].doc \in In
      BY DEF IInv, TypeOK, Session, RemoveIncoming, At, PhasesNameDocuments
    <3>2. Quantity[sess[s].doc] \in Nat
      BY <3>1, QuantitiesAreNat DEF Docs
    <3> QED BY <3>1, <3>2 DEF IInv, TypeOK, RemoveIncoming
  <2>4. taken' \in [Out -> [In -> Nat]]
    BY DEF IInv, TypeOK, RemoveIncoming
  <2>5. reserved' \in [Ids -> Orders \cup {NoDoc}] /\ rowLock' \in [In -> Sessions \cup {NoSession}]
    BY DEF IInv, TypeOK, RemoveIncoming, ReleaseRows
  <2>6. overwritten' \in SUBSET In /\ loose' \in SUBSET Orders /\ together' \in SUBSET Orders
    BY DEF IInv, TypeOK, RemoveIncoming, PhasesNameDocuments, At
  <2> QED BY <2>1, <2>2, <2>3, <2>4, <2>5, <2>6 DEF TypeOK
<1>2. PhasesNameDocuments'
  BY DEF IInv, RemoveIncoming, Idle, PhasesNameDocuments
<1>3. PostedHaveRows'
  BY DEF IInv, RemoveIncoming, PostedHaveRows
<1>4. SnapshotsExist'
  <2> DEFINE d == sess[s].doc
             deleted == IF sess[s].got[d] - Quantity[d] = 0 THEN {d} ELSE {}
  <2> HIDE DEF deleted
  <2> SUFFICES ASSUME NEW t \in Sessions
               PROVE  /\ sess'[t].snap \subseteq rows'
                      /\ sess'[t].pc = "consuming" =>
                           \A b \in In : sess'[t].got[b] # 0 => b \in sess'[t].snap
    BY DEF SnapshotsExist, At
  <2>1. /\ rows' = rows \ deleted
        /\ sess' = [u \in Sessions |->
                      IF u = s THEN Idle ELSE [sess[u] EXCEPT !.snap = @ \ deleted]]
    BY DEF RemoveIncoming, deleted
  <2>2. CASE t = s
    BY <2>1, <2>2 DEF Idle
  <2>3. CASE t # s
    <3>1. /\ sess'[t].snap = sess[t].snap \ deleted
          /\ sess'[t].pc = sess[t].pc /\ sess'[t].got = sess[t].got
      BY <2>1, <2>3 DEF IInv, TypeOK, Session
    <3>2. sess[t].pc = "consuming" => sess[t].snap \cap deleted = {}
      <4>1. deleted \subseteq {d} /\ RowsFree(s, {d}) /\ s # NoSession
        BY StockAssumption DEF deleted, RemoveIncoming
      <4>2. sess[t].pc = "consuming" =>
              \A b \in sess[t].snap : rowLock[b] = t
        BY DEF IInv, ConsumesFreshBatches, At
      <4> QED BY <2>3, <4>1, <4>2, StockAssumption DEF RowsFree
    <3> QED BY <2>1, <3>1, <3>2 DEF IInv, SnapshotsExist
  <2> QED BY <2>2, <2>3
<1>5. ConsumesFreshBatches'
  BY StockAssumption DEF IInv, TypeOK, RemoveIncoming, RowsFree, ReleaseRows, Idle,
     At, ConsumesFreshBatches
<1>6. MovementsHaveBatches'
  BY StockAssumption DEF IInv, RemoveIncoming, At, MovementsHaveBatches,
     PhasesNameDocuments
<1> QED BY <1>1, <1>2, <1>3, <1>4, <1>5, <1>6 DEF IInv

LEMMA FindReservationsStep ==
  ASSUME IInv, NEW s \in Sessions, NEW o \in Orders, FindReservations(s, o)
  PROVE  IInv'
<1>1. TypeOK'
  <2>1. sess' \in [Sessions -> Session]
    BY SessionStart DEF IInv, TypeOK, FindReservations, Phases, Docs
  <2>2. /\ posted' \in SUBSET (In \cup Out) /\ rows' \in SUBSET In
        /\ qty' \in [In -> Int] /\ taken' \in [Out -> [In -> Nat]]
        /\ reserved' \in [Ids -> Orders \cup {NoDoc}] /\ rowLock' \in [In -> Sessions \cup {NoSession}]
        /\ overwritten' \in SUBSET In /\ loose' \in SUBSET Orders /\ together' \in SUBSET Orders
    BY DEF IInv, TypeOK, FindReservations
  <2> QED BY <2>1, <2>2 DEF TypeOK
<1>2. PhasesNameDocuments'
  BY DEF IInv, FindReservations, PhasesNameDocuments
<1>3. PostedHaveRows'
  BY DEF IInv, FindReservations, PostedHaveRows
<1>4. SnapshotsExist'
  BY DEF IInv, TypeOK, Session, FindReservations, At, SnapshotsExist, Idle
<1>5. ConsumesFreshBatches'
  BY DEF IInv, TypeOK, FindReservations, At, ConsumesFreshBatches, Idle
<1>6. MovementsHaveBatches'
  BY DEF IInv, FindReservations, MovementsHaveBatches
<1> QED BY <1>1, <1>2, <1>3, <1>4, <1>5, <1>6 DEF IInv

LEMMA ReleaseForZakazStep ==
  ASSUME IInv, NEW s \in Sessions, ReleaseForZakaz(s)
  PROVE  IInv'
<1>1. TypeOK'
  <2>1. sess' \in [Sessions -> Session]
    BY DEF IInv, TypeOK, ReleaseForZakaz, End, Idle, Session, Phases
  <2>2. /\ posted' \in SUBSET (In \cup Out) /\ rows' \in SUBSET In
        /\ qty' \in [In -> Int] /\ taken' \in [Out -> [In -> Nat]]
        /\ reserved' \in [Ids -> Orders \cup {NoDoc}] /\ rowLock' \in [In -> Sessions \cup {NoSession}]
        /\ overwritten' \in SUBSET In /\ loose' \in SUBSET Orders /\ together' \in SUBSET Orders
    BY DEF IInv, TypeOK, ReleaseForZakaz, End, ReleaseRows
  <2> QED BY <2>1, <2>2 DEF TypeOK
<1>2. PhasesNameDocuments'
  BY DEF IInv, ReleaseForZakaz, PhasesNameDocuments, End, Idle
<1>3. PostedHaveRows'
  BY DEF IInv, ReleaseForZakaz, PostedHaveRows
<1>4. SnapshotsExist'
  BY DEF IInv, TypeOK, Session, ReleaseForZakaz, At, SnapshotsExist, End, Idle
<1>5. ConsumesFreshBatches'
  BY DEF IInv, TypeOK, ReleaseForZakaz, At, ConsumesFreshBatches, End, Idle, ReleaseRows
<1>6. MovementsHaveBatches'
  BY DEF IInv, ReleaseForZakaz, MovementsHaveBatches
<1> QED BY <1>1, <1>2, <1>3, <1>4, <1>5, <1>6 DEF IInv

LEMMA SelectRowsStep ==
  ASSUME IInv, NEW s \in Sessions, SelectRows(s)
  PROVE  IInv'
<1>1. TypeOK'
  <2>1. sess' \in [Sessions -> Session]
    BY DEF IInv, TypeOK, Session, SelectRows, Deleted, Phases
  <2>2. /\ posted' \in SUBSET (In \cup Out) /\ rows' \in SUBSET In
        /\ qty' \in [In -> Int] /\ taken' \in [Out -> [In -> Nat]]
        /\ reserved' \in [Ids -> Orders \cup {NoDoc}] /\ rowLock' \in [In -> Sessions \cup {NoSession}]
        /\ overwritten' \in SUBSET In /\ loose' \in SUBSET Orders /\ together' \in SUBSET Orders
    BY DEF IInv, TypeOK, SelectRows
  <2> QED BY <2>1, <2>2 DEF TypeOK
<1>2. PhasesNameDocuments'
  BY DEF IInv, SelectRows, PhasesNameDocuments, TypeOK, Session, At
<1>3. PostedHaveRows'
  BY DEF IInv, SelectRows, PostedHaveRows
<1>4. SnapshotsExist'
  BY DEF IInv, TypeOK, Session, SelectRows, At, SnapshotsExist
<1>5. ConsumesFreshBatches'
  BY DEF IInv, TypeOK, SelectRows, At, ConsumesFreshBatches
<1>6. MovementsHaveBatches'
  BY DEF IInv, SelectRows, MovementsHaveBatches
<1> QED BY <1>1, <1>2, <1>3, <1>4, <1>5, <1>6 DEF IInv

LEMMA LockAllRowsStep ==
  ASSUME IInv, NEW s \in Sessions, LockAllRows(s)
  PROVE  IInv'
<1>1. TypeOK'
  <2>1. sess' \in [Sessions -> Session]
    BY SessionUpdate DEF IInv, TypeOK, LockAllRows, Phases
  <2>2. /\ posted' \in SUBSET (In \cup Out) /\ rows' \in SUBSET In
        /\ qty' \in [In -> Int] /\ taken' \in [Out -> [In -> Nat]]
        /\ reserved' \in [Ids -> Orders \cup {NoDoc}] /\ rowLock' \in [In -> Sessions \cup {NoSession}]
        /\ overwritten' \in SUBSET In /\ loose' \in SUBSET Orders /\ together' \in SUBSET Orders
    BY DEF IInv, TypeOK, LockAllRows, LockRows
  <2> QED BY <2>1, <2>2 DEF TypeOK
<1>2. PhasesNameDocuments'
  BY DEF IInv, LockAllRows, At, PhasesNameDocuments
<1>3. PostedHaveRows'
  BY DEF IInv, LockAllRows, PostedHaveRows
<1>4. SnapshotsExist'
  BY DEF IInv, LockAllRows, At, SnapshotsExist
<1>5. ConsumesFreshBatches'
  BY StockAssumption DEF IInv, TypeOK, LockAllRows, RowsFree, LockRows, At,
     ConsumesFreshBatches
<1>6. MovementsHaveBatches'
  BY DEF IInv, LockAllRows, MovementsHaveBatches
<1> QED BY <1>1, <1>2, <1>3, <1>4, <1>5, <1>6 DEF IInv

LEMMA CheckAvailableStep ==
  ASSUME IInv, NEW s \in Sessions, CheckAvailable(s)
  PROVE  IInv'
<1>1. TypeOK'
  <2>1. sess' \in [Sessions -> Session]
    BY SessionUpdate DEF IInv, TypeOK, CheckAvailable, Phases
  <2>2. /\ posted' \in SUBSET (In \cup Out) /\ rows' \in SUBSET In
        /\ qty' \in [In -> Int] /\ taken' \in [Out -> [In -> Nat]]
        /\ reserved' \in [Ids -> Orders \cup {NoDoc}] /\ rowLock' \in [In -> Sessions \cup {NoSession}]
        /\ overwritten' \in SUBSET In /\ loose' \in SUBSET Orders /\ together' \in SUBSET Orders
    BY DEF IInv, TypeOK, CheckAvailable, PhasesNameDocuments, At
  <2> QED BY <2>1, <2>2 DEF TypeOK
<1>2. PhasesNameDocuments'
  BY DEF IInv, CheckAvailable, At, PhasesNameDocuments
<1>3. PostedHaveRows'
  BY DEF IInv, CheckAvailable, PostedHaveRows
<1>4. SnapshotsExist'
  BY DEF IInv, CheckAvailable, At, SnapshotsExist
<1>5. ConsumesFreshBatches'
  BY DEF IInv, CheckAvailable, At, ConsumesFreshBatches
<1>6. MovementsHaveBatches'
  BY DEF IInv, CheckAvailable, MovementsHaveBatches
<1> QED BY <1>1, <1>2, <1>3, <1>4, <1>5, <1>6 DEF IInv

LEMMA ReserveStep ==
  ASSUME IInv, NEW s \in Sessions, Reserve(s)
  PROVE  IInv'
<1>1. TypeOK'
  <2>1. sess' \in [Sessions -> Session]
    BY DEF IInv, TypeOK, Reserve, End, Idle, Session, Phases
  <2>2. /\ posted' \in SUBSET (In \cup Out) /\ rows' \in SUBSET In
        /\ qty' \in [In -> Int] /\ taken' \in [Out -> [In -> Nat]]
        /\ reserved' \in [Ids -> Orders \cup {NoDoc}] /\ rowLock' \in [In -> Sessions \cup {NoSession}]
        /\ overwritten' \in SUBSET In /\ loose' \in SUBSET Orders /\ together' \in SUBSET Orders
    BY DEF IInv, TypeOK, Reserve, End, ReleaseRows, PhasesNameDocuments, At
  <2> QED BY <2>1, <2>2 DEF TypeOK
<1>2. PhasesNameDocuments'
  BY DEF IInv, Reserve, End, Idle, PhasesNameDocuments
<1>3. PostedHaveRows'
  BY DEF IInv, Reserve, PostedHaveRows
<1>4. SnapshotsExist'
  BY DEF IInv, Reserve, End, Idle, At, SnapshotsExist
<1>5. ConsumesFreshBatches'
  BY DEF IInv, TypeOK, Reserve, End, ReleaseRows, Idle, At, ConsumesFreshBatches
<1>6. MovementsHaveBatches'
  BY DEF IInv, Reserve, MovementsHaveBatches
<1> QED BY <1>1, <1>2, <1>3, <1>4, <1>5, <1>6 DEF IInv

LEMMA RollbackStep ==
  ASSUME IInv, NEW s \in Sessions, Rollback(s)
  PROVE  IInv'
<1>1. TypeOK'
  BY DEF IInv, TypeOK, Rollback, End, ReleaseRows, Idle, Session, Phases
<1>2. PhasesNameDocuments'
  BY DEF IInv, Rollback, End, Idle, PhasesNameDocuments
<1>3. PostedHaveRows'
  BY DEF IInv, Rollback, PostedHaveRows
<1>4. SnapshotsExist'
  BY DEF IInv, Rollback, End, Idle, At, SnapshotsExist
<1>5. ConsumesFreshBatches'
  BY DEF IInv, TypeOK, Rollback, End, ReleaseRows, Idle, At, ConsumesFreshBatches
<1>6. MovementsHaveBatches'
  BY DEF IInv, Rollback, MovementsHaveBatches
<1> QED BY <1>1, <1>2, <1>3, <1>4, <1>5, <1>6 DEF IInv

-----------------------------------------------------------------------------
LEMMA NextIInv == IInv /\ [Next]_vars => IInv'
<1> SUFFICES ASSUME IInv, [Next]_vars PROVE IInv'
  OBVIOUS
<1>1. ASSUME NEW d \in In, PostIncoming(d) PROVE IInv'
  BY <1>1, PostIncomingStep
<1>3. ASSUME NEW s \in Sessions, Start(s) PROVE IInv'
  BY <1>3, CheckStockStep, ReadTakenStep, ReadIncomingStep, FindReservationsStep DEF Start
<1>4. ASSUME NEW s \in Sessions, Step(s) PROVE IInv'
  BY <1>4, SelectBatchesStep, LockBatchesStep, ConsumeBatchesStep, GiveBackStep,
     RemoveIncomingStep, ReleaseForZakazStep, SelectRowsStep, LockAllRowsStep,
     CheckAvailableStep, ReserveStep, RollbackStep
     DEF Step
<1>5. CASE UNCHANGED vars
  BY <1>5 DEF vars, IInv, TypeOK, PhasesNameDocuments, PostedHaveRows,
     SnapshotsExist, ConsumesFreshBatches, MovementsHaveBatches, At
<1> QED BY <1>1, <1>3, <1>4, <1>5 DEF Next

LEMMA SpecIInv == Spec => []IInv
<1> QED BY InitIInv, NextIInv, PTL DEF Spec

\* Every variable has its type in every reachable state.
THEOREM StockTypeCorrect == Spec => []TypeOK
<1>1. IInv => TypeOK
  BY DEF IInv
<1> QED BY <1>1, SpecIInv, PTL

\* The FOR UPDATE of consume_batches: between the lock and the write no other
\* transaction changes or deletes the batches an outgoing document has read,
\* so that no consumption is computed from a stale quantity.
THEOREM ConsumptionsFresh == Spec => []ConsumesFreshBatches
<1>1. IInv => ConsumesFreshBatches
  BY DEF IInv
<1> QED BY <1>1, SpecIInv, PTL

\* No cancellation deletes a batch that a posted document's movements name,
\* although _rollback_stock decides on a quantity it has not locked.
THEOREM MovementsKeepBatches == Spec => []MovementsHaveBatches
<1>1. IInv => MovementsHaveBatches
  BY DEF IInv
<1> QED BY <1>1, SpecIInv, PTL

-----------------------------------------------------------------------------
(***************************************************************************)
(* Conservation of batches.                                                *)
(***************************************************************************)

\* No two sessions are on one document: its advisory lock.  Orders have none.
OnDocument(s) == sess[s].pc \in {"checked", "selected", "consuming", "undoing", "removing"}

OneSessionPerDocument ==
  \A s, t \in Sessions : OnDocument(s) /\ OnDocument(t) /\ sess[s].doc = sess[t].doc => s = t

\* What a session is about to post is not posted.
PostingIsPending ==
  \A s \in Sessions :
    sess[s].pc \in {"checked", "selected", "consuming"} => sess[s].doc \notin posted

\* A cancellation knows every batch its document took from.
UndoingKnowsBatches ==
  \A s \in Sessions : At(s, "undoing") =>
    \A b \in In : taken[sess[s].doc][b] > 0 => b \in sess[s].snap

\* An arrival is removed by someone who has read at least what it brought in.
RemovalReadEnough ==
  \A s \in Sessions : At(s, "removing") => sess[s].got[sess[s].doc] >= Quantity[sess[s].doc]

QuantitiesNeverNegative ==
  /\ qty \in [In -> Nat]
  /\ \A s \in Sessions : sess[s].got \in [In -> Nat]

ConservationInv ==
  /\ OneSessionPerDocument
  /\ PostingIsPending
  /\ UndoingKnowsBatches
  /\ RemovalReadEnough
  /\ QuantitiesNeverNegative
  /\ BatchesConserved

LEMMA Finite == IsFiniteSet(Out) /\ IsFiniteSet(In) /\ IsFiniteSet(Ids)
  BY StockAssumption, FS_Subset DEF Docs

LEMMA InitConservation == Init => ConservationInv
<1> SUFFICES ASSUME Init PROVE ConservationInv
  OBVIOUS
<1>1. OneSessionPerDocument /\ PostingIsPending /\ UndoingKnowsBatches /\ RemovalReadEnough
  BY DEF Init, Idle, At, OneSessionPerDocument, OnDocument, PostingIsPending,
     UndoingKnowsBatches, RemovalReadEnough
<1>2. QuantitiesNeverNegative
  BY DEF Init, Idle, QuantitiesNeverNegative
<1>3. BatchesConserved
  BY DEF Init, BatchesConserved
<1> QED BY <1>1, <1>2, <1>3 DEF ConservationInv

\* A session goes on or ends, the tables of stock stay as they are.
LEMMA QuietStep ==
  ASSUME IInv, ConservationInv, NEW s \in Sessions,
         UNCHANGED <<posted, rows, qty, taken, overwritten>>,
         \A t \in Sessions \ {s} : sess'[t] = sess[t],
         \/ sess'[s].doc = sess[s].doc /\ OnDocument(s)
         \/ sess'[s].pc \in {"idle", "releasing", "rowsSelected", "rowsLocked", "reserving"}
         \/ Free(sess'[s].doc),
         sess'[s].pc \in {"checked", "selected", "consuming"} => sess'[s].doc \notin posted,
         sess'[s].pc = "undoing" =>
           \A b \in In : taken[sess'[s].doc][b] > 0 => b \in sess'[s].snap,
         sess'[s].pc = "removing" => sess'[s].got[sess'[s].doc] >= Quantity[sess'[s].doc],
         sess'[s].got \in [In -> Nat]
  PROVE  ConservationInv'
<1>1. OneSessionPerDocument'
  BY DEF ConservationInv, OneSessionPerDocument, OnDocument, Free
<1>2. PostingIsPending'
  BY DEF ConservationInv, PostingIsPending
<1>3. UndoingKnowsBatches'
  BY DEF ConservationInv, UndoingKnowsBatches, At
<1>4. RemovalReadEnough'
  BY DEF ConservationInv, RemovalReadEnough, At
<1>5. QuantitiesNeverNegative'
  BY DEF ConservationInv, QuantitiesNeverNegative
<1>6. BatchesConserved'
  BY DEF ConservationInv, BatchesConserved, BatchConserved, TakenFrom
<1> QED BY <1>1, <1>2, <1>3, <1>4, <1>5, <1>6 DEF ConservationInv

LEMMA CheckStockConserves ==
  ASSUME IInv, ConservationInv, NEW s \in Sessions, NEW d \in Out, CheckStock(s, d)
  PROVE  ConservationInv'
<1>1. /\ sess'[s] = [Idle EXCEPT !.pc = "checked", !.doc = d]
      /\ \A t \in Sessions \ {s} : sess'[t] = sess[t]
  BY DEF IInv, TypeOK, CheckStock
<1>2. sess'[s].pc = "checked" /\ sess'[s].doc = d /\ sess'[s].got \in [In -> Nat]
  BY <1>1 DEF Idle
<1> QED BY <1>1, <1>2, QuietStep DEF CheckStock

LEMMA SelectBatchesConserves ==
  ASSUME IInv, ConservationInv, NEW s \in Sessions, SelectBatches(s)
  PROVE  ConservationInv'
<1>1. /\ sess'[s].pc = "selected" /\ sess'[s].doc = sess[s].doc /\ sess'[s].got = sess[s].got
      /\ \A t \in Sessions \ {s} : sess'[t] = sess[t]
  BY DEF IInv, TypeOK, Session, SelectBatches
<1>2. sess[s].doc \notin posted /\ sess[s].got \in [In -> Nat]
  BY DEF ConservationInv, PostingIsPending, QuantitiesNeverNegative, SelectBatches, At
<1> QED BY <1>1, <1>2, QuietStep DEF SelectBatches, At, OnDocument

LEMMA LockBatchesConserves ==
  ASSUME IInv, ConservationInv, NEW s \in Sessions, LockBatches(s)
  PROVE  ConservationInv'
<1> DEFINE left == {b \in sess[s].snap : qty[b] > 0}
<1>1. /\ sess'[s].pc = "consuming" /\ sess'[s].doc = sess[s].doc /\ sess'[s].got = Read(left)
      /\ \A t \in Sessions \ {s} : sess'[t] = sess[t]
  BY DEF IInv, TypeOK, Session, LockBatches
<1>2. sess[s].doc \notin posted
  BY DEF ConservationInv, PostingIsPending, LockBatches, At
<1>3. Read(left) \in [In -> Nat]
  BY DEF ConservationInv, QuantitiesNeverNegative, Read
<1> QED BY <1>1, <1>2, <1>3, QuietStep DEF LockBatches, At, OnDocument

LEMMA ReadTakenConserves ==
  ASSUME IInv, ConservationInv, NEW s \in Sessions, NEW d \in Out, ReadTaken(s, d)
  PROVE  ConservationInv'
<1>1. /\ sess'[s] = [pc |-> "undoing", doc |-> d, snap |-> Held(d), got |-> Read(Held(d)), gone |-> {}]
      /\ \A t \in Sessions \ {s} : sess'[t] = sess[t]
  BY DEF IInv, TypeOK, ReadTaken
<1>2. \A b \in In : taken[d][b] > 0 => b \in Held(d)
  BY DEF IInv, MovementsHaveBatches, Held
<1>3. Read(Held(d)) \in [In -> Nat]
  BY DEF ConservationInv, QuantitiesNeverNegative, Read
<1> QED BY <1>1, <1>2, <1>3, QuietStep DEF ReadTaken

LEMMA ReadIncomingConserves ==
  ASSUME IInv, ConservationInv, NEW s \in Sessions, NEW d \in In, ReadIncoming(s, d)
  PROVE  ConservationInv'
<1>1. /\ sess'[s] = [pc |-> "removing", doc |-> d, snap |-> {d}, got |-> Read({d}), gone |-> {}]
      /\ \A t \in Sessions \ {s} : sess'[t] = sess[t]
  BY DEF IInv, TypeOK, ReadIncoming
<1>2. Read({d})[d] >= Quantity[d]
  BY DEF ReadIncoming, Read
<1>3. Read({d}) \in [In -> Nat]
  BY DEF ConservationInv, QuantitiesNeverNegative, Read
<1>4. /\ sess'[s].pc = "removing" /\ sess'[s].doc = d /\ sess'[s].got = Read({d})
  BY <1>1
<1> QED BY <1>1, <1>2, <1>3, <1>4, QuietStep DEF ReadIncoming

LEMMA FindReservationsConserves ==
  ASSUME IInv, ConservationInv, NEW s \in Sessions, NEW o \in Orders, FindReservations(s, o)
  PROVE  ConservationInv'
<1>1. /\ sess'[s] = [Idle EXCEPT !.pc = "releasing", !.doc = o, !.gone = {i \in Ids : reserved[i] = o}]
      /\ \A t \in Sessions \ {s} : sess'[t] = sess[t]
  BY DEF IInv, TypeOK, FindReservations
<1>2. sess'[s].pc = "releasing" /\ sess'[s].got \in [In -> Nat]
  BY <1>1 DEF Idle
<1> QED BY <1>1, <1>2, QuietStep DEF FindReservations

LEMMA SelectRowsConserves ==
  ASSUME IInv, ConservationInv, NEW s \in Sessions, SelectRows(s)
  PROVE  ConservationInv'
<1>1. /\ sess'[s].pc = "rowsSelected" /\ sess'[s].got = sess[s].got
      /\ \A t \in Sessions \ {s} : sess'[t] = sess[t]
  BY DEF IInv, TypeOK, Session, SelectRows
<1>2. sess[s].got \in [In -> Nat]
  BY DEF ConservationInv, QuantitiesNeverNegative
<1> QED BY <1>1, <1>2, QuietStep DEF SelectRows

LEMMA LockAllRowsConserves ==
  ASSUME IInv, ConservationInv, NEW s \in Sessions, LockAllRows(s)
  PROVE  ConservationInv'
<1>1. /\ sess'[s].pc = "rowsLocked" /\ sess'[s].doc = sess[s].doc /\ sess'[s].got = sess[s].got
      /\ \A t \in Sessions \ {s} : sess'[t] = sess[t]
  BY DEF IInv, TypeOK, Session, LockAllRows
<1>2. sess[s].got \in [In -> Nat]
  BY DEF ConservationInv, QuantitiesNeverNegative
<1> QED BY <1>1, <1>2, QuietStep DEF LockAllRows

LEMMA CheckAvailableConserves ==
  ASSUME IInv, ConservationInv, NEW s \in Sessions, CheckAvailable(s)
  PROVE  ConservationInv'
<1>1. /\ sess'[s].pc = "reserving" /\ sess'[s].doc = sess[s].doc /\ sess'[s].got = sess[s].got
      /\ \A t \in Sessions \ {s} : sess'[t] = sess[t]
  BY DEF IInv, TypeOK, Session, CheckAvailable
<1>2. sess[s].got \in [In -> Nat]
  BY DEF ConservationInv, QuantitiesNeverNegative
<1> QED BY <1>1, <1>2, QuietStep DEF CheckAvailable

\* The reservation is written, or the transaction undone.
LEMMA EndConserves ==
  ASSUME IInv, ConservationInv, NEW s \in Sessions, End(s),
         UNCHANGED <<posted, rows, qty, taken, overwritten>>
  PROVE  ConservationInv'
<1>1. sess'[s] = Idle /\ \A t \in Sessions \ {s} : sess'[t] = sess[t]
  BY DEF IInv, TypeOK, End
<1>2. Idle.pc = "idle" /\ Idle.doc = NoDoc /\ Idle.got \in [In -> Nat]
  BY DEF Idle
<1> QED BY <1>1, <1>2, QuietStep

\* A new batch holds all that it brought in: no movement names it yet.
LEMMA PostIncomingConserves ==
  ASSUME IInv, ConservationInv, NEW d \in In, PostIncoming(d)
  PROVE  ConservationInv'
<1>1. OneSessionPerDocument' /\ UndoingKnowsBatches' /\ RemovalReadEnough'
  BY DEF PostIncoming, ConservationInv, OneSessionPerDocument, OnDocument, UndoingKnowsBatches,
     RemovalReadEnough, At
<1>2. PostingIsPending'
  BY DEF PostIncoming, ConservationInv, PostingIsPending, Free
<1>3. Quantity[d] \in Nat
  BY StockAssumption DEF Docs
<1>4. QuantitiesNeverNegative'
  BY <1>3 DEF PostIncoming, ConservationInv, QuantitiesNeverNegative
<1>5. BatchesConserved'
  <2>1. TakenFrom(d) = 0
    <3>1. \A o \in Out : [e \in Out |-> taken[e][d]][o] = 0
      BY DEF IInv, TypeOK, MovementsHaveBatches, PostIncoming
    <3> QED BY <3>1, Finite, SumOfZeros DEF TakenFrom
  <2>2. \A b \in In : TakenFrom(b)' = TakenFrom(b)
    BY DEF PostIncoming, TakenFrom
  <2>3. qty'[d] = Quantity[d] /\ \A b \in In \ {d} : qty'[b] = qty[b]
    BY DEF IInv, TypeOK, PostIncoming
  <2>4. \A b \in (rows \ overwritten) \ {d} : b \in In /\ qty[b] = Quantity[b] - TakenFrom(b)
    BY DEF IInv, TypeOK, ConservationInv, BatchesConserved, BatchConserved
  <2>5. \A b \in (rows \ overwritten)' : b = d \/ b \in rows \ overwritten
    BY DEF PostIncoming
  <2>6. ASSUME NEW b \in (rows \ overwritten)' PROVE qty'[b] = Quantity[b] - TakenFrom(b)'
    <3>1. CASE b = d
      BY <1>3, <2>1, <2>2, <2>3, <3>1
    <3>2. CASE b # d
      BY <2>2, <2>3, <2>4, <2>5, <2>6, <3>2
    <3> QED BY <3>1, <3>2
  <2> QED BY <2>6 DEF BatchesConserved, BatchConserved
<1> QED BY <1>1, <1>2, <1>4, <1>5 DEF ConservationInv

\* A document's movements of one batch are written or deleted.
LEMMA TakenFromChanges ==
  ASSUME TypeOK, NEW d \in Out, NEW t \in [In -> Nat], taken' = [taken EXCEPT ![d] = t],
         NEW b \in In
  PROVE  TakenFrom(b) \in Nat /\ TakenFrom(b)' = TakenFrom(b) + t[b] - taken[d][b]
<1> DEFINE f == [e \in Out |-> taken[e][b]]
           g == [e \in Out |-> taken'[e][b]]
<1>1. \A e \in Out : f[e] \in Nat /\ g[e] \in Nat
  BY DEF TypeOK
<1>2. f[d] = taken[d][b] /\ g[d] = t[b] /\ \A e \in Out \ {d} : f[e] = g[e]
  BY DEF TypeOK
<1>3. TakenFrom(b) = SumFunctionOnSet(f, Out) /\ TakenFrom(b)' = SumFunctionOnSet(g, Out)
  BY DEF TakenFrom
<1> HIDE DEF f, g
<1>4. TakenFrom(b) \in Nat
  BY <1>1, <1>3, Finite, SumIsNat
<1>5. SumFunctionOnSet(g, Out) = SumFunctionOnSet(f, Out) + g[d] - f[d]
  BY <1>1, <1>2, Finite, SumChange
<1> QED BY <1>2, <1>3, <1>4, <1>5

\* What is taken is taken from what the rows hold now: they are locked.
LEMMA ConsumeBatchesConserves ==
  ASSUME IInv, ConservationInv, NEW s \in Sessions, ConsumeBatches(s)
  PROVE  ConservationInv'
<1> DEFINE d == sess[s].doc
<1>1. d \in Out /\ d \notin posted /\ Quantity[d] \in Nat
  BY StockAssumption DEF IInv, PhasesNameDocuments, ConservationInv, PostingIsPending,
     ConsumeBatches, At, Docs
<1>2. PICK t \in Spreads(s) :
        /\ qty' = [b \in In |-> IF b \in sess[s].snap THEN sess[s].got[b] - t[b] ELSE qty[b]]
        /\ taken' = [taken EXCEPT ![d] = t]
  BY DEF ConsumeBatches
<1>3. t \in [In -> Nat] /\ \A b \in In : t[b] <= sess[s].got[b]
  BY <1>1, <1>2 DEF Spreads
<1>4. sess'[s] = Idle /\ \A u \in Sessions \ {s} : sess'[u] = sess[u]
  BY DEF IInv, TypeOK, ConsumeBatches, End
<1>5. Idle.pc = "idle" /\ Idle.doc = NoDoc /\ Idle.got \in [In -> Nat]
  BY DEF Idle
<1>6. posted' = posted \cup {d} /\ UNCHANGED <<rows, overwritten>>
  BY DEF ConsumeBatches
<1>8. \A u \in Sessions \ {s} : OnDocument(u) => sess[u].doc # d
  BY DEF ConservationInv, OneSessionPerDocument, OnDocument, ConsumeBatches, At
<1> HIDE DEF d
<1>9. OneSessionPerDocument'
  BY <1>4, <1>5 DEF ConservationInv, OneSessionPerDocument, OnDocument
<1>10. PostingIsPending'
  BY <1>4, <1>5, <1>6, <1>8 DEF ConservationInv, PostingIsPending, OnDocument
<1>11. UndoingKnowsBatches'
  <2> SUFFICES ASSUME NEW u \in Sessions, sess'[u].pc = "undoing", NEW b \in In,
                      taken'[sess'[u].doc][b] > 0
               PROVE  b \in sess'[u].snap
    BY DEF UndoingKnowsBatches, At
  <2>1. u # s
    BY <1>4, <1>5
  <2>2. sess'[u] = sess[u] /\ sess[u].doc # d /\ sess[u].doc \in Out
    BY <1>4, <1>8, <2>1 DEF IInv, PhasesNameDocuments, OnDocument
  <2>3. taken'[sess[u].doc] = taken[sess[u].doc]
    BY <1>1, <1>2, <2>2 DEF IInv, TypeOK
  <2> QED BY <2>2, <2>3 DEF ConservationInv, UndoingKnowsBatches, At
<1>12. RemovalReadEnough'
  BY <1>4, <1>5 DEF ConservationInv, RemovalReadEnough, At
<1>13. QuantitiesNeverNegative'
  <2>1. qty' \in [In -> Nat]
    BY <1>2, <1>3 DEF ConservationInv, QuantitiesNeverNegative
  <2> QED BY <1>4, <1>5, <2>1 DEF ConservationInv, QuantitiesNeverNegative
<1>14. BatchesConserved'
  <2> SUFFICES ASSUME NEW b \in rows \ overwritten
               PROVE  qty'[b] = Quantity[b] - TakenFrom(b)'
    BY <1>6 DEF BatchesConserved, BatchConserved
  <2>1. b \in In /\ qty[b] \in Nat /\ Quantity[b] \in Nat
    BY StockAssumption DEF IInv, TypeOK, ConservationInv, QuantitiesNeverNegative, Docs
  <2>2. qty[b] = Quantity[b] - TakenFrom(b)
    BY DEF ConservationInv, BatchesConserved, BatchConserved
  <2>3. taken[d][b] = 0
    BY <1>1, <2>1 DEF IInv, TypeOK, MovementsHaveBatches
  <2>4. TakenFrom(b) \in Nat /\ TakenFrom(b)' = TakenFrom(b) + t[b]
    <3>1. TypeOK /\ t \in [In -> Nat] /\ taken' = [taken EXCEPT ![d] = t]
      BY <1>2, <1>3 DEF IInv
    <3>2. TakenFrom(b) \in Nat /\ TakenFrom(b)' = TakenFrom(b) + t[b] - taken[d][b]
      BY <1>1, <2>1, <3>1, TakenFromChanges
    <3>3. t[b] \in Nat
      BY <1>3, <2>1
    <3> QED BY <2>3, <3>2, <3>3
  <2>5. t[b] \in Nat /\ t[b] <= sess[s].got[b] /\ sess[s].got[b] \in Nat
    BY <1>3, <2>1 DEF ConservationInv, QuantitiesNeverNegative
  <2>6. qty'[b] = qty[b] - t[b]
    <3>1. At(s, "consuming")
      BY DEF ConsumeBatches
    <3>2. CASE b \in sess[s].snap
      <4>1. sess[s].got[b] = qty[b]
        BY <3>1, <3>2 DEF IInv, ConsumesFreshBatches
      <4> QED BY <1>2, <2>1, <3>2, <4>1
    <3>3. CASE b \notin sess[s].snap
      <4>1. t[b] = 0
        BY <2>1, <2>5, <3>1, <3>3 DEF IInv, SnapshotsExist
      <4> QED BY <1>2, <2>1, <3>3, <4>1
    <3> QED BY <3>2, <3>3
  <2> QED BY <2>1, <2>2, <2>4, <2>5, <2>6
<1> QED BY <1>9, <1>10, <1>11, <1>12, <1>13, <1>14 DEF ConservationInv


\* What is given back goes to the rows it was taken from; a row changed since it
\* was read is marked as overwritten.
LEMMA GiveBackConserves ==
  ASSUME IInv, ConservationInv, NEW s \in Sessions, GiveBack(s)
  PROVE  ConservationInv'
<1> DEFINE d == sess[s].doc
           none == [b \in In |-> 0]
<1>1. d \in Out
  BY DEF IInv, PhasesNameDocuments, GiveBack, At
<1>2. /\ qty' = [b \in In |-> IF b \in sess[s].snap THEN sess[s].got[b] + taken[d][b] ELSE qty[b]]
      /\ overwritten' = overwritten \cup {b \in sess[s].snap : qty[b] # sess[s].got[b]}
      /\ taken' = [taken EXCEPT ![d] = none]
      /\ posted' = posted \ {d} /\ rows' = rows
  BY DEF GiveBack
<1>3. none \in [In -> Nat]
  OBVIOUS
<1>4. sess'[s] = Idle /\ \A u \in Sessions \ {s} : sess'[u] = sess[u]
  BY DEF IInv, TypeOK, GiveBack, End
<1>5. Idle.pc = "idle" /\ Idle.doc = NoDoc /\ Idle.got \in [In -> Nat]
  BY DEF Idle
<1>7. \A u \in Sessions \ {s} : OnDocument(u) => sess[u].doc # d
  BY DEF ConservationInv, OneSessionPerDocument, OnDocument, GiveBack, At
<1>8. taken[d] \in [In -> Nat]
  BY <1>1 DEF IInv, TypeOK
<1> HIDE DEF d, none
<1>9. OneSessionPerDocument'
  BY <1>4, <1>5 DEF ConservationInv, OneSessionPerDocument, OnDocument
<1>10. PostingIsPending'
  BY <1>2, <1>4, <1>5 DEF ConservationInv, PostingIsPending
<1>11. UndoingKnowsBatches'
  <2> SUFFICES ASSUME NEW u \in Sessions, sess'[u].pc = "undoing", NEW b \in In,
                      taken'[sess'[u].doc][b] > 0
               PROVE  b \in sess'[u].snap
    BY DEF UndoingKnowsBatches, At
  <2>1. u # s
    BY <1>4, <1>5
  <2>2. sess'[u] = sess[u] /\ sess[u].doc # d /\ sess[u].doc \in Out
    BY <1>4, <1>7, <2>1 DEF IInv, PhasesNameDocuments, OnDocument
  <2>3. taken'[sess[u].doc] = taken[sess[u].doc]
    BY <1>1, <1>2, <2>2 DEF IInv, TypeOK
  <2> QED BY <2>2, <2>3 DEF ConservationInv, UndoingKnowsBatches, At
<1>12. RemovalReadEnough'
  BY <1>4, <1>5 DEF ConservationInv, RemovalReadEnough, At
<1>13. QuantitiesNeverNegative'
  <2>1. qty' \in [In -> Nat]
    BY <1>2, <1>8 DEF ConservationInv, QuantitiesNeverNegative
  <2> QED BY <1>4, <1>5, <2>1 DEF ConservationInv, QuantitiesNeverNegative
<1>14. BatchesConserved'
  <2> SUFFICES ASSUME NEW b \in rows' \ overwritten'
               PROVE  qty'[b] = Quantity[b] - TakenFrom(b)'
    BY DEF BatchesConserved, BatchConserved
  <2>1. b \in rows \ overwritten
    BY <1>2
  <2>2. b \in In /\ qty[b] \in Nat /\ Quantity[b] \in Nat /\ taken[d][b] \in Nat
    BY <1>8, <2>1, StockAssumption DEF IInv, TypeOK, ConservationInv, QuantitiesNeverNegative, Docs
  <2>3. qty[b] = Quantity[b] - TakenFrom(b)
    BY <2>1 DEF ConservationInv, BatchesConserved, BatchConserved
  <2>4. TakenFrom(b) \in Nat /\ TakenFrom(b)' = TakenFrom(b) - taken[d][b]
    <3>1. TypeOK
      BY DEF IInv
    <3>2. TakenFrom(b) \in Nat /\ TakenFrom(b)' = TakenFrom(b) + none[b] - taken[d][b]
      BY <1>1, <1>2, <1>3, <2>2, <3>1, TakenFromChanges
    <3>3. none[b] = 0
      BY <2>2 DEF none
    <3> QED BY <2>2, <3>2, <3>3
  <2>5. qty'[b] = qty[b] + taken[d][b]
    <3>1. CASE b \in sess[s].snap
      <4>1. sess[s].got[b] = qty[b]
        BY <1>2, <3>1
      <4> QED BY <1>2, <2>2, <3>1, <4>1
    <3>2. CASE b \notin sess[s].snap
      <4>1. taken[d][b] = 0
        BY <2>2, <3>2 DEF ConservationInv, UndoingKnowsBatches, GiveBack, d
      <4> QED BY <1>2, <2>2, <3>2, <4>1
    <3> QED BY <3>1, <3>2
  <2> QED BY <2>2, <2>3, <2>4, <2>5
<1> QED BY <1>9, <1>10, <1>11, <1>12, <1>13, <1>14 DEF ConservationInv

\* An arrival's batch that was not written over is whole when it is removed, and
\* nothing of it is left: it is deleted.
LEMMA RemoveIncomingConserves ==
  ASSUME IInv, ConservationInv, NEW s \in Sessions, RemoveIncoming(s)
  PROVE  ConservationInv'
<1> DEFINE d == sess[s].doc
           left == sess[s].got[d] - Quantity[d]
           deleted == IF left = 0 THEN {d} ELSE {}
<1>1. d \in In /\ Quantity[d] \in Nat /\ sess[s].got[d] \in Nat
  BY StockAssumption DEF IInv, PhasesNameDocuments, RemoveIncoming, At, Docs,
     ConservationInv, QuantitiesNeverNegative
<1>2. left \in Nat
  BY <1>1 DEF ConservationInv, RemovalReadEnough, RemoveIncoming
<1>3. /\ \A b \in deleted, o \in Out : taken[o][b] = 0
      /\ rows' = rows \ deleted
      /\ qty' = [qty EXCEPT ![d] = left]
      /\ overwritten' = overwritten \cup {b \in {d} : qty[b] # sess[s].got[b]}
      /\ posted' = posted \ {d}
      /\ taken' = taken
      /\ sess' = [t \in Sessions |-> IF t = s THEN Idle ELSE [sess[t] EXCEPT !.snap = @ \ deleted]]
  BY DEF RemoveIncoming
<1>4. (left = 0 => deleted = {d}) /\ (left # 0 => deleted = {})
  OBVIOUS
<1> HIDE DEF deleted
<1>5. sess'[s] = Idle
  BY <1>3
<1>6. ASSUME NEW t \in Sessions \ {s}
      PROVE  /\ sess'[t].pc = sess[t].pc /\ sess'[t].doc = sess[t].doc
             /\ sess'[t].got = sess[t].got /\ sess'[t].snap = sess[t].snap \ deleted
  BY <1>3 DEF IInv, TypeOK, Session
<1>7. Idle.pc = "idle" /\ Idle.doc = NoDoc /\ Idle.got \in [In -> Nat]
  BY DEF Idle
<1> HIDE DEF d, left
<1>8. OneSessionPerDocument'
  BY <1>5, <1>6, <1>7 DEF ConservationInv, OneSessionPerDocument, OnDocument
<1>9. PostingIsPending'
  BY <1>3, <1>5, <1>6, <1>7 DEF ConservationInv, PostingIsPending
<1>10. UndoingKnowsBatches'
  <2> SUFFICES ASSUME NEW u \in Sessions, sess'[u].pc = "undoing", NEW b \in In,
                      taken'[sess'[u].doc][b] > 0
               PROVE  b \in sess'[u].snap
    BY DEF UndoingKnowsBatches, At
  <2>1. u # s
    BY <1>5, <1>7
  <2>2. sess[u].pc = "undoing" /\ sess'[u].doc = sess[u].doc
        /\ sess'[u].snap = sess[u].snap \ deleted
    BY <1>6, <2>1
  <2>3. taken[sess[u].doc][b] > 0 /\ sess[u].doc \in Out
    BY <1>3, <2>2 DEF IInv, PhasesNameDocuments
  <2>4. b \notin deleted
    BY <1>3, <2>3
  <2> QED BY <2>2, <2>3, <2>4 DEF ConservationInv, UndoingKnowsBatches, At
<1>11. RemovalReadEnough'
  BY <1>5, <1>6, <1>7 DEF ConservationInv, RemovalReadEnough, At
<1>12. QuantitiesNeverNegative'
  <2>1. qty' \in [In -> Nat]
    BY <1>2, <1>3 DEF ConservationInv, QuantitiesNeverNegative
  <2>2. \A u \in Sessions : sess'[u].got \in [In -> Nat]
    BY <1>5, <1>6, <1>7 DEF ConservationInv, QuantitiesNeverNegative
  <2> QED BY <2>1, <2>2 DEF QuantitiesNeverNegative
<1>13. BatchesConserved'
  <2> SUFFICES ASSUME NEW b \in rows' \ overwritten'
               PROVE  qty'[b] = Quantity[b] - TakenFrom(b)'
    BY DEF BatchesConserved, BatchConserved
  <2>1. b \in rows \ overwritten /\ b \in In /\ b \notin deleted
    BY <1>3 DEF IInv, TypeOK
  <2>2. qty[b] = Quantity[b] - TakenFrom(b) /\ TakenFrom(b)' = TakenFrom(b)
    BY <1>3, <2>1 DEF ConservationInv, BatchesConserved, BatchConserved, TakenFrom
  <2>3. b # d
    <3> SUFFICES ASSUME b = d PROVE FALSE
      OBVIOUS
    <3>1. left # 0
      BY <1>4, <2>1
    <3>2. qty[d] = sess[s].got[d]
      BY <1>3
    <3>3. TakenFrom(d) \in Nat
      <4>1. \A e \in Out : [f \in Out |-> taken[f][d]][e] \in Nat
        BY <1>1 DEF IInv, TypeOK
      <4> QED BY <4>1, Finite, SumIsNat DEF TakenFrom
    <3>4. qty[d] = Quantity[d] - TakenFrom(d)
      BY <2>2
    <3> QED BY <1>1, <1>2, <3>1, <3>2, <3>3, <3>4 DEF left
  <2>4. qty'[b] = qty[b]
    BY <1>3, <2>1, <2>3 DEF IInv, TypeOK
  <2> QED BY <2>2, <2>4
<1> QED BY <1>8, <1>9, <1>10, <1>11, <1>12, <1>13 DEF ConservationInv

LEMMA NextConserves == IInv /\ ConservationInv /\ [Next]_vars => ConservationInv'
<1> SUFFICES ASSUME IInv, ConservationInv, [Next]_vars PROVE ConservationInv'
  OBVIOUS
<1>1. CASE UNCHANGED vars
  BY <1>1 DEF vars, ConservationInv, OneSessionPerDocument, OnDocument, PostingIsPending,
     UndoingKnowsBatches, RemovalReadEnough, QuantitiesNeverNegative, BatchesConserved,
     BatchConserved, TakenFrom, At
<1>2. CASE \E d \in In : PostIncoming(d)
  BY <1>2, PostIncomingConserves
<1>4. ASSUME NEW s \in Sessions, Start(s) PROVE ConservationInv'
  BY <1>4, CheckStockConserves, ReadTakenConserves, ReadIncomingConserves,
     FindReservationsConserves DEF Start
<1>5. ASSUME NEW s \in Sessions, Step(s) PROVE ConservationInv'
  <2>1. CASE Reserve(s) \/ ReleaseForZakaz(s) \/ Rollback(s)
    BY <2>1, EndConserves DEF Reserve, ReleaseForZakaz, Rollback
  <2>2. CASE ~ (Reserve(s) \/ ReleaseForZakaz(s) \/ Rollback(s))
    BY <1>5, <2>2, SelectBatchesConserves, LockBatchesConserves, ConsumeBatchesConserves,
       GiveBackConserves, RemoveIncomingConserves, SelectRowsConserves, LockAllRowsConserves,
       CheckAvailableConserves DEF Step
  <2> QED BY <2>1, <2>2
<1> QED BY <1>1, <1>2, <1>4, <1>5 DEF Next

LEMMA SpecConserves == Spec => []ConservationInv
<1>1. Init => ConservationInv
  BY InitConservation
<1> QED BY <1>1, NextConserves, SpecIInv, PTL DEF Spec

\* BatchesConserved for every instance: a batch that no cancellation has written
\* over holds what its document brought in less what the others took.
THEOREM BatchesAreConserved == Spec => []BatchesConserved
<1>1. ConservationInv => BatchesConserved
  BY DEF ConservationInv
<1> QED BY <1>1, SpecConserves, PTL

-----------------------------------------------------------------------------
(***************************************************************************)
(* Reservations never exceed the book.                                     *)
(***************************************************************************)

\* An order that has locked rows has locked all it remembers.
ReserversHoldRows ==
  \A s \in Sessions : sess[s].pc \in {"rowsLocked", "reserving"} =>
    \A b \in sess[s].snap : rowLock[b] = s

\* What an order has found available is still there: in rows it holds.
ReservationsCounted ==
  loose = {} =>
    \A s \in Sessions : At(s, "reserving") /\ Quantity[sess[s].doc] > 0 =>
      Quantity[sess[s].doc] + ReservedBut(sess[s].gone) <= Quantities(sess[s].snap)

\* Two requests that count on something hold a row in common.
OneReserver ==
  loose = {} =>
    \A s, t \in Sessions :
      /\ At(s, "reserving") /\ Quantity[sess[s].doc] > 0
      /\ At(t, "reserving") /\ Quantity[sess[t].doc] > 0
      => s = t

ReservationInv ==
  /\ ReserversHoldRows
  /\ ReservationsCounted
  /\ OneReserver

LEMMA InitReservation == Init => ReservationInv
  BY DEF Init, Idle, At, ReservationInv, ReserversHoldRows, ReservationsCounted, OneReserver

LEMMA ReservedIsNat ==
  ASSUME TypeOK
  PROVE  \A i \in Ids :
           /\ Reserved[i] \in Nat
           /\ reserved[i] = NoDoc => Reserved[i] = 0
           /\ reserved[i] # NoDoc => Reserved[i] = Quantity[reserved[i]]
BY QuantitiesAreNat DEF TypeOK, Reserved, Docs

\* What has been reserved stays, or is released.
Fell == \A i \in Ids : Reserved'[i] \in Nat /\ Reserved'[i] <= Reserved[i]

LEMMA ReservedFalls ==
  ASSUME TypeOK, Fell, NEW gone
  PROVE  /\ ReservedBut(gone) \in Nat
         /\ SumFunctionOnSet(Reserved', Ids \ gone) \in Nat
         /\ SumFunctionOnSet(Reserved', Ids \ gone) <= ReservedBut(gone)
<1>1. IsFiniteSet(Ids \ gone)
  BY Finite, FS_Subset
<1>2. \A i \in Ids \ gone :
        Reserved[i] \in Nat /\ Reserved'[i] \in Nat /\ Reserved'[i] <= Reserved[i]
  BY ReservedIsNat DEF Fell
<1>3. /\ SumFunctionOnSet(Reserved, Ids \ gone) \in Nat
      /\ SumFunctionOnSet(Reserved', Ids \ gone) \in Nat
  BY <1>1, <1>2, SumIsNat
<1>4. \A i \in Ids \ gone :
        Reserved'[i] \in Int /\ Reserved[i] \in Int /\ Reserved'[i] <= Reserved[i]
  BY <1>2
<1>5. SumFunctionOnSet(Reserved', Ids \ gone) <= SumFunctionOnSet(Reserved, Ids \ gone)
  BY <1>1, <1>4, SumAtMost
<1> QED BY <1>3, <1>5 DEF ReservedBut

LEMMA NothingReserved ==
  ASSUME TypeOK, reserved' = reserved
  PROVE  Fell
<1>1. Reserved' = Reserved
  BY DEF Reserved
<1> QED BY <1>1, ReservedIsNat DEF Fell

\* The rows of a reserver are locked: what is counted on is untouched by others.
LEMMA OthersUndisturbed ==
  ASSUME IInv, ReservationInv, NEW s,
         \A t \in Sessions \ {s} :
           /\ sess'[t].pc = sess[t].pc /\ sess'[t].doc = sess[t].doc
           /\ sess'[t].gone = sess[t].gone
           /\ sess[t].pc \in {"rowsLocked", "reserving"} => sess'[t].snap = sess[t].snap,
         \A t \in Sessions \ {s}, b \in In :
           rowLock[b] = t => rowLock'[b] = t /\ (b \in rows => qty'[b] = qty[b]),
         loose' = loose,
         Fell,
         s \in Sessions => sess'[s].pc \notin {"rowsLocked", "reserving"}
  PROVE  ReservationInv'
<1>1. ReserversHoldRows'
  BY DEF IInv, TypeOK, Session, ReservationInv, ReserversHoldRows
<1>2. ReservationsCounted'
  <2> SUFFICES ASSUME loose = {}, NEW t \in Sessions, sess'[t].pc = "reserving",
                      Quantity[sess'[t].doc] > 0
               PROVE  Quantity[sess'[t].doc] + SumFunctionOnSet(Reserved', Ids \ sess'[t].gone)
                        <= SumFunctionOnSet(qty', sess'[t].snap)
    BY DEF ReservationsCounted, At, ReservedBut, Quantities
  <2> DEFINE o == sess[t].doc
             S == sess[t].snap
             gone == sess[t].gone
  <2>1. t # s
    OBVIOUS
  <2>2. sess[t].pc = "reserving" /\ sess'[t].doc = o /\ sess'[t].snap = S /\ sess'[t].gone = gone
    BY <2>1
  <2>3. o \in Orders /\ Quantity[o] \in Nat
    BY <2>2, StockAssumption DEF IInv, PhasesNameDocuments, Docs
  <2>4. S \in SUBSET In /\ S \subseteq rows /\ IsFiniteSet(S)
    BY Finite, FS_Subset DEF IInv, TypeOK, Session, SnapshotsExist
  <2>5. \A b \in S : qty'[b] = qty[b] /\ qty[b] \in Int
    BY <2>1, <2>2, <2>4 DEF IInv, TypeOK, ReservationInv, ReserversHoldRows
  <2>6. Quantity[o] + ReservedBut(gone) <= SumFunctionOnSet(qty, S)
    BY <2>2 DEF ReservationInv, ReservationsCounted, At, Quantities
  <2> HIDE DEF o, S, gone
  <2>7. SumFunctionOnSet(qty', S) = SumFunctionOnSet(qty, S) /\ SumFunctionOnSet(qty, S) \in Int
    BY <2>4, <2>5, SumSame, SumIsInt
  <2>8. /\ ReservedBut(gone) \in Nat
        /\ SumFunctionOnSet(Reserved', Ids \ gone) \in Nat
        /\ SumFunctionOnSet(Reserved', Ids \ gone) <= ReservedBut(gone)
    BY ReservedFalls DEF IInv
  <2> QED BY <2>2, <2>3, <2>6, <2>7, <2>8
<1>3. OneReserver'
  BY DEF ReservationInv, OneReserver, At
<1> QED BY <1>1, <1>2, <1>3 DEF ReservationInv

LEMMA PostIncomingReservation ==
  ASSUME IInv, ReservationInv, NEW d \in In, PostIncoming(d)
  PROVE  ReservationInv'
<1>1. \A b \in In : b \in rows => qty'[b] = qty[b]
  BY DEF IInv, TypeOK, PostIncoming
<1>2. Fell
  BY NothingReserved DEF IInv, PostIncoming
<1> QED BY <1>1, <1>2, OthersUndisturbed, StockAssumption DEF PostIncoming

\* A session begins, or waits for rows, or reads them.
LEMMA ReadingReservation ==
  ASSUME IInv, ReservationInv, NEW s \in Sessions,
         Start(s) \/ SelectBatches(s) \/ LockBatches(s) \/ SelectRows(s)
  PROVE  ReservationInv'
<1>1. \A t \in Sessions \ {s} : sess'[t] = sess[t]
  BY DEF IInv, TypeOK, Start, CheckStock, ReadTaken, ReadIncoming, FindReservations,
     SelectRows, SelectBatches, LockBatches
<1>2. sess'[s].pc \notin {"rowsLocked", "reserving"}
  <2>1. ASSUME NEW d, CheckStock(s, d) \/ ReadTaken(s, d) \/ ReadIncoming(s, d)
                      \/ FindReservations(s, d)
        PROVE  sess'[s].pc \in {"checked", "undoing", "removing", "releasing"}
    <3>1. CASE CheckStock(s, d)
      BY <3>1 DEF IInv, TypeOK, Idle, CheckStock
    <3>2. CASE ReadTaken(s, d)
      BY <3>2 DEF IInv, TypeOK, ReadTaken
    <3>3. CASE ReadIncoming(s, d)
      BY <3>3 DEF IInv, TypeOK, ReadIncoming
    <3>4. CASE FindReservations(s, d)
      BY <3>4 DEF IInv, TypeOK, Idle, FindReservations
    <3> QED BY <2>1, <3>1, <3>2, <3>3, <3>4
  <2>2. CASE SelectBatches(s)
    BY <2>2 DEF IInv, TypeOK, Session, SelectBatches
  <2>3. CASE LockBatches(s)
    BY <2>3 DEF IInv, TypeOK, LockBatches
  <2>4. CASE SelectRows(s)
    BY <2>4 DEF IInv, TypeOK, SelectRows
  <2> QED BY <2>1, <2>2, <2>3, <2>4 DEF Start
<1>3. UNCHANGED <<qty, reserved, loose>>
  BY DEF Start, CheckStock, ReadTaken, ReadIncoming, FindReservations, SelectRows,
     SelectBatches, LockBatches
<1>4. \A t \in Sessions \ {s}, b \in In : rowLock[b] = t => rowLock'[b] = t
  BY StockAssumption DEF IInv, TypeOK, Start, CheckStock, ReadTaken, ReadIncoming,
     FindReservations, SelectRows, SelectBatches, LockBatches, LockRows, RowsFree
<1>5. Fell
  BY <1>3, NothingReserved DEF IInv
<1> QED BY <1>1, <1>2, <1>3, <1>4, <1>5, OthersUndisturbed

\* A session that ends releases its own rows and no others.
LEMMA EndFacts ==
  ASSUME TypeOK, NEW s \in Sessions, End(s)
  PROVE  /\ \A t \in Sessions \ {s} : sess'[t] = sess[t]
         /\ sess'[s].pc = "idle"
         /\ \A t \in Sessions \ {s}, b \in In : rowLock[b] = t => rowLock'[b] = t
BY DEF TypeOK, End, ReleaseRows, Idle

\* Rows of reservations are deleted.
LEMMA ReleaseReservation ==
  ASSUME IInv, ReservationInv, NEW s \in Sessions, ReleaseForZakaz(s)
  PROVE  ReservationInv'
<1>1. TypeOK /\ End(s) /\ UNCHANGED <<qty, loose>>
  BY DEF IInv, ReleaseForZakaz
<1>2. \A i \in Ids : reserved'[i] = NoDoc \/ reserved'[i] = reserved[i]
  BY DEF IInv, TypeOK, ReleaseForZakaz
<1>3. Fell
  <2>1. TypeOK'
    BY ReleaseForZakazStep DEF IInv
  <2>2. \A i \in Ids : reserved'[i] = NoDoc => Reserved'[i] = 0
    BY DEF Reserved
  <2>3. \A i \in Ids : reserved'[i] = reserved[i] => Reserved'[i] = Reserved[i]
    BY DEF Reserved
  <2> QED BY <1>1, <1>2, <2>2, <2>3, ReservedIsNat DEF Fell
<1> QED BY <1>1, <1>3, EndFacts, OthersUndisturbed

LEMMA RollbackReservation ==
  ASSUME IInv, ReservationInv, NEW s \in Sessions, Rollback(s)
  PROVE  ReservationInv'
<1>1. TypeOK /\ End(s) /\ UNCHANGED <<qty, reserved, loose>>
  BY DEF IInv, Rollback
<1>2. Fell
  BY <1>1, NothingReserved
<1> QED BY <1>1, <1>2, EndFacts, OthersUndisturbed

LEMMA ConsumeReservation ==
  ASSUME IInv, ReservationInv, NEW s \in Sessions, ConsumeBatches(s)
  PROVE  ReservationInv'
<1>1. TypeOK /\ End(s) /\ UNCHANGED <<reserved, loose>>
  BY DEF IInv, ConsumeBatches
<1>2. \A b \in sess[s].snap : rowLock[b] = s
  BY DEF IInv, ConsumesFreshBatches, ConsumeBatches
<1>3. \A b \in In : b \notin sess[s].snap => qty'[b] = qty[b]
  BY DEF ConsumeBatches
<1>4. Fell
  BY <1>1, NothingReserved
<1> QED BY <1>1, <1>2, <1>3, <1>4, EndFacts, OthersUndisturbed

LEMMA GiveBackReservation ==
  ASSUME IInv, ReservationInv, NEW s \in Sessions, GiveBack(s)
  PROVE  ReservationInv'
<1>1. TypeOK /\ End(s) /\ UNCHANGED <<reserved, loose>>
  BY DEF IInv, GiveBack
<1>2. \A b \in sess[s].snap : rowLock[b] \in {NoSession, s}
  BY DEF GiveBack, RowsFree
<1>3. \A b \in In : b \notin sess[s].snap => qty'[b] = qty[b]
  BY DEF GiveBack
<1>4. Fell
  BY <1>1, NothingReserved
<1> QED BY <1>1, <1>2, <1>3, <1>4, EndFacts, OthersUndisturbed, StockAssumption

LEMMA RemoveIncomingReservation ==
  ASSUME IInv, ReservationInv, NEW s \in Sessions, RemoveIncoming(s)
  PROVE  ReservationInv'
<1> DEFINE d == sess[s].doc
           deleted == IF sess[s].got[d] - Quantity[d] = 0 THEN {d} ELSE {}
<1>1. /\ sess' = [t \in Sessions |-> IF t = s THEN Idle ELSE [sess[t] EXCEPT !.snap = @ \ deleted]]
      /\ rowLock[d] \in {NoSession, s} /\ d \in In
      /\ qty' = [qty EXCEPT ![d] = sess[s].got[d] - Quantity[d]]
      /\ ReleaseRows(s) /\ reserved' = reserved /\ loose' = loose
  BY DEF IInv, PhasesNameDocuments, At, RemoveIncoming, RowsFree
<1>2. deleted \subseteq {d}
  OBVIOUS
<1> HIDE DEF deleted
<1>3. sess'[s].pc = "idle"
  BY <1>1 DEF Idle
<1>4. ASSUME NEW t \in Sessions \ {s}
      PROVE  /\ sess'[t].pc = sess[t].pc /\ sess'[t].doc = sess[t].doc
             /\ sess'[t].gone = sess[t].gone
             /\ sess'[t].snap = sess[t].snap \ deleted
  BY <1>1 DEF IInv, TypeOK, Session
<1>5. ASSUME NEW t \in Sessions \ {s}, sess[t].pc \in {"rowsLocked", "reserving"}
      PROVE  sess'[t].snap = sess[t].snap
  <2>1. d \notin sess[t].snap
    BY <1>1, <1>5, StockAssumption DEF ReservationInv, ReserversHoldRows
  <2>2. sess'[t].snap = sess[t].snap \ deleted
    BY <1>4
  <2> QED BY <1>2, <2>1, <2>2
<1>6. \A t \in Sessions \ {s}, b \in In : rowLock[b] = t => rowLock'[b] = t /\ qty'[b] = qty[b]
  BY <1>1, StockAssumption DEF IInv, TypeOK, ReleaseRows
<1>7. \A t \in Sessions \ {s} :
        /\ sess'[t].pc = sess[t].pc /\ sess'[t].doc = sess[t].doc
        /\ sess'[t].gone = sess[t].gone
        /\ sess[t].pc \in {"rowsLocked", "reserving"} => sess'[t].snap = sess[t].snap
  BY <1>4, <1>5
<1>8. loose' = loose /\ Fell
  BY <1>1, NothingReserved DEF IInv
<1> QED BY <1>3, <1>6, <1>7, <1>8, OthersUndisturbed

LEMMA LockAllRowsReservation ==
  ASSUME IInv, ReservationInv, NEW s \in Sessions, LockAllRows(s)
  PROVE  ReservationInv'
<1>1. /\ sess'[s].pc = "rowsLocked" /\ sess'[s].snap = sess[s].snap
      /\ \A t \in Sessions \ {s} : sess'[t] = sess[t]
  BY DEF IInv, TypeOK, Session, LockAllRows
<1>2. \A b \in In : rowLock'[b] = IF b \in sess[s].snap THEN s ELSE rowLock[b]
  BY DEF LockAllRows, LockRows
<1>3. \A b \in sess[s].snap : b \in In /\ rowLock[b] \in {NoSession, s}
  BY DEF IInv, TypeOK, Session, LockAllRows, RowsFree
<1>4. UNCHANGED <<qty, reserved, loose>>
  BY DEF LockAllRows
<1>5. ReserversHoldRows'
  <2> SUFFICES ASSUME NEW t \in Sessions, sess'[t].pc \in {"rowsLocked", "reserving"},
                      NEW b \in sess'[t].snap
               PROVE  rowLock'[b] = t
    BY DEF ReserversHoldRows
  <2>1. CASE t = s
    BY <1>1, <1>2, <1>3, <2>1
  <2>2. CASE t # s
    <3>1. sess'[t] = sess[t]
      BY <1>1, <2>2
    <3>2. b \in In /\ rowLock[b] = t
      BY <3>1 DEF IInv, TypeOK, Session, ReservationInv, ReserversHoldRows
    <3> QED BY <1>2, <1>3, <2>2, <3>2, StockAssumption
  <2> QED BY <2>1, <2>2
<1>6. ReservationsCounted'
  <2>1. Reserved' = Reserved
    BY <1>4 DEF Reserved
  <2> SUFFICES ASSUME loose = {}, NEW t \in Sessions, sess'[t].pc = "reserving",
                      Quantity[sess'[t].doc] > 0
               PROVE  Quantity[sess'[t].doc] + ReservedBut(sess'[t].gone)
                        <= Quantities(sess'[t].snap)
    BY <1>4, <2>1 DEF ReservationsCounted, At, ReservedBut, Quantities
  <2>2. sess'[t] = sess[t]
    BY <1>1
  <2> QED BY <2>2 DEF ReservationInv, ReservationsCounted, At
<1>7. OneReserver'
  BY <1>1, <1>4 DEF ReservationInv, OneReserver, At
<1> QED BY <1>5, <1>6, <1>7 DEF ReservationInv

\* What the order counts is in the rows it has locked: the others are empty, or
\* it is counted in loose.
LEMMA CheckAvailableReservation ==
  ASSUME IInv, ConservationInv, ReservationInv, NEW s \in Sessions, CheckAvailable(s)
  PROVE  ReservationInv'
<1> DEFINE o == sess[s].doc
           S == sess[s].snap
           gone == sess[s].gone
<1>1. /\ sess[s].pc = "rowsLocked"
      /\ sess'[s].pc = "reserving" /\ sess'[s].snap = S /\ sess'[s].doc = o
      /\ sess'[s].gone = gone
      /\ \A t \in Sessions \ {s} : sess'[t] = sess[t]
  BY DEF IInv, TypeOK, Session, CheckAvailable, At
<1>2. UNCHANGED <<rows, qty, reserved, rowLock>>
  BY DEF CheckAvailable
<1>3. loose \subseteq loose'
  BY DEF CheckAvailable
<1>4. loose' = {} => \A b \in rows \ S : qty[b] = 0
  BY DEF CheckAvailable
<1>5. Book - ReservedBut(gone) >= Quantity[o]
  BY DEF CheckAvailable
<1>6. S \subseteq rows /\ rows \subseteq In /\ \A b \in In : qty[b] \in Nat
  BY DEF IInv, TypeOK, SnapshotsExist, ConservationInv, QuantitiesNeverNegative
<1>7. \A t \in Sessions : sess[t].pc \in {"rowsLocked", "reserving"} =>
        sess[t].doc \in Orders /\ Quantity[sess[t].doc] \in Nat
  BY StockAssumption DEF IInv, PhasesNameDocuments, Docs
<1> HIDE DEF o, S, gone
<1>8. ReserversHoldRows'
  BY <1>1, <1>2 DEF ReservationInv, ReserversHoldRows, S
<1>9. ReservationsCounted'
  <2> SUFFICES ASSUME loose' = {}, NEW t \in Sessions, sess'[t].pc = "reserving",
                      Quantity[sess'[t].doc] > 0
               PROVE  Quantity[sess'[t].doc] + ReservedBut(sess'[t].gone)
                        <= SumFunctionOnSet(qty, sess'[t].snap)
    BY <1>2 DEF ReservationsCounted, At, ReservedBut, Reserved, Quantities
  <2>1. CASE t = s
    <3>1. IsFiniteSet(rows) /\ \A b \in rows : qty[b] \in Int
      BY <1>6, Finite, FS_Subset
    <3>2. Book = SumFunctionOnSet(qty, S)
      BY <1>4, <1>6, <3>1, SumOfSupport DEF Book, Quantities
    <3>3. Book \in Int
      BY <3>1, SumIsInt DEF Book, Quantities
    <3>4. ReservedBut(gone) \in Nat
      <4>1. IsFiniteSet(Ids \ gone) /\ \A i \in Ids \ gone : Reserved[i] \in Nat
        BY Finite, FS_Subset, ReservedIsNat DEF IInv
      <4> QED BY <4>1, SumIsNat DEF ReservedBut
    <3>5. Quantity[o] \in Nat
      BY <1>1, <1>7 DEF o
    <3> QED BY <1>1, <1>5, <2>1, <3>2, <3>3, <3>4, <3>5
  <2>2. CASE t # s
    BY <1>1, <1>3, <2>2 DEF ReservationInv, ReservationsCounted, At, Quantities
  <2> QED BY <2>1, <2>2
<1>10. OneReserver'
  \* An order that counts on something holds a row that is not empty.
  <2>1. ASSUME loose' = {}, NEW t \in Sessions \ {s}, sess[t].pc = "reserving",
               Quantity[sess[t].doc] > 0
        PROVE  FALSE
    <3> DEFINE p == sess[t].doc
               T == sess[t].snap
               before == sess[t].gone
    <3>1. p \in Orders /\ Quantity[p] \in Nat
      BY <1>7, <2>1
    <3>2. Quantity[p] + ReservedBut(before) <= SumFunctionOnSet(qty, T)
      BY <1>3, <2>1 DEF ReservationInv, ReservationsCounted, At, Quantities
    <3>3. T \subseteq rows /\ T \subseteq In /\ IsFiniteSet(T)
      BY <1>6, Finite, FS_Subset DEF IInv, SnapshotsExist
    <3>4. T \cap S = {}
      BY <1>1, <2>1 DEF ReservationInv, ReserversHoldRows, S
    <3> HIDE DEF p, T, before
    <3>5. SumFunctionOnSet(qty, T) = 0
      BY <1>4, <2>1, <3>3, <3>4, SumOfZeros
    <3>6. ReservedBut(before) \in Nat
      <4>1. IsFiniteSet(Ids \ before) /\ \A i \in Ids \ before : Reserved[i] \in Nat
        BY Finite, FS_Subset, ReservedIsNat DEF IInv
      <4> QED BY <4>1, SumIsNat DEF ReservedBut
    <3> QED BY <2>1, <3>1, <3>2, <3>5, <3>6 DEF p
  <2>2. ASSUME loose' = {}, NEW t \in Sessions, NEW u \in Sessions,
               sess'[t].pc = "reserving", Quantity[sess'[t].doc] > 0,
               sess'[u].pc = "reserving", Quantity[sess'[u].doc] > 0
        PROVE  t = u
    BY <1>1, <2>1, <2>2
  <2> QED BY <2>2 DEF OneReserver, At
<1> QED BY <1>8, <1>9, <1>10 DEF ReservationInv

\* A row is inserted where there was none, and those deleted earlier go.
LEMMA ReserveWritesRow ==
  ASSUME IInv, NEW s \in Sessions, Reserve(s)
  PROVE  \E new \in Ids :
           /\ new \notin sess[s].gone /\ reserved[new] = NoDoc /\ Reserved[new] = 0
           /\ reserved'[new] = sess[s].doc /\ Reserved'[new] = Quantity[sess[s].doc]
           /\ \A i \in Ids \ {new} :
                IF i \in sess[s].gone THEN reserved'[i] = NoDoc /\ Reserved'[i] = 0
                ELSE reserved'[i] = reserved[i] /\ Reserved'[i] = Reserved[i]
<1> DEFINE o == sess[s].doc
<1>1. o \in Orders /\ o # NoDoc
  BY StockAssumption DEF IInv, PhasesNameDocuments, Reserve, At, Docs
<1>2. PICK new \in Ids :
        /\ reserved[new] = NoDoc /\ new \notin sess[s].gone
        /\ reserved' = [i \in Ids |-> IF i = new THEN o
                                      ELSE IF i \in sess[s].gone THEN NoDoc ELSE reserved[i]]
  BY DEF Reserve
<1> HIDE DEF o
<1>3. \A i \in Ids :
        /\ Reserved[i] = IF reserved[i] = NoDoc THEN 0 ELSE Quantity[reserved[i]]
        /\ Reserved'[i] = IF reserved'[i] = NoDoc THEN 0 ELSE Quantity[reserved'[i]]
  BY DEF Reserved
<1>4. reserved'[new] = o /\ \A i \in Ids \ {new} :
        reserved'[i] = IF i \in sess[s].gone THEN NoDoc ELSE reserved[i]
  BY <1>2
<1> QED BY <1>1, <1>2, <1>3, <1>4 DEF o

LEMMA ReserveReservation ==
  ASSUME IInv, ReservationInv, NEW s \in Sessions, Reserve(s)
  PROVE  ReservationInv'
<1> DEFINE o == sess[s].doc
<1>1. TypeOK /\ End(s) /\ UNCHANGED <<rows, qty, loose>>
  BY DEF IInv, Reserve
<1>2. o \in Orders /\ Quantity[o] \in Nat
  BY StockAssumption DEF IInv, PhasesNameDocuments, Reserve, At, Docs
<1>3. CASE Quantity[o] = 0
  <2>1. Fell
    BY <1>1, <1>3, ReserveWritesRow, ReservedIsNat DEF Fell
  <2>2. /\ \A t \in Sessions \ {s} : sess'[t] = sess[t]
        /\ sess'[s].pc = "idle"
        /\ \A t \in Sessions \ {s}, b \in In : rowLock[b] = t => rowLock'[b] = t
    BY <1>1, EndFacts
  <2> HIDE DEF o
  <2> QED BY <1>1, <2>1, <2>2, OthersUndisturbed
<1>4. CASE Quantity[o] # 0
  <2>1. /\ \A t \in Sessions \ {s} : sess'[t] = sess[t]
        /\ sess'[s].pc = "idle"
        /\ \A t \in Sessions \ {s}, b \in In : rowLock[b] = t => rowLock'[b] = t
    BY <1>1, EndFacts
  <2>2. ReserversHoldRows'
    BY <2>1 DEF IInv, TypeOK, Session, ReservationInv, ReserversHoldRows
  <2>3. OneReserver'
    BY <1>1, <2>1 DEF ReservationInv, OneReserver, At
  <2>4. ASSUME loose = {}, NEW t \in Sessions \ {s}, sess[t].pc = "reserving"
        PROVE  ~ (Quantity[sess[t].doc] > 0)
    BY <1>2, <1>4, <2>4 DEF ReservationInv, OneReserver, At, Reserve
  <2>5. ReservationsCounted'
    BY <1>1, <2>1, <2>4 DEF ReservationsCounted, At
  <2> QED BY <2>2, <2>3, <2>5 DEF ReservationInv
<1> QED BY <1>3, <1>4

LEMMA NextReservation ==
  IInv /\ ConservationInv /\ ReservationInv /\ [Next]_vars => ReservationInv'
<1> SUFFICES ASSUME IInv, ConservationInv, ReservationInv, [Next]_vars PROVE ReservationInv'
  OBVIOUS
<1>1. CASE UNCHANGED vars
  BY <1>1 DEF vars, ReservationInv, ReserversHoldRows, ReservationsCounted, OneReserver,
     At, ReservedBut, Reserved, Quantities
<1>2. CASE \E d \in In : PostIncoming(d)
  BY <1>2, PostIncomingReservation
<1>3. ASSUME NEW s \in Sessions, Start(s) \/ Step(s) PROVE ReservationInv'
  BY <1>3, ReadingReservation, ConsumeReservation, GiveBackReservation,
     RemoveIncomingReservation, LockAllRowsReservation, CheckAvailableReservation,
     ReleaseReservation, ReserveReservation, RollbackReservation DEF Step
<1> QED BY <1>1, <1>2, <1>3 DEF Next

LEMMA SpecReservation == Spec => []ReservationInv
<1>1. Init => ReservationInv
  BY InitReservation
<1> QED BY <1>1, NextReservation, SpecIInv, SpecConserves, PTL DEF Spec

\* Only Reserve adds a row, and what it counted on is still there.
LEMMA ReserveIsCovered ==
  ASSUME IInv, ConservationInv, ReservationInv, [Next]_vars, loose = {},
         NEW i \in Ids, reserved[i] = NoDoc, reserved'[i] # NoDoc, Quantity[reserved'[i]] > 0
  PROVE  SumFunctionOnSet(Reserved', Ids \ {}) <= Book
<1>1. PICK s \in Sessions : Reserve(s)
  <2>1. reserved' # reserved
    OBVIOUS
  <2>2. ASSUME NEW s \in Sessions, ReleaseForZakaz(s) PROVE FALSE
    BY <2>2 DEF ReleaseForZakaz, IInv, TypeOK
  <2> QED BY <2>1, <2>2 DEF Next, vars, Start, Step, PostIncoming, CheckStock, ReadTaken,
     ReadIncoming, FindReservations, SelectRows, SelectBatches, LockBatches, ConsumeBatches,
     GiveBack, RemoveIncoming, LockAllRows, CheckAvailable, Rollback
<1> DEFINE o == sess[s].doc
           gone == sess[s].gone
           S == sess[s].snap
<1>2. PICK new \in Ids :
        /\ new \notin gone /\ reserved[new] = NoDoc /\ Reserved[new] = 0
        /\ reserved'[new] = o /\ Reserved'[new] = Quantity[o]
        /\ \A k \in Ids \ {new} :
             IF k \in gone THEN reserved'[k] = NoDoc /\ Reserved'[k] = 0
             ELSE reserved'[k] = reserved[k] /\ Reserved'[k] = Reserved[k]
  BY <1>1, ReserveWritesRow
<1>3. i = new /\ Quantity[o] > 0
  BY <1>2
<1>4. Quantity[o] \in Nat /\ At(s, "reserving")
  BY <1>1, StockAssumption DEF IInv, PhasesNameDocuments, Reserve, At, Docs
<1>5. Quantity[o] + ReservedBut(gone) <= SumFunctionOnSet(qty, S)
  BY <1>3, <1>4 DEF ReservationInv, ReservationsCounted, Quantities
<1>6. S \subseteq rows
  BY DEF IInv, SnapshotsExist
<1> HIDE DEF o, gone, S
<1>7. \A k \in Ids : Reserved[k] \in Nat /\ Reserved'[k] \in Nat
  BY <1>2, <1>4, ReservedIsNat DEF IInv
<1>8. SumFunctionOnSet(Reserved', Ids \ {}) = Quantity[o] + ReservedBut(gone)
  <2> DEFINE kept == (Ids \ gone) \ {new}
  <2>1. /\ IsFiniteSet(Ids) /\ IsFiniteSet(Ids \ {new}) /\ IsFiniteSet(Ids \ gone)
        /\ IsFiniteSet(kept) /\ kept \in SUBSET (Ids \ {new}) /\ new \in Ids \ gone
    BY <1>2, Finite, FS_Subset
  <2>2. \A k \in Ids : Reserved[k] \in Int /\ Reserved'[k] \in Int
    BY <1>7
  <2>3. SumFunctionOnSet(Reserved', Ids) = Reserved'[new] + SumFunctionOnSet(Reserved', Ids \ {new})
    BY <2>1, <2>2, SumRemove
  <2>4. SumFunctionOnSet(Reserved', Ids \ {new}) = SumFunctionOnSet(Reserved', kept)
    <3>1. \A k \in (Ids \ {new}) \ kept : Reserved'[k] = 0
      BY <1>2
    <3>2. \A k \in Ids \ {new} : Reserved'[k] \in Int
      BY <2>2
    <3> HIDE DEF kept
    <3> QED BY <2>1, <3>1, <3>2, SumOfSupport
  <2>5. SumFunctionOnSet(Reserved', kept) = SumFunctionOnSet(Reserved, kept)
    <3>1. \A k \in kept : Reserved'[k] = Reserved[k]
      BY <1>2
    <3> HIDE DEF kept
    <3> QED BY <2>1, <3>1, SumSame
  <2>6. SumFunctionOnSet(Reserved, Ids \ gone) = Reserved[new] + SumFunctionOnSet(Reserved, kept)
    BY <2>1, <2>2, SumRemove
  <2>7. SumFunctionOnSet(Reserved, kept) \in Int
    BY <2>1, <2>2, SumIsInt
  <2>8. Ids \ {} = Ids
    OBVIOUS
  <2> HIDE DEF kept
  <2> QED BY <1>2, <1>4, <2>3, <2>4, <2>5, <2>6, <2>7, <2>8 DEF ReservedBut
<1>9. /\ SumFunctionOnSet(qty, S) \in Nat /\ Book \in Nat
      /\ SumFunctionOnSet(qty, S) <= Book
  <2>1. /\ IsFiniteSet(rows) /\ IsFiniteSet(S) /\ S \in SUBSET rows
        /\ \A b \in rows : qty[b] \in Nat
    BY <1>6, Finite, FS_Subset DEF IInv, TypeOK, ConservationInv, QuantitiesNeverNegative
  <2>2. SumFunctionOnSet(qty, S) \in Nat /\ Book \in Nat
    BY <2>1, SumIsNat DEF Book, Quantities
  <2>3. SumFunctionOnSet(qty, S) <= Book
    BY <2>1, SumOfSubset DEF Book, Quantities
  <2> QED BY <2>2, <2>3
<1>10. ReservedBut(gone) \in Nat
  <2>1. IsFiniteSet(Ids \ gone) /\ \A k \in Ids \ gone : Reserved[k] \in Nat
    BY <1>7, Finite, FS_Subset
  <2> QED BY <2>1, SumIsNat DEF ReservedBut
<1> QED BY <1>4, <1>5, <1>8, <1>9, <1>10

\* ReservationCovered for every instance: unless an order has counted a batch
\* inserted after its SELECT, no step reserves more than the book holds, however
\* many requests of one order there are.
THEOREM ReservationsAreCovered == Spec => ReservationCovered
<1>1. IInv /\ ConservationInv /\ ReservationInv /\ [Next]_vars =>
        [loose = {} =>
           \A i \in Ids :
             (reserved[i] = NoDoc /\ reserved'[i] # NoDoc /\ Quantity[reserved'[i]] > 0)
               => ReservedBut({})' <= Book]_vars
  BY ReserveIsCovered DEF ReservedBut
<1> QED BY <1>1, SpecIInv, SpecConserves, SpecReservation, PTL DEF Spec, ReservationCovered

-----------------------------------------------------------------------------
(***************************************************************************)
(* An order is reserved once.                                              *)
(***************************************************************************)

OnOrder(s) == sess[s].pc \in {"releasing", "rowsSelected", "rowsLocked", "reserving"}

\* A request of an order no other has worked on at the same time is alone with
\* it, and knows the row the order has.
OnceInv ==
  \A o \in Orders \ together :
    /\ \A s, t \in Sessions :
         OnOrder(s) /\ OnOrder(t) /\ sess[s].doc = o /\ sess[t].doc = o => s = t
    /\ \A i, j \in Ids : reserved[i] = o /\ reserved[j] = o => i = j
    /\ \A s \in Sessions, i \in Ids :
         OnOrder(s) /\ sess[s].doc = o /\ reserved[i] = o => i \in sess[s].gone

LEMMA InitOnce == Init => OnceInv
<1> SUFFICES ASSUME Init PROVE OnceInv
  OBVIOUS
<1>1. \A i \in Ids : reserved[i] = NoDoc
  BY DEF Init
<1>2. \A s \in Sessions : ~ OnOrder(s)
  BY DEF Init, Idle, OnOrder
<1>3. NoDoc \notin Orders
  BY StockAssumption DEF Docs
<1> QED BY <1>1, <1>2, <1>3 DEF OnceInv

\* Requests of orders go on or end; rows of reservations only go.
LEMMA KeepsOnce ==
  ASSUME OnceInv, together' = together,
         \A i \in Ids : reserved'[i] = reserved[i] \/ reserved'[i] = NoDoc,
         \A s \in Sessions : OnOrder(s)' =>
           /\ OnOrder(s) /\ sess'[s].doc = sess[s].doc
           /\ \A i \in sess[s].gone : reserved'[i] = sess[s].doc => i \in sess'[s].gone
  PROVE  OnceInv'
<1>1. NoDoc \notin Orders
  BY StockAssumption DEF Docs
<1> QED BY <1>1 DEF OnceInv

LEMMA EndOnce ==
  ASSUME IInv, OnceInv, NEW s \in Sessions, End(s), together' = together,
         \A i \in Ids : reserved'[i] = reserved[i] \/ reserved'[i] = NoDoc
  PROVE  OnceInv'
<1>1. sess'[s].pc = "idle" /\ \A t \in Sessions \ {s} : sess'[t] = sess[t]
  BY EndFacts DEF IInv
<1>2. ~ OnOrder(s)'
  BY <1>1 DEF OnOrder
<1>3. \A t \in Sessions \ {s} : OnOrder(t)' = OnOrder(t) /\ sess'[t] = sess[t]
  BY <1>1 DEF OnOrder
<1> QED BY <1>2, <1>3, KeepsOnce

\* A session of a document, or one that waits for rows.
LEMMA DocumentOnce ==
  ASSUME IInv, OnceInv, NEW s \in Sessions, UNCHANGED <<reserved, together>>,
         \A t \in Sessions \ {s} : sess'[t] = sess[t],
         \/ sess'[s].pc \in {"checked", "selected", "consuming", "undoing", "removing"}
         \/ OnOrder(s) /\ sess'[s].doc = sess[s].doc /\ sess'[s].gone = sess[s].gone
  PROVE  OnceInv'
<1>1. \A t \in Sessions \ {s} : OnOrder(t)' = OnOrder(t) /\ sess'[t] = sess[t]
  BY DEF OnOrder
<1>2. OnOrder(s)' => OnOrder(s) /\ sess'[s].doc = sess[s].doc /\ sess'[s].gone = sess[s].gone
  BY DEF OnOrder
<1> QED BY <1>1, <1>2, KeepsOnce

LEMMA RemoveIncomingOnce ==
  ASSUME IInv, OnceInv, NEW s \in Sessions, RemoveIncoming(s)
  PROVE  OnceInv'
<1>1. PICK deleted :
        sess' = [t \in Sessions |-> IF t = s THEN Idle ELSE [sess[t] EXCEPT !.snap = @ \ deleted]]
  BY DEF RemoveIncoming
<1>2. sess'[s].pc = "idle"
  BY <1>1 DEF Idle
<1>3. ASSUME NEW t \in Sessions \ {s}
      PROVE  /\ sess'[t].pc = sess[t].pc /\ sess'[t].doc = sess[t].doc
             /\ sess'[t].gone = sess[t].gone
  BY <1>1 DEF IInv, TypeOK, Session
<1>4. \A t \in Sessions : OnOrder(t)' => OnOrder(t) /\ t # s
  BY <1>2, <1>3 DEF OnOrder
<1>5. UNCHANGED <<reserved, together>>
  BY DEF RemoveIncoming
<1> QED BY <1>3, <1>4, <1>5, KeepsOnce

LEMMA FindReservationsOnce ==
  ASSUME IInv, OnceInv, NEW s \in Sessions, NEW o \in Orders, FindReservations(s, o)
  PROVE  OnceInv'
<1>1. /\ sess'[s].doc = o /\ sess'[s].gone = {i \in Ids : reserved[i] = o}
      /\ \A t \in Sessions \ {s} : sess'[t] = sess[t]
  BY DEF IInv, TypeOK, FindReservations, Idle
<1>2. /\ together \subseteq together' /\ reserved' = reserved
      /\ o \notin together' => Free(o)
  BY DEF FindReservations
<1>3. \A t \in Sessions \ {s} : OnOrder(t)' = OnOrder(t) /\ sess'[t] = sess[t]
  BY <1>1 DEF OnOrder
<1> SUFFICES ASSUME NEW p \in Orders \ together'
             PROVE  /\ \A t, u \in Sessions :
                         OnOrder(t)' /\ OnOrder(u)' /\ sess'[t].doc = p /\ sess'[u].doc = p => t = u
                    /\ \A i, j \in Ids : reserved'[i] = p /\ reserved'[j] = p => i = j
                    /\ \A t \in Sessions, i \in Ids :
                         OnOrder(t)' /\ sess'[t].doc = p /\ reserved'[i] = p => i \in sess'[t].gone
  BY DEF OnceInv
<1>4. /\ \A t, u \in Sessions :
           OnOrder(t) /\ OnOrder(u) /\ sess[t].doc = p /\ sess[u].doc = p => t = u
      /\ \A i, j \in Ids : reserved[i] = p /\ reserved[j] = p => i = j
      /\ \A t \in Sessions, i \in Ids :
           OnOrder(t) /\ sess[t].doc = p /\ reserved[i] = p => i \in sess[t].gone
  BY <1>2 DEF OnceInv
<1>5. CASE p = o
  <2>1. \A t \in Sessions \ {s} : sess'[t].doc # o
    BY <1>1, <1>2, <1>5 DEF Free
  <2> QED BY <1>1, <1>2, <1>4, <1>5, <2>1
<1>6. CASE p # o
  BY <1>1, <1>2, <1>3, <1>4, <1>6
<1> QED BY <1>5, <1>6

LEMMA SelectRowsOnce ==
  ASSUME IInv, OnceInv, NEW s \in Sessions, SelectRows(s)
  PROVE  OnceInv'
<1>1. /\ sess'[s].doc = sess[s].doc
      /\ sess'[s].gone = {i \in sess[s].gone : reserved[i] = sess[s].doc}
      /\ \A t \in Sessions \ {s} : sess'[t] = sess[t]
  BY DEF IInv, TypeOK, SelectRows, Deleted
<1>2. UNCHANGED <<reserved, together>> /\ OnOrder(s)
  BY DEF SelectRows, At, OnOrder
<1>3. \A t \in Sessions \ {s} : OnOrder(t)' = OnOrder(t) /\ sess'[t] = sess[t]
  BY <1>1 DEF OnOrder
<1> QED BY <1>1, <1>2, <1>3, KeepsOnce

\* Whatever row the order had goes with the transaction that inserts the new one.
LEMMA ReserveOnce ==
  ASSUME IInv, OnceInv, NEW s \in Sessions, Reserve(s)
  PROVE  OnceInv'
<1> DEFINE o == sess[s].doc
           gone == sess[s].gone
<1>1. PICK new \in Ids :
        /\ reserved'[new] = o
        /\ \A i \in Ids \ {new} :
             IF i \in gone THEN reserved'[i] = NoDoc ELSE reserved'[i] = reserved[i]
  BY ReserveWritesRow
<1>2. sess'[s].pc = "idle" /\ \A t \in Sessions \ {s} : sess'[t] = sess[t]
  BY EndFacts DEF IInv, Reserve
<1>3. /\ ~ OnOrder(s)' /\ together' = together /\ OnOrder(s)
      /\ \A t \in Sessions \ {s} : OnOrder(t)' = OnOrder(t) /\ sess'[t] = sess[t]
  BY <1>2 DEF OnOrder, Reserve, At
<1>4. NoDoc \notin Orders
  BY StockAssumption DEF Docs
<1> SUFFICES ASSUME NEW p \in Orders \ together
             PROVE  /\ \A t, u \in Sessions :
                         OnOrder(t)' /\ OnOrder(u)' /\ sess'[t].doc = p /\ sess'[u].doc = p => t = u
                    /\ \A i, j \in Ids : reserved'[i] = p /\ reserved'[j] = p => i = j
                    /\ \A t \in Sessions, i \in Ids :
                         OnOrder(t)' /\ sess'[t].doc = p /\ reserved'[i] = p => i \in sess'[t].gone
  BY <1>3 DEF OnceInv
<1>5. /\ \A t, u \in Sessions :
           OnOrder(t) /\ OnOrder(u) /\ sess[t].doc = p /\ sess[u].doc = p => t = u
      /\ \A i, j \in Ids : reserved[i] = p /\ reserved[j] = p => i = j
      /\ \A t \in Sessions, i \in Ids :
           OnOrder(t) /\ sess[t].doc = p /\ reserved[i] = p => i \in sess[t].gone
  BY DEF OnceInv
<1>6. CASE p = o
  <2>1. \A i \in Ids : reserved'[i] = p => i = new
    BY <1>1, <1>3, <1>4, <1>5, <1>6
  <2>2. \A t \in Sessions : OnOrder(t)' => sess'[t].doc # p
    BY <1>3, <1>5, <1>6
  <2> QED BY <2>1, <2>2
<1>7. CASE p # o
  <2>1. \A i \in Ids : reserved'[i] = p => reserved[i] = p
    BY <1>1, <1>4, <1>7
  <2> HIDE DEF o, gone
  <2> QED BY <1>3, <1>5, <2>1
<1> QED BY <1>6, <1>7

LEMMA NextOnce == IInv /\ OnceInv /\ [Next]_vars => OnceInv'
<1> SUFFICES ASSUME IInv, OnceInv, [Next]_vars PROVE OnceInv'
  OBVIOUS
<1>1. CASE UNCHANGED vars
  BY <1>1 DEF vars, OnceInv, OnOrder
<1>2. CASE \E d \in In : PostIncoming(d)
  BY <1>2 DEF PostIncoming, OnceInv, OnOrder
<1>3. ASSUME NEW s \in Sessions, Start(s) PROVE OnceInv'
  <2>1. ASSUME NEW d, CheckStock(s, d) PROVE OnceInv'
    <3>1. sess'[s].pc = "checked" /\ \A t \in Sessions \ {s} : sess'[t] = sess[t]
      BY <2>1 DEF IInv, TypeOK, CheckStock, Idle
    <3> QED BY <2>1, <3>1, DocumentOnce DEF CheckStock
  <2>2. ASSUME NEW d, ReadTaken(s, d) PROVE OnceInv'
    <3>1. sess'[s].pc = "undoing" /\ \A t \in Sessions \ {s} : sess'[t] = sess[t]
      BY <2>2 DEF IInv, TypeOK, ReadTaken
    <3> QED BY <2>2, <3>1, DocumentOnce DEF ReadTaken
  <2>3. ASSUME NEW d, ReadIncoming(s, d) PROVE OnceInv'
    <3>1. sess'[s].pc = "removing" /\ \A t \in Sessions \ {s} : sess'[t] = sess[t]
      BY <2>3 DEF IInv, TypeOK, ReadIncoming
    <3> QED BY <2>3, <3>1, DocumentOnce DEF ReadIncoming
  <2> QED BY <1>3, <2>1, <2>2, <2>3, FindReservationsOnce DEF Start
<1>4. ASSUME NEW s \in Sessions, Step(s) PROVE OnceInv'
  <2>1. CASE SelectBatches(s)
    <3>1. sess'[s].pc = "selected" /\ \A t \in Sessions \ {s} : sess'[t] = sess[t]
      BY <2>1 DEF IInv, TypeOK, Session, SelectBatches
    <3> QED BY <2>1, <3>1, DocumentOnce DEF SelectBatches
  <2>2. CASE LockBatches(s)
    <3>1. sess'[s].pc = "consuming" /\ \A t \in Sessions \ {s} : sess'[t] = sess[t]
      BY <2>2 DEF IInv, TypeOK, LockBatches
    <3> QED BY <2>2, <3>1, DocumentOnce DEF LockBatches
  <2>3. CASE LockAllRows(s)
    <3>1. /\ sess'[s].doc = sess[s].doc /\ sess'[s].gone = sess[s].gone
          /\ \A t \in Sessions \ {s} : sess'[t] = sess[t]
      BY <2>3 DEF IInv, TypeOK, Session, LockAllRows
    <3>2. OnOrder(s) /\ UNCHANGED <<reserved, together>>
      BY <2>3 DEF OnOrder, LockAllRows, At
    <3> QED BY <3>1, <3>2, DocumentOnce
  <2>4. CASE CheckAvailable(s)
    <3>1. /\ sess'[s].doc = sess[s].doc /\ sess'[s].gone = sess[s].gone
          /\ \A t \in Sessions \ {s} : sess'[t] = sess[t]
      BY <2>4 DEF IInv, TypeOK, Session, CheckAvailable
    <3>2. OnOrder(s) /\ UNCHANGED <<reserved, together>>
      BY <2>4 DEF OnOrder, CheckAvailable, At
    <3> QED BY <3>1, <3>2, DocumentOnce
  <2>5. CASE ConsumeBatches(s) \/ GiveBack(s) \/ Rollback(s)
    BY <2>5, EndOnce DEF ConsumeBatches, GiveBack, Rollback
  <2>6. CASE ReleaseForZakaz(s)
    <3>1. \A i \in Ids : reserved'[i] = reserved[i] \/ reserved'[i] = NoDoc
      BY <2>6 DEF ReleaseForZakaz
    <3> QED BY <2>6, <3>1, EndOnce DEF ReleaseForZakaz
  <2> QED BY <1>4, <2>1, <2>2, <2>3, <2>4, <2>5, <2>6, RemoveIncomingOnce, SelectRowsOnce,
       ReserveOnce DEF Step
<1> QED BY <1>1, <1>2, <1>3, <1>4 DEF Next

\* ReservedOnce for every instance: an order has two reservations only if two
\* requests have worked on it at once.
THEOREM OrdersAreReservedOnce == Spec => []ReservedOnce
<1>1. Init => OnceInv
  BY InitOnce
<1>2. IInv /\ OnceInv => ReservedOnce
  BY DEF IInv, TypeOK, OnceInv, ReservedOnce
<1> QED BY <1>1, <1>2, NextOnce, SpecIInv, PTL DEF Spec

=============================================================================
