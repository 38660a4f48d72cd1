--------------------- MODULE DocumentLifecycle_proofs ----------------------
(***************************************************************************)
(* Proofs about DocumentLifecycle, for every set of sessions, documents,   *)
(* row contents and kinds of request.                                      *)
(***************************************************************************)
EXTENDS DocumentRefinement, TLAPS

-----------------------------------------------------------------------------
(***************************************************************************)
(* The inductive invariant.                                                *)
(***************************************************************************)

\* A request is about a document that exists.
RequestsNameDocuments ==
  \A s \in Sessions :
    sess[s].pc # "idle" => sess[s].doc \in Docs /\ status[sess[s].doc] # "absent"

IdleIsIdle ==
  \A s \in Sessions : sess[s].pc = "idle" => sess[s] = Idle

\* Whoever works on the registers holds the lock, and a posting, or a
\* deletion that skipped the cancelling, holds it over an unposted document.
LockHeld ==
  \A s \in Sessions :
    /\ Posting(s) \/ Unposting(s) => lock[sess[s].doc] = s
    /\ sess[s].pc = "deleting" /\ sess[s].mem = "posted" => lock[sess[s].doc] = s
    /\ Posting(s) => status[sess[s].doc] # "posted"
    /\ sess[s].pc = "deleting" /\ sess[s].mem = "posted" => status[sess[s].doc] # "posted"
    /\ sess[s].pc = "editing" => sess[s].mem # "posted"

\* A status "deleted" in memory is that of the database; work on the
\* registers does not start from one.
DeletedInMemory ==
  \A s \in Sessions :
    sess[s].mem = "deleted" /\ sess[s].doc \notin stale =>
      /\ status[sess[s].doc] = "deleted"
      /\ ~ (Posting(s) \/ Unposting(s))

\* A request alone on its document knows the database's state of it.
AloneKnows ==
  \A s \in Sessions :
    sess[s].pc # "idle" /\ sess[s].doc \notin shared =>
      /\ \A t \in Sessions : sess[t].doc = sess[s].doc => t = s
      /\ ~ StatusStale(s)
      /\ ~ TotalStale(s)
      /\ sess[s].pc \in {"editing", "posting"} => ~ RowsStale(s)

IInv ==
  /\ TypeOK
  /\ RequestsNameDocuments
  /\ IdleIsIdle
  /\ LockHeld
  /\ DeletedInMemory
  /\ AloneKnows
  /\ RegistersMatchDocument
  /\ TotalMatchesRows
  /\ StaleOnlyIfShared

LEMMA InitIInv == Init => IInv
  BY LifecycleAssumption DEF Init, IInv, TypeOK, RequestsNameDocuments, IdleIsIdle,
     LockHeld,
     DeletedInMemory, AloneKnows, RegistersMatchDocument, TotalMatchesRows,
     StaleOnlyIfShared, Idle, Session, Status, DocumentStatus, Phases, Posting, Unposting

LEMMA SessionUpdate ==
  ASSUME NEW r \in Session, NEW pc \in Phases, NEW mem \in Status, NEW seen \in SUBSET Contents
  PROVE  /\ [r EXCEPT !.pc = pc] \in Session
         /\ [r EXCEPT !.pc = pc, !.seen = seen] \in Session
         /\ [r EXCEPT !.pc = pc, !.mem = mem] \in Session
  BY DEF Session

LEMMA EditRefuseStep == ASSUME IInv, NEW s \in Sessions, EditRefuse(s) PROVE IInv'
<1>1. TypeOK'
  BY DEF IInv, TypeOK, EditRefuse, Finish, Idle, Session, Status, DocumentStatus, Phases
<1>2. RequestsNameDocuments' /\ IdleIsIdle'
  BY DEF IInv, TypeOK, EditRefuse, Finish, Idle, RequestsNameDocuments, IdleIsIdle,
     Session
<1>3. LockHeld'
  BY DEF IInv, TypeOK, EditRefuse, Finish, Idle, LockHeld, Posting, Unposting, Session
<1>4. DeletedInMemory'
  BY DEF IInv, TypeOK, EditRefuse, Finish, Idle, DeletedInMemory, Posting, Unposting,
     Session
<1>5. AloneKnows'
  BY LifecycleAssumption DEF IInv, TypeOK, EditRefuse, Finish, Idle, AloneKnows,
     StatusStale, TotalStale, RowsStale, Session, RequestsNameDocuments
<1>6. RegistersMatchDocument' /\ TotalMatchesRows' /\ StaleOnlyIfShared'
  BY DEF IInv, EditRefuse, RegistersMatchDocument, TotalMatchesRows, StaleOnlyIfShared
<1> QED BY <1>1, <1>2, <1>3, <1>4, <1>5, <1>6 DEF IInv

LEMMA LoadDocumentStep ==
  ASSUME IInv, NEW s \in Sessions, NEW op \in Ops, NEW d \in Docs, LoadDocument(s, op, d)
  PROVE  IInv'
<1>1. TypeOK'
  BY LifecycleAssumption DEF IInv, TypeOK, LoadDocument, Idle, Session, Status,
     DocumentStatus, Phases, RequestKinds
<1>2. RequestsNameDocuments' /\ IdleIsIdle'
  BY LifecycleAssumption DEF IInv, TypeOK, LoadDocument, Idle,
     RequestsNameDocuments, IdleIsIdle, Session
<1>3. LockHeld'
  BY LifecycleAssumption DEF IInv, TypeOK, LoadDocument, Idle, LockHeld, Posting,
     Unposting, Session, RequestsNameDocuments
<1>4. DeletedInMemory'
  BY LifecycleAssumption DEF IInv, TypeOK, LoadDocument, Idle, DeletedInMemory,
     LockHeld, Posting, Unposting, Session, RequestsNameDocuments
<1>5. AloneKnows'
  BY LifecycleAssumption DEF IInv, TypeOK, LoadDocument, Idle, IdleIsIdle,
     AloneKnows, StatusStale, TotalStale, RowsStale, Session,
     RequestsNameDocuments
<1>6. RegistersMatchDocument'
  BY LifecycleAssumption DEF IInv, TypeOK, LoadDocument, RegistersMatchDocument,
     LockHeld, Posting, Unposting, RequestsNameDocuments
<1>7. TotalMatchesRows'
  BY LifecycleAssumption DEF IInv, TypeOK, LoadDocument, TotalMatchesRows,
     RequestsNameDocuments
<1>8. StaleOnlyIfShared'
  BY LifecycleAssumption DEF IInv, TypeOK, LoadDocument, StaleOnlyIfShared,
     AloneKnows, RequestsNameDocuments, StatusStale, TotalStale, RowsStale
<1> QED BY <1>1, <1>2, <1>3, <1>4, <1>5, <1>6, <1>7, <1>8 DEF IInv

LEMMA EditReadStep == ASSUME IInv, NEW s \in Sessions, EditRead(s) PROVE IInv'
<1>1. TypeOK'
  <2>1. sess[s] \in Session /\ rows[sess[s].doc] \in SUBSET Contents
    BY DEF IInv, TypeOK, RequestsNameDocuments, EditRead, Working
  <2>2. [sess[s] EXCEPT !.pc = "editing", !.seen = rows[sess[s].doc]]
          \in Session
    BY <2>1, SessionUpdate DEF Phases, Status
  <2> QED BY <2>2 DEF IInv, TypeOK, EditRead
<1>2. RequestsNameDocuments' /\ IdleIsIdle'
  BY LifecycleAssumption DEF IInv, TypeOK, EditRead, Working, Idle,
     RequestsNameDocuments, IdleIsIdle, Session
<1>3. LockHeld'
  BY LifecycleAssumption DEF IInv, TypeOK, EditRead, Working, Idle, LockHeld,
     Posting, Unposting, Session, RequestsNameDocuments
<1>4. DeletedInMemory'
  BY LifecycleAssumption DEF IInv, TypeOK, EditRead, Working, Idle,
     DeletedInMemory, LockHeld, Posting, Unposting, Session,
     RequestsNameDocuments
<1>5. AloneKnows'
  BY LifecycleAssumption DEF IInv, TypeOK, EditRead, Working, Idle, IdleIsIdle,
     AloneKnows, StatusStale, TotalStale, RowsStale, Session,
     RequestsNameDocuments
<1>6. RegistersMatchDocument'
  BY LifecycleAssumption DEF IInv, TypeOK, EditRead, Working,
     RegistersMatchDocument, LockHeld, Posting, Unposting, RequestsNameDocuments
<1>7. TotalMatchesRows'
  BY LifecycleAssumption DEF IInv, TypeOK, EditRead, Working, TotalMatchesRows,
     RequestsNameDocuments
<1>8. StaleOnlyIfShared'
  BY LifecycleAssumption DEF IInv, TypeOK, EditRead, Working, StaleOnlyIfShared,
     AloneKnows, RequestsNameDocuments, StatusStale, TotalStale, RowsStale
<1> QED BY <1>1, <1>2, <1>3, <1>4, <1>5, <1>6, <1>7, <1>8 DEF IInv

LEMMA EditCommitStep == ASSUME IInv, NEW s \in Sessions, EditCommit(s) PROVE IInv'
<1>1. TypeOK'
  <2>1. sess[s] \in Session /\ Idle \in Session /\ sess[s].doc \in Docs
    BY DEF IInv, TypeOK, RequestsNameDocuments, EditCommit, Working, Idle, Session,
       Phases,
       Status
  <2>2. rows' \in [Docs -> SUBSET Contents] /\ total' \in [Docs -> SUBSET Contents]
    <3>1. PICK new \in {{}} \cup {{c} : c \in Contents \ (rows[sess[s].doc] \ sess[s].seen)} :
            /\ rows' = [rows EXCEPT ![sess[s].doc] =
                           (rows[sess[s].doc] \ sess[s].seen) \cup new]
            /\ StoreTotal(s, new)
      BY DEF EditCommit
    <3>2. new \in SUBSET Contents
      OBVIOUS
    <3>3. (rows[sess[s].doc] \ sess[s].seen) \cup new \in SUBSET Contents
      BY <2>1, <3>2 DEF IInv, TypeOK
    <3> QED BY <3>1, <3>2, <3>3 DEF IInv, TypeOK, StoreTotal
  <2>3. stale' \in SUBSET Docs
    BY <2>1 DEF IInv, TypeOK, EditCommit, NoteIf
  <2> QED BY <2>1, <2>2, <2>3 DEF IInv, TypeOK, EditCommit, Finish
<1>2. RequestsNameDocuments' /\ IdleIsIdle'
  BY LifecycleAssumption DEF IInv, TypeOK, EditCommit, Working, StoreTotal,
     NoteIf, Finish, StatusStale, RowsStale, TotalStale, Idle,
     RequestsNameDocuments, IdleIsIdle, Session
<1>3. LockHeld'
  BY LifecycleAssumption DEF IInv, TypeOK, EditCommit, Working, StoreTotal,
     NoteIf, Finish, StatusStale, RowsStale, TotalStale, Idle, LockHeld, Posting,
     Unposting, Session, RequestsNameDocuments
<1>4. DeletedInMemory'
  BY LifecycleAssumption DEF IInv, TypeOK, EditCommit, Working, StoreTotal,
     NoteIf, Finish, StatusStale, RowsStale, TotalStale, Idle, DeletedInMemory,
     LockHeld, Posting, Unposting, Session, RequestsNameDocuments
<1>5. AloneKnows'
  BY LifecycleAssumption DEF IInv, TypeOK, EditCommit, Working, StoreTotal,
     NoteIf, Finish, StatusStale, RowsStale, TotalStale, Idle, IdleIsIdle,
     AloneKnows, Session, RequestsNameDocuments
<1>6. RegistersMatchDocument'
  BY LifecycleAssumption DEF IInv, TypeOK, EditCommit, Working, StoreTotal,
     NoteIf, Finish, StatusStale, RowsStale, TotalStale, RegistersMatchDocument,
     LockHeld, Posting, Unposting, RequestsNameDocuments
<1>7. TotalMatchesRows'
  <2> SUFFICES ASSUME NEW d \in Docs, d \notin stale' PROVE total'[d] = rows'[d]
    BY DEF TotalMatchesRows
  <2>1. PICK new \in {{}} \cup {{c} : c \in Contents \ (rows[sess[s].doc] \ sess[s].seen)} :
          /\ rows' = [rows EXCEPT ![sess[s].doc] =
                         (rows[sess[s].doc] \ sess[s].seen) \cup new]
          /\ StoreTotal(s, new)
    BY DEF EditCommit
  <2>2. CASE d = sess[s].doc
    <3>1. sess[s].seen = rows[d] /\ sess[s].tot = total[d]
      BY <2>2 DEF EditCommit, NoteIf, RowsStale, TotalStale
    <3>2. rows'[d] = new
      BY <2>1, <2>2, <3>1 DEF IInv, TypeOK
    <3>3. total'[d] = new
      BY <2>1, <2>2, <3>1 DEF IInv, TypeOK, StoreTotal
    <3> QED BY <3>2, <3>3
  <2>3. CASE d # sess[s].doc
    BY <2>1, <2>3 DEF IInv, TypeOK, StoreTotal, EditCommit, NoteIf, TotalMatchesRows
  <2> QED BY <2>2, <2>3
<1>8. StaleOnlyIfShared'
  BY LifecycleAssumption DEF IInv, TypeOK, EditCommit, Working, StoreTotal,
     NoteIf, Finish, StatusStale, RowsStale, TotalStale, StaleOnlyIfShared,
     AloneKnows, RequestsNameDocuments
<1> QED BY <1>1, <1>2, <1>3, <1>4, <1>5, <1>6, <1>7, <1>8 DEF IInv

LEMMA PostRefuseStep == ASSUME IInv, NEW s \in Sessions, PostRefuse(s) PROVE IInv'
<1>1. TypeOK'
  BY LifecycleAssumption DEF IInv, TypeOK, PostRefuse, Working, Finish, Idle,
     Session, Status, DocumentStatus, Phases, RequestKinds
<1>2. RequestsNameDocuments' /\ IdleIsIdle'
  BY LifecycleAssumption DEF IInv, TypeOK, PostRefuse, Working, Finish, Idle,
     RequestsNameDocuments, IdleIsIdle, Session
<1>3. LockHeld'
  BY LifecycleAssumption DEF IInv, TypeOK, PostRefuse, Working, Finish, Idle,
     LockHeld, Posting, Unposting, Session, RequestsNameDocuments
<1>4. DeletedInMemory'
  BY LifecycleAssumption DEF IInv, TypeOK, PostRefuse, Working, Finish, Idle,
     DeletedInMemory, LockHeld, Posting, Unposting, Session,
     RequestsNameDocuments
<1>5. AloneKnows'
  BY LifecycleAssumption DEF IInv, TypeOK, PostRefuse, Working, Finish, Idle,
     IdleIsIdle, AloneKnows, StatusStale, TotalStale, RowsStale, Session,
     RequestsNameDocuments
<1>6. RegistersMatchDocument'
  BY LifecycleAssumption DEF IInv, TypeOK, PostRefuse, Working, Finish,
     RegistersMatchDocument, LockHeld, Posting, Unposting, RequestsNameDocuments
<1>7. TotalMatchesRows'
  BY LifecycleAssumption DEF IInv, TypeOK, PostRefuse, Working, Finish,
     TotalMatchesRows, RequestsNameDocuments
<1>8. StaleOnlyIfShared'
  BY LifecycleAssumption DEF IInv, TypeOK, PostRefuse, Working, Finish,
     StaleOnlyIfShared, AloneKnows, RequestsNameDocuments, StatusStale,
     TotalStale, RowsStale
<1> QED BY <1>1, <1>2, <1>3, <1>4, <1>5, <1>6, <1>7, <1>8 DEF IInv

LEMMA PostLockStep == ASSUME IInv, NEW s \in Sessions, PostLock(s) PROVE IInv'
<1>1. TypeOK'
  <2>1. [sess[s] EXCEPT !.pc = "locked"] \in Session
    BY SessionUpdate DEF IInv, TypeOK, Phases, Status
  <2> QED BY <2>1 DEF IInv, TypeOK, PostLock, Goto, Acquire
<1>2. RequestsNameDocuments' /\ IdleIsIdle'
  BY LifecycleAssumption DEF IInv, TypeOK, PostLock, Working, Acquire, Goto,
     Idle, RequestsNameDocuments, IdleIsIdle, Session
<1>3. LockHeld'
  BY LifecycleAssumption DEF IInv, TypeOK, PostLock, Working, Acquire, Goto,
     Idle, LockHeld, Posting, Unposting, Session, RequestsNameDocuments
<1>4. DeletedInMemory'
  BY LifecycleAssumption DEF IInv, TypeOK, PostLock, Working, Acquire, Goto,
     Idle, DeletedInMemory, LockHeld, Posting, Unposting, Session,
     RequestsNameDocuments
<1>5. AloneKnows'
  BY LifecycleAssumption DEF IInv, TypeOK, PostLock, Working, Acquire, Goto,
     Idle, IdleIsIdle, AloneKnows, StatusStale, TotalStale, RowsStale, Session,
     RequestsNameDocuments
<1>6. RegistersMatchDocument'
  BY LifecycleAssumption DEF IInv, TypeOK, PostLock, Working, Acquire, Goto,
     RegistersMatchDocument, LockHeld, Posting, Unposting, RequestsNameDocuments
<1>7. TotalMatchesRows'
  BY LifecycleAssumption DEF IInv, TypeOK, PostLock, Working, Acquire, Goto,
     TotalMatchesRows, RequestsNameDocuments
<1>8. StaleOnlyIfShared'
  BY LifecycleAssumption DEF IInv, TypeOK, PostLock, Working, Acquire, Goto,
     StaleOnlyIfShared, AloneKnows, RequestsNameDocuments, StatusStale,
     TotalStale, RowsStale
<1> QED BY <1>1, <1>2, <1>3, <1>4, <1>5, <1>6, <1>7, <1>8 DEF IInv

LEMMA PostApplyStep == ASSUME IInv, NEW s \in Sessions, PostApply(s) PROVE IInv'
<1>1. TypeOK'
  <2>1. sess[s] \in Session /\ rows[sess[s].doc] \in SUBSET Contents
    BY DEF IInv, TypeOK, RequestsNameDocuments, PostApply, Working
  <2>2. [sess[s] EXCEPT !.pc = "posting", !.seen = rows[sess[s].doc]]
          \in Session
    BY <2>1, SessionUpdate DEF Phases, Status
  <2> QED BY <2>2 DEF IInv, TypeOK, PostApply
<1>2. RequestsNameDocuments' /\ IdleIsIdle'
  BY LifecycleAssumption DEF IInv, TypeOK, PostApply, Working, Idle,
     RequestsNameDocuments, IdleIsIdle, Session
<1>3. LockHeld'
  BY LifecycleAssumption DEF IInv, TypeOK, PostApply, Working, Idle, LockHeld,
     Posting, Unposting, Session, RequestsNameDocuments
<1>4. DeletedInMemory'
  BY LifecycleAssumption DEF IInv, TypeOK, PostApply, Working, Idle,
     DeletedInMemory, LockHeld, Posting, Unposting, Session,
     RequestsNameDocuments
<1>5. AloneKnows'
  BY LifecycleAssumption DEF IInv, TypeOK, PostApply, Working, Idle, IdleIsIdle,
     AloneKnows, StatusStale, TotalStale, RowsStale, Session,
     RequestsNameDocuments
<1>6. RegistersMatchDocument'
  BY LifecycleAssumption DEF IInv, TypeOK, PostApply, Working,
     RegistersMatchDocument, LockHeld, Posting, Unposting, RequestsNameDocuments
<1>7. TotalMatchesRows'
  BY LifecycleAssumption DEF IInv, TypeOK, PostApply, Working, TotalMatchesRows,
     RequestsNameDocuments
<1>8. StaleOnlyIfShared'
  BY LifecycleAssumption DEF IInv, TypeOK, PostApply, Working, StaleOnlyIfShared,
     AloneKnows, RequestsNameDocuments, StatusStale, TotalStale, RowsStale
<1> QED BY <1>1, <1>2, <1>3, <1>4, <1>5, <1>6, <1>7, <1>8 DEF IInv

LEMMA PostCommitStep == ASSUME IInv, NEW s \in Sessions, PostCommit(s) PROVE IInv'
<1>1. TypeOK'
  <2>1. sess[s] \in Session /\ Idle \in Session /\ sess[s].doc \in Docs
    BY DEF IInv, TypeOK, RequestsNameDocuments, PostCommit, Working, Idle, Session,
       Phases,
       Status
  <2>2. sess[s].seen \in SUBSET Contents
    BY <2>1 DEF Session
  <2>3. Append(moves[sess[s].doc], sess[s].seen) \in Seq(SUBSET Contents)
    BY <2>1, <2>2 DEF IInv, TypeOK
  <2>4. moves' \in [Docs -> Seq(SUBSET Contents)]
    BY <2>3 DEF IInv, TypeOK, PostCommit
  <2>5. status' \in [Docs -> Status]
    BY <2>1 DEF IInv, TypeOK, PostCommit, StoreStatus, Status, DocumentStatus
  <2> QED BY <2>1, <2>4, <2>5 DEF IInv, TypeOK, PostCommit, NoteIf, Release, Finish
<1>2. RequestsNameDocuments' /\ IdleIsIdle'
  BY LifecycleAssumption DEF IInv, TypeOK, PostCommit, Working, StoreStatus,
     NoteIf, Release, Finish, StatusStale, RowsStale, Idle,
     RequestsNameDocuments, IdleIsIdle, Session
<1>3. LockHeld'
  BY LifecycleAssumption DEF IInv, TypeOK, PostCommit, Working, StoreStatus,
     NoteIf, Release, Finish, StatusStale, RowsStale, Idle, LockHeld, Posting,
     Unposting, Session, RequestsNameDocuments
<1>4. DeletedInMemory'
  BY LifecycleAssumption DEF IInv, TypeOK, PostCommit, Working, StoreStatus,
     NoteIf, Release, Finish, StatusStale, RowsStale, Idle, DeletedInMemory,
     LockHeld, Posting, Unposting, Session, RequestsNameDocuments
<1>5. AloneKnows'
  BY LifecycleAssumption DEF IInv, TypeOK, PostCommit, Working, StoreStatus,
     NoteIf, Release, Finish, StatusStale, RowsStale, Idle, IdleIsIdle,
     AloneKnows, TotalStale, Session, RequestsNameDocuments
<1>6. RegistersMatchDocument'
  <2> SUFFICES ASSUME NEW d \in Docs, d \notin stale'
               PROVE  moves'[d] = IF status'[d] = "posted" THEN <<rows'[d]>> ELSE <<>>
    BY DEF RegistersMatchDocument
  <2>1. CASE d = sess[s].doc
    <3>1. d \notin stale /\ sess[s].mem = status[d] /\ sess[s].seen = rows[d]
      BY <2>1 DEF PostCommit, NoteIf, StatusStale, RowsStale
    <3>2. status[d] # "posted"
      BY <2>1 DEF IInv, LockHeld, Posting, PostCommit, Working
    <3>3. moves[d] = <<>>
      BY <3>1, <3>2 DEF IInv, RegistersMatchDocument
    <3>4. status'[d] = "posted"
      BY <2>1, <3>1, <3>2 DEF IInv, TypeOK, PostCommit, StoreStatus
    <3>5. moves'[d] = <<rows'[d]>>
      BY <2>1, <3>1, <3>3 DEF IInv, TypeOK, PostCommit
    <3> QED BY <3>4, <3>5
  <2>2. CASE d # sess[s].doc
    BY <2>2 DEF IInv, TypeOK, PostCommit, StoreStatus, NoteIf, RegistersMatchDocument
  <2> QED BY <2>1, <2>2
<1>7. TotalMatchesRows'
  BY LifecycleAssumption DEF IInv, TypeOK, PostCommit, Working, StoreStatus,
     NoteIf, Release, Finish, StatusStale, RowsStale, TotalMatchesRows,
     RequestsNameDocuments
<1>8. StaleOnlyIfShared'
  BY LifecycleAssumption DEF IInv, TypeOK, PostCommit, Working, StoreStatus,
     NoteIf, Release, Finish, StatusStale, RowsStale, StaleOnlyIfShared,
     AloneKnows, RequestsNameDocuments, TotalStale
<1> QED BY <1>1, <1>2, <1>3, <1>4, <1>5, <1>6, <1>7, <1>8 DEF IInv

LEMMA PostFailStep == ASSUME IInv, NEW s \in Sessions, PostFail(s) PROVE IInv'
<1>1. TypeOK'
  BY LifecycleAssumption DEF IInv, TypeOK, PostFail, Working, Release, Finish,
     Idle, Session, Status, DocumentStatus, Phases, RequestKinds
<1>2. RequestsNameDocuments' /\ IdleIsIdle'
  BY LifecycleAssumption DEF IInv, TypeOK, PostFail, Working, Release, Finish,
     Idle, RequestsNameDocuments, IdleIsIdle, Session
<1>3. LockHeld'
  BY LifecycleAssumption DEF IInv, TypeOK, PostFail, Working, Release, Finish,
     Idle, LockHeld, Posting, Unposting, Session, RequestsNameDocuments
<1>4. DeletedInMemory'
  BY LifecycleAssumption DEF IInv, TypeOK, PostFail, Working, Release, Finish,
     Idle, DeletedInMemory, LockHeld, Posting, Unposting, Session,
     RequestsNameDocuments
<1>5. AloneKnows'
  BY LifecycleAssumption DEF IInv, TypeOK, PostFail, Working, Release, Finish,
     Idle, IdleIsIdle, AloneKnows, StatusStale, TotalStale, RowsStale, Session,
     RequestsNameDocuments
<1>6. RegistersMatchDocument'
  BY LifecycleAssumption DEF IInv, TypeOK, PostFail, Working, Release, Finish,
     RegistersMatchDocument, LockHeld, Posting, Unposting, RequestsNameDocuments
<1>7. TotalMatchesRows'
  BY LifecycleAssumption DEF IInv, TypeOK, PostFail, Working, Release, Finish,
     TotalMatchesRows, RequestsNameDocuments
<1>8. StaleOnlyIfShared'
  BY LifecycleAssumption DEF IInv, TypeOK, PostFail, Working, Release, Finish,
     StaleOnlyIfShared, AloneKnows, RequestsNameDocuments, StatusStale,
     TotalStale, RowsStale
<1> QED BY <1>1, <1>2, <1>3, <1>4, <1>5, <1>6, <1>7, <1>8 DEF IInv

LEMMA UnpostSkipStep == ASSUME IInv, NEW s \in Sessions, UnpostSkip(s) PROVE IInv'
<1>1. TypeOK'
  BY LifecycleAssumption DEF IInv, TypeOK, UnpostSkip, Working, Finish, Idle, Session,
     Status, DocumentStatus, Phases, RequestKinds
<1>2. RequestsNameDocuments' /\ IdleIsIdle'
  BY LifecycleAssumption DEF IInv, TypeOK, UnpostSkip, Working, Finish, Idle,
     RequestsNameDocuments, IdleIsIdle, Session
<1>3. LockHeld'
  BY LifecycleAssumption DEF IInv, TypeOK, UnpostSkip, Working, Finish, Idle,
     LockHeld, Posting, Unposting, Session,
     RequestsNameDocuments
<1>4. DeletedInMemory'
  BY LifecycleAssumption DEF IInv, TypeOK, UnpostSkip, Working, Finish, Idle,
     DeletedInMemory, LockHeld, Posting, Unposting, Session,
     RequestsNameDocuments
<1>5. AloneKnows'
  BY LifecycleAssumption DEF IInv, TypeOK, UnpostSkip, Working, Finish, Idle,
     IdleIsIdle, AloneKnows, StatusStale, TotalStale,
     RowsStale, Session, RequestsNameDocuments
<1>6. RegistersMatchDocument'
  BY LifecycleAssumption DEF IInv, TypeOK, UnpostSkip, Working, Finish,
     RegistersMatchDocument, LockHeld, Posting, Unposting,
     RequestsNameDocuments
<1>7. TotalMatchesRows'
  BY LifecycleAssumption DEF IInv, TypeOK, UnpostSkip, Working, Finish,
     TotalMatchesRows, RequestsNameDocuments
<1>8. StaleOnlyIfShared'
  BY LifecycleAssumption DEF IInv, TypeOK, UnpostSkip, Working, Finish,
     StaleOnlyIfShared, AloneKnows, RequestsNameDocuments,
     StatusStale, TotalStale, RowsStale
<1> QED BY <1>1, <1>2, <1>3, <1>4, <1>5, <1>6, <1>7, <1>8 DEF IInv

LEMMA DeleteSkipStep == ASSUME IInv, NEW s \in Sessions, DeleteSkip(s) PROVE IInv'
<1>1. TypeOK'
  <2>1. [sess[s] EXCEPT !.pc = "deleting"] \in Session
    BY SessionUpdate DEF IInv, TypeOK, Phases, Status
  <2> QED BY <2>1 DEF IInv, TypeOK, DeleteSkip, Goto, Acquire
<1>2. RequestsNameDocuments' /\ IdleIsIdle'
  BY LifecycleAssumption DEF IInv, TypeOK, DeleteSkip, Working, Acquire, Goto, Idle,
     RequestsNameDocuments, IdleIsIdle, Session
<1>3. LockHeld'
  BY LifecycleAssumption DEF IInv, TypeOK, DeleteSkip, Working, Acquire, Goto, Idle,
     LockHeld, Posting, Unposting, Session,
     RequestsNameDocuments
<1>4. DeletedInMemory'
  BY LifecycleAssumption DEF IInv, TypeOK, DeleteSkip, Working, Acquire, Goto, Idle,
     DeletedInMemory, LockHeld, Posting, Unposting, Session,
     RequestsNameDocuments
<1>5. AloneKnows'
  BY LifecycleAssumption DEF IInv, TypeOK, DeleteSkip, Working, Acquire, Goto, Idle,
     IdleIsIdle, AloneKnows, StatusStale, TotalStale,
     RowsStale, Session, RequestsNameDocuments
<1>6. RegistersMatchDocument'
  BY LifecycleAssumption DEF IInv, TypeOK, DeleteSkip, Working, Acquire, Goto,
     RegistersMatchDocument, LockHeld, Posting, Unposting,
     RequestsNameDocuments
<1>7. TotalMatchesRows'
  BY LifecycleAssumption DEF IInv, TypeOK, DeleteSkip, Working, Acquire, Goto,
     TotalMatchesRows, RequestsNameDocuments
<1>8. StaleOnlyIfShared'
  BY LifecycleAssumption DEF IInv, TypeOK, DeleteSkip, Working, Acquire, Goto,
     StaleOnlyIfShared, AloneKnows, RequestsNameDocuments,
     StatusStale, TotalStale, RowsStale
<1> QED BY <1>1, <1>2, <1>3, <1>4, <1>5, <1>6, <1>7, <1>8 DEF IInv

LEMMA UnpostLockStep == ASSUME IInv, NEW s \in Sessions, UnpostLock(s) PROVE IInv'
<1>1. TypeOK'
  <2>1. [sess[s] EXCEPT !.pc = "unposting"] \in Session
    BY SessionUpdate DEF IInv, TypeOK, Phases, Status
  <2> QED BY <2>1 DEF IInv, TypeOK, UnpostLock, Goto, Acquire
<1>2. RequestsNameDocuments' /\ IdleIsIdle'
  BY LifecycleAssumption DEF IInv, TypeOK, UnpostLock, Working, Unposts, Acquire,
     Goto, Idle, RequestsNameDocuments, IdleIsIdle, Session
<1>3. LockHeld'
  BY LifecycleAssumption DEF IInv, TypeOK, UnpostLock, Working, Unposts, Acquire,
     Goto, Idle, LockHeld, Posting, Unposting, Session, RequestsNameDocuments
<1>4. DeletedInMemory'
  BY LifecycleAssumption DEF IInv, TypeOK, UnpostLock, Working, Unposts, Acquire,
     Goto, Idle, DeletedInMemory, LockHeld, Posting, Unposting, Session,
     RequestsNameDocuments
<1>5. AloneKnows'
  BY LifecycleAssumption DEF IInv, TypeOK, UnpostLock, Working, Unposts, Acquire,
     Goto, Idle, IdleIsIdle, AloneKnows, StatusStale, TotalStale, RowsStale,
     Session, RequestsNameDocuments
<1>6. RegistersMatchDocument'
  BY LifecycleAssumption DEF IInv, TypeOK, UnpostLock, Working, Unposts, Acquire,
     Goto, RegistersMatchDocument, LockHeld, Posting, Unposting,
     RequestsNameDocuments
<1>7. TotalMatchesRows'
  BY LifecycleAssumption DEF IInv, TypeOK, UnpostLock, Working, Unposts, Acquire,
     Goto, TotalMatchesRows, RequestsNameDocuments
<1>8. StaleOnlyIfShared'
  BY LifecycleAssumption DEF IInv, TypeOK, UnpostLock, Working, Unposts, Acquire,
     Goto, StaleOnlyIfShared, AloneKnows, RequestsNameDocuments, StatusStale,
     TotalStale, RowsStale
<1> QED BY <1>1, <1>2, <1>3, <1>4, <1>5, <1>6, <1>7, <1>8 DEF IInv

LEMMA UnpostCommitStep == ASSUME IInv, NEW s \in Sessions, UnpostCommit(s) PROVE IInv'
<1>1. TypeOK'
  <2>1. sess[s] \in Session /\ Idle \in Session /\ sess[s].doc \in Docs
    BY DEF IInv, TypeOK, RequestsNameDocuments, UnpostCommit, Unregister, Idle, Session,
       Phases, Status
  <2>2. moves' \in [Docs -> Seq(SUBSET Contents)]
    <3>1. <<>> \in Seq(SUBSET Contents)
      OBVIOUS
    <3> QED BY <3>1 DEF IInv, TypeOK, UnpostCommit, Unregister
  <2>3. status' \in [Docs -> Status]
    BY <2>1 DEF IInv, TypeOK, UnpostCommit, Unregister, StoreStatus, Status,
       DocumentStatus
  <2> QED BY <2>1, <2>2, <2>3 DEF IInv, TypeOK, UnpostCommit, Unregister, NoteIf,
     Release, Finish
<1>2. RequestsNameDocuments' /\ IdleIsIdle'
  BY LifecycleAssumption DEF IInv, TypeOK, UnpostCommit, Unregister, StoreStatus,
     NoteIf,
     Release, Finish, StatusStale, Idle, RequestsNameDocuments, IdleIsIdle,
     Session
<1>3. LockHeld'
  BY LifecycleAssumption DEF IInv, TypeOK, UnpostCommit, Unregister, StoreStatus,
     NoteIf,
     Release, Finish, StatusStale, Idle, LockHeld, Posting, Unposting, Session,
     RequestsNameDocuments
<1>4. DeletedInMemory'
  BY LifecycleAssumption DEF IInv, TypeOK, UnpostCommit, Unregister, StoreStatus,
     NoteIf,
     Release, Finish, StatusStale, Idle, DeletedInMemory, LockHeld, Posting,
     Unposting, Session, RequestsNameDocuments
<1>5. AloneKnows'
  BY LifecycleAssumption DEF IInv, TypeOK, UnpostCommit, Unregister, StoreStatus,
     NoteIf,
     Release, Finish, StatusStale, Idle, IdleIsIdle, AloneKnows, TotalStale,
     RowsStale, Session, RequestsNameDocuments
<1>6. RegistersMatchDocument'
  BY LifecycleAssumption DEF IInv, TypeOK, UnpostCommit, Unregister, StoreStatus,
     NoteIf,
     Release, Finish, StatusStale, RegistersMatchDocument, LockHeld, Posting,
     Unposting, RequestsNameDocuments
<1>7. TotalMatchesRows'
  BY LifecycleAssumption DEF IInv, TypeOK, UnpostCommit, Unregister, StoreStatus,
     NoteIf,
     Release, Finish, StatusStale, TotalMatchesRows, RequestsNameDocuments
<1>8. StaleOnlyIfShared'
  BY LifecycleAssumption DEF IInv, TypeOK, UnpostCommit, Unregister, StoreStatus,
     NoteIf,
     Release, Finish, StatusStale, StaleOnlyIfShared, AloneKnows,
     RequestsNameDocuments, TotalStale, RowsStale
<1> QED BY <1>1, <1>2, <1>3, <1>4, <1>5, <1>6, <1>7, <1>8 DEF IInv

LEMMA DeleteUnpostStep == ASSUME IInv, NEW s \in Sessions, DeleteUnpost(s) PROVE IInv'
<1>1. TypeOK'
  <2>1. sess[s] \in Session /\ sess[s].doc \in Docs
    BY DEF IInv, TypeOK, RequestsNameDocuments, DeleteUnpost, Unregister
  <2>2. moves' \in [Docs -> Seq(SUBSET Contents)]
    <3>1. <<>> \in Seq(SUBSET Contents)
      OBVIOUS
    <3> QED BY <3>1 DEF IInv, TypeOK, DeleteUnpost, Unregister
  <2>3. status' \in [Docs -> Status]
    BY <2>1 DEF IInv, TypeOK, DeleteUnpost, Unregister, StoreStatus, Status,
       DocumentStatus
  <2>4. [sess[s] EXCEPT !.pc = "deleting", !.mem = "draft"] \in Session
    BY <2>1, SessionUpdate DEF Phases, Status, DocumentStatus
  <2> QED BY <2>1, <2>2, <2>3, <2>4 DEF IInv, TypeOK, DeleteUnpost, Unregister,
     NoteIf, Release
<1>2. RequestsNameDocuments' /\ IdleIsIdle'
  BY LifecycleAssumption DEF IInv, TypeOK, DeleteUnpost, Unregister, StoreStatus,
     NoteIf,
     Release, StatusStale, Idle, RequestsNameDocuments, IdleIsIdle,
     Session
<1>3. LockHeld'
  BY LifecycleAssumption DEF IInv, TypeOK, DeleteUnpost, Unregister, StoreStatus,
     NoteIf,
     Release, StatusStale, Idle, LockHeld, Posting, Unposting, Session,
     RequestsNameDocuments
<1>4. DeletedInMemory'
  BY LifecycleAssumption DEF IInv, TypeOK, DeleteUnpost, Unregister, StoreStatus,
     NoteIf,
     Release, StatusStale, Idle, DeletedInMemory, LockHeld, Posting,
     Unposting, Session, RequestsNameDocuments
<1>5. AloneKnows'
  BY LifecycleAssumption DEF IInv, TypeOK, DeleteUnpost, Unregister, StoreStatus,
     NoteIf,
     Release, StatusStale, Idle, IdleIsIdle, AloneKnows, TotalStale,
     RowsStale, Session, RequestsNameDocuments
<1>6. RegistersMatchDocument'
  BY LifecycleAssumption DEF IInv, TypeOK, DeleteUnpost, Unregister, StoreStatus,
     NoteIf,
     Release, StatusStale, RegistersMatchDocument, LockHeld, Posting,
     Unposting, RequestsNameDocuments
<1>7. TotalMatchesRows'
  BY LifecycleAssumption DEF IInv, TypeOK, DeleteUnpost, Unregister, StoreStatus,
     NoteIf,
     Release, StatusStale, TotalMatchesRows, RequestsNameDocuments
<1>8. StaleOnlyIfShared'
  BY LifecycleAssumption DEF IInv, TypeOK, DeleteUnpost, Unregister, StoreStatus,
     NoteIf,
     Release, StatusStale, StaleOnlyIfShared, AloneKnows,
     RequestsNameDocuments, TotalStale, RowsStale
<1> QED BY <1>1, <1>2, <1>3, <1>4, <1>5, <1>6, <1>7, <1>8 DEF IInv

LEMMA UnpostFailStep == ASSUME IInv, NEW s \in Sessions, UnpostFail(s) PROVE IInv'
<1>1. TypeOK'
  BY LifecycleAssumption DEF IInv, TypeOK, UnpostFail, Release, Finish, Idle,
     Session, Status, DocumentStatus, Phases, RequestKinds
<1>2. RequestsNameDocuments' /\ IdleIsIdle'
  BY LifecycleAssumption DEF IInv, TypeOK, UnpostFail, Release, Finish, Idle,
     RequestsNameDocuments, IdleIsIdle, Session
<1>3. LockHeld'
  BY LifecycleAssumption DEF IInv, TypeOK, UnpostFail, Release, Finish, Idle,
     LockHeld, Posting, Unposting, Session, RequestsNameDocuments
<1>4. DeletedInMemory'
  BY LifecycleAssumption DEF IInv, TypeOK, UnpostFail, Release, Finish, Idle,
     DeletedInMemory, LockHeld, Posting, Unposting, Session,
     RequestsNameDocuments
<1>5. AloneKnows'
  BY LifecycleAssumption DEF IInv, TypeOK, UnpostFail, Release, Finish, Idle,
     IdleIsIdle, AloneKnows, StatusStale, TotalStale, RowsStale, Session,
     RequestsNameDocuments
<1>6. RegistersMatchDocument'
  BY LifecycleAssumption DEF IInv, TypeOK, UnpostFail, Release, Finish,
     RegistersMatchDocument, LockHeld, Posting, Unposting, RequestsNameDocuments
<1>7. TotalMatchesRows'
  BY LifecycleAssumption DEF IInv, TypeOK, UnpostFail, Release, Finish,
     TotalMatchesRows, RequestsNameDocuments
<1>8. StaleOnlyIfShared'
  BY LifecycleAssumption DEF IInv, TypeOK, UnpostFail, Release, Finish,
     StaleOnlyIfShared, AloneKnows, RequestsNameDocuments, StatusStale,
     TotalStale, RowsStale
<1> QED BY <1>1, <1>2, <1>3, <1>4, <1>5, <1>6, <1>7, <1>8 DEF IInv

LEMMA DeleteCommitStep == ASSUME IInv, NEW s \in Sessions, DeleteCommit(s) PROVE IInv'
<1>1. TypeOK'
  <2>1. sess[s] \in Session /\ Idle \in Session /\ sess[s].doc \in Docs
    BY DEF IInv, TypeOK, RequestsNameDocuments, DeleteCommit, Working, Idle, Session,
       Phases,
       Status
  <2>2. status' \in [Docs -> Status]
    BY <2>1 DEF IInv, TypeOK, DeleteCommit, StoreStatus, MarkedDeleted, Status,
       DocumentStatus
  <2> QED BY <2>1, <2>2 DEF IInv, TypeOK, DeleteCommit, NoteIf, Release, Finish
<1>2. RequestsNameDocuments' /\ IdleIsIdle'
  BY LifecycleAssumption DEF IInv, TypeOK, DeleteCommit, Working, StoreStatus,
     NoteIf, Release, Finish, StatusStale, MarkedDeleted, Idle,
     RequestsNameDocuments, IdleIsIdle, Session
<1>3. LockHeld'
  BY LifecycleAssumption DEF IInv, TypeOK, DeleteCommit, Working, StoreStatus,
     NoteIf, Release, Finish, StatusStale, MarkedDeleted, Idle, LockHeld,
     Posting, Unposting, Session, RequestsNameDocuments
<1>4. DeletedInMemory'
  BY LifecycleAssumption DEF IInv, TypeOK, DeleteCommit, Working, StoreStatus,
     NoteIf, Release, Finish, StatusStale, MarkedDeleted, Idle, DeletedInMemory,
     LockHeld, Posting, Unposting, Session, RequestsNameDocuments
<1>5. AloneKnows'
  BY LifecycleAssumption DEF IInv, TypeOK, DeleteCommit, Working, StoreStatus,
     NoteIf, Release, Finish, StatusStale, MarkedDeleted, Idle, IdleIsIdle,
     AloneKnows, TotalStale, RowsStale, Session, RequestsNameDocuments
<1>6. RegistersMatchDocument'
  BY LifecycleAssumption DEF IInv, TypeOK, DeleteCommit, Working, StoreStatus,
     NoteIf, Release, Finish, StatusStale, MarkedDeleted, RegistersMatchDocument,
     LockHeld, Posting, Unposting, RequestsNameDocuments
<1>7. TotalMatchesRows'
  BY LifecycleAssumption DEF IInv, TypeOK, DeleteCommit, Working, StoreStatus,
     NoteIf, Release, Finish, StatusStale, MarkedDeleted, TotalMatchesRows,
     RequestsNameDocuments
<1>8. StaleOnlyIfShared'
  BY LifecycleAssumption DEF IInv, TypeOK, DeleteCommit, Working, StoreStatus,
     NoteIf, Release, Finish, StatusStale, MarkedDeleted, StaleOnlyIfShared,
     AloneKnows, RequestsNameDocuments, TotalStale, RowsStale
<1> QED BY <1>1, <1>2, <1>3, <1>4, <1>5, <1>6, <1>7, <1>8 DEF IInv

LEMMA CrashStep == ASSUME IInv, NEW s \in Sessions, Crash(s) PROVE IInv'
<1>1. TypeOK'
  BY LifecycleAssumption DEF IInv, TypeOK, Crash, Release, Finish, Idle, Session,
     Status, DocumentStatus, Phases, RequestKinds
<1>2. RequestsNameDocuments' /\ IdleIsIdle'
  BY LifecycleAssumption DEF IInv, TypeOK, Crash, Release, Finish, Idle,
     RequestsNameDocuments, IdleIsIdle, Session
<1>3. LockHeld'
  BY LifecycleAssumption DEF IInv, TypeOK, Crash, Release, Finish, Idle,
     LockHeld, Posting, Unposting, Session, RequestsNameDocuments
<1>4. DeletedInMemory'
  BY LifecycleAssumption DEF IInv, TypeOK, Crash, Release, Finish, Idle,
     DeletedInMemory, LockHeld, Posting, Unposting, Session,
     RequestsNameDocuments
<1>5. AloneKnows'
  BY LifecycleAssumption DEF IInv, TypeOK, Crash, Release, Finish, Idle,
     IdleIsIdle, AloneKnows, StatusStale, TotalStale, RowsStale, Session,
     RequestsNameDocuments
<1>6. RegistersMatchDocument'
  BY LifecycleAssumption DEF IInv, TypeOK, Crash, Release, Finish,
     RegistersMatchDocument, LockHeld, Posting, Unposting, RequestsNameDocuments
<1>7. TotalMatchesRows'
  BY LifecycleAssumption DEF IInv, TypeOK, Crash, Release, Finish,
     TotalMatchesRows, RequestsNameDocuments
<1>8. StaleOnlyIfShared'
  BY LifecycleAssumption DEF IInv, TypeOK, Crash, Release, Finish,
     StaleOnlyIfShared, AloneKnows, RequestsNameDocuments, StatusStale,
     TotalStale, RowsStale
<1> QED BY <1>1, <1>2, <1>3, <1>4, <1>5, <1>6, <1>7, <1>8 DEF IInv

LEMMA CreateDocumentStep == ASSUME IInv, NEW d \in Docs, CreateDocument(d) PROVE IInv'
<1>1. TypeOK'
  BY LifecycleAssumption DEF IInv, TypeOK, CreateDocument, Idle, Session, Status,
     DocumentStatus, Phases, RequestKinds
<1>2. RequestsNameDocuments' /\ IdleIsIdle'
  BY LifecycleAssumption DEF IInv, TypeOK, CreateDocument, Idle,
     RequestsNameDocuments, IdleIsIdle, Session
<1>3. LockHeld'
  BY LifecycleAssumption DEF IInv, TypeOK, CreateDocument, Idle, LockHeld,
     Posting, Unposting, Session, RequestsNameDocuments
<1>4. DeletedInMemory'
  BY LifecycleAssumption DEF IInv, TypeOK, CreateDocument, Idle, DeletedInMemory,
     LockHeld, Posting, Unposting, Session, RequestsNameDocuments
<1>5. AloneKnows'
  BY LifecycleAssumption DEF IInv, TypeOK, CreateDocument, Idle, IdleIsIdle,
     AloneKnows, StatusStale, TotalStale, RowsStale, Session,
     RequestsNameDocuments
<1>6. RegistersMatchDocument'
  BY LifecycleAssumption DEF IInv, TypeOK, CreateDocument,
     RegistersMatchDocument, LockHeld, Posting, Unposting, RequestsNameDocuments
<1>7. TotalMatchesRows'
  BY LifecycleAssumption DEF IInv, TypeOK, CreateDocument, TotalMatchesRows,
     RequestsNameDocuments
<1>8. StaleOnlyIfShared'
  BY LifecycleAssumption DEF IInv, TypeOK, CreateDocument, StaleOnlyIfShared,
     AloneKnows, RequestsNameDocuments, StatusStale, TotalStale, RowsStale
<1> QED BY <1>1, <1>2, <1>3, <1>4, <1>5, <1>6, <1>7, <1>8 DEF IInv

-----------------------------------------------------------------------------
(***************************************************************************)
(* The theorems.                                                           *)
(***************************************************************************)

LEMMA NextIInv == IInv /\ [Next]_vars => IInv'
<1> SUFFICES ASSUME IInv, [Next]_vars PROVE IInv'
  OBVIOUS
<1>1. ASSUME NEW d \in Docs, CreateDocument(d) PROVE IInv'
  BY <1>1, CreateDocumentStep
<1>2. ASSUME NEW s \in Sessions, NEW op \in Ops, NEW d \in Docs, LoadDocument(s, op, d)
      PROVE  IInv'
  BY <1>2, LoadDocumentStep
<1>3. ASSUME NEW s \in Sessions, WaitsForLock(s) PROVE IInv'
  BY <1>3, PostRefuseStep, PostLockStep, UnpostSkipStep, DeleteSkipStep, UnpostLockStep
     DEF WaitsForLock
<1>4. ASSUME NEW s \in Sessions, RunsOn(s) PROVE IInv'
  BY <1>4, EditRefuseStep, EditReadStep, EditCommitStep, PostApplyStep, PostCommitStep,
     PostFailStep, UnpostCommitStep, DeleteUnpostStep, UnpostFailStep, DeleteCommitStep
     DEF RunsOn
<1>5. ASSUME NEW s \in Sessions, Crash(s) PROVE IInv'
  BY <1>5, CrashStep
<1>6. CASE UNCHANGED vars
  BY <1>6 DEF vars, IInv, TypeOK, RequestsNameDocuments, IdleIsIdle, LockHeld,
     DeletedInMemory,
     AloneKnows, RegistersMatchDocument, TotalMatchesRows, StaleOnlyIfShared, Posting,
     Unposting, StatusStale, TotalStale, RowsStale
<1> QED BY <1>1, <1>2, <1>3, <1>4, <1>5, <1>6 DEF Next

LEMMA SpecIInv == Spec => []IInv
<1>1. Init => IInv
  BY InitIInv
<1>2. IInv /\ [Next]_vars => IInv'
  BY NextIInv
<1> QED BY <1>1, <1>2, PTL DEF Spec

\* Every variable keeps its type.
THEOREM TypeCorrect == Spec => []TypeOK
<1>1. IInv => TypeOK
  BY DEF IInv
<1> QED BY <1>1, SpecIInv, PTL

\* Registers and status agree for every document no request wrote from
\* something that had changed since it read it (post_document,
\* unpost_document, update_document_items, mark_for_deletion).
THEOREM RegistersCorrect == Spec => []RegistersMatchDocument
<1>1. IInv => RegistersMatchDocument
  BY DEF IInv
<1> QED BY <1>1, SpecIInv, PTL

\* documents.total is that of the rows, under the same condition.
THEOREM TotalsCorrect == Spec => []TotalMatchesRows
<1>1. IInv => TotalMatchesRows
  BY DEF IInv
<1> QED BY <1>1, SpecIInv, PTL

\* Requests that do not overlap on a document never make it stale.
THEOREM SerialRequestsSafe == Spec => []StaleOnlyIfShared
<1>1. IInv => StaleOnlyIfShared
  BY DEF IInv
<1> QED BY <1>1, SpecIInv, PTL

\* The advisory lock of post_document and unpost_document lets one session
\* at a time work on a document's registers, and a posting never runs on a
\* document the database says is posted.
THEOREM RegistrarAlone == Spec => []OneRegistrarPerDocument
<1>1. IInv => OneRegistrarPerDocument
  <2> SUFFICES ASSUME IInv PROVE OneRegistrarPerDocument
    OBVIOUS
  <2>1. ASSUME NEW s \in Sessions, NEW t \in Sessions,
               Posting(s) \/ Unposting(s), Posting(t) \/ Unposting(t),
               sess[s].doc = sess[t].doc
        PROVE  s = t
    <3>1. lock[sess[s].doc] = s /\ lock[sess[t].doc] = t
      BY <2>1 DEF IInv, LockHeld
    <3> QED BY <2>1, <3>1
  <2>2. ASSUME NEW s \in Sessions, Posting(s)
        PROVE  lock[sess[s].doc] = s /\ status[sess[s].doc] # "posted"
    BY <2>2 DEF IInv, LockHeld
  <2> QED BY <2>1, <2>2 DEF OneRegistrarPerDocument
<1> QED BY <1>1, SpecIInv, PTL

\* A status leaves "deleted" by a stale commit alone.
LEMMA DeletedStays ==
  ASSUME IInv, [Next]_vars, NEW d \in Docs, d \notin stale', status[d] = "deleted"
  PROVE  status'[d] = "deleted"
<1>1. ASSUME NEW e \in Docs, CreateDocument(e) PROVE status'[d] = "deleted"
  BY <1>1 DEF CreateDocument, IInv, TypeOK
<1>2. ASSUME NEW s \in Sessions, NEW op \in Ops, NEW e \in Docs, LoadDocument(s, op, e)
      PROVE  status'[d] = "deleted"
  BY <1>2 DEF LoadDocument
<1>3. ASSUME NEW s \in Sessions, WaitsForLock(s) PROVE status'[d] = "deleted"
  BY <1>3 DEF WaitsForLock, PostRefuse, PostLock, UnpostSkip, DeleteSkip, UnpostLock
<1>4. ASSUME NEW s \in Sessions, PostCommit(s) PROVE status'[d] = "deleted"
  BY <1>4 DEF IInv, TypeOK, DeletedInMemory, Posting, PostCommit, Working,
     StoreStatus, NoteIf,
     StatusStale
<1>5. ASSUME NEW s \in Sessions, UnpostCommit(s) \/ DeleteUnpost(s)
      PROVE  status'[d] = "deleted"
  BY <1>5 DEF IInv, TypeOK, DeletedInMemory, Unposting, UnpostCommit, DeleteUnpost,
     Unregister,
     StoreStatus, NoteIf, StatusStale
<1>6. ASSUME NEW s \in Sessions, DeleteCommit(s) PROVE status'[d] = "deleted"
  BY <1>6 DEF IInv, TypeOK, DeleteCommit, StoreStatus, MarkedDeleted
<1>7. ASSUME NEW s \in Sessions,
             \/ EditRefuse(s) \/ EditRead(s) \/ EditCommit(s)
             \/ PostApply(s) \/ PostFail(s) \/ UnpostFail(s) \/ Crash(s)
      PROVE  status'[d] = "deleted"
  BY <1>7 DEF EditRefuse, EditRead, EditCommit, PostApply, PostFail, UnpostFail, Crash
<1>8. CASE UNCHANGED vars
  BY <1>8 DEF vars
<1> QED BY <1>1, <1>2, <1>3, <1>4, <1>5, <1>6, <1>7, <1>8 DEF Next, RunsOn

\* mark_for_deletion is final, stale commits apart.
THEOREM DeletionFinal == Spec => DeletedIsFinal
<1>1. IInv /\ [Next]_vars =>
        [\A d \in Docs \ stale' : status[d] = "deleted" => status'[d] = "deleted"]_vars
  BY DeletedStays
<1> QED BY <1>1, SpecIInv, PTL DEF Spec, DeletedIsFinal

-----------------------------------------------------------------------------
(***************************************************************************)
(* The refinement of AtomicDocument.                                       *)
(***************************************************************************)

\* A posting has rows, and a cancelling runs on a posted document, unless a
\* deletion without the lock has been written meanwhile.
RegistrarsReady ==
  \A s \in Sessions :
    /\ sess[s].pc = "posting" => sess[s].seen # {}
    /\ Unposting(s) => status[sess[s].doc] = "posted" \/ sess[s].doc \in stale

\* No request runs at first.
LEMMA InitReady == Init => RegistrarsReady
  BY DEF Init, RegistrarsReady, Idle, Unposting

\* Reading, waiting, refusing and crashing keep RegistrarsReady: post_document
\* refuses a document without rows, unpost_document one that is not posted.
LEMMA ReadyQuiet ==
  ASSUME IInv, RegistrarsReady, NEW s \in Sessions,
         \/ PostRefuse(s) \/ PostLock(s) \/ UnpostSkip(s) \/ DeleteSkip(s) \/ UnpostLock(s)
         \/ EditRefuse(s) \/ EditRead(s) \/ PostApply(s) \/ PostFail(s) \/ UnpostFail(s) \/ Crash(s)
  PROVE  RegistrarsReady'
<1>1. sess \in [Sessions -> Session] /\ \A t \in Sessions : sess[t].pc # "idle" => sess[t].doc \in Docs
  BY DEF IInv, TypeOK, RequestsNameDocuments
<1>2. sess[s] \in Session
  BY <1>1
<1>3. CASE PostRefuse(s) \/ UnpostSkip(s) \/ EditRefuse(s) \/ PostFail(s) \/ UnpostFail(s) \/ Crash(s)
  BY <1>1, <1>3 DEF RegistrarsReady, Unposting, PostRefuse, UnpostSkip, EditRefuse, PostFail,
     UnpostFail, Crash, Finish, Idle
<1>4. CASE PostLock(s) \/ DeleteSkip(s) \/ UnpostLock(s)
  BY <1>1, <1>2, <1>4 DEF RegistrarsReady, Unposting, PostLock, DeleteSkip, UnpostLock, Goto, Session
<1>5. CASE EditRead(s) \/ PostApply(s)
  BY <1>1, <1>2, <1>5 DEF RegistrarsReady, Unposting, EditRead, PostApply, Session
<1> QED BY <1>3, <1>4, <1>5

\* What one session writes to the status of a document that another is about
\* to cancel makes the document stale.
LEMMA ReadyWrites ==
  ASSUME IInv, RegistrarsReady, NEW s \in Sessions,
         EditCommit(s) \/ PostCommit(s) \/ UnpostCommit(s) \/ DeleteUnpost(s) \/ DeleteCommit(s)
  PROVE  RegistrarsReady'
<1> DEFINE d == sess[s].doc
<1>1. /\ sess \in [Sessions -> Session] /\ d \in Docs /\ status \in [Docs -> Status]
      /\ \A t \in Sessions : sess[t].pc # "idle" => sess[t].doc \in Docs
  BY DEF IInv, TypeOK, RequestsNameDocuments, EditCommit, PostCommit, UnpostCommit, DeleteUnpost,
     Unregister, DeleteCommit, Working
<1>2. sess[s] \in Session
  BY <1>1
<1>3. \A t \in Sessions \ {s} : sess'[t] = sess[t]
  BY <1>1 DEF EditCommit, PostCommit, UnpostCommit, DeleteUnpost, DeleteCommit, Finish
<1>4. sess'[s].pc \notin {"posting", "unposting"}
  BY <1>1, <1>2 DEF EditCommit, PostCommit, UnpostCommit, DeleteUnpost, DeleteCommit, Finish, Idle, Session
<1>5. stale \subseteq stale'
  BY DEF EditCommit, PostCommit, UnpostCommit, DeleteUnpost, Unregister, DeleteCommit, NoteIf
<1>6. ASSUME NEW t \in Sessions \ {s}, Unposting(t), status[sess[t].doc] = "posted"
      PROVE  status'[sess[t].doc] = "posted" \/ sess[t].doc \in stale'
  <2>1. sess[t].doc \in Docs /\ lock[sess[t].doc] = t
    BY <1>1, <1>6 DEF Unposting, IInv, LockHeld
  <2>2. CASE sess[t].doc # d
    BY <1>1, <1>6, <2>1, <2>2 DEF EditCommit, PostCommit, UnpostCommit, DeleteUnpost, Unregister,
       DeleteCommit, StoreStatus
  <2>3. CASE sess[t].doc = d
    <3>1. CASE EditCommit(s)
      BY <1>6, <3>1 DEF EditCommit
    <3>2. CASE PostCommit(s) \/ UnpostCommit(s) \/ DeleteUnpost(s)
      <4>1. lock[d] = s
        BY <3>2 DEF IInv, LockHeld, PostCommit, Working, UnpostCommit, DeleteUnpost, Unregister,
           Posting, Unposting
      <4> QED BY <2>1, <2>3, <4>1
    <3>3. CASE DeleteCommit(s)
      <4>1. sess[s].mem # "posted"
        BY <2>1, <2>3, <3>3 DEF IInv, LockHeld, DeleteCommit, Working
      <4>2. d \in stale'
        BY <1>6, <2>3, <3>3, <4>1 DEF DeleteCommit, NoteIf, StatusStale
      <4> QED BY <2>3, <4>2
    <3> QED BY <3>1, <3>2, <3>3
  <2> QED BY <2>2, <2>3
<1>7. ASSUME NEW t \in Sessions
      PROVE  /\ sess'[t].pc = "posting" => sess'[t].seen # {}
             /\ Unposting(t)' => status'[sess'[t].doc] = "posted" \/ sess'[t].doc \in stale'
  <2>1. CASE t = s
    BY <1>4, <2>1 DEF Unposting
  <2>2. CASE t # s
    BY <1>3, <1>5, <1>6, <2>2 DEF RegistrarsReady, Unposting
  <2> QED BY <2>1, <2>2
<1> QED BY <1>7 DEF RegistrarsReady

\* RegistrarsReady is inductive, given IInv.
LEMMA NextReady == IInv /\ RegistrarsReady /\ [Next]_vars => RegistrarsReady'
<1> SUFFICES ASSUME IInv, RegistrarsReady, [Next]_vars PROVE RegistrarsReady'
  OBVIOUS
<1>1. ASSUME NEW d \in Docs, CreateDocument(d) PROVE RegistrarsReady'
  BY <1>1 DEF CreateDocument, RegistrarsReady, Unposting, IInv, TypeOK, RequestsNameDocuments
<1>2. ASSUME NEW s \in Sessions, NEW op \in Ops, NEW d \in Docs, LoadDocument(s, op, d)
      PROVE  RegistrarsReady'
  BY <1>2 DEF LoadDocument, RegistrarsReady, Unposting, IInv, TypeOK
<1>3. ASSUME NEW s \in Sessions, WaitsForLock(s) \/ RunsOn(s) \/ Crash(s) PROVE RegistrarsReady'
  BY <1>3, ReadyQuiet, ReadyWrites DEF WaitsForLock, RunsOn
<1>4. CASE UNCHANGED vars
  BY <1>4 DEF vars, RegistrarsReady, Unposting
<1> QED BY <1>1, <1>2, <1>3, <1>4 DEF Next

\* RegistrarsReady holds in every reachable state.
LEMMA SpecReady == Spec => []RegistrarsReady
<1>1. Init => RegistrarsReady
  BY InitReady
<1>2. IInv /\ RegistrarsReady /\ [Next]_vars => RegistrarsReady'
  BY NextReady
<1> QED BY <1>1, <1>2, SpecIInv, PTL DEF Spec

-----------------------------------------------------------------------------
\* The refinement mapping, and what a torn document shows.
Book == [d \in Docs |-> Shown(d)]
Torn == [status |-> "torn", rows |-> {}, total |-> {}, registers |-> <<>>]

\* No document exists at first, in both specifications.
LEMMA InitShown == Init => Abstract!Init
  BY DEF Init, Abstract!Init, Abstract!Absent, Shown

\* One document changes and the others stand: a step of the abstract book.
LEMMA OneShown ==
  ASSUME NEW d \in Docs, NEW new, Shown(d)' = new, \A e \in Docs \ {d} : Shown(e)' = Shown(e)
  PROVE  Abstract!Become(d, new)
  BY DEF Abstract!Become

\* Nothing shown changes: a stutter of the abstract book.
LEMMA SameShown ==
  ASSUME \A d \in Docs : Shown(d)' = Shown(d)
  PROVE  UNCHANGED Book
  BY DEF Book

\* A statement that writes none of the shown variables is a stutter.
LEMMA QuietShown ==
  ASSUME UNCHANGED <<status, rows, total, moves, stale>>
  PROVE  UNCHANGED Book
  BY DEF Book, Shown

\* A commit on d changes no other document; when it is stale, d is torn.
LEMMA CommitShown ==
  ASSUME IInv, NEW s \in Sessions,
         EditCommit(s) \/ PostCommit(s) \/ UnpostCommit(s) \/ DeleteUnpost(s) \/ DeleteCommit(s),
         NEW d, d = sess[s].doc
  PROVE  /\ d \in Docs /\ status[d] # "absent"
         /\ d \in stale' => Shown(d)' = Torn
         /\ \A e \in Docs \ {d} : Shown(e)' = Shown(e)
<1>1. d \in Docs /\ status[d] # "absent"
  BY DEF IInv, TypeOK, RequestsNameDocuments, EditCommit, PostCommit, UnpostCommit, DeleteUnpost,
     Unregister, DeleteCommit, Working
<1>2. d \in stale' => Shown(d)' = Torn
  BY DEF Shown, Torn
<1>3. ASSUME NEW e \in Docs \ {d} PROVE Shown(e)' = Shown(e)
  <2>1. e \in stale' <=> e \in stale
    BY <1>3 DEF EditCommit, PostCommit, UnpostCommit, DeleteUnpost, Unregister, DeleteCommit, NoteIf
  <2>2. status'[e] = status[e] /\ total'[e] = total[e]
    BY <1>1, <1>3 DEF IInv, TypeOK, EditCommit, PostCommit, UnpostCommit, DeleteUnpost, Unregister,
       DeleteCommit, StoreStatus, StoreTotal
  <2>3. rows'[e] = rows[e] /\ moves'[e] = moves[e]
    BY <1>1, <1>3 DEF IInv, TypeOK, EditCommit, PostCommit, UnpostCommit, DeleteUnpost, Unregister,
       DeleteCommit
  <2> QED BY <2>1, <2>2, <2>3 DEF Shown
<1> QED BY <1>1, <1>2, <1>3

\* A commit that leaves its document torn is Tear, or a stutter when it was torn before.
LEMMA TornShown ==
  ASSUME NEW d \in Docs, status[d] # "absent", Shown(d)' = Torn,
         \A e \in Docs \ {d} : Shown(e)' = Shown(e)
  PROVE  [Abstract!Next]_Book
<1>1. CASE d \in stale
  <2>1. Shown(d)' = Shown(d)
    BY <1>1 DEF Shown, Torn
  <2> QED BY <2>1, SameShown
<1>2. CASE d \notin stale
  <2>1. ~ Abstract!Is(d, {"absent"})
    BY <1>2 DEF Abstract!Is, Shown
  <2>2. Abstract!Tear(d)
    BY <2>1, OneShown DEF Abstract!Tear, Abstract!Torn, Torn
  <2> QED BY <2>2 DEF Abstract!Next
<1> QED BY <1>1, <1>2

\* create_document is Create.
LEMMA CreateShown == ASSUME IInv, NEW d \in Docs, CreateDocument(d) PROVE [Abstract!Next]_Book
<1>1. PICK new \in {{}} \cup {{c} : c \in Contents} :
        rows' = [rows EXCEPT ![d] = new] /\ total' = [total EXCEPT ![d] = new]
  BY DEF CreateDocument
<1>2. new \in SUBSET Contents
  OBVIOUS
<1>3. \A e \in Docs \ {d} : Shown(e)' = Shown(e)
  BY <1>1 DEF CreateDocument, Shown, IInv, TypeOK
<1>4. CASE d \in stale
  <2>1. Shown(d)' = Shown(d)
    BY <1>4 DEF CreateDocument, Shown
  <2> QED BY <1>3, <2>1, SameShown
<1>5. CASE d \notin stale
  <2>1. moves[d] = <<>>
    BY <1>5 DEF IInv, RegistersMatchDocument, CreateDocument
  <2>2. Shown(d)' = [status |-> "draft", rows |-> new, total |-> new, registers |-> <<>>]
    BY <1>1, <1>5, <2>1 DEF CreateDocument, Shown, IInv, TypeOK
  <2>3. Abstract!Is(d, {"absent"})
    BY <1>5 DEF Abstract!Is, Shown, CreateDocument
  <2>4. Abstract!Create(d)
    BY <1>2, <1>3, <2>2, <2>3, OneShown DEF Abstract!Create
  <2> QED BY <2>4 DEF Abstract!Next
<1> QED BY <1>4, <1>5

\* The commit of update_document_items is Edit: it writes the total of the
\* rows it has just replaced, whatever the session had read before.
LEMMA EditShown == ASSUME IInv, NEW s \in Sessions, EditCommit(s) PROVE [Abstract!Next]_Book
<1>0. PICK d : d = sess[s].doc
  OBVIOUS
<1>1. /\ d \in Docs /\ status[d] # "absent"
      /\ d \in stale' => Shown(d)' = Torn
      /\ \A e \in Docs \ {d} : Shown(e)' = Shown(e)
  BY <1>0, CommitShown
<1>2. CASE d \in stale'
  BY <1>1, <1>2, TornShown
<1>3. CASE d \notin stale'
  <2>1. /\ d \notin stale /\ sess[s].mem = status[d] /\ sess[s].seen = rows[d] /\ sess[s].tot = total[d]
    BY <1>0, <1>3 DEF EditCommit, NoteIf, StatusStale, RowsStale, TotalStale
  <2>2. PICK new \in {{}} \cup {{c} : c \in Contents} :
          rows' = [rows EXCEPT ![d] = new] /\ StoreTotal(s, new)
    BY <1>0, <2>1 DEF EditCommit
  <2>3. total'[d] = new
    BY <1>0, <1>1, <2>1, <2>2 DEF StoreTotal, IInv, TypeOK
  <2>4. Shown(d)' = [Shown(d) EXCEPT !.rows = new, !.total = new]
    <3>1. Shown(d) = [status |-> status[d], rows |-> rows[d], total |-> total[d], registers |-> moves[d]]
      BY <2>1 DEF Shown
    <3>2. status'[d] = status[d] /\ moves'[d] = moves[d] /\ rows'[d] = new
      BY <1>0, <1>1, <2>2 DEF EditCommit, IInv, TypeOK
    <3>3. Shown(d)' = [status |-> status[d], rows |-> new, total |-> new, registers |-> moves[d]]
      BY <1>3, <2>3, <3>2 DEF Shown
    <3>4. PICK r : r = Shown(d)
      OBVIOUS
    <3>5. [r EXCEPT !.rows = new, !.total = new]
            = [status |-> status[d], rows |-> new, total |-> new, registers |-> moves[d]]
      <4>1. PICK q : q = [r EXCEPT !.rows = new]
        OBVIOUS
      <4>2. q = [status |-> status[d], rows |-> new, total |-> total[d], registers |-> moves[d]]
        BY <3>1, <3>4, <4>1
      <4>3. [q EXCEPT !.total = new] = [status |-> status[d], rows |-> new, total |-> new, registers |-> moves[d]]
        BY <4>2
      <4>4. [r EXCEPT !.rows = new, !.total = new] = [q EXCEPT !.total = new]
        BY <4>1
      <4> QED BY <4>3, <4>4
    <3>6. Shown(d)' = [r EXCEPT !.rows = new, !.total = new]
      BY <3>3, <3>5
    <3> QED BY <3>4, <3>6, Zenon
  <2>5. status[d] \in {"draft", "deleted"}
    BY <1>0, <1>1, <2>1 DEF IInv, TypeOK, LockHeld, EditCommit, Working, Status, DocumentStatus
  <2>6. Abstract!Is(d, {"draft", "deleted"})
    BY <1>1, <2>1, <2>5 DEF Abstract!Is, Shown
  <2>7. new \in SUBSET Contents
    BY <2>2
  <2>8. Abstract!Edit(d)
    BY <1>1, <2>4, <2>6, <2>7, OneShown DEF Abstract!Edit
  <2> QED BY <1>1, <2>8 DEF Abstract!Next
<1> QED BY <1>2, <1>3

\* The commit of post_document is Post: the registers get the rows the
\* document shows, since what the registrar read is still there.
LEMMA PostShown ==
  ASSUME IInv, RegistrarsReady, NEW s \in Sessions, PostCommit(s)
  PROVE  [Abstract!Next]_Book
<1>0. PICK d : d = sess[s].doc
  OBVIOUS
<1>1. /\ d \in Docs /\ status[d] # "absent"
      /\ d \in stale' => Shown(d)' = Torn
      /\ \A e \in Docs \ {d} : Shown(e)' = Shown(e)
  BY <1>0, CommitShown
<1>2. CASE d \in stale'
  BY <1>1, <1>2, TornShown
<1>3. CASE d \notin stale'
  <2>1. d \notin stale /\ sess[s].mem = status[d] /\ sess[s].seen = rows[d]
    BY <1>0, <1>3 DEF PostCommit, NoteIf, StatusStale, RowsStale
  <2>2. Posting(s)
    BY DEF PostCommit, Working, Posting
  <2>3. status[d] = "draft"
    BY <1>0, <1>1, <2>1, <2>2 DEF IInv, TypeOK, LockHeld, DeletedInMemory, Status, DocumentStatus
  <2>4. moves[d] = <<>> /\ rows[d] # {}
    BY <1>0, <1>1, <2>1, <2>3 DEF IInv, RegistersMatchDocument, RegistrarsReady, PostCommit, Working
  <2>5. moves'[d] = <<rows[d]>> /\ status'[d] = "posted"
    BY <1>0, <1>1, <2>1, <2>3, <2>4 DEF PostCommit, StoreStatus, IInv, TypeOK
  <2>6. Shown(d)' = [Shown(d) EXCEPT !.status = "posted", !.registers = <<Shown(d).rows>>]
    <3>1. Shown(d) = [status |-> status[d], rows |-> rows[d], total |-> total[d], registers |-> moves[d]]
      BY <2>1 DEF Shown
    <3>2. Shown(d)' = [status |-> "posted", rows |-> rows[d], total |-> total[d], registers |-> <<rows[d]>>]
      BY <1>3, <2>5 DEF Shown, PostCommit
    <3>3. PICK r : r = Shown(d)
      OBVIOUS
    <3>4. r.rows = rows[d]
      BY <3>1, <3>3
    <3>5. [r EXCEPT !.status = "posted", !.registers = <<r.rows>>]
            = [status |-> "posted", rows |-> rows[d], total |-> total[d], registers |-> <<r.rows>>]
      <4>1. PICK q : q = [r EXCEPT !.status = "posted"]
        OBVIOUS
      <4>2. q = [status |-> "posted", rows |-> rows[d], total |-> total[d], registers |-> moves[d]]
        BY <3>1, <3>3, <4>1
      <4>3. [q EXCEPT !.registers = <<r.rows>>] = [status |-> "posted", rows |-> rows[d], total |-> total[d], registers |-> <<r.rows>>]
        BY <4>2
      <4>4. [r EXCEPT !.status = "posted", !.registers = <<r.rows>>] = [q EXCEPT !.registers = <<r.rows>>]
        BY <4>1
      <4> QED BY <4>3, <4>4
    <3>6. Shown(d)' = [r EXCEPT !.status = "posted", !.registers = <<r.rows>>]
      BY <3>2, <3>4, <3>5
    <3> QED BY <3>3, <3>6, Zenon
  <2>7. Abstract!Is(d, {"draft"}) /\ Shown(d).rows # {}
    BY <1>1, <2>1, <2>3, <2>4 DEF Abstract!Is, Shown
  <2>8. Abstract!Post(d)
    BY <1>1, <2>6, <2>7, OneShown DEF Abstract!Post
  <2> QED BY <1>1, <2>8 DEF Abstract!Next
<1> QED BY <1>2, <1>3

\* The commit of unpost_document, also when mark_for_deletion calls it, is Unpost.
LEMMA UnpostShown ==
  ASSUME IInv, RegistrarsReady, NEW s \in Sessions, UnpostCommit(s) \/ DeleteUnpost(s)
  PROVE  [Abstract!Next]_Book
<1>0. PICK d : d = sess[s].doc
  OBVIOUS
<1>1. /\ d \in Docs /\ status[d] # "absent"
      /\ d \in stale' => Shown(d)' = Torn
      /\ \A e \in Docs \ {d} : Shown(e)' = Shown(e)
  BY <1>0, CommitShown
<1>2. CASE d \in stale'
  BY <1>1, <1>2, TornShown
<1>3. CASE d \notin stale'
  <2>1. d \notin stale /\ sess[s].mem = status[d]
    BY <1>0, <1>3 DEF UnpostCommit, DeleteUnpost, Unregister, NoteIf, StatusStale
  <2>2. status[d] = "posted"
    BY <1>0, <2>1 DEF RegistrarsReady, UnpostCommit, DeleteUnpost, Unregister, Unposting
  <2>3. moves'[d] = <<>> /\ status'[d] = "draft"
    BY <1>0, <1>1, <2>1, <2>2 DEF UnpostCommit, DeleteUnpost, Unregister, StoreStatus, IInv, TypeOK
  <2>4. Shown(d)' = [Shown(d) EXCEPT !.status = "draft", !.registers = <<>>]
    <3>1. Shown(d) = [status |-> status[d], rows |-> rows[d], total |-> total[d], registers |-> moves[d]]
      BY <2>1 DEF Shown
    <3>2. Shown(d)' = [status |-> "draft", rows |-> rows[d], total |-> total[d], registers |-> <<>>]
      BY <1>3, <2>3 DEF Shown, UnpostCommit, DeleteUnpost, Unregister
    <3>3. PICK r : r = Shown(d)
      OBVIOUS
    <3>4. [r EXCEPT !.status = "draft", !.registers = <<>>]
            = [status |-> "draft", rows |-> rows[d], total |-> total[d], registers |-> <<>>]
      <4>1. PICK q : q = [r EXCEPT !.status = "draft"]
        OBVIOUS
      <4>2. q = [status |-> "draft", rows |-> rows[d], total |-> total[d], registers |-> moves[d]]
        BY <3>1, <3>3, <4>1
      <4>3. [q EXCEPT !.registers = <<>>] = [status |-> "draft", rows |-> rows[d], total |-> total[d], registers |-> <<>>]
        BY <4>2
      <4>4. [r EXCEPT !.status = "draft", !.registers = <<>>] = [q EXCEPT !.registers = <<>>]
        BY <4>1
      <4> QED BY <4>3, <4>4
    <3>5. Shown(d)' = [r EXCEPT !.status = "draft", !.registers = <<>>]
      BY <3>2, <3>4
    <3> QED BY <3>3, <3>5, Zenon
  <2>5. Abstract!Is(d, {"posted"})
    BY <1>1, <2>1, <2>2 DEF Abstract!Is, Shown
  <2>6. Abstract!Unpost(d)
    BY <1>1, <2>4, <2>5, OneShown DEF Abstract!Unpost
  <2> QED BY <1>1, <2>6 DEF Abstract!Next
<1> QED BY <1>2, <1>3

\* The commit of mark_for_deletion is Delete, or a stutter on a deleted document.
LEMMA DeleteShown == ASSUME IInv, NEW s \in Sessions, DeleteCommit(s) PROVE [Abstract!Next]_Book
<1>0. PICK d : d = sess[s].doc
  OBVIOUS
<1>1. /\ d \in Docs /\ status[d] # "absent"
      /\ d \in stale' => Shown(d)' = Torn
      /\ \A e \in Docs \ {d} : Shown(e)' = Shown(e)
  BY <1>0, CommitShown
<1>2. CASE d \in stale'
  BY <1>1, <1>2, TornShown
<1>3. CASE d \notin stale'
  <2>1. d \notin stale /\ sess[s].mem = status[d]
    BY <1>0, <1>3 DEF DeleteCommit, NoteIf, StatusStale
  <2>2. status[d] \in {"draft", "deleted"}
    BY <1>0, <1>1, <2>1 DEF IInv, TypeOK, LockHeld, DeleteCommit, Working, Status, DocumentStatus
  <2>3. Shown(d)' = [Shown(d) EXCEPT !.status = "deleted"]
    <3>1. Shown(d) = [status |-> status[d], rows |-> rows[d], total |-> total[d], registers |-> moves[d]]
      BY <2>1 DEF Shown
    <3>2. status'[d] = "deleted"
      BY <1>0, <1>1, <2>1, <2>2 DEF DeleteCommit, StoreStatus, MarkedDeleted, IInv, TypeOK
    <3>3. Shown(d)' = [status |-> "deleted", rows |-> rows[d], total |-> total[d], registers |-> moves[d]]
      BY <1>3, <3>2 DEF Shown, DeleteCommit
    <3> QED BY <3>1, <3>3
  <2>4. CASE status[d] = "deleted"
    <3>1. Shown(d)' = Shown(d)
      BY <2>1, <2>3, <2>4 DEF Shown
    <3> QED BY <1>1, <3>1, SameShown
  <2>5. CASE status[d] = "draft"
    <3>1. Abstract!Is(d, {"draft"})
      BY <1>1, <2>1, <2>5 DEF Abstract!Is, Shown
    <3>2. Abstract!Delete(d)
      BY <1>1, <2>3, <3>1, OneShown DEF Abstract!Delete
    <3> QED BY <1>1, <3>2 DEF Abstract!Next
  <2> QED BY <2>2, <2>4, <2>5
<1> QED BY <1>2, <1>3

\* Every step of the lifecycle is a step or a stutter of the abstract book.
LEMMA StepShown == IInv /\ RegistrarsReady /\ [Next]_vars => [Abstract!Next]_Book
<1> SUFFICES ASSUME IInv, RegistrarsReady, [Next]_vars PROVE [Abstract!Next]_Book
  OBVIOUS
<1>1. ASSUME NEW d \in Docs, CreateDocument(d) PROVE [Abstract!Next]_Book
  BY <1>1, CreateShown
<1>2. ASSUME NEW s \in Sessions, NEW op \in Ops, NEW d \in Docs, LoadDocument(s, op, d)
      PROVE  [Abstract!Next]_Book
  BY <1>2, QuietShown DEF LoadDocument
<1>3. ASSUME NEW s \in Sessions, WaitsForLock(s) \/ Crash(s) PROVE [Abstract!Next]_Book
  BY <1>3, QuietShown DEF WaitsForLock, PostRefuse, PostLock, UnpostSkip, DeleteSkip, UnpostLock, Crash
<1>4. ASSUME NEW s \in Sessions, RunsOn(s) PROVE [Abstract!Next]_Book
  <2>1. CASE EditRefuse(s) \/ EditRead(s) \/ PostApply(s) \/ PostFail(s) \/ UnpostFail(s)
    BY <2>1, QuietShown DEF EditRefuse, EditRead, PostApply, PostFail, UnpostFail
  <2> QED BY <1>4, <2>1, EditShown, PostShown, UnpostShown, DeleteShown DEF RunsOn
<1>5. CASE UNCHANGED vars
  BY <1>5, QuietShown DEF vars
<1> QED BY <1>1, <1>2, <1>3, <1>4, <1>5 DEF Next

\* The interleaved requests implement AtomicDocument: post_document,
\* unpost_document, update_document_items and mark_for_deletion have for every
\* document the effect of whole requests one after the other, until one of
\* them writes what rests on something changed since it was read.
THEOREM LifecycleImplementsDocument == Spec => ImplementsDocument
<1>1. Init => Abstract!Init
  BY InitShown
<1>2. IInv /\ RegistrarsReady /\ [Next]_vars => [Abstract!Next]_Book
  BY StepShown
<1> QED BY <1>1, <1>2, SpecIInv, SpecReady, PTL DEF Spec, ImplementsDocument, Abstract!Spec, Book

=============================================================================
