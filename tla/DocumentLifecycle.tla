------------------------- MODULE DocumentLifecycle -------------------------
(***************************************************************************)
(* The life of a trade document under concurrent requests: creation,       *)
(* editing of its rows, posting, cancelling the posting and marking for    *)
(* deletion (app/services/document_service.py).                            *)
(*                                                                         *)
(* One request is one database session, in a READ COMMITTED transaction    *)
(* that begins at its first statement.  The handler first loads the        *)
(* document into the session's identity map and never refreshes it         *)
(* (expire_on_commit=False), so two things of the source are kept apart:   *)
(* the status in the database and the status in the request's memory.      *)
(* Assigning a status equal to the one in memory emits no UPDATE.          *)
(*                                                                         *)
(* A document's rows are a set of contents: an edit deletes the rows it    *)
(* has read and inserts its own.  Its movements in the registers are the   *)
(* sequence of the row sets that were posted and not cancelled.            *)
(***************************************************************************)
EXTENDS Sequences, FiniteSets, Naturals

CONSTANTS
  Sessions,    \* requests the server works on at a time
  Docs,        \* documents
  Contents,    \* what one edit may write into a document's rows
  Ops,         \* the kinds of request clients send
  MaxPostings, \* bound of the model: sets of movements of a document
  NoSession, NoDoc

RequestKinds == {"edit", "post", "unpost", "delete"}

ASSUME LifecycleAssumption ==
  /\ Ops \subseteq RequestKinds
  /\ MaxPostings \in Nat
  /\ NoSession \notin Sessions
  /\ NoDoc \notin Docs

VARIABLES
  status,  \* documents.status in the database
  rows,    \* the document's rows in the database
  total,   \* the rows documents.total was computed from
  moves,   \* the movements in the registers: the row sets that were posted
  lock,    \* the session that holds the document's advisory lock
  sess,    \* what every session is doing
  shared,  \* history: documents two requests worked on at the same time
  stale    \* history: documents a request wrote, having read what had changed since

vars == <<status, rows, total, moves, lock, sess, shared, stale>>

MarkedDeleted == "deleted"

DocumentStatus == {"draft", "posted", "deleted"}
Status == DocumentStatus \cup {"absent"}

Phases == {"idle", "loaded", "editing", "locked", "posting", "unposting", "deleting"}

\* A session between requests.
Idle == [pc |-> "idle", op |-> "none", doc |-> NoDoc,
         mem |-> "absent", tot |-> {}, seen |-> {}]

\* mem, tot: status and total in the identity map; seen: the rows read.
Session == [pc : Phases, op : RequestKinds \cup {"none"}, doc : Docs \cup {NoDoc},
            mem : Status, tot : SUBSET Contents, seen : SUBSET Contents]

TypeOK ==
  /\ status \in [Docs -> Status]
  /\ rows \in [Docs -> SUBSET Contents]
  /\ total \in [Docs -> SUBSET Contents]
  /\ moves \in [Docs -> Seq(SUBSET Contents)]
  /\ lock \in [Docs -> Sessions \cup {NoSession}]
  /\ sess \in [Sessions -> Session]
  /\ shared \in SUBSET Docs
  /\ stale \in SUBSET Docs

Init ==
  /\ status = [d \in Docs |-> "absent"]
  /\ rows = [d \in Docs |-> {}]
  /\ total = [d \in Docs |-> {}]
  /\ moves = [d \in Docs |-> <<>>]
  /\ lock = [d \in Docs |-> NoSession]
  /\ sess = [s \in Sessions |-> Idle]
  /\ shared = {}
  /\ stale = {}

-----------------------------------------------------------------------------
\* What a statement of a session does.

Working(s, op, pc) == sess[s].op = op /\ sess[s].pc = pc

Goto(s, pc) == sess' = [sess EXCEPT ![s].pc = pc]

\* The end of a request: its session is closed, which ends its transaction.
Finish(s) == sess' = [sess EXCEPT ![s] = Idle]

\* The end of a transaction releases its pg_advisory_xact_lock.
Release(s) == lock' = [d \in Docs |-> IF lock[d] = s THEN NoSession ELSE lock[d]]

\* Mutant: no advisory lock is taken.
AcquireNothing(s) == lock' = [lock EXCEPT ![sess[s].doc] = s]

Acquire(s) ==
  /\ lock[sess[s].doc] = NoSession
  /\ lock' = [lock EXCEPT ![sess[s].doc] = s]

\* The ORM writes a column only when the new value differs from the one the
\* session has in memory.
StoreStatus(s, new) ==
  status' = IF sess[s].mem = new THEN status
            ELSE [status EXCEPT ![sess[s].doc] = new]

StoreTotal(s, new) ==
  total' = IF sess[s].tot = new THEN total
           ELSE [total EXCEPT ![sess[s].doc] = new]

\* A commit is stale when it rests on a status, a total or rows that are no
\* longer those of the database.
StatusStale(s) == sess[s].mem # status[sess[s].doc]
RowsStale(s) == sess[s].seen # rows[sess[s].doc]
TotalStale(s) == sess[s].tot # total[sess[s].doc]

NoteIf(s, changed) == stale' = IF changed THEN stale \cup {sess[s].doc} ELSE stale

-----------------------------------------------------------------------------
\* create_document: one transaction.
CreateDocument(d) ==
  /\ status[d] = "absent"
  /\ status' = [status EXCEPT ![d] = "draft"]
  /\ \E new \in {{}} \cup {{c} : c \in Contents} :
       /\ rows' = [rows EXCEPT ![d] = new]
       /\ total' = [total EXCEPT ![d] = new]
  /\ UNCHANGED <<moves, lock, sess, shared, stale>>

\* A handler begins with get_document.
LoadDocument(s, op, d) ==
  /\ sess[s].pc = "idle"
  /\ status[d] # "absent"
  /\ op = "post" => Len(moves[d]) < MaxPostings
  /\ sess' = [sess EXCEPT ![s] =
       [pc |-> "loaded", op |-> op, doc |-> d,
        mem |-> status[d], tot |-> total[d], seen |-> {}]]
  /\ shared' = IF \E t \in Sessions : sess[t].doc = d THEN shared \cup {d} ELSE shared
  /\ UNCHANGED <<status, rows, total, moves, lock, stale>>

-----------------------------------------------------------------------------
\* update_document_items: the status check, on the document in memory.

EditRefuse(s) ==
  /\ Working(s, "edit", "loaded")
  /\ sess[s].mem = "posted"
  /\ Finish(s)
  /\ UNCHANGED <<status, rows, total, moves, lock, shared, stale>>

EditRead(s) ==
  /\ Working(s, "edit", "loaded")
  /\ sess[s].mem # "posted"
  /\ sess' = [sess EXCEPT ![s].pc = "editing", ![s].seen = rows[sess[s].doc]]
  /\ UNCHANGED <<status, rows, total, moves, lock, shared, stale>>

\* Mutant: the totals are not computed again.
EditCommitOldTotal(s) ==
  LET left == rows[sess[s].doc] \ sess[s].seen IN
  /\ Working(s, "edit", "editing")
  /\ \E c \in Contents \ left : rows' = [rows EXCEPT ![sess[s].doc] = left \cup {c}]
  /\ NoteIf(s, StatusStale(s) \/ RowsStale(s) \/ TotalStale(s))
  /\ Finish(s)
  /\ UNCHANGED <<status, total, moves, lock, shared>>

\* Only the rows that were read are deleted.
EditCommit(s) ==
  LET d == sess[s].doc
      left == rows[d] \ sess[s].seen
  IN
  /\ Working(s, "edit", "editing")
  /\ \E new \in {{}} \cup {{c} : c \in Contents \ left} :
       /\ rows' = [rows EXCEPT ![d] = left \cup new]
       /\ StoreTotal(s, new)
  /\ NoteIf(s, StatusStale(s) \/ RowsStale(s) \/ TotalStale(s))
  /\ Finish(s)
  /\ UNCHANGED <<status, moves, lock, shared>>

-----------------------------------------------------------------------------
\* post_document: lock the document, re-read its status.

PostRefuse(s) ==
  /\ Working(s, "post", "loaded")
  /\ lock[sess[s].doc] = NoSession
  /\ status[sess[s].doc] \in {"posted", "deleted"}
  /\ Finish(s)
  /\ UNCHANGED <<status, rows, total, moves, lock, shared, stale>>

\* Mutant: a posted document passes the check of the status.
PostLockPosted(s) ==
  /\ Working(s, "post", "loaded")
  /\ status[sess[s].doc] # "deleted"
  /\ Acquire(s)
  /\ Goto(s, "locked")
  /\ UNCHANGED <<status, rows, total, moves, shared, stale>>

PostLock(s) ==
  /\ Working(s, "post", "loaded")
  /\ status[sess[s].doc] \notin {"posted", "deleted"}
  /\ Acquire(s)
  /\ Goto(s, "locked")
  /\ UNCHANGED <<status, rows, total, moves, shared, stale>>

\* The rows are read and the movements of the registers prepared.
PostApply(s) ==
  /\ Working(s, "post", "locked")
  /\ rows[sess[s].doc] # {}
  /\ sess' = [sess EXCEPT ![s].pc = "posting", ![s].seen = rows[sess[s].doc]]
  /\ UNCHANGED <<status, rows, total, moves, lock, shared, stale>>

PostCommit(s) ==
  /\ Working(s, "post", "posting")
  /\ moves' = [moves EXCEPT ![sess[s].doc] = Append(@, sess[s].seen)]
  /\ StoreStatus(s, "posted")
  /\ NoteIf(s, StatusStale(s) \/ RowsStale(s))
  /\ Release(s)
  /\ Finish(s)
  /\ UNCHANGED <<rows, total, shared>>

\* Mutant: the error path leaves the lock taken (a session-level lock).
PostFailKeepsLock(s) ==
  /\ Working(s, "post", "locked") \/ Working(s, "post", "posting")
  /\ Finish(s)
  /\ UNCHANGED <<status, rows, total, moves, lock, shared, stale>>

\* No rows, not enough stock, no warehouse: rollback.
PostFail(s) ==
  /\ Working(s, "post", "locked") \/ Working(s, "post", "posting")
  /\ Release(s)
  /\ Finish(s)
  /\ UNCHANGED <<status, rows, total, moves, shared, stale>>

-----------------------------------------------------------------------------
\* unpost_document, called by its own request and by mark_for_deletion when
\* the document in memory is posted.

Unposts(s) ==
  \/ Working(s, "unpost", "loaded")
  \/ Working(s, "delete", "loaded") /\ sess[s].mem = "posted"

\* The early return.
UnpostSkip(s) ==
  /\ Working(s, "unpost", "loaded")
  /\ status[sess[s].doc] # "posted"
  /\ lock[sess[s].doc] = NoSession
  /\ Finish(s)
  /\ UNCHANGED <<status, rows, total, moves, lock, shared, stale>>

\* The same, in a deletion: it goes on in the same transaction, lock held.
DeleteSkip(s) ==
  /\ Working(s, "delete", "loaded")
  /\ sess[s].mem = "posted"
  /\ status[sess[s].doc] # "posted"
  /\ Acquire(s)
  /\ Goto(s, "deleting")
  /\ UNCHANGED <<status, rows, total, moves, shared, stale>>

UnpostLock(s) ==
  /\ Unposts(s)
  /\ status[sess[s].doc] = "posted"
  /\ Acquire(s)
  /\ Goto(s, "unposting")
  /\ UNCHANGED <<status, rows, total, moves, shared, stale>>

\* All movements of the document are deleted and the batches restored.
Unregister(s) ==
  /\ sess[s].pc = "unposting"
  /\ moves' = [moves EXCEPT ![sess[s].doc] = <<>>]
  /\ StoreStatus(s, "draft")
  /\ NoteIf(s, StatusStale(s))
  /\ Release(s)
  /\ UNCHANGED <<rows, total, shared>>

UnpostCommit(s) ==
  /\ sess[s].op # "delete"
  /\ Unregister(s)
  /\ Finish(s)

\* Mutant: the status is written past the object in memory.
DeleteUnpostBehindSession(s) ==
  /\ sess[s].op = "delete"
  /\ Unregister(s)
  /\ Goto(s, "deleting")

DeleteUnpost(s) ==
  /\ sess[s].op = "delete"
  /\ Unregister(s)
  /\ sess' = [sess EXCEPT ![s].pc = "deleting", ![s].mem = "draft"]

\* "Cannot unpost: stock was already consumed by later documents": rollback.
UnpostFail(s) ==
  /\ sess[s].pc = "unposting"
  /\ Release(s)
  /\ Finish(s)
  /\ UNCHANGED <<status, rows, total, moves, shared, stale>>

-----------------------------------------------------------------------------
\* mark_for_deletion: the document in memory is not, or no longer, posted.
DeleteCommit(s) ==
  /\ \/ Working(s, "delete", "loaded") /\ sess[s].mem # "posted"
     \/ Working(s, "delete", "deleting")
  /\ StoreStatus(s, MarkedDeleted)
  /\ NoteIf(s, StatusStale(s))
  /\ Release(s)
  /\ Finish(s)
  /\ UNCHANGED <<rows, total, moves, shared>>

\* The process stops, or the connection is lost: the transaction is undone.
Crash(s) ==
  /\ sess[s].pc # "idle"
  /\ Release(s)
  /\ Finish(s)
  /\ UNCHANGED <<status, rows, total, moves, shared, stale>>

-----------------------------------------------------------------------------
WaitsForLock(s) ==
  \/ PostRefuse(s) \/ PostLock(s)
  \/ UnpostSkip(s) \/ DeleteSkip(s) \/ UnpostLock(s)

RunsOn(s) ==
  \/ EditRefuse(s) \/ EditRead(s) \/ EditCommit(s)
  \/ PostApply(s) \/ PostCommit(s) \/ PostFail(s)
  \/ UnpostCommit(s) \/ DeleteUnpost(s) \/ UnpostFail(s)
  \/ DeleteCommit(s)

Next ==
  \/ \E d \in Docs : CreateDocument(d)
  \/ \E s \in Sessions :
       \/ \E op \in Ops, d \in Docs : LoadDocument(s, op, d)
       \/ WaitsForLock(s)
       \/ RunsOn(s)
       \/ Crash(s)

Spec == Init /\ [][Next]_vars

\* The event loop resumes every handler; PostgreSQL serves the waiters of an
\* advisory lock in turn.
Fairness ==
  \A s \in Sessions : WF_vars(RunsOn(s)) /\ SF_vars(WaitsForLock(s))

FairSpec == Spec /\ Fairness

-----------------------------------------------------------------------------
\* Working on d: the sessions whose request is about it.
Active(d) == {s \in Sessions : sess[s].doc = d}

Posting(s) == sess[s].op = "post" /\ sess[s].pc \in {"locked", "posting"}
Unposting(s) == sess[s].pc = "unposting"

(***************************************************************************)
(* Properties                                                              *)
(***************************************************************************)

\* The registers hold the movements of the document's rows, once, when the
\* document is posted, and none when it is not, however the requests
\* interleave and wherever they crash, unless a request has written the
\* document from what it had read before another changed it (post_document,
\* unpost_document, update_document_items and mark_for_deletion compare
\* nothing when they commit).
RegistersMatchDocument ==
  \A d \in Docs \ stale :
    moves[d] = IF status[d] = "posted" THEN <<rows[d]>> ELSE <<>>

\* documents.total is that of the rows, under the same condition: it fails
\* when two edits each keep the other's rows.
TotalMatchesRows ==
  \A d \in Docs \ stale : total[d] = rows[d]

\* Only overlapping requests on one document make a commit stale: requests
\* one after the other, crashes included, keep every document consistent.
StaleOnlyIfShared == stale \subseteq shared

\* "Сериализуем проведение документа": between the re-read of the status
\* and the commit one session alone works on the registers of a document; a
\* posting runs while the database says "not posted".
OneRegistrarPerDocument ==
  /\ \A s, t \in Sessions :
       /\ Posting(s) \/ Unposting(s)
       /\ Posting(t) \/ Unposting(t)
       /\ sess[s].doc = sess[t].doc
       => s = t
  /\ \A s \in Sessions :
       Posting(s) => lock[sess[s].doc] = s /\ status[sess[s].doc] # "posted"

\* "Cannot post a document marked for deletion": no request brings a
\* deleted document back, unless its commit is stale.
DeletedIsFinal ==
  [][\A d \in Docs \ stale' : status[d] = "deleted" => status'[d] = "deleted"]_vars

\* Every request ends: no handler waits for ever for the lock of a document.
RequestsFinish ==
  \A s \in Sessions : [](sess[s].pc # "idle" => <>(sess[s].pc = "idle"))

-----------------------------------------------------------------------------
(***************************************************************************)
(* What the source says of concurrent requests, without the condition.     *)
(***************************************************************************)

\* app/web/trade.py:1655: the rows of a posted document are not edited
\* ("иначе рассинхрон остатков"): the movements are those of its rows.
PostedRowsMatchMovements ==
  \A d \in Docs : status[d] = "posted" => moves[d] = <<rows[d]>>

=============================================================================
