--------------------------- MODULE AtomicDocument ---------------------------
(***************************************************************************)
(* What the document service promises: a document is a draft, posted or    *)
(* marked for deletion, and every request that changes it does so in one   *)
(* step, the rows, the total and the movements with it.  Nothing is said   *)
(* any more of a document that a request wrote from what it had read       *)
(* before another changed it.                                              *)
(***************************************************************************)
EXTENDS Sequences

CONSTANTS Docs, Contents

VARIABLE book  \* every document

Absent == [status |-> "absent", rows |-> {}, total |-> {}, registers |-> <<>>]
Torn == [status |-> "torn", rows |-> {}, total |-> {}, registers |-> <<>>]

Init == book = [d \in Docs |-> Absent]

Become(d, new) == book' = [book EXCEPT ![d] = new]
Is(d, states) == book[d].status \in states

Create(d) ==
  /\ Is(d, {"absent"})
  /\ \E rows \in SUBSET Contents :
       Become(d, [status |-> "draft", rows |-> rows, total |-> rows, registers |-> <<>>])

\* Only a document that is not posted is edited, and its total follows.
Edit(d) ==
  /\ Is(d, {"draft", "deleted"})
  /\ \E rows \in SUBSET Contents : Become(d, [book[d] EXCEPT !.rows = rows, !.total = rows])

\* Only a draft with rows is posted: the registers hold its rows, once.
Post(d) ==
  /\ Is(d, {"draft"}) /\ book[d].rows # {}
  /\ Become(d, [book[d] EXCEPT !.status = "posted", !.registers = <<book[d].rows>>])

Unpost(d) ==
  /\ Is(d, {"posted"})
  /\ Become(d, [book[d] EXCEPT !.status = "draft", !.registers = <<>>])

\* A posted document is marked once its posting has been cancelled; the mark
\* is never taken away.
Delete(d) ==
  /\ Is(d, {"draft"})
  /\ Become(d, [book[d] EXCEPT !.status = "deleted"])

Tear(d) == ~ Is(d, {"absent"}) /\ Become(d, Torn)

Next == \E d \in Docs : Create(d) \/ Edit(d) \/ Post(d) \/ Unpost(d) \/ Delete(d) \/ Tear(d)

Spec == Init /\ [][Next]_book

=============================================================================
