------------------------- MODULE DocumentRefinement -------------------------
(***************************************************************************)
(* DocumentLifecycle implements AtomicDocument: between the statements of  *)
(* concurrent requests a document only ever shows the states of the        *)
(* abstract one.                                                           *)
(***************************************************************************)
EXTENDS DocumentLifecycle

Shown(d) ==
  IF d \in stale
  THEN [status |-> "torn", rows |-> {}, total |-> {}, registers |-> <<>>]
  ELSE [status |-> status[d], rows |-> rows[d], total |-> total[d], registers |-> moves[d]]

Abstract == INSTANCE AtomicDocument WITH book <- [d \in Docs |-> Shown(d)]

\* post_document, unpost_document, update_document_items and
\* mark_for_deletion, interleaved statement by statement, crashes included,
\* have for every document the effect of whole requests one after the other,
\* until one of them writes what rests on something changed since it was read.
ImplementsDocument == Abstract!Spec

=============================================================================
